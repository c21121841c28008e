--------------------------------- MODULE Mvcc ---------------------------------
(***************************************************************************)
(* The multi-version store of universe/db/mvcc.lp.  Every key has a chain  *)
(* of versions, newest first; a transaction reads the newest version its   *)
(* snapshot admits and writes by prepending a version to the chain.        *)
(*                                                                         *)
(* Transactions are interleaved calls on one engine, so each call is one   *)
(* atomic action.  A chain is the sequence of the version nodes reached    *)
(* from heads[k] through v[5]; the runtime's get(0, i) is 0 and            *)
(* list_set(0, ...) does nothing, so a head of 0 is the empty sequence.    *)
(***************************************************************************)
EXTENDS Integers, Sequences, FiniteSets

CONSTANTS
    Key,        \* keys clients use
    Val,        \* values clients write
    NotFound,   \* what mvcc_get returns for an absent or deleted key
    MaxTx,      \* bound: the largest transaction id handed out
    MaxWrites   \* bound: writes of one transaction to one key

FirstTx == 100
TxId == FirstTx .. MaxTx

ASSUME NotFoundAssumption == NotFound \notin Val
ASSUME BoundsAssumption == MaxTx \in Nat /\ MaxTx >= FirstTx /\ MaxWrites \in Nat

VARIABLES
    nextTx,     \* engine[0]
    active,     \* engine[1], in no particular order
    committed,  \* engine[2]
    aborted,    \* engine[3]
    keys,       \* engine[4]: the keys that ever got a version
    chain,      \* engine[5]: per key, its versions from the head on
    tx          \* the transaction records handed to the clients

vars == <<nextTx, active, committed, aborted, keys, chain, tx>>

TxState == {"UNUSED", "ACTIVE", "COMMITTED", "ABORTED"}

\* A tombstone holds the value NotFound (is_deleted = 1), a live version one
\* of Val.  expired = 0 says that no transaction has superseded the version.
Version == [created : TxId, expired : TxId \cup {0}, value : Val \cup {NotFound}]

\* frozen is active_snapshots; snapshot_tx_id is the transaction's own id;
\* writes counts how often each key was appended to write_set.
Transaction == [state : TxState, frozen : SUBSET TxId, writes : [Key -> Nat]]

NoWrites == [k \in Key |-> 0]

Init ==
    /\ nextTx = FirstTx
    /\ active = {}
    /\ committed = {}
    /\ aborted = {}
    /\ keys = {}
    /\ chain = [k \in Key |-> << >>]
    /\ tx = [t \in TxId |-> [state |-> "UNUSED", frozen |-> {}, writes |-> NoWrites]]

-------------------------------------------------------------------------------
\* Reading

\* Mutant of Visible: the creator is not looked up in the frozen snapshot.
VisibleUnfrozen(t, v) ==
    IF v.created = t
    THEN v.expired # t
    ELSE /\ v.created < t
         /\ v.created \notin aborted
         /\ v.expired = 0 \/ v.expired > t \/ (v.expired # t /\ v.expired \in tx[t].frozen)

\* Mutant of Visible: an expired version of another transaction is never seen.
VisibleUnexpired(t, v) ==
    IF v.created = t
    THEN v.expired # t
    ELSE /\ v.created < t
         /\ v.created \notin tx[t].frozen
         /\ v.created \notin aborted
         /\ v.expired = 0

\* mvcc_get's test of one version.
Visible(t, v) ==
    IF v.created = t
    THEN v.expired # t
    ELSE /\ v.created < t
         /\ v.created \notin tx[t].frozen
         /\ v.created \notin aborted
         /\ \/ v.expired = 0
            \/ v.expired > t
            \/ v.expired # t /\ v.expired \in tx[t].frozen

\* The value of the newest version of the chain c that satisfies P, if any.
Newest(c, P(_)) ==
    LET hits == {i \in DOMAIN c : P(c[i])}
    IN  IF hits = {} THEN NotFound
        ELSE c[CHOOSE i \in hits : \A j \in hits : i <= j].value

\* mvcc_get: changes nothing, so it is an expression and not an action.
Get(t, k) == Newest(chain[k], LAMBDA v : Visible(t, v))

-------------------------------------------------------------------------------
\* Writing

\* Mutant of Conflict: only a running writer is looked for.
ConflictRunning(t, k) ==
    /\ chain[k] # << >>
    /\ LET head == chain[k][1]
       IN  /\ head.created # t
           /\ \/ head.created \in active
              \/ head.expired \notin {0, t} /\ head.expired \in active

\* mvcc_put and mvcc_delete answer -1 and change nothing.
Conflict(t, k) ==
    /\ chain[k] # << >>
    /\ LET head == chain[k][1]
       IN  /\ head.created # t
           /\ \/ head.created >= t
              \/ head.created \in active
              \/ head.expired \notin {0, t} /\ head.expired \in active

\* The old head, if there is one, is expired by t and a new version goes on top.
Prepend(t, x, c) ==
    <<[created |-> t, expired |-> 0, value |-> x]>>
        \o [i \in DOMAIN c |-> IF i = 1 THEN [c[1] EXCEPT !.expired = t] ELSE c[i]]

Write(t, k, x) ==
    /\ tx[t].state = "ACTIVE"
    /\ tx[t].writes[k] < MaxWrites
    /\ ~Conflict(t, k)
    /\ chain' = [chain EXCEPT ![k] = Prepend(t, x, @)]
    /\ keys' = keys \cup {k}
    /\ tx' = [tx EXCEPT ![t].writes[k] = @ + 1]
    /\ UNCHANGED <<nextTx, active, committed, aborted>>

Put(t, k, x) == x \in Val /\ Write(t, k, x)

\* Deleting a key that never had a version returns 0.
Delete(t, k) == k \in keys /\ Write(t, k, NotFound)

-------------------------------------------------------------------------------
\* Transactions

Begin ==
    /\ nextTx <= MaxTx
    /\ nextTx' = nextTx + 1
    /\ active' = active \cup {nextTx}
    /\ tx' = [tx EXCEPT ![nextTx] =
                [state |-> "ACTIVE", frozen |-> active, writes |-> NoWrites]]
    /\ UNCHANGED <<committed, aborted, keys, chain>>

Commit(t) ==
    /\ tx[t].state = "ACTIVE"
    /\ tx' = [tx EXCEPT ![t].state = "COMMITTED"]
    /\ active' = active \ {t}
    /\ committed' = committed \cup {t}
    /\ UNCHANGED <<nextTx, aborted, keys, chain>>

\* Mutant of Unexpire: the version below an unlinked head stays expired.
UnexpireNothing(v, t) == v

Unexpire(v, t) == IF v.expired = t THEN [v EXCEPT !.expired = 0] ELSE v

\* How many versions of t lie on top of the chain c.
OwnPrefix(t, c) ==
    CHOOSE n \in 0 .. Len(c) :
        /\ \A i \in 1 .. n : c[i].created = t
        /\ n = Len(c) \/ c[n + 1].created # t

\* What the n rounds of the rollback loop for one key leave of its chain: each
\* round unlinks a head created by t and revives the version below it; a round
\* that meets another head revives every version that t expired.
Unlink(t, n, c) ==
    LET own  == OwnPrefix(t, c)
        drop == IF n <= own THEN n ELSE own
    IN  [i \in 1 .. Len(c) - drop |->
            IF n > own \/ (drop > 0 /\ i = 1)
            THEN Unexpire(c[i + drop], t)
            ELSE c[i + drop]]

Rollback(t) ==
    /\ tx[t].state = "ACTIVE"
    /\ tx' = [tx EXCEPT ![t].state = "ABORTED"]
    /\ chain' = [k \in Key |-> Unlink(t, tx[t].writes[k], chain[k])]
    /\ active' = active \ {t}
    /\ aborted' = aborted \cup {t}
    /\ UNCHANGED <<nextTx, committed, keys>>

-------------------------------------------------------------------------------
\* Vacuum

Prunable(v, m) == v.expired > 0 /\ v.expired < m

\* The chain is cut above its first prunable version that is not the head.
Cut(c, m) ==
    LET old == {i \in 2 .. Len(c) : Prunable(c[i], m)}
    IN  IF old = {} THEN c
        ELSE [i \in 1 .. (CHOOSE i \in old : \A j \in old : i <= j) - 1 |-> c[i]]

Vacuum(m) ==
    /\ chain' = [k \in Key |-> Cut(chain[k], m)]
    /\ UNCHANGED <<nextTx, active, committed, aborted, keys, tx>>

\* min_active_tx is the caller's; by the function's comment no transaction that is
\* active is older.  What an active one has frozen may well be.
Horizons == {m \in FirstTx .. MaxTx + 1 : m <= nextTx /\ \A t \in active : m <= t}

Next ==
    \/ Begin
    \/ \E t \in TxId, k \in Key, x \in Val : Put(t, k, x)
    \/ \E t \in TxId, k \in Key : Delete(t, k)
    \/ \E t \in TxId : Commit(t)
    \/ \E t \in TxId : Rollback(t)
    \/ \E m \in Horizons : Vacuum(m)

Spec == Init /\ [][Next]_vars

-------------------------------------------------------------------------------
\* Properties

TypeOK ==
    /\ nextTx \in FirstTx .. MaxTx + 1
    /\ active \subseteq TxId
    /\ committed \subseteq TxId
    /\ aborted \subseteq TxId
    /\ keys \subseteq Key
    /\ chain \in [Key -> Seq(Version)]
    /\ tx \in [TxId -> Transaction]

\* The three lists of the engine and the state in the transaction records tell
\* the same story, and a snapshot only froze transactions that began earlier
\* (mvcc_begin, mvcc_commit and mvcc_rollback keep the two copies by hand).
ListsAgree ==
    /\ active = {t \in TxId : tx[t].state = "ACTIVE"}
    /\ committed = {t \in TxId : tx[t].state = "COMMITTED"}
    /\ aborted = {t \in TxId : tx[t].state = "ABORTED"}
    /\ \A t \in TxId : tx[t].state = "UNUSED" <=> t >= nextTx
    /\ \A t \in TxId : \A u \in tx[t].frozen : u < t /\ u < nextTx

\* A chain is ordered by creator and linked by expiry: a version was expired by
\* the creator of the version above it and the head by nobody, whatever mix of
\* commits, rollbacks and vacuums built the chain (key invariants 2 and 3).
ChainLinked ==
    \A k \in Key : \A i \in DOMAIN chain[k] :
        /\ i = 1 => chain[k][i].expired = 0
        /\ i > 1 => /\ chain[k][i].expired = chain[k][i - 1].created
                    /\ chain[k][i].created <= chain[k][i - 1].created

\* At most one running transaction has versions in a chain and they are on top,
\* as many as its write set says: rollback pops exactly what was pushed.
OneWriterOnTop ==
    \A k \in Key : \A t \in active :
        /\ tx[t].writes[k] <= Len(chain[k])
        /\ \A i \in DOMAIN chain[k] : chain[k][i].created = t <=> i <= tx[t].writes[k]

\* Nothing an aborted transaction did is left in a chain, neither a version nor
\* an expiry mark (key invariant 5, "Instant Rollback").
AbortedUnlinked ==
    \A k \in Key : \A i \in DOMAIN chain[k] :
        chain[k][i].created \notin aborted /\ chain[k][i].expired \notin aborted

\* The version store between two calls: the lists and the chains as above, the
\* whole of what the calls rely on and leave behind.
VersionsSound == ListsAgree /\ ChainLinked /\ OneWriterOnTop /\ AbortedUnlinked

\* The value of key k in the snapshot of t: the newest version whose creator had
\* committed when t began.
SnapshotValue(t, k) ==
    Newest(chain[k], LAMBDA v : v.created \in committed /\ v.created < t
                                  /\ v.created \notin tx[t].frozen)

\* mvcc_get answers the transaction's own last write and otherwise the value in
\* its snapshot, although it only looks at ids and expiry marks that other
\* transactions keep changing.
GetReadsSnapshot ==
    \A t \in active, k \in Key :
        Get(t, k) = IF tx[t].writes[k] > 0 THEN chain[k][1].value ELSE SnapshotValue(t, k)

\* A vacuum whose horizon passes a transaction that t has frozen, and that has
\* committed a write of k since.
VacuumTakes(t, k) ==
    \E m \in Horizons, u \in tx[t].frozen \cap committed :
        u < m /\ tx[u].writes[k] > 0 /\ Vacuum(m)

\* What a running transaction reads changes only when it writes itself, whatever
\* the others write, commit and roll back (mvcc_get, "Lock-Free Reads").  The one
\* exception is mvcc_vacuum: with the horizon its comment names it may take away
\* a version the snapshot still needs (mvcc.lp:352), and then the key is missing;
\* another value is never read.
RepeatableRead ==
    [][\A t \in active \cap active', k \in Key :
           tx'[t].writes[k] = tx[t].writes[k] =>
               \/ Get(t, k)' = Get(t, k)
               \/ /\ Get(t, k)' = NotFound
                  /\ tx[t].writes[k] = 0 /\ VacuumTakes(t, k)]_vars

\* Key invariant 4, which the code does not keep: of two transactions that
\* overlapped in time and wrote the same key, only the first to commit succeeds.
FirstCommitterWins ==
    \A t, u \in committed, k \in Key :
        tx[t].writes[k] > 0 /\ tx[u].writes[k] > 0 => t \notin tx[u].frozen

-------------------------------------------------------------------------------
\* Refinement

\* The newest committed version of each key is the abstract store; what a running
\* transaction read off the chains when it began and what it wrote since are its
\* snapshot and its buffer.
Committed(k) == Newest(chain[k], LAMBDA v : v.created \in committed)
Own(t, k) == Newest(chain[k], LAMBDA v : v.created = t)

Store == [k \in Key |-> Committed(k)]
Status == [t \in TxId |-> CASE tx[t].state = "UNUSED" -> "idle"
                            [] tx[t].state = "ACTIVE" -> "running"
                            [] OTHER -> "finished"]
Snapshots == [t \in TxId |-> [k \in Key |->
                IF t \in active THEN SnapshotValue(t, k) ELSE NotFound]]
Buffers == [t \in TxId |-> [k \in Key |->
                IF t \in active /\ tx[t].writes[k] > 0 THEN Own(t, k) ELSE <<"unwritten">>]]

Overlaps == [t \in TxId |-> tx[t].frozen]
Published == [k \in Key |-> {u \in committed : tx[u].writes[k] > 0}]

SS == INSTANCE SnapshotStore WITH
        Tx <- TxId, store <- Store, status <- Status, snapshot <- Snapshots,
        buffer <- Buffers, overlap <- Overlaps, published <- Published

\* Every behaviour of the version chains is one of a store that copies at begin
\* and publishes at commit, with the half of first-committer-wins that mvcc_put
\* and mvcc_delete test, and with the vacuums that reach into a snapshot.  It is
\* not the snapshot isolation of mvcc.lp:9: lost updates are among its behaviours.
ImplementsSnapshotStore == SS!Spec
===============================================================================
