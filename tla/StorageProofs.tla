----------------------------- MODULE StorageProofs -----------------------------
(***************************************************************************)
(* Proofs about DbEngine: whatever the number of keys, transactions and    *)
(* log records, and wherever the process stops or the power fails, clients *)
(* read what a recovery would restore, and the engine is a store of atomic *)
(* and durable calls.  The log and a position in it stand for what a       *)
(* recovery would read: ReplayedIn(log, n) are the records it applies when *)
(* n records survive.                                                      *)
(*                                                                         *)
(* And about BufferPool: whatever its capacity and the number of pages and *)
(* clients, the list, the page table and the free stack stay one           *)
(* consistent structure, no page is evicted under its holder and no write  *)
(* is lost.  The list of used frames stands for a sequence: Lists(l, s)    *)
(* says that the links of l run through the frames of s.                   *)
(***************************************************************************)
EXTENDS DbEngine, BufferPool, FiniteSetTheorems, SequenceTheorems, WellFoundedInduction,
        NaturalsInduction, TLAPS

Cut == "power_cut" \in faults

-------------------------------------------------------------------------------
\* The inductive invariant

CommittedIn(l, n) == {l[i].tx : i \in {j \in 1 .. n : l[j].type = "commit"}}
ReplayedIn(l, n) == {i \in 1 .. n : l[i].type = "write" /\ l[i].tx \in CommittedIn(l, n)}

\* How many records of the log the worst fault leaves, and on which pages.
Surviving == IF Cut THEN synced ELSE Len(log)
Base == IF Cut THEN page ELSE file

\* No record of I in the log l is about k.
Unhit(l, k, I) == \A i \in I : l[i].key # k

Committing == pc \in {"append", "sync", "apply"}

\* Where the records of the call begin, and how many of its writes are logged.
Before == IF pc = "append" THEN Len(log) - pos + 1 ELSE Len(log) - Len(call.ops) - 1
Logged == IF pc = "append" THEN pos - 1 ELSE Len(call.ops)

LoggedWrite(j) == [type |-> "write", tx |-> call.tx,
                   key |-> call.ops[j].key, val |-> call.ops[j].val]

\* What is open when, and what a call in progress is.
Phases ==
    /\ pc \in {"down", "redo"} => ~isOpen
    /\ ~isOpen => pc \in {"down", "redo", "idle"}
    /\ pc \in {"down", "redo", "idle", "close"} => call = NoCall
    /\ Committing => call.tx \in TxId /\ call.tx < nextTx /\ call.ops # << >>
    /\ call # NoCall => call.ops # << >>
    /\ pc \in {"append", "apply"} => pos <= Len(call.ops) + 1
    /\ pc = "redo" => pos <= Len(log) + 1 /\ tx = NoTx
    /\ pc = "truncate" => page = mem /\ file = mem
    /\ pc \in {"mark", "marksync"} => page = mem /\ file = mem
    /\ pc = "mark" => log = << >>
    /\ pc = "marksync" => log = <<Mark("checkpoint", 0)>>

Clean == \A i \in DOMAIN log : log[i] # Torn

\* Ids are not reused while the log holds their records: a recovered engine
\* goes on above them, and an active transaction has none before its commit.
IdsFresh ==
    isOpen =>
        /\ \A i \in DOMAIN log : log[i].tx < nextTx
        /\ \A t \in TxId : tx[t].state = "ACTIVE" =>
               /\ t < nextTx
               /\ \A i \in DOMAIN log : log[i].tx = t => Committing /\ call.tx = t
        /\ Committing => IF call.auto THEN tx[call.tx].state # "ACTIVE"
                         ELSE tx[call.tx].state = "ACTIVE" /\ tx[call.tx].ops = call.ops

\* The records of the call in progress are the end of the log.
CallAtEnd ==
    Committing =>
        /\ Before >= 0
        /\ \A i \in 1 .. Before : log[i].tx # call.tx
        /\ \A j \in 1 .. Logged : log[Before + j] = LoggedWrite(j)
        /\ pc # "append" => log[Len(log)] = Mark("commit", call.tx)

\* What may be lost by a power cut is the call in progress.
Stable ==
    Cut => /\ pc \notin {"append", "sync", "mark", "marksync"} => synced = Len(log)
           /\ pc \in {"append", "sync"} => synced >= Before

\* The replayed records whose writes the tree already has: a commit applies its
\* own last, a recovery applies them one by one.
Reach == IF pc = "redo" THEN pos
         ELSE IF pc = "sync" THEN Before + 1
         ELSE IF pc = "apply" THEN Before + pos
         ELSE Len(log) + 1
Reached(l, r) == {i \in ReplayedIn(l, Len(l)) : i < r}

\* The tree is the file with these writes.
MemoryAgrees == isOpen \/ pc = "redo" => mem = After(file, log, Reached(log, Reach))

\* A page that recovery will not write is on stable storage what it is in the
\* operating system.
PagesAgree == Cut => \A k \in Key : Unhit(log, k, ReplayedIn(log, synced)) => page[k] = file[k]

IInv == /\ TypeOK /\ Phases /\ Clean /\ IdsFresh /\ CallAtEnd /\ Stable
        /\ MemoryAgrees /\ PagesAgree
-------------------------------------------------------------------------------
\* Numbers and sequences

LEMMA LeastElement ==
    ASSUME NEW S \in SUBSET Nat, S # {}
    PROVE  \E i \in S : \A j \in S : i <= j
<1> DEFINE R == {ss \in Nat \X Nat : ss[1] < ss[2]}
<1>1. IsWellFoundedOn(R, Nat)
  BY NatLessThanWellFounded DEF OpToRel
<1>2. PICK i \in S : \A j \in S : ~ (<<j, i>> \in R)
  BY <1>1, WFMin, Zenon
<1>3. ASSUME NEW j \in S PROVE i <= j
  <2>1. i \in Nat /\ j \in Nat
    OBVIOUS
  <2>2. j < i => <<j, i>> \in R
    BY <2>1
  <2> QED BY <1>2, <2>1, <2>2
<1> QED BY <1>3

LEMMA GreatestIs ==
    ASSUME NEW S \in SUBSET Int, NEW i \in S, \A j \in S : j <= i
    PROVE  Greatest(S) = i
<1>1. \A k \in S : (\A j \in S : j <= k) => k = i
  OBVIOUS
<1> QED BY <1>1 DEF Greatest

LEMMA GreatestExists ==
    ASSUME NEW n \in Nat, NEW S \in SUBSET (0 .. n), S # {}
    PROVE  Greatest(S) \in S /\ \A j \in S : j <= Greatest(S)
<1> DEFINE T == {m \in Nat : m <= n /\ n - m \in S}
<1>1. T \in SUBSET Nat /\ T # {}
  <2>1. PICK s \in S : TRUE
    OBVIOUS
  <2>2. n - s \in Nat /\ n - s <= n /\ n - (n - s) = s
    OBVIOUS
  <2>3. n - s \in T
    BY <2>2
  <2> QED BY <2>3
<1>2. PICK m \in T : \A j \in T : m <= j
  <2> HIDE DEF T
  <2> QED BY <1>1, LeastElement
<1>3. ASSUME NEW j \in S PROVE j <= n - m
  <2>1. n - j \in T /\ j \in 0 .. n
    OBVIOUS
  <2>2. m <= n - j /\ m \in Nat
    BY <1>2, <2>1
  <2> QED BY <2>1, <2>2
<1>4. n - m \in S /\ S \in SUBSET Int
  OBVIOUS
<1>5. Greatest(S) = n - m
  <2> HIDE DEF T
  <2> QED BY <1>3, <1>4, GreatestIs
<1> QED BY <1>3, <1>4, <1>5

LEMMA LogIs ==
    ASSUME NEW l \in Seq(Record)
    PROVE  /\ Len(l) \in Nat /\ DOMAIN l = 1 .. Len(l)
           /\ \A i \in 1 .. Len(l) : l[i] \in Record
BY LenProperties, ElementOfSeq

LEMMA RecordIs ==
    ASSUME NEW r \in Record
    PROVE  /\ r.type \in {"write", "commit", "checkpoint", "torn"}
           /\ r.tx \in TxId \cup {0}
           /\ r.type = "write" => r.tx \in TxId /\ r.key \in Key /\ r.val \in Val \cup {NoVal}
           /\ r.type = "commit" => r.tx \in TxId
           /\ r.type = "torn" => r = Torn
BY DEF Record, Write, Mark, Torn

LEMMA MarksAre ==
    /\ Mark("checkpoint", 0) \in Record /\ Mark("checkpoint", 0).type = "checkpoint"
    /\ Torn \in Record /\ Torn.type = "torn"
    /\ Mark("checkpoint", 0).tx = 0
    /\ \A t \in TxId : /\ Mark("commit", t) \in Record
                       /\ Mark("commit", t).type = "commit" /\ Mark("commit", t).tx = t
BY DEF Record, Write, Mark, Torn

LEMMA Appended ==
    ASSUME NEW l \in Seq(Record), NEW r \in Record
    PROVE  /\ Append(l, r) \in Seq(Record)
           /\ Len(Append(l, r)) = Len(l) + 1
           /\ DOMAIN Append(l, r) = 1 .. Len(l) + 1
           /\ \A i \in 1 .. Len(l) : Append(l, r)[i] = l[i]
           /\ Append(l, r)[Len(l) + 1] = r
BY AppendProperties, LenProperties

LEMMA CutOff ==
    ASSUME NEW l \in Seq(Record), NEW n \in 0 .. Len(l)
    PROVE  /\ SubSeq(l, 1, n) \in Seq(Record)
           /\ Len(SubSeq(l, 1, n)) = n
           /\ DOMAIN SubSeq(l, 1, n) = 1 .. n
           /\ \A i \in 1 .. n : SubSeq(l, 1, n)[i] = l[i]
<1>1. Len(l) \in Nat /\ \A i \in 1 .. n : l[i] \in Record
  BY LogIs
<1>2. /\ SubSeq(l, 1, n) \in Seq(Record)
      /\ Len(SubSeq(l, 1, n)) = n
      /\ \A i \in 1 .. n : SubSeq(l, 1, n)[i] = l[i]
  BY <1>1, SubSeqProperties
<1> QED BY <1>2, LenProperties

\* A recovery reads the log up to its first torn record.
LEMMA ReadableIs ==
    ASSUME NEW l \in Seq(Record)
    PROVE  \E n \in 0 .. Len(l) :
               /\ Readable(l) \in Seq(Record) /\ Len(Readable(l)) = n
               /\ DOMAIN Readable(l) = 1 .. n
               /\ \A i \in 1 .. n : Readable(l)[i] = l[i] /\ l[i] # Torn
               /\ (\A i \in DOMAIN l : l[i] # Torn) => n = Len(l) /\ Readable(l) = l
<1> DEFINE bad == {i \in DOMAIN l : l[i] = Torn}
<1>1. Len(l) \in Nat /\ DOMAIN l = 1 .. Len(l)
  BY LogIs, SMTT(30)
<1>2. CASE bad = {}
  <2>1. Readable(l) = l /\ \A i \in 1 .. Len(l) : l[i] # Torn
    BY <1>1, <1>2 DEF Readable
  <2>2. Len(l) \in 0 .. Len(l)
    BY <1>1
  <2> QED BY <1>1, <2>1, <2>2
<1>3. CASE bad # {}
  <2> DEFINE first == CHOOSE i \in bad : \A j \in bad : i <= j
  <2>1. bad \in SUBSET Nat
    BY <1>1
  <2>2. first \in bad /\ \A j \in bad : first <= j
    <3> HIDE DEF bad
    <3> QED BY <1>3, <2>1, LeastElement
  <2>3. first \in 1 .. Len(l) /\ l[first] = Torn
    BY <1>1, <2>2
  <2>4. \A i \in 1 .. first - 1 : l[i] # Torn
    BY <1>1, <2>2, <2>3
  <2>5. Readable(l) = SubSeq(l, 1, first - 1)
    BY <1>3 DEF Readable
  <2> HIDE DEF first, bad
  <2>6. first - 1 \in 0 .. Len(l)
    BY <1>1, <2>3
  <2>7. /\ Readable(l) \in Seq(Record) /\ Len(Readable(l)) = first - 1
        /\ DOMAIN Readable(l) = 1 .. first - 1
        /\ \A i \in 1 .. first - 1 : Readable(l)[i] = l[i]
    BY <2>5, <2>6, CutOff
  <2>8. ~ (\A i \in DOMAIN l : l[i] # Torn)
    BY <1>1, <2>3
  <2> QED BY <2>4, <2>6, <2>7, <2>8, Zenon
<1> QED BY <1>2, <1>3

\* A store after the writes I is the old one where none of them wrote.
LEMMA AfterIs ==
    ASSUME NEW s, NEW seq, NEW I \in SUBSET Int, NEW k \in Key
    PROVE  /\ (\A i \in I : seq[i].key # k) => After(s, seq, I)[k] = s[k]
           /\ \A i \in I : seq[i].key = k /\ (\A j \in I : seq[j].key = k => j <= i)
                             => After(s, seq, I)[k] = seq[i].val
<1>1. (\A i \in I : seq[i].key # k) => After(s, seq, I)[k] = s[k]
  BY DEF After
<1>2. ASSUME NEW i \in I, seq[i].key = k, \A j \in I : seq[j].key = k => j <= i
      PROVE  After(s, seq, I)[k] = seq[i].val
  <2> DEFINE H == {j \in I : seq[j].key = k}
  <2>1. H \in SUBSET Int /\ i \in H /\ \A j \in H : j <= i
    BY <1>2
  <2>2. Greatest(H) = i
    <3> HIDE DEF H
    <3> QED BY <2>1, GreatestIs
  <2>3. After(s, seq, I)[k] = IF H = {} THEN s[k] ELSE seq[Greatest(H)].val
    BY DEF After
  <2> QED BY <2>1, <2>2, <2>3
<1> QED BY <1>1, <1>2

\* Of the writes I to a key there is a last one, if there is any.
LEMMA LastHit ==
    ASSUME NEW n \in Nat, NEW I \in SUBSET (1 .. n), NEW seq, NEW k
    PROVE  \/ \A i \in I : seq[i].key # k
           \/ \E i \in I : seq[i].key = k /\ \A j \in I : seq[j].key = k => j <= i
<1> DEFINE H == {j \in I : seq[j].key = k}
<1>1. H \in SUBSET (0 .. n)
  <2>1. \A i \in I : i \in 0 .. n
    OBVIOUS
  <2> QED BY <2>1
<1>2. H # {} => Greatest(H) \in H /\ \A j \in H : j <= Greatest(H)
  <2> HIDE DEF H
  <2> QED BY <1>1, GreatestExists
<1> QED BY <1>2

LastOf(I, seq, k) == \/ \A i \in I : seq[i].key # k
                     \/ \E i \in I : seq[i].key = k /\ \A j \in I : seq[j].key = k => j <= i

LEMMA HasLast ==
    ASSUME NEW n \in Nat, NEW seq, NEW k
    PROVE  \A I \in SUBSET (1 .. n) : LastOf(I, seq, k)
BY LastHit, ZenonT(60) DEF LastOf

-------------------------------------------------------------------------------
\* Type correctness, whatever the faults

OpOfCall == Committing => call.tx \in TxId

LEMMA OpIs ==
    ASSUME NEW o \in Seq(Op), NEW j \in 1 .. Len(o), NEW t \in TxId
    PROVE  /\ o[j].key \in Key /\ o[j].val \in Val \cup {NoVal}
           /\ [type |-> "write", tx |-> t, key |-> o[j].key, val |-> o[j].val] \in Record
<1>1. o[j] \in Op
  BY ElementOfSeq
<1> QED BY <1>1 DEF Op, Record, Write

LEMMA AppendTyped ==
    ASSUME log \in Seq(Record), synced \in 0 .. Len(log), NEW r \in Record, AppendRecord(r),
           image \in {"whole", "split", "spoiled"}
    PROVE  /\ log' \in Seq(Record) /\ synced \in 0 .. Len(log')
           /\ image' \in {"whole", "split", "spoiled"}
<1>0. log' = log \/ log' = Append(log, r) \/ log' = Append(log, Torn)
  BY DEF AppendRecord
<1>1. CASE log' = log
  BY <1>1 DEF AppendRecord
<1>2. ASSUME NEW e \in Record, log' = Append(log, e)
      PROVE  log' \in Seq(Record) /\ synced \in 0 .. Len(log')
  <2>1. Append(log, e) \in Seq(Record) /\ Len(Append(log, e)) = Len(log) + 1 /\ Len(log) \in Nat
    BY Appended, LogIs
  <2> QED BY <1>2, <2>1
<1>3. image' \in {"whole", "split", "spoiled"}
  BY DEF AppendRecord
<1> QED BY <1>0, <1>1, <1>2, <1>3, MarksAre

\* A tree that has lost keys is still a store.
LEMMA PartsTyped ==
    /\ Empty \in Store
    /\ \A st \in Store : /\ Parts(st) \subseteq Store /\ Found(st) \subseteq Store
                        /\ \A k \in Key, v \in Val \cup {NoVal} : [st EXCEPT ![k] = v] \in Store
BY DEF Parts, Found, Store, Empty

LEMMA ChangeTyped ==
    ASSUME mem \in Store, image \in {"whole", "split", "spoiled"},
           NEW k \in Key, NEW v \in Val \cup {NoVal}, ChangeTree(k, v)
    PROVE  mem' \in Store /\ image' \in {"whole", "split", "spoiled"}
<1>1. PICK st \in Store : st = [mem EXCEPT ![k] = v]
  BY PartsTyped
<1>2. Parts(st) \subseteq Store
  BY PartsTyped
<1>3. mem' = st \/ mem' \in Parts(st)
  BY <1>1, Zenon DEF ChangeTree
<1>4. image' \in {"whole", "split", "spoiled"}
  BY DEF ChangeTree
<1> QED BY <1>2, <1>3, <1>4, Zenon

LEMMA MendedTyped ==
    image \in {"whole", "split", "spoiled"} => Mended \in {"whole", "split", "spoiled"}
BY DEF Mended

LEMMA NextIdTyped ==
    ASSUME NEW l \in Seq(Record)
    PROVE  /\ TxAfter(l) \in 1 .. MaxTx + 1
           /\ (\A i \in DOMAIN l : l[i] # Torn) => \A i \in DOMAIN l : l[i].tx < TxAfter(l)
<1> DEFINE ids == {0} \cup {l[i].tx : i \in DOMAIN Readable(l)}
<1>1. PICK n \in 0 .. Len(l) : /\ DOMAIN Readable(l) = 1 .. n
                               /\ (\A i \in DOMAIN l : l[i] # Torn) => n = Len(l)
  BY ReadableIs
<1>2. Len(l) \in Nat /\ DOMAIN l = 1 .. Len(l) /\ \A i \in 1 .. Len(l) : l[i].tx \in 0 .. MaxTx
  BY LogIs, RecordIs, BoundsAssumption DEF TxId
<1>3. ids \in SUBSET (0 .. MaxTx) /\ 0 \in ids
  <2>1. \A i \in 1 .. n : i \in 1 .. Len(l)
    BY <1>2
  <2>2. \A i \in DOMAIN Readable(l) : l[i].tx \in 0 .. MaxTx
    BY <1>1, <1>2, <2>1
  <2> QED BY <2>2, BoundsAssumption
<1>4. Greatest(ids) \in ids /\ \A j \in ids : j <= Greatest(ids)
  <2> HIDE DEF ids
  <2> QED BY <1>3, GreatestExists, BoundsAssumption
<1>5. TxAfter(l) = 1 + Greatest(ids)
  BY DEF TxAfter
<1>6. Greatest(ids) \in 0 .. MaxTx
  <2> HIDE DEF ids
  <2> QED BY <1>3, <1>4
<1>7. ASSUME \A i \in DOMAIN l : l[i] # Torn, NEW i \in DOMAIN l PROVE l[i].tx < TxAfter(l)
  <2>1. i \in DOMAIN Readable(l)
    BY <1>1, <1>2, <1>7
  <2>2. l[i].tx \in ids
    BY <2>1
  <2>3. l[i].tx <= Greatest(ids) /\ l[i].tx \in 0 .. MaxTx
    BY <1>2, <1>4, <2>2
  <2> HIDE DEF ids
  <2> QED BY <1>5, <1>6, <2>3, BoundsAssumption
<1> QED
  <2> HIDE DEF ids
  <2> QED BY <1>5, <1>6, <1>7, BoundsAssumption

LEMMA ReplayedTyped ==
    ASSUME NEW l \in Seq(Record), NEW i \in Replayed(l)
    PROVE  i \in DOMAIN l /\ l[i].key \in Key /\ l[i].val \in Val \cup {NoVal}
<1>1. PICK n \in 0 .. Len(l) : DOMAIN Readable(l) = 1 .. n
  BY ReadableIs
<1>2. i \in 1 .. n /\ l[i].type = "write"
  BY <1>1 DEF Replayed
<1>3. i \in 1 .. Len(l) /\ l[i] \in Record
  BY <1>1, <1>2, LogIs
<1> QED BY <1>2, <1>3, LogIs, RecordIs

LEMMA NothingTyped ==
    /\ NoTx \in [TxId -> Transaction]
    /\ NoCall \in Call
    /\ Empty \in Store
    /\ 1 \in 1 .. MaxTx + 1
<1>1. << >> \in Seq(Op)
  BY EmptySeq
<1>2. [state |-> "NONE", ops |-> << >>] \in Transaction
  BY <1>1 DEF Transaction
<1>3. NoCall \in Call
  BY <1>1 DEF NoCall, Call
<1> QED BY <1>2, <1>3, BoundsAssumption DEF NoTx, Empty, Store

LEMMA TransactionIs ==
    ASSUME NEW h \in Transaction
    PROVE  /\ h.ops \in Seq(Op)
           /\ \A s \in {"NONE", "ACTIVE", "COMMITTED", "ABORTED"} :
                  /\ [h EXCEPT !.state = s] \in Transaction
                  /\ [state |-> s, ops |-> << >>] \in Transaction
           /\ \A o \in Seq(Op) : [h EXCEPT !.ops = o] \in Transaction
<1>1. << >> \in Seq(Op)
  BY EmptySeq
<1> QED BY <1>1 DEF Transaction

LEMMA CallIs ==
    /\ call \in Call => call.tx \in TxId \cup {0} /\ call.ops \in Seq(Op) /\ call.auto \in BOOLEAN
    /\ \A t \in TxId, o \in Seq(Op), b \in BOOLEAN : [tx |-> t, ops |-> o, auto |-> b] \in Call
BY DEF Call

LEMMA InitTyped == Init => TypeOK /\ OpOfCall
<1> SUFFICES ASSUME Init PROVE TypeOK /\ OpOfCall
  OBVIOUS
<1>1. log \in Seq(Record) /\ Len(log) = 0
  BY EmptySeq DEF Init
<1>2. isOpen \in BOOLEAN /\ closing \in BOOLEAN
  BY Zenon DEF Init
<1> QED BY <1>1, <1>2, NothingTyped DEF Init, TypeOK, OpOfCall, Committing

LEMMA TxStepTyped ==
    ASSUME TypeOK, OpOfCall,
           \/ Begin
           \/ \E t \in TxId :
               \/ \E k \in Key, v \in Val \cup {NoVal} : Stage(t, k, v)
               \/ Rollback(t) \/ CommitNothing(t) \/ Commit(t)
           \/ \E k \in Key, v \in Val \cup {NoVal} : AutoCommit(k, v)
    PROVE  TypeOK' /\ OpOfCall'
<1> USE DEF TypeOK, OpOfCall
<1>1. CASE Begin
  <2>1. nextTx \in TxId /\ nextTx' \in 1 .. MaxTx + 1
    BY <1>1, BoundsAssumption DEF Begin, TxId
  <2>2. tx' \in [TxId -> Transaction]
    BY <1>1, <2>1, TransactionIs DEF Begin
  <2> QED BY <1>1, <2>1, <2>2 DEF Begin, disk, Committing
<1>2. ASSUME NEW t \in TxId, NEW k \in Key, NEW v \in Val \cup {NoVal}, Stage(t, k, v)
      PROVE  TypeOK' /\ OpOfCall'
  <2>1. Append(tx[t].ops, [key |-> k, val |-> v]) \in Seq(Op)
    BY AppendProperties, TransactionIs DEF Op
  <2>2. tx' \in [TxId -> Transaction]
    BY <1>2, <2>1, TransactionIs DEF Stage
  <2> QED BY <1>2, <2>2 DEF Stage, disk, handle, Committing
<1>3. ASSUME NEW t \in TxId, Rollback(t) \/ CommitNothing(t)
      PROVE  TypeOK' /\ OpOfCall'
  <2>1. tx' \in [TxId -> Transaction]
    <3>1. /\ [tx[t] EXCEPT !.state = "COMMITTED"] \in Transaction
          /\ [state |-> "ABORTED", ops |-> << >>] \in Transaction
      BY TransactionIs
    <3>2. CASE Rollback(t)
      BY <3>1, <3>2 DEF Rollback
    <3>3. CASE CommitNothing(t)
      BY <3>1, <3>3 DEF CommitNothing
    <3> QED BY <1>3, <3>2, <3>3
  <2> QED BY <1>3, <2>1 DEF Rollback, CommitNothing, disk, handle, Committing
<1>4. ASSUME NEW t \in TxId, Commit(t)
      PROVE  TypeOK' /\ OpOfCall'
  <2>1. call' \in Call /\ call'.tx = t
    BY <1>4, CallIs, TransactionIs DEF Commit
  <2> QED BY <1>4, <2>1 DEF Commit, disk, handle, Committing
<1>5. ASSUME NEW k \in Key, NEW v \in Val \cup {NoVal}, AutoCommit(k, v)
      PROVE  TypeOK' /\ OpOfCall'
  <2>1. <<[key |-> k, val |-> v]>> \in Seq(Op)
    BY DEF Op
  <2>2. nextTx \in TxId /\ nextTx' \in 1 .. MaxTx + 1
    BY <1>5, BoundsAssumption DEF AutoCommit, TxId
  <2>3. call' \in Call /\ call'.tx = nextTx
    BY <1>5, <2>1, <2>2, CallIs DEF AutoCommit
  <2> QED BY <1>5, <2>2, <2>3 DEF AutoCommit, disk, Committing
<1> QED BY <1>1, <1>2, <1>3, <1>4, <1>5

LEMMA CommitStepTyped ==
    ASSUME TypeOK, OpOfCall, AppendOps \/ AppendCommit \/ Sync \/ Apply \/ FinishTx \/ FinishAuto
    PROVE  TypeOK' /\ OpOfCall'
<1> USE DEF TypeOK, OpOfCall
<1>0. PICK L \in Nat : L = Len(log)
  BY LogIs
<1>1. CASE AppendOps
  <2>1. call.ops \in Seq(Op) /\ pos \in 1 .. Len(call.ops) /\ call.tx \in TxId
    BY <1>1, CallIs, LenProperties DEF AppendOps, Committing
  <2>2. [type |-> "write", tx |-> call.tx, key |-> call.ops[pos].key, val |-> call.ops[pos].val]
           \in Record
    BY <2>1, OpIs
  <2>3. /\ log' \in Seq(Record) /\ synced \in 0 .. Len(log')
        /\ image' \in {"whole", "split", "spoiled"}
    BY <1>1, <2>2, AppendTyped DEF AppendOps
  <2> QED BY <1>1, <2>1, <2>3 DEF AppendOps, handle, Committing
<1>2. CASE AppendCommit
  <2>1. call.tx \in TxId
    BY <1>2 DEF AppendCommit, Committing
  <2>2. /\ log' \in Seq(Record) /\ synced \in 0 .. Len(log')
        /\ image' \in {"whole", "split", "spoiled"}
    BY <1>2, <2>1, MarksAre, AppendTyped DEF AppendCommit
  <2> QED BY <1>2, <2>1, <2>2 DEF AppendCommit, handle, Committing
<1>3. CASE Sync
  BY <1>0, <1>3 DEF Sync, handle, Committing
<1>4. CASE Apply
  <2>1. call.ops \in Seq(Op) /\ pos \in 1 .. Len(call.ops)
    BY <1>4, CallIs, LenProperties DEF Apply
  <2>2. call.ops[pos] \in Op
    BY <2>1, ElementOfSeq
  <2>3. mem' \in Store /\ image' \in {"whole", "split", "spoiled"}
    <3>1. PICK k \in Key, v \in Val \cup {NoVal} : k = call.ops[pos].key /\ v = call.ops[pos].val
      BY <2>2 DEF Op
    <3>2. ChangeTree(k, v)
      BY <1>4, <3>1 DEF Apply
    <3> QED BY <3>2, ChangeTyped
  <2> QED BY <1>4, <2>3 DEF Apply, disk, handle, Committing
<1>5. CASE FinishTx
  <2>1. tx' \in [TxId -> Transaction]
    BY <1>5, TransactionIs DEF FinishTx, Committing
  <2> QED BY <1>5, <2>1, NothingTyped DEF FinishTx, disk, handle, Committing
<1>6. CASE FinishAuto
  BY <1>6, NothingTyped DEF FinishAuto, disk, Committing
<1> QED BY <1>1, <1>2, <1>3, <1>4, <1>5, <1>6

LEMMA CheckpointStepTyped ==
    ASSUME TypeOK, OpOfCall,
           \/ \E close \in BOOLEAN : StartCheckpoint(close)
           \/ Flush \/ Truncate \/ AppendCheckpoint \/ SyncCheckpoint \/ Close
    PROVE  TypeOK' /\ OpOfCall'
<1> USE DEF TypeOK, OpOfCall
<1>0. PICK L \in Nat : L = Len(log)
  BY LogIs
<1>1. ASSUME NEW close \in BOOLEAN, StartCheckpoint(close) PROVE TypeOK' /\ OpOfCall'
  BY <1>1 DEF StartCheckpoint, disk, Committing
<1>2. CASE Flush
  BY <1>2, MendedTyped DEF Flush, handle, Committing
<1>3. CASE Truncate
  BY <1>3, EmptySeq DEF Truncate, handle, Committing
<1>4. CASE AppendCheckpoint
  <2>1. /\ log' \in Seq(Record) /\ synced \in 0 .. Len(log')
        /\ image' \in {"whole", "split", "spoiled"}
    BY <1>4, MarksAre, AppendTyped DEF AppendCheckpoint
  <2> QED BY <1>4, <2>1 DEF AppendCheckpoint, handle, Committing
<1>5. CASE SyncCheckpoint
  BY <1>0, <1>5, NothingTyped DEF SyncCheckpoint, Committing
<1>6. CASE Close
  <2>1. isOpen' \in BOOLEAN /\ closing' \in BOOLEAN
    BY <1>6, Zenon DEF Close
  <2> QED BY <1>0, <1>6, <2>1, MendedTyped DEF Close, Committing
<1> QED BY <1>1, <1>2, <1>3, <1>4, <1>5, <1>6

LEMMA RecoveryStepTyped ==
    ASSUME TypeOK, OpOfCall, Open \/ Redo \/ FinishRecovery
    PROVE  TypeOK' /\ OpOfCall'
<1> USE DEF TypeOK, OpOfCall
<1>1. CASE Open
  <2>1. isOpen' \in BOOLEAN /\ closing' \in BOOLEAN
    BY <1>1, Zenon DEF Open
  <2> QED BY <1>1, <2>1, NothingTyped DEF Open, disk, Committing
<1>2. CASE Redo
  <2>1. mem' \in Store /\ image' \in {"whole", "split", "spoiled"}
    <3>1. CASE pos \in Replayed(log)
      <4>1. PICK k \in Key, v \in Val \cup {NoVal} : k = log[pos].key /\ v = log[pos].val
        BY <3>1, ReplayedTyped
      <4>2. ChangeTree(k, v)
        BY <1>2, <3>1, <4>1 DEF Redo
      <4> QED BY <4>2, ChangeTyped
    <3>2. CASE pos \notin Replayed(log)
      BY <1>2, <3>2 DEF Redo
    <3> QED BY <3>1, <3>2
  <2> QED BY <1>2, <2>1 DEF Redo, disk, handle, Committing
<1>3. CASE FinishRecovery
  BY <1>3, NextIdTyped, MendedTyped DEF FinishRecovery, Committing
<1> QED BY <1>1, <1>2, <1>3

LEMMA FaultStepTyped ==
    ASSUME TypeOK, OpOfCall,
           \/ \E k \in Key : Evict(k) \/ WriteBackPage(k)
           \/ WriteBackLog \/ ProcessCrash \/ PowerCut
    PROVE  TypeOK' /\ OpOfCall'
<1> USE DEF TypeOK, OpOfCall
<1>0. PICK L \in Nat : L = Len(log)
  BY LogIs
<1>1. ASSUME NEW k \in Key, Evict(k) PROVE TypeOK' /\ OpOfCall'
  BY <1>1 DEF Evict, handle, Committing, Store
<1>2. ASSUME NEW k \in Key, WriteBackPage(k) PROVE TypeOK' /\ OpOfCall'
  BY <1>2 DEF WriteBackPage, handle, Committing, Store
<1>3. CASE WriteBackLog
  BY <1>0, <1>3 DEF WriteBackLog, handle, Committing
<1>4. CASE ProcessCrash
  <2>1. isOpen' \in BOOLEAN /\ closing' \in BOOLEAN
    BY <1>4, Zenon DEF ProcessCrash, MemoryLost
  <2>2. file' \in Store /\ image' \in {"whole", "split", "spoiled"}
    BY <1>4, PartsTyped DEF ProcessCrash
  <2> QED BY <1>4, <2>1, <2>2, NothingTyped DEF ProcessCrash, MemoryLost, Committing
<1>5. CASE PowerCut
  <2>1. SubSeq(log, 1, synced) \in Seq(Record)
    BY CutOff
  <2>2. log' \in Seq(Record)
    <3>1. Append(SubSeq(log, 1, synced), Torn) \in Seq(Record)
      BY <2>1, MarksAre, Appended
    <3> QED BY <1>5, <2>1, <3>1 DEF PowerCut
  <2>3. Len(log') \in Nat
    BY <2>2, LogIs
  <2>4. isOpen' \in BOOLEAN /\ closing' \in BOOLEAN
    BY <1>5, Zenon DEF PowerCut, MemoryLost
  <2>5. page' \in Store /\ file' \in Store /\ image' \in {"whole", "split", "spoiled"}
    BY <1>5, PartsTyped DEF PowerCut
  <2> QED BY <1>5, <2>2, <2>3, <2>4, <2>5, NothingTyped DEF PowerCut, MemoryLost, Committing
<1> QED BY <1>1, <1>2, <1>3, <1>4, <1>5

LEMMA StepTyped == TypeOK /\ OpOfCall /\ [Next]_vars => TypeOK' /\ OpOfCall'
<1> SUFFICES ASSUME TypeOK, OpOfCall, [Next]_vars PROVE TypeOK' /\ OpOfCall'
  OBVIOUS
<1>1. CASE UNCHANGED vars
  BY <1>1 DEF vars, disk, handle, TypeOK, OpOfCall, Committing
<1>2. CASE Next
  BY <1>2, TxStepTyped, CommitStepTyped, CheckpointStepTyped, RecoveryStepTyped, FaultStepTyped
     DEF Next
<1> QED BY <1>1, <1>2

LEMMA Typed == Spec => [](TypeOK /\ OpOfCall)
BY InitTyped, StepTyped, PTL DEF Spec

\* Every variable keeps its type and the synced records stay a prefix of the
\* log, under any faults, torn records and failed writes included.
THEOREM TypeCorrect == Spec => []TypeOK
BY Typed, PTL

-------------------------------------------------------------------------------
\* What a recovery reads

LEMMA AfterFrom ==
    ASSUME NEW s, NEW r, NEW l, NEW I, \A k \in Key : (\A i \in I : l[i].key # k) => s[k] = r[k]
    PROVE  After(s, l, I) = After(r, l, I)
<1>1. ASSUME NEW k \in Key PROVE After(s, l, I)[k] = After(r, l, I)[k]
  <2> DEFINE H == {i \in I : l[i].key = k}
  <2>1. H = {} => s[k] = r[k]
    OBVIOUS
  <2>2. /\ After(s, l, I)[k] = IF H = {} THEN s[k] ELSE l[Greatest(H)].val
        /\ After(r, l, I)[k] = IF H = {} THEN r[k] ELSE l[Greatest(H)].val
    BY DEF After
  <2> HIDE DEF H
  <2> QED BY <2>1, <2>2
<1>2. /\ After(s, l, I) = [k \in Key |-> After(s, l, I)[k]]
      /\ After(r, l, I) = [k \in Key |-> After(r, l, I)[k]]
  BY DEF After
<1> QED BY <1>1, <1>2

LEMMA AfterSame ==
    ASSUME NEW s, NEW l, NEW m, NEW n \in Nat, NEW I \in SUBSET (1 .. n), \A i \in I : l[i] = m[i]
    PROVE  After(s, l, I) = After(s, m, I)
<1>1. ASSUME NEW k \in Key PROVE After(s, l, I)[k] = After(s, m, I)[k]
  <2>1. I \in SUBSET Int
    OBVIOUS
  <2>2. CASE \A i \in I : l[i].key # k
    <3>1. \A i \in I : m[i].key # k
      BY <2>2
    <3> QED BY <2>1, <2>2, <3>1, AfterIs
  <2>3. ASSUME NEW i \in I, l[i].key = k, \A j \in I : l[j].key = k => j <= i
        PROVE  After(s, l, I)[k] = After(s, m, I)[k]
    <3>1. m[i].key = k /\ (\A j \in I : m[j].key = k => j <= i) /\ m[i].val = l[i].val
      BY <2>3
    <3>2. After(s, l, I)[k] = l[i].val
      BY <2>1, <2>3, AfterIs
    <3>3. After(s, m, I)[k] = m[i].val
      BY <2>1, <3>1, AfterIs
    <3> QED BY <3>1, <3>2, <3>3
  <2>4. LastOf(I, l, k)
    BY HasLast
  <2> QED BY <2>2, <2>3, <2>4 DEF LastOf
<1>2. /\ After(s, l, I) = [k \in Key |-> After(s, l, I)[k]]
      /\ After(s, m, I) = [k \in Key |-> After(s, m, I)[k]]
  BY DEF After
<1> QED BY <1>1, <1>2

\* One more write, later than all others, decides its key.
Grows(s, l, I, i) == After(s, l, I \cup {i}) = [After(s, l, I) EXCEPT ![l[i].key] = l[i].val]

LEMMA AfterGrows ==
    ASSUME NEW s, NEW l, NEW n \in Nat, NEW I \in SUBSET (1 .. n), NEW i \in Int,
           \A j \in I : j < i
    PROVE  Grows(s, l, I, i)
<1> DEFINE J == I \cup {i}
<1>1. I \in SUBSET Int /\ J \in SUBSET Int
  OBVIOUS
<1>2. ASSUME NEW k \in Key
      PROVE  After(s, l, J)[k] = IF k = l[i].key THEN l[i].val ELSE After(s, l, I)[k]
  <2>1. CASE k = l[i].key
    <3>1. i \in J /\ \A j \in J : l[j].key = k => j <= i
      OBVIOUS
    <3> HIDE DEF J
    <3> QED BY <1>1, <2>1, <3>1, AfterIs
  <2>2. CASE k # l[i].key /\ \A j \in I : l[j].key # k
    <3>1. \A j \in J : l[j].key # k
      BY <2>2
    <3> HIDE DEF J
    <3>2. After(s, l, J)[k] = s[k] /\ After(s, l, I)[k] = s[k]
      BY <1>1, <2>2, <3>1, AfterIs
    <3> QED BY <2>2, <3>2
  <2>3. ASSUME k # l[i].key, NEW h \in I, l[h].key = k, \A j \in I : l[j].key = k => j <= h
        PROVE  After(s, l, J)[k] = After(s, l, I)[k]
    <3>1. h \in J /\ \A j \in J : l[j].key = k => j <= h
      BY <2>3
    <3> HIDE DEF J
    <3>2. After(s, l, J)[k] = l[h].val
      BY <1>1, <2>3, <3>1, AfterIs
    <3>3. After(s, l, I)[k] = l[h].val
      BY <1>1, <2>3, AfterIs
    <3> QED BY <3>2, <3>3
  <2>4. LastOf(I, l, k)
    BY HasLast
  <2> QED BY <2>1, <2>2, <2>3, <2>4 DEF LastOf
<1>3. /\ After(s, l, J) = [k \in Key |-> After(s, l, J)[k]]
      /\ After(s, l, I) = [k \in Key |-> After(s, l, I)[k]]
  BY DEF After
<1> HIDE DEF J
<1>4. After(s, l, J) = [After(s, l, I) EXCEPT ![l[i].key] = l[i].val]
  BY <1>2, <1>3
<1> QED BY <1>4 DEF J, Grows

LEMMA ReplayIs ==
    ASSUME NEW l \in Seq(Record), \A i \in DOMAIN l : l[i] # Torn, NEW n \in 0 .. Len(l)
    PROVE  /\ Committed(SubSeq(l, 1, n)) = CommittedIn(l, n)
           /\ Replayed(SubSeq(l, 1, n)) = ReplayedIn(l, n)
           /\ ReplayedIn(l, n) \in SUBSET (1 .. n)
           /\ \A s : After(s, SubSeq(l, 1, n), ReplayedIn(l, n)) = After(s, l, ReplayedIn(l, n))
<1>1. PICK p \in Seq(Record) :
         /\ p = SubSeq(l, 1, n) /\ Len(p) = n /\ DOMAIN p = 1 .. n
         /\ \A i \in 1 .. n : p[i] = l[i] /\ p[i] # Torn
  <2>1. /\ SubSeq(l, 1, n) \in Seq(Record) /\ Len(SubSeq(l, 1, n)) = n
        /\ DOMAIN SubSeq(l, 1, n) = 1 .. n /\ \A i \in 1 .. n : SubSeq(l, 1, n)[i] = l[i]
    BY CutOff
  <2>2. Len(l) \in Nat /\ \A i \in 1 .. n : i \in DOMAIN l
    BY LogIs
  <2> QED BY <2>1, <2>2
<1>2. Readable(p) = p
  BY <1>1, ReadableIs
<1>3. n \in Nat
  BY LogIs
<1>4. Committed(p) = CommittedIn(l, n)
  <2>1. {j \in DOMAIN p : p[j].type = "commit"} = {j \in 1 .. n : l[j].type = "commit"}
    BY <1>1
  <2>2. \A j \in 1 .. n : p[j].tx = l[j].tx
    BY <1>1
  <2> QED BY <1>2, <2>1, <2>2 DEF Committed, CommittedIn
<1>5. Replayed(p) = ReplayedIn(l, n)
  BY <1>1, <1>2, <1>4 DEF Replayed, ReplayedIn
<1>6. ReplayedIn(l, n) \in SUBSET (1 .. n)
  BY DEF ReplayedIn
<1>7. ASSUME NEW s PROVE After(s, p, ReplayedIn(l, n)) = After(s, l, ReplayedIn(l, n))
  <2>1. \A i \in ReplayedIn(l, n) : p[i] = l[i]
    BY <1>1, <1>6
  <2> QED BY <1>3, <1>6, <2>1, AfterSame
<1> QED BY <1>1, <1>4, <1>5, <1>6, <1>7

LEMMA ReplayAll ==
    ASSUME NEW l \in Seq(Record), \A i \in DOMAIN l : l[i] # Torn
    PROVE  /\ Readable(l) = l
           /\ Replayed(l) = ReplayedIn(l, Len(l))
           /\ Committed(l) = CommittedIn(l, Len(l))
<1>1. Len(l) \in 0 .. Len(l)
  BY LogIs
<1> QED BY <1>1, ReadableIs, ReplayIs, SubSeqFull

\* A prefix tells what happened in it.
LEMMA SamePrefix ==
    ASSUME NEW l, NEW m, NEW n \in Nat, \A i \in 1 .. n : l[i] = m[i]
    PROVE  CommittedIn(l, n) = CommittedIn(m, n) /\ ReplayedIn(l, n) = ReplayedIn(m, n)
<1>1. CommittedIn(l, n) = CommittedIn(m, n)
  <2>1. {j \in 1 .. n : l[j].type = "commit"} = {j \in 1 .. n : m[j].type = "commit"}
    OBVIOUS
  <2> QED BY <2>1 DEF CommittedIn
<1> QED BY <1>1 DEF ReplayedIn

\* In the log l, m writes of t follow b records of others.
CallAt(l, b, m, t) ==
    /\ \A i \in 1 .. b : l[i].tx # t
    /\ \A j \in 1 .. m : l[b + j].type = "write" /\ l[b + j].tx = t

\* The records of a call at the end of a log: nothing of it is replayed before
\* its commit record is there, and all of it from then on.
LEMMA CallReplayed ==
    ASSUME NEW l, NEW b \in Nat, NEW m \in Nat, NEW t, CallAt(l, b, m, t)
    PROVE  /\ \A n \in b .. b + m : CommittedIn(l, n) = CommittedIn(l, b)
                                    /\ ReplayedIn(l, n) = ReplayedIn(l, b)
           /\ t \notin CommittedIn(l, b)
           /\ l[b + m + 1].type = "commit" /\ l[b + m + 1].tx = t =>
                /\ CommittedIn(l, b + m + 1) = CommittedIn(l, b) \cup {t}
                /\ ReplayedIn(l, b + m + 1) = ReplayedIn(l, b) \cup ((b + 1) .. (b + m))
<1> USE DEF CallAt
<1>1. t \notin CommittedIn(l, b)
  BY DEF CommittedIn
<1>2. ASSUME NEW i \in (b + 1) .. (b + m) PROVE l[i].type = "write" /\ l[i].tx = t
  <2>1. i - b \in 1 .. m /\ b + (i - b) = i
    OBVIOUS
  <2> QED BY <2>1
<1>3. ASSUME NEW n \in b .. b + m
      PROVE  CommittedIn(l, n) = CommittedIn(l, b) /\ ReplayedIn(l, n) = ReplayedIn(l, b)
  <2>1. \A i \in 1 .. n : i \in 1 .. b \/ i \in (b + 1) .. (b + m)
    OBVIOUS
  <2>2. \A i \in 1 .. b : i \in 1 .. n
    OBVIOUS
  <2>3. {i \in 1 .. n : l[i].type = "commit"} = {i \in 1 .. b : l[i].type = "commit"}
    BY <1>2, <2>1, <2>2
  <2>4. CommittedIn(l, n) = CommittedIn(l, b)
    BY <2>3 DEF CommittedIn
  <2>5. ASSUME NEW i \in 1 .. n, l[i].tx \in CommittedIn(l, b) PROVE i \in 1 .. b
    BY <1>1, <1>2, <2>1, <2>5
  <2> QED BY <2>2, <2>4, <2>5 DEF ReplayedIn
<1>4. ASSUME l[b + m + 1].type = "commit", l[b + m + 1].tx = t
      PROVE  /\ CommittedIn(l, b + m + 1) = CommittedIn(l, b) \cup {t}
             /\ ReplayedIn(l, b + m + 1) = ReplayedIn(l, b) \cup ((b + 1) .. (b + m))
  <2>1. b + m + 1 \in 1 .. b + m + 1
        /\ \A i \in 1 .. b + m + 1 : i \in 1 .. b \/ i \in (b + 1) .. (b + m) \/ i = b + m + 1
    OBVIOUS
  <2>2. /\ \A i \in 1 .. b : i \in 1 .. b + m + 1
        /\ \A i \in (b + 1) .. (b + m) : i \in 1 .. b + m + 1
    OBVIOUS
  <2>3. {i \in 1 .. b + m + 1 : l[i].type = "commit"}
          = {i \in 1 .. b : l[i].type = "commit"} \cup {b + m + 1}
    BY <1>2, <1>4, <2>1, <2>2
  <2>4. CommittedIn(l, b + m + 1) = CommittedIn(l, b) \cup {t}
    BY <1>4, <2>3 DEF CommittedIn
  <2>5. \A i \in 1 .. b + m + 1 :
           l[i].type = "write" /\ l[i].tx \in CommittedIn(l, b) \cup {t}
             <=> i \in ReplayedIn(l, b) \/ i \in (b + 1) .. (b + m)
    BY <1>1, <1>2, <1>4, <2>1, <2>2 DEF ReplayedIn
  <2>6. \A i \in ReplayedIn(l, b) : i \in 1 .. b
    BY DEF ReplayedIn
  <2>7. ReplayedIn(l, b + m + 1)
          = {i \in 1 .. b + m + 1 : l[i].type = "write" /\ l[i].tx \in CommittedIn(l, b) \cup {t}}
    BY <2>4 DEF ReplayedIn
  <2> QED BY <2>2, <2>4, <2>5, <2>6, <2>7
<1> QED BY <1>1, <1>3, <1>4

\* The two facts of it that the steps of a call use, one at a time.
LEMMA CallUnread ==
    ASSUME NEW l, NEW b \in Nat, NEW m \in Nat, NEW t, CallAt(l, b, m, t)
    PROVE  \A n \in b .. b + m : ReplayedIn(l, n) = ReplayedIn(l, b)
BY CallReplayed

LEMMA CallRead ==
    ASSUME NEW l, NEW b \in Nat, NEW m \in Nat, NEW t, CallAt(l, b, m, t),
           l[b + m + 1].type = "commit" /\ l[b + m + 1].tx = t
    PROVE  /\ CommittedIn(l, b + m + 1) = CommittedIn(l, b) \cup {t}
           /\ ReplayedIn(l, b + m + 1) = ReplayedIn(l, b) \cup ((b + 1) .. (b + m))
BY CallReplayed

LEMMA AfterNothing ==
    ASSUME NEW s \in Store, NEW l
    PROVE  After(s, l, {}) = s
BY DEF After, Store

LEMMA AfterTwice ==
    ASSUME NEW s, NEW l, NEW n \in Nat, NEW I \in SUBSET (1 .. n)
    PROVE  After(After(s, l, I), l, I) = After(s, l, I)
<1>1. I \in SUBSET Int
  OBVIOUS
<1>2. \A k \in Key : (\A i \in I : l[i].key # k) => After(s, l, I)[k] = s[k]
  BY <1>1, AfterIs
<1>3. PICK r : r = After(s, l, I)
  OBVIOUS
<1>4. After(r, l, I) = After(s, l, I)
  BY <1>2, <1>3, AfterFrom
<1> QED BY <1>3, <1>4

LEMMA ReplayedGrows ==
    ASSUME NEW l, NEW n \in Nat, NEW m \in Nat, n <= m
    PROVE  /\ CommittedIn(l, n) \subseteq CommittedIn(l, m)
           /\ ReplayedIn(l, n) \subseteq ReplayedIn(l, m)
           /\ ReplayedIn(l, m) \in SUBSET (1 .. m)
<1>1. \A i \in 1 .. n : i \in 1 .. m
  OBVIOUS
<1>2. CommittedIn(l, n) \subseteq CommittedIn(l, m)
  BY <1>1 DEF CommittedIn
<1> QED BY <1>1, <1>2 DEF ReplayedIn

LEMMA ReachedAll ==
    ASSUME NEW l, Len(l) \in Nat
    PROVE  /\ Reached(l, Len(l) + 1) = ReplayedIn(l, Len(l))
           /\ Reached(l, 1) = {}
           /\ \A r : Reached(l, r) \in SUBSET (1 .. Len(l))
<1>1. ReplayedIn(l, Len(l)) \in SUBSET (1 .. Len(l))
  BY DEF ReplayedIn
<1>2. \A i \in ReplayedIn(l, Len(l)) : i < Len(l) + 1 /\ ~ (i < 1)
  BY <1>1
<1> QED BY <1>1, <1>2 DEF Reached

-------------------------------------------------------------------------------
\* What the steps rely on

\* The tree in the file is spoiled for good.
LEMMA Intactly ==
    ASSUME [Next]_vars, Intact'
    PROVE  Intact
<1> SUFFICES ASSUME image = "spoiled" PROVE image' = "spoiled"
  BY DEF Intact
<1>1. CASE UNCHANGED vars
  BY <1>1 DEF vars
<1>2. CASE \/ Begin
           \/ \E t \in TxId : \/ \E k \in Key, v \in Val \cup {NoVal} : Stage(t, k, v)
                              \/ Rollback(t) \/ CommitNothing(t) \/ Commit(t)
           \/ \E k \in Key, v \in Val \cup {NoVal} : AutoCommit(k, v)
  BY <1>2 DEF Begin, Stage, Rollback, CommitNothing, Commit, AutoCommit
<1>3. CASE AppendOps \/ AppendCommit \/ AppendCheckpoint
  BY <1>3 DEF AppendOps, AppendCommit, AppendCheckpoint, AppendRecord
<1>4. CASE Apply \/ Redo
  <2>1. ASSUME NEW k, NEW v, ChangeTree(k, v) PROVE image' = "spoiled"
    BY <2>1 DEF ChangeTree
  <2> QED BY <1>4, <2>1 DEF Apply, Redo
<1>5. CASE \/ \E close \in BOOLEAN : StartCheckpoint(close)
           \/ Sync \/ FinishTx \/ FinishAuto \/ Flush \/ Truncate \/ SyncCheckpoint \/ Close
           \/ Open \/ FinishRecovery
  BY <1>5 DEF Sync, FinishTx, FinishAuto, StartCheckpoint, Flush, Mended, Truncate,
              SyncCheckpoint, Close, Open, FinishRecovery
<1>6. CASE \/ \E k \in Key : Evict(k) \/ WriteBackPage(k)
           \/ WriteBackLog \/ ProcessCrash \/ PowerCut
  BY <1>6 DEF Evict, WriteBackPage, WriteBackLog, ProcessCrash, PowerCut
<1> QED BY <1>1, <1>2, <1>3, <1>4, <1>5, <1>6 DEF Next

LEMMA Sizes ==
    ASSUME TypeOK
    PROVE  /\ Len(log) \in Nat /\ DOMAIN log = 1 .. Len(log) /\ synced \in Nat /\ synced <= Len(log)
           /\ \A i \in 1 .. Len(log) : log[i] \in Record
           /\ Len(call.ops) \in Nat /\ call.ops \in Seq(Op) /\ pos \in Nat /\ pos >= 1
BY LogIs, CallIs, LenProperties DEF TypeOK

LEMMA AppendsOne ==
    ASSUME Intact', TypeOK, Clean, isOpen, NEW r \in Record, r # Torn, AppendRecord(r)
    PROVE  /\ log' = Append(log, r)
           /\ Len(log') = Len(log) + 1 /\ DOMAIN log' = 1 .. Len(log) + 1
           /\ \A i \in 1 .. Len(log) : log'[i] = log[i]
           /\ log'[Len(log) + 1] = r
           /\ Clean'
<1>1. log' = Append(log, r)
  BY DEF AppendRecord, Intact
<1>2. log \in Seq(Record)
  BY DEF TypeOK
<1>3. /\ Len(log') = Len(log) + 1 /\ DOMAIN log' = 1 .. Len(log) + 1
      /\ \A i \in 1 .. Len(log) : log'[i] = log[i]
      /\ log'[Len(log) + 1] = r
  BY <1>1, <1>2, Appended
<1>4. Clean'
  BY <1>2, <1>3, LogIs DEF Clean
<1> QED BY <1>1, <1>3, <1>4

\* The memory, the disk and the place of the call are what they were.
LEMMA FrameKept ==
    ASSUME Clean /\ CallAtEnd /\ Stable /\ MemoryAgrees /\ PagesAgree,
           UNCHANGED <<log, synced, page, file, mem, pc, pos, call, isOpen, faults>>
    PROVE  Clean' /\ CallAtEnd' /\ Stable' /\ MemoryAgrees' /\ PagesAgree'
<1>1. Before' = Before /\ Logged' = Logged /\ Reach' = Reach /\ Cut' = Cut /\ Committing' = Committing
      /\ \A j : LoggedWrite(j)' = LoggedWrite(j)
  BY DEF Before, Logged, Reach, Cut, Committing, LoggedWrite
<1>2. CallAtEnd'
  BY <1>1 DEF CallAtEnd
<1> QED BY <1>1, <1>2 DEF Clean, Stable, MemoryAgrees, PagesAgree

LEMMA StagingSound ==
    ASSUME Intact', IInv, TypeOK',
           \/ Begin
           \/ \E t \in TxId : \/ \E k \in Key, v \in Val \cup {NoVal} : Stage(t, k, v)
                              \/ Rollback(t) \/ CommitNothing(t)
    PROVE  IInv'
<1> USE DEF IInv
<1>1. /\ UNCHANGED <<log, synced, page, file, mem, pc, pos, call, isOpen, faults>>
      /\ pc = "idle" /\ nextTx' >= nextTx
  <2>1. nextTx \in Nat
    BY BoundsAssumption DEF TypeOK
  <2>2. Usable
    BY DEF Begin, Stage, Rollback, CommitNothing
  <2>3. pc = "idle"
    BY <2>2 DEF Usable
  <2>4. nextTx' >= nextTx
    <3>1. nextTx' = nextTx \/ nextTx' = nextTx + 1
      BY DEF Begin, Stage, Rollback, CommitNothing, handle
    <3> QED BY <2>1, <3>1
  <2>5. UNCHANGED <<log, synced, page, file, mem, pc, pos, call, isOpen, faults>>
    BY DEF Begin, Stage, Rollback, CommitNothing, disk, handle
  <2> QED BY <2>3, <2>4, <2>5
<1>2. Phases'
  BY <1>1 DEF Phases, Committing
<1>3. ASSUME isOpen PROVE IdsFresh'
  <2>1. \A t \in TxId : tx'[t].state = "ACTIVE" =>
           /\ t < nextTx'
           /\ \A i \in DOMAIN log : log[i].tx # t
    <3>1. CASE Begin
      <4>1. nextTx \in TxId
        BY <3>1, BoundsAssumption DEF Begin, TypeOK, TxId
      <4>2. \A t \in TxId : t # nextTx => tx'[t] = tx[t]
        BY <3>1, <4>1 DEF Begin, TypeOK
      <4>3. \A i \in DOMAIN log : log[i].tx < nextTx /\ log[i].tx \in Nat
        BY <1>1, <1>3, Sizes, RecordIs, BoundsAssumption DEF IdsFresh, TxId
      <4> QED BY <1>1, <1>3, <3>1, <4>1, <4>2, <4>3, BoundsAssumption DEF IdsFresh, Begin, TxId, Committing
    <3>2. CASE \E t \in TxId : \/ \E k \in Key, v \in Val \cup {NoVal} : Stage(t, k, v)
                               \/ Rollback(t) \/ CommitNothing(t)
      <4>1. \A t \in TxId : tx'[t].state = "ACTIVE" => tx[t].state = "ACTIVE"
        BY <3>2 DEF Stage, Rollback, CommitNothing, TypeOK, Transaction
      <4>2. nextTx' = nextTx
        BY <3>2 DEF Stage, Rollback, CommitNothing, handle
      <4> QED BY <1>1, <1>3, <4>1, <4>2 DEF IdsFresh, Committing
    <3> QED BY <3>1, <3>2
  <2>2. \A i \in DOMAIN log : log[i].tx < nextTx'
    BY <1>1, <1>3, Sizes, RecordIs, BoundsAssumption DEF IdsFresh, TxId, TypeOK
  <2> QED BY <1>1, <1>3, <2>1, <2>2 DEF IdsFresh, Committing
<1>4. ASSUME ~isOpen PROVE IdsFresh'
  <2>1. ~isOpen'
    BY <1>1, <1>4, Zenon
  <2> QED BY <2>1 DEF IdsFresh
<1>5. IdsFresh'
  BY <1>3, <1>4
<1> QED BY <1>1, <1>2, <1>5, FrameKept

\* A commit begins behind everything that is logged.
LEMMA SubmitSound ==
    ASSUME Intact', IInv, TypeOK',
           \/ \E t \in TxId : Commit(t)
           \/ \E k \in Key, v \in Val \cup {NoVal} : AutoCommit(k, v)
    PROVE  IInv'
<1> USE DEF IInv
<1>1. /\ UNCHANGED <<log, synced, page, file, mem, tx, isOpen, faults>>
      /\ pc = "idle" /\ isOpen /\ pc' = "append" /\ pos' = 1
  <2>1. isOpen
    BY DEF Commit, AutoCommit, Intact
  <2> QED BY <2>1 DEF Commit, AutoCommit, Usable, disk, handle
<1>2. /\ call'.tx \in TxId /\ call'.tx < nextTx' /\ call'.ops # << >>
      /\ nextTx \in Nat /\ nextTx' \in Nat /\ nextTx' >= nextTx
      /\ \A i \in DOMAIN log : log[i].tx # call'.tx
      /\ IF call'.auto THEN tx[call'.tx].state # "ACTIVE"
         ELSE tx[call'.tx].state = "ACTIVE" /\ tx[call'.tx].ops = call'.ops
  <2>1. ASSUME NEW t \in TxId, Commit(t)
        PROVE  /\ call'.tx = t /\ call'.ops = tx[t].ops /\ ~call'.auto /\ call'.ops # << >>
               /\ tx[t].state = "ACTIVE" /\ nextTx' = nextTx
    BY <2>1 DEF Commit, handle
  <2>2. ASSUME NEW k \in Key, NEW v \in Val \cup {NoVal}, AutoCommit(k, v)
        PROVE  /\ call'.tx = nextTx /\ call'.auto /\ call'.ops # << >> /\ nextTx' = nextTx + 1
               /\ nextTx \in TxId
    <3>1. nextTx \in TxId /\ nextTx' = nextTx + 1
      BY <2>2, BoundsAssumption DEF AutoCommit, TypeOK, TxId
    <3>2. <<[key |-> k, val |-> v]>> # << >>
      OBVIOUS
    <3> QED BY <2>2, <3>1, <3>2 DEF AutoCommit
  <2>3. \A i \in DOMAIN log : log[i].tx < nextTx /\ log[i].tx \in Nat
    BY <1>1, Sizes, RecordIs, BoundsAssumption DEF IdsFresh, TxId
  <2>4. \A t \in TxId : tx[t].state = "ACTIVE" => t < nextTx /\ \A i \in DOMAIN log : log[i].tx # t
    BY <1>1 DEF IdsFresh, Committing
  <2>5. nextTx \in Nat
    BY BoundsAssumption DEF TypeOK
  <2>6. CASE \E t \in TxId : Commit(t)
    BY <2>1, <2>4, <2>5, <2>6
  <2>7. CASE \E k \in Key, v \in Val \cup {NoVal} : AutoCommit(k, v)
    BY <2>2, <2>3, <2>4, <2>5, <2>7
  <2> QED BY <2>6, <2>7
<1>3. /\ Len(log) \in Nat /\ DOMAIN log = 1 .. Len(log) /\ synced \in Nat
      /\ Len(call'.ops) \in Nat
  BY Sizes, CallIs, LenProperties DEF TypeOK
<1>4. Before' = Len(log) /\ Logged' = 0 /\ Reach' = Len(log) + 1 /\ Reach = Len(log) + 1
      /\ Committing' /\ ~Committing /\ Cut' = Cut
  BY <1>1, <1>3 DEF Before, Logged, Reach, Committing, Cut
<1>5. Phases'
  BY <1>1, <1>2, <1>3, <1>4 DEF Phases, Committing
<1>6. Clean' /\ MemoryAgrees' /\ PagesAgree'
  BY <1>1, <1>4 DEF Clean, MemoryAgrees, PagesAgree
<1>7. IdsFresh'
  <2>1. \A i \in DOMAIN log : log[i].tx < nextTx'
    BY <1>1, <1>2, Sizes, RecordIs, BoundsAssumption DEF IdsFresh, TxId, TypeOK
  <2>2. \A t \in TxId : tx[t].state = "ACTIVE" => t < nextTx' /\ \A i \in DOMAIN log : log[i].tx # t
    <3>1. \A t \in TxId : tx[t].state = "ACTIVE" => t < nextTx /\ \A i \in DOMAIN log : log[i].tx # t
      BY <1>1, <1>4 DEF IdsFresh
    <3>2. \A t \in TxId : t \in Nat
      BY BoundsAssumption DEF TxId
    <3> QED BY <1>2, <3>1, <3>2
  <2> QED BY <1>1, <1>2, <2>1, <2>2 DEF IdsFresh
<1>8. CallAtEnd' /\ Stable'
  <2>1. Stable'
    BY <1>1, <1>3, <1>4 DEF Stable
  <2>2. \A i \in 1 .. Before' : log'[i].tx # call'.tx
    BY <1>1, <1>2, <1>3, <1>4
  <2>3. \A j \in 1 .. Logged' : FALSE
    BY <1>4
  <2>4. Before' >= 0 /\ pc' = "append"
    BY <1>1, <1>3, <1>4
  <2> QED BY <2>1, <2>2, <2>3, <2>4 DEF CallAtEnd
<1> QED BY <1>5, <1>6, <1>7, <1>8

-------------------------------------------------------------------------------
\* The steps of a commit

\* What the log holds while a call is being committed: the records before it,
\* its writes, and its commit record.
LEMMA WriteLogged ==
    \A j : /\ LoggedWrite(j).type = "write" /\ LoggedWrite(j).tx = call.tx
           /\ LoggedWrite(j).key = call.ops[j].key /\ LoggedWrite(j).val = call.ops[j].val
BY DEF LoggedWrite

LEMMA CallInLog ==
    ASSUME IInv, Committing
    PROVE  /\ Before \in Nat /\ Logged \in Nat /\ Logged <= Len(call.ops)
           /\ Len(log) = Before + Logged + (IF pc = "append" THEN 0 ELSE 1)
           /\ \A i \in 1 .. Before : log[i].tx # call.tx
           /\ \A j \in 1 .. Logged : log[Before + j].type = "write" /\ log[Before + j].tx = call.tx
           /\ CommittedIn(log, Before + Logged) = CommittedIn(log, Before)
           /\ ReplayedIn(log, Before + Logged) = ReplayedIn(log, Before)
           /\ call.tx \notin CommittedIn(log, Before)
           /\ pc # "append" =>
                /\ CommittedIn(log, Len(log)) = CommittedIn(log, Before) \cup {call.tx}
                /\ ReplayedIn(log, Len(log)) =
                       ReplayedIn(log, Before) \cup ((Before + 1) .. (Before + Len(call.ops)))
<1> USE DEF IInv
<1>1. PICK L \in Nat, n \in Nat : L = Len(log) /\ n = Len(call.ops) /\ pos \in Nat /\ pos >= 1
  BY Sizes
<1>2. pc = "append" => pos <= n + 1
  BY <1>1 DEF Phases
<1>3. PICK b, m : b = Before /\ m = Logged
  OBVIOUS
<1>4. /\ b \in Nat /\ m \in Nat /\ m <= n
      /\ L = b + m + (IF pc = "append" THEN 0 ELSE 1)
      /\ pc # "append" => m = n
  <2>1. b >= 0
    BY <1>3 DEF CallAtEnd
  <2> QED BY <1>1, <1>2, <1>3, <2>1 DEF Before, Logged
<1>5. \A i \in 1 .. b : log[i].tx # call.tx
  BY <1>3 DEF CallAtEnd
<1>6. \A j \in 1 .. m : log[b + j].type = "write" /\ log[b + j].tx = call.tx
  <2>1. \A j \in 1 .. m : log[b + j] = LoggedWrite(j)
    BY <1>3 DEF CallAtEnd
  <2> QED BY <2>1, WriteLogged
<1>7. b + m \in b .. b + m
  BY <1>4
<1>8. /\ CommittedIn(log, b + m) = CommittedIn(log, b)
      /\ ReplayedIn(log, b + m) = ReplayedIn(log, b)
      /\ call.tx \notin CommittedIn(log, b)
      /\ log[b + m + 1].type = "commit" /\ log[b + m + 1].tx = call.tx =>
                /\ CommittedIn(log, b + m + 1) = CommittedIn(log, b) \cup {call.tx}
                /\ ReplayedIn(log, b + m + 1) = ReplayedIn(log, b) \cup ((b + 1) .. (b + m))
  <2>1. PICK l, t : l = log /\ t = call.tx
    OBVIOUS
  <2>2. CallAt(l, b, m, t)
    BY <1>5, <1>6, <2>1 DEF CallAt
  <2>3. /\ \A n0 \in b .. b + m : CommittedIn(l, n0) = CommittedIn(l, b)
                                 /\ ReplayedIn(l, n0) = ReplayedIn(l, b)
        /\ t \notin CommittedIn(l, b)
        /\ l[b + m + 1].type = "commit" /\ l[b + m + 1].tx = t =>
             /\ CommittedIn(l, b + m + 1) = CommittedIn(l, b) \cup {t}
             /\ ReplayedIn(l, b + m + 1) = ReplayedIn(l, b) \cup ((b + 1) .. (b + m))
    <3>1. b \in Nat /\ m \in Nat
      BY <1>4
    <3> QED BY <2>2, <3>1, CallReplayed
  <2> QED BY <1>7, <2>1, <2>3
<1>9. pc # "append" => log[b + m + 1].type = "commit" /\ log[b + m + 1].tx = call.tx
  <2>1. pc # "append" => log[L] = Mark("commit", call.tx) /\ L = b + m + 1
    BY <1>1, <1>4 DEF CallAtEnd
  <2>2. call.tx \in TxId
    BY DEF Phases
  <2> QED BY <2>1, <2>2, MarksAre
<1> QED BY <1>1, <1>3, <1>4, <1>5, <1>6, <1>8, <1>9

LEMMA AppendOpsSound ==
    ASSUME Intact', IInv, TypeOK', AppendOps
    PROVE  IInv'
<1> USE DEF IInv
<1>1. /\ UNCHANGED <<synced, page, file, mem, pc, call, tx, nextTx, isOpen, closing, faults>>
      /\ pc = "append" /\ pos' = pos + 1 /\ Committing /\ Committing' /\ isOpen
  BY SMTT(30) DEF AppendOps, handle, Committing, Phases
<1>2. PICK L \in Nat, n \in Nat : /\ L = Len(log) /\ n = Len(call.ops) /\ pos \in 1 .. n
                                  /\ DOMAIN log = 1 .. L /\ synced \in Nat /\ synced <= L
  <2>1. pos <= Len(call.ops)
    BY DEF AppendOps
  <2>2. pos \in 1 .. Len(call.ops)
    BY <2>1, Sizes
  <2> QED BY <2>2, Sizes
<1>3. LoggedWrite(pos) \in Record /\ LoggedWrite(pos) # Torn
  <2>1. call.tx \in TxId
    BY <1>1 DEF Phases
  <2> QED BY <1>2, <2>1, Sizes, OpIs DEF LoggedWrite, Torn, Mark
<1>4. /\ Len(log') = L + 1 /\ DOMAIN log' = 1 .. L + 1
      /\ \A i \in 1 .. L : log'[i] = log[i]
      /\ log'[L + 1] = LoggedWrite(pos)
      /\ Clean'
  <2>1. AppendRecord(LoggedWrite(pos))
    BY DEF AppendOps, LoggedWrite
  <2>2. PICK r : r = LoggedWrite(pos)
    OBVIOUS
  <2>3. /\ Len(log') = Len(log) + 1 /\ DOMAIN log' = 1 .. Len(log) + 1
        /\ \A i \in 1 .. Len(log) : log'[i] = log[i]
        /\ log'[Len(log) + 1] = r
        /\ Clean'
    BY <1>1, <1>3, <2>1, <2>2, AppendsOne
  <2> QED BY <1>2, <2>2, <2>3
<1>5. PICK b \in Nat : b = Before /\ b = L - pos + 1 /\ Logged = pos - 1
  BY <1>1, <1>2, CallInLog DEF Before, Logged
<1>6. Before' = b /\ Logged' = pos /\ Reach' = L + 2 /\ Reach = L + 1 /\ Cut' = Cut
      /\ \A j : LoggedWrite(j)' = LoggedWrite(j)
  BY <1>1, <1>2, <1>4, <1>5 DEF Before, Logged, Reach, Cut, LoggedWrite
<1>7. Phases'
  BY <1>1, <1>2 DEF Phases, Committing
<1>8. CallAtEnd'
  <2>1. \A i \in 1 .. b : log'[i].tx # call.tx
    BY <1>1, <1>2, <1>4, <1>5 DEF CallAtEnd
  <2>2. ASSUME NEW j \in 1 .. pos PROVE log'[b + j] = LoggedWrite(j)
    <3>1. CASE j = pos
      BY <1>2, <1>4, <1>5, <3>1
    <3>2. CASE j # pos
      <4>1. j \in 1 .. pos - 1 /\ b + j \in 1 .. L
        BY <1>2, <1>5, <3>2
      <4> QED BY <1>1, <1>4, <1>5, <4>1 DEF CallAtEnd
    <3> QED BY <3>1, <3>2
  <2> QED BY <1>1, <1>5, <1>6, <2>1, <2>2 DEF CallAtEnd
<1>9. ReplayedIn(log', L + 1) = ReplayedIn(log, L) /\ ReplayedIn(log', synced) = ReplayedIn(log, synced)
      /\ ReplayedIn(log, L) \in SUBSET (1 .. L)
  <2>1. PICK k, l, t : k = log' /\ l = log /\ t = call.tx
    OBVIOUS
  <2>2. \A i \in 1 .. b : k[i].tx # t
    BY <1>1, <1>6, <1>8, <2>1 DEF CallAtEnd
  <2>3. \A j \in 1 .. pos : k[b + j].type = "write" /\ k[b + j].tx = t
    <3>1. \A j \in 1 .. pos : k[b + j] = LoggedWrite(j)
      BY <1>1, <1>6, <1>8, <2>1 DEF CallAtEnd
    <3> QED BY <2>1, <3>1, WriteLogged
  <2>4. ReplayedIn(k, b + pos) = ReplayedIn(k, b) /\ ReplayedIn(k, b + (pos - 1)) = ReplayedIn(k, b)
    <3>1. pos \in Nat /\ b + pos \in b .. b + pos /\ b + (pos - 1) \in b .. b + pos
      BY <1>2
    <3>2. \A n0 \in b .. b + pos : ReplayedIn(k, n0) = ReplayedIn(k, b)
      <4>1. PICK p \in Nat : p = pos
        BY <3>1
      <4>2. CallAt(k, b, p, t)
        BY <2>2, <2>3, <4>1 DEF CallAt
      <4>3. \A n0 \in b .. b + p : ReplayedIn(k, n0) = ReplayedIn(k, b)
        BY <4>2, CallUnread
      <4> QED BY <4>1, <4>3
    <3> QED BY <3>1, <3>2
  <2>5. ReplayedIn(k, L) = ReplayedIn(l, L) /\ ReplayedIn(k, synced) = ReplayedIn(l, synced)
    <3>1. \A i \in 1 .. synced : i \in 1 .. L
      BY <1>2
    <3> QED BY <1>2, <1>4, <2>1, <3>1, SamePrefix
  <2>6. b + pos = L + 1 /\ b + (pos - 1) = L
    BY <1>2, <1>5
  <2> QED BY <2>1, <2>4, <2>5, <2>6 DEF ReplayedIn
<1>10. MemoryAgrees'
  <2>1. Reached(log', Reach') = ReplayedIn(log, L) /\ Reached(log, Reach) = ReplayedIn(log, L)
    <3>1. \A i \in 1 .. L : i < L + 2 /\ i < L + 1
      BY <1>2
    <3> QED BY <1>2, <1>4, <1>6, <1>9, <3>1 DEF Reached
  <2>2. PICK l, k, R, s : l = log /\ k = log' /\ R = ReplayedIn(log, L) /\ s = file
    OBVIOUS
  <2>3. After(s, l, R) = After(s, k, R)
    <3>1. L \in Nat /\ R \in SUBSET (1 .. L) /\ \A i \in R : l[i] = k[i]
      BY <1>2, <1>4, <1>9, <2>2
    <3> QED BY <3>1, AfterSame
  <2> QED BY <1>1, <2>1, <2>2, <2>3 DEF MemoryAgrees
<1>11. PagesAgree'
  <2>1. \A i \in ReplayedIn(log, synced) : log'[i] = log[i]
    <3>1. \A i \in ReplayedIn(log, synced) : i \in 1 .. L
      BY <1>2 DEF ReplayedIn
    <3> QED BY <1>4, <3>1
  <2> QED BY <1>1, <1>6, <1>9, <2>1 DEF PagesAgree, Unhit
<1>12. IdsFresh' /\ Stable'
  <2>1. Stable'
    BY <1>1, <1>5, <1>6 DEF Stable
  <2>2. \A i \in 1 .. L + 1 : (i \in 1 .. L /\ log'[i] = log[i]) \/ log'[i].tx = call.tx
    BY <1>2, <1>4 DEF LoggedWrite
  <2>3. \A i \in DOMAIN log' : log'[i].tx < nextTx
    BY <1>1, <1>2, <1>4, <2>2 DEF IdsFresh, Phases
  <2>4. \A t \in TxId : tx[t].state = "ACTIVE" =>
           t < nextTx /\ \A i \in DOMAIN log' : log'[i].tx = t => call.tx = t
    BY <1>1, <1>2, <1>4, <2>2, SMTT(30) DEF IdsFresh
  <2>5. IdsFresh'
    BY <1>1, <2>3, <2>4 DEF IdsFresh
  <2> QED BY <2>1, <2>5
<1> QED BY <1>4, <1>7, <1>8, <1>10, <1>11, <1>12

LEMMA AppendCommitSound ==
    ASSUME Intact', IInv, TypeOK', AppendCommit
    PROVE  IInv'
<1> USE DEF IInv
<1>1. /\ UNCHANGED <<synced, page, file, mem, pos, call, tx, nextTx, isOpen, closing, faults>>
      /\ pc = "append" /\ pc' = "sync" /\ Committing /\ Committing' /\ isOpen
  BY DEF AppendCommit, handle, Committing, Phases
<1>2. PICK L \in Nat, n \in Nat : /\ L = Len(log) /\ n = Len(call.ops) /\ pos = n + 1
                                  /\ DOMAIN log = 1 .. L /\ synced \in Nat /\ synced <= L
  <2>1. pos <= Len(call.ops) + 1
    BY <1>1 DEF Phases
  <2>2. pos = Len(call.ops) + 1
    BY <2>1, Sizes DEF AppendCommit
  <2> QED BY <2>2, Sizes
<1>3. call.tx \in TxId
  BY <1>1 DEF Phases
<1>4. /\ Len(log') = L + 1 /\ DOMAIN log' = 1 .. L + 1
      /\ \A i \in 1 .. L : log'[i] = log[i]
      /\ log'[L + 1] = Mark("commit", call.tx)
      /\ log'[L + 1].type = "commit" /\ log'[L + 1].tx = call.tx
      /\ Clean'
  <2>1. PICK r : r = Mark("commit", call.tx)
    OBVIOUS
  <2>2. r \in Record /\ r # Torn /\ r.type = "commit" /\ r.tx = call.tx
    BY <1>3, <2>1, MarksAre
  <2>3. AppendRecord(r)
    BY <2>1 DEF AppendCommit
  <2>4. /\ Len(log') = Len(log) + 1 /\ DOMAIN log' = 1 .. Len(log) + 1
        /\ \A i \in 1 .. Len(log) : log'[i] = log[i]
        /\ log'[Len(log) + 1] = r
        /\ Clean'
    BY <1>1, <2>2, <2>3, AppendsOne
  <2> QED BY <1>2, <2>1, <2>2, <2>4
<1>5. PICK b \in Nat : b = Before /\ b = L - n /\ Logged = n
  <2>1. Before \in Nat
    BY <1>1, CallInLog
  <2>2. Before = L - (n + 1) + 1 /\ Logged = n + 1 - 1
    BY <1>1, <1>2 DEF Before, Logged
  <2> QED BY <2>1, <2>2
<1>6. Before' = b /\ Logged' = n /\ Reach' = b + 1 /\ Reach = L + 1 /\ Cut' = Cut
      /\ \A j : LoggedWrite(j)' = LoggedWrite(j)
  BY <1>1, <1>2, <1>4, <1>5 DEF Before, Logged, Reach, Cut, LoggedWrite
<1>7. Phases'
  BY <1>1, <1>2 DEF Phases, Committing
<1>8. CallAtEnd'
  <2>1. \A i \in 1 .. b : log'[i].tx # call.tx
    BY <1>1, <1>2, <1>4, <1>5 DEF CallAtEnd
  <2>2. ASSUME NEW j \in 1 .. n PROVE log'[b + j] = LoggedWrite(j)
    <3>1. b + j \in 1 .. L
      BY <1>2, <1>5
    <3> QED BY <1>1, <1>4, <1>5, <3>1 DEF CallAtEnd
  <2> QED BY <1>1, <1>4, <1>5, <1>6, <2>1, <2>2 DEF CallAtEnd
<1>9. /\ ReplayedIn(log, L) = ReplayedIn(log, b)
      /\ ReplayedIn(log', L + 1) = ReplayedIn(log, b) \cup ((b + 1) .. (b + n))
      /\ ReplayedIn(log', synced) = ReplayedIn(log, synced)
  <2>1. PICK k, l, t : k = log' /\ l = log /\ t = call.tx
    OBVIOUS
  <2>2. b + n = L /\ b + n + 1 = L + 1
    BY <1>2, <1>5
  <2>3. CallAt(k, b, n, t)
    <3>1. \A j \in 1 .. n : k[b + j] = LoggedWrite(j)
      BY <1>1, <1>6, <1>8, <2>1 DEF CallAtEnd
    <3>2. \A i \in 1 .. b : k[i].tx # t
      BY <1>1, <1>6, <1>8, <2>1 DEF CallAtEnd
    <3> QED BY <2>1, <3>1, <3>2, WriteLogged DEF CallAt
  <2>4. ReplayedIn(k, b + n + 1) = ReplayedIn(k, b) \cup ((b + 1) .. (b + n))
    <3>1. k[b + n + 1].type = "commit" /\ k[b + n + 1].tx = t
      BY <1>4, <2>1, <2>2
    <3>2. PICK m \in Nat : m = n
      OBVIOUS
    <3>3. CallAt(k, b, m, t) /\ k[b + m + 1].type = "commit" /\ k[b + m + 1].tx = t
      BY <2>3, <3>1, <3>2
    <3>4. ReplayedIn(k, b + m + 1) = ReplayedIn(k, b) \cup ((b + 1) .. (b + m))
      BY <3>3, CallRead
    <3> QED BY <3>2, <3>4
  <2>5. ReplayedIn(k, b) = ReplayedIn(l, b) /\ ReplayedIn(k, synced) = ReplayedIn(l, synced)
    <3>1. (\A i \in 1 .. synced : i \in 1 .. L) /\ \A i \in 1 .. b : i \in 1 .. L
      BY <1>2, <2>2
    <3> QED BY <1>2, <1>4, <2>1, <3>1, SamePrefix
  <2>6. ReplayedIn(l, L) = ReplayedIn(l, b)
    BY <1>1, <1>5, <2>1, <2>2, CallInLog
  <2> QED BY <2>1, <2>2, <2>4, <2>5, <2>6
<1>10. MemoryAgrees'
  <2>1. \A i \in ReplayedIn(log, b) : i \in 1 .. L /\ i < b + 1 /\ i < L + 1
    <3>1. b <= L
      BY <1>2, <1>5
    <3>2. \A i \in 1 .. b : i \in 1 .. L /\ i < b + 1 /\ i < L + 1
      BY <3>1
    <3> QED BY <3>2 DEF ReplayedIn
  <2>2. Reached(log', Reach') = ReplayedIn(log, b) /\ Reached(log, Reach) = ReplayedIn(log, b)
    <3>1. \A i \in (b + 1) .. (b + n) : ~ (i < b + 1)
      OBVIOUS
    <3> QED BY <1>2, <1>4, <1>6, <1>9, <2>1, <3>1 DEF Reached
  <2>3. PICK l, k, R, s : l = log /\ k = log' /\ R = ReplayedIn(log, b) /\ s = file
    OBVIOUS
  <2>4. R \in SUBSET (1 .. L) /\ \A i \in R : l[i] = k[i]
    BY <1>4, <2>1, <2>3
  <2>5. After(s, l, R) = After(s, k, R)
    BY <2>4, AfterSame
  <2> QED BY <1>1, <2>2, <2>3, <2>5 DEF MemoryAgrees
<1>11. PagesAgree'
  <2>1. \A i \in ReplayedIn(log, synced) : log'[i] = log[i]
    <3>1. \A i \in ReplayedIn(log, synced) : i \in 1 .. L
      BY <1>2 DEF ReplayedIn
    <3> QED BY <1>4, <3>1
  <2> QED BY <1>1, <1>6, <1>9, <2>1 DEF PagesAgree, Unhit
<1>12. IdsFresh' /\ Stable'
  <2>1. Stable'
    BY <1>1, <1>5, <1>6 DEF Stable
  <2>2. \A i \in 1 .. L + 1 : (i \in 1 .. L /\ log'[i] = log[i]) \/ log'[i].tx = call.tx
    BY <1>2, <1>4
  <2>3. \A i \in DOMAIN log' : log'[i].tx < nextTx
    BY <1>1, <1>2, <1>4, <2>2 DEF IdsFresh, Phases
  <2>4. \A t \in TxId : tx[t].state = "ACTIVE" =>
           t < nextTx /\ \A i \in DOMAIN log' : log'[i].tx = t => call.tx = t
    BY <1>1, <1>2, <1>4, <2>2 DEF IdsFresh
  <2>5. IdsFresh'
    BY <1>1, <2>3, <2>4 DEF IdsFresh
  <2> QED BY <2>1, <2>5
<1> QED BY <1>4, <1>7, <1>8, <1>10, <1>11, <1>12

\* A page untouched by the whole log is untouched by a part of it.
LEMMA UnhitBefore ==
    ASSUME NEW l, NEW n \in Nat, NEW m \in Nat, n <= m, NEW k, Unhit(l, k, ReplayedIn(l, m))
    PROVE  Unhit(l, k, ReplayedIn(l, n))
BY ReplayedGrows DEF Unhit

LEMMA SyncSound ==
    ASSUME Intact', IInv, TypeOK', Sync
    PROVE  IInv'
<1> USE DEF IInv
<1>1. /\ UNCHANGED <<log, page, file, mem, call, tx, nextTx, isOpen, closing, faults>>
      /\ pc = "sync" /\ pc' = "apply" /\ pos' = 1 /\ synced' = Len(log)
      /\ Committing /\ Committing' /\ isOpen
  <2>1. Committing /\ Committing' /\ isOpen
    BY DEF Sync, Committing, Phases
  <2> QED BY <2>1 DEF Sync, handle
<1>2. /\ Len(log) \in Nat /\ synced \in Nat /\ synced <= Len(log) /\ Len(call.ops) \in Nat
      /\ Before \in Nat
  BY <1>1, Sizes, CallInLog
<1>3. /\ Before' = Before /\ Logged' = Logged /\ Cut' = Cut
      /\ Reach' = Reach
      /\ \A j : LoggedWrite(j)' = LoggedWrite(j)
  BY <1>1, <1>2 DEF Before, Logged, Reach, Cut, LoggedWrite
<1>4. Phases' /\ Clean' /\ IdsFresh' /\ Stable'
  BY <1>1, <1>2 DEF Phases, Committing, Clean, IdsFresh, Stable
<1>5. CallAtEnd'
  BY <1>1, <1>3 DEF CallAtEnd
<1>6. MemoryAgrees'
  BY <1>1, <1>3 DEF MemoryAgrees
<1>7. PagesAgree'
  <2>1. \A k : Unhit(log, k, ReplayedIn(log, Len(log))) => Unhit(log, k, ReplayedIn(log, synced))
    BY <1>2, UnhitBefore
  <2> QED BY <1>1, <1>3, <2>1 DEF PagesAgree
<1> QED BY <1>4, <1>5, <1>6, <1>7

LEMMA ApplySound ==
    ASSUME Intact', IInv, TypeOK', Apply
    PROVE  IInv'
<1> USE DEF IInv
<1>1. /\ UNCHANGED <<log, synced, page, file, pc, call, tx, nextTx, isOpen, closing, faults>>
      /\ pc = "apply" /\ pos' = pos + 1
      /\ mem' = [mem EXCEPT ![call.ops[pos].key] = call.ops[pos].val]
      /\ Committing /\ Committing' /\ isOpen
  <2>1. Committing /\ Committing' /\ isOpen
    BY DEF Apply, Committing, Phases
  <2>2. mem' = [mem EXCEPT ![call.ops[pos].key] = call.ops[pos].val]
    BY DEF Apply, ChangeTree, Intact
  <2> QED BY <2>1, <2>2 DEF Apply, disk, handle
<1>2. PICK L \in Nat, n \in Nat, b \in Nat, p \in Nat :
         /\ L = Len(log) /\ n = Len(call.ops) /\ b = Before /\ p = pos /\ p \in 1 .. n
         /\ L = b + n + 1
  <2>1. pos <= Len(call.ops)
    BY DEF Apply
  <2>2. pos \in 1 .. Len(call.ops)
    BY <2>1, Sizes
  <2>3. Before \in Nat /\ Len(log) = Before + Len(call.ops) + 1
    BY <1>1, CallInLog DEF Logged
  <2> QED BY <2>2, <2>3, Sizes
<1>3. /\ Before' = Before /\ Logged' = Logged /\ Cut' = Cut
      /\ Reach = b + p /\ Reach' = b + p + 1
      /\ \A j : LoggedWrite(j)' = LoggedWrite(j)
  BY <1>1, <1>2 DEF Before, Logged, Reach, Cut, LoggedWrite
<1>4. Phases' /\ Clean' /\ IdsFresh' /\ Stable'
  <2>1. Phases'
    BY <1>1, <1>2 DEF Phases, Committing
  <2>2. Clean' /\ Stable'
    BY <1>1, <1>3 DEF Clean, Stable
  <2>3. IdsFresh'
    BY <1>1 DEF IdsFresh
  <2> QED BY <2>1, <2>2, <2>3
<1>5. CallAtEnd'
  BY <1>1, <1>3 DEF CallAtEnd
<1>6. MemoryAgrees'
  <2>1. log[b + p].key = call.ops[p].key /\ log[b + p].val = call.ops[p].val
    <3>1. log[b + p] = LoggedWrite(p)
      BY <1>1, <1>2 DEF CallAtEnd, Logged
    <3> QED BY <3>1, WriteLogged
  <2>2. PICK I, l, s : I = Reached(log, b + p) /\ l = log /\ s = file
    OBVIOUS
  <2>3. b + p \in ReplayedIn(log, L) /\ ReplayedIn(log, L) \in SUBSET (1 .. L)
    <3>1. b + p \in (b + 1) .. (b + n)
      BY <1>2
    <3>2. ReplayedIn(log, L) = ReplayedIn(log, b) \cup ((b + 1) .. (b + n))
      BY <1>1, <1>2, CallInLog
    <3> QED BY <3>1, <3>2 DEF ReplayedIn
  <2>4. Reached(log, b + p + 1) = I \cup {b + p}
    <3>1. \A i \in 1 .. L : i < b + p + 1 <=> i < b + p \/ i = b + p
      BY <1>2
    <3> QED BY <1>2, <2>2, <2>3, <3>1 DEF Reached
  <2>5. I \in SUBSET (1 .. L) /\ \A j \in I : j < b + p
    BY <1>2, <2>2, <2>3 DEF Reached
  <2>6. After(s, l, I \cup {b + p}) = [After(s, l, I) EXCEPT ![l[b + p].key] = l[b + p].val]
    <3>1. PICK i \in Int : i = b + p
      BY <1>2
    <3>2. \A j \in I : j < i
      BY <2>5, <3>1
    <3>3. Grows(s, l, I, i)
      BY <2>5, <3>2, AfterGrows, Zenon
    <3>4. After(s, l, I \cup {i}) = [After(s, l, I) EXCEPT ![l[i].key] = l[i].val]
      BY <3>3, Zenon DEF Grows
    <3> QED BY <3>1, <3>4
  <2> QED BY <1>1, <1>2, <1>3, <2>1, <2>2, <2>4, <2>6 DEF MemoryAgrees
<1>7. PagesAgree'
  BY <1>1, <1>3 DEF PagesAgree
<1> QED BY <1>4, <1>5, <1>6, <1>7

\* When all of its writes are applied the tree has everything that is logged.
LEMMA AppliedAll ==
    ASSUME IInv, pc = "apply", pos > Len(call.ops)
    PROVE  Reached(log, Reach) = ReplayedIn(log, Len(log)) /\ pos = Len(call.ops) + 1
<1> USE DEF IInv
<1>1. pos = Len(call.ops) + 1
  <2>1. pos <= Len(call.ops) + 1
    BY DEF Phases
  <2> QED BY <2>1, Sizes
<1>2. PICK L \in Nat, n \in Nat, b \in Nat : /\ L = Len(log) /\ n = Len(call.ops) /\ b = Before
                                             /\ L = b + n + 1
  <2>1. Before \in Nat /\ Len(log) = Before + Len(call.ops) + 1
    BY CallInLog DEF Logged, Committing
  <2> QED BY <2>1, Sizes
<1>3. Reach = L
  BY <1>1, <1>2 DEF Reach
<1>4. ReplayedIn(log, L) = ReplayedIn(log, b) \cup ((b + 1) .. (b + n))
  BY <1>2, CallInLog DEF Committing
<1>5. \A i \in ReplayedIn(log, b) \cup ((b + 1) .. (b + n)) : i < L
  BY <1>2 DEF ReplayedIn
<1> QED BY <1>1, <1>2, <1>3, <1>4, <1>5 DEF Reached

LEMMA FinishSound ==
    ASSUME Intact', IInv, TypeOK', FinishTx \/ FinishAuto
    PROVE  IInv'
<1> USE DEF IInv
<1>1. /\ UNCHANGED <<log, synced, page, file, mem, pos, nextTx, isOpen, closing, faults>>
      /\ pc = "apply" /\ pos > Len(call.ops) /\ Committing /\ ~Committing' /\ isOpen
      /\ (pc' = "idle" /\ call' = NoCall) \/ (pc' = "flush" /\ call' = call)
  <2>1. Committing /\ isOpen
    BY DEF FinishTx, FinishAuto, Committing, Phases
  <2> QED BY <2>1 DEF FinishTx, FinishAuto, disk, handle, Committing
<1>2. Len(log) \in Nat
  BY Sizes
<1>3. Reach' = Len(log) + 1 /\ Cut' = Cut
  BY <1>1 DEF Reach, Cut
<1>4. Phases'
  BY <1>1 DEF Phases
<1>5. IdsFresh'
  <2>1. \A t \in TxId : tx'[t].state = "ACTIVE" => tx[t].state = "ACTIVE" /\ t # call.tx
    <3>1. call.tx \in TxId
      BY <1>1 DEF Phases
    <3>2. CASE FinishTx
      BY <3>1, <3>2 DEF FinishTx, TypeOK, Transaction
    <3>3. CASE FinishAuto
      BY <1>1, <3>1, <3>3 DEF FinishAuto, IdsFresh
    <3> QED BY <3>2, <3>3
  <2> QED BY <1>1, <2>1 DEF IdsFresh
<1>6. Clean' /\ CallAtEnd' /\ Stable' /\ PagesAgree'
  BY <1>1, <1>3 DEF Clean, CallAtEnd, Stable, PagesAgree
<1>7. MemoryAgrees'
  <2>1. Reached(log, Reach) = ReplayedIn(log, Len(log))
    BY <1>1, AppliedAll
  <2>2. Reached(log, Len(log) + 1) = ReplayedIn(log, Len(log))
    <3>1. PICK l : l = log
      OBVIOUS
    <3> QED BY <1>2, <3>1, ReachedAll
  <2> QED BY <1>1, <1>3, <2>1, <2>2 DEF MemoryAgrees
<1> QED BY <1>4, <1>5, <1>6, <1>7

-------------------------------------------------------------------------------
\* Checkpoints

LEMMA FlushSound ==
    ASSUME Intact', IInv, TypeOK', (\E close \in BOOLEAN : StartCheckpoint(close)) \/ Flush
    PROVE  IInv'
<1> USE DEF IInv
<1>1. /\ UNCHANGED <<log, synced, mem, pos, call, tx, nextTx, isOpen, faults>>
      /\ isOpen /\ ~Committing /\ ~Committing' /\ Cut' = Cut
      /\ \/ pc = "idle" /\ pc' = "flush" /\ UNCHANGED <<page, file>>
         \/ pc = "flush" /\ pc' = "truncate" /\ page' = mem /\ file' = mem
  <2>1. CASE \E close \in BOOLEAN : StartCheckpoint(close)
    BY <2>1 DEF StartCheckpoint, disk, Committing, Cut
  <2>2. CASE Flush
    BY <2>2 DEF Flush, handle, Committing, Cut, Phases
  <2> QED BY <2>1, <2>2
<1>2. Phases' /\ CallAtEnd' /\ Stable'
  BY <1>1 DEF Phases, CallAtEnd, Stable
<1>3. Clean' /\ IdsFresh'
  BY <1>1 DEF Clean, IdsFresh
<1>4. PagesAgree'
  BY <1>1 DEF PagesAgree
<1>5. MemoryAgrees'
  <2>1. Reach' = Len(log) + 1 /\ Reach = Len(log) + 1
    BY <1>1 DEF Reach
  <2>2. PICK I, l, n : /\ l = log /\ n = Len(log) /\ I = Reached(log, Len(log) + 1)
    OBVIOUS
  <2>3. n \in Nat /\ I \in SUBSET (1 .. n)
    BY <2>2, Sizes, ReachedAll
  <2>4. PICK s : s = file
    OBVIOUS
  <2>5. After(After(s, l, I), l, I) = After(s, l, I)
    BY <2>3, AfterTwice
  <2> QED BY <1>1, <2>1, <2>2, <2>4, <2>5 DEF MemoryAgrees
<1> QED BY <1>2, <1>3, <1>4, <1>5

LEMMA NothingReplayed ==
    ASSUME NEW l, l = << >> \/ l = <<Mark("checkpoint", 0)>>
    PROVE  Len(l) \in Nat /\ ReplayedIn(l, Len(l)) = {} /\ \A r : Reached(l, r) = {}
<1>1. ReplayedIn(l, Len(l)) = {}
  <2>1. CASE l = << >>
    <3>1. Len(l) = 0
      BY <2>1, EmptySeq
    <3> QED BY <3>1 DEF ReplayedIn
  <2>2. CASE l = <<Mark("checkpoint", 0)>>
    <3>1. Len(l) = 1 /\ l[1].type = "checkpoint"
      BY <2>2 DEF Mark
    <3> QED BY <3>1 DEF ReplayedIn
  <2> QED BY <2>1, <2>2
<1>2. Len(l) \in Nat
  BY EmptySeq
<1> QED BY <1>1, <1>2 DEF Reached

LEMMA TruncateSound ==
    ASSUME Intact', IInv, TypeOK', Truncate \/ AppendCheckpoint \/ SyncCheckpoint
    PROVE  IInv'
<1> USE DEF IInv
<1>1. /\ UNCHANGED <<page, file, mem, pos, tx, nextTx, isOpen, faults>>
      /\ isOpen /\ ~Committing /\ ~Committing' /\ Cut' = Cut
      /\ page = mem /\ file = mem
      /\ call' = call \/ call' = NoCall
  <2>1. pc \in {"truncate", "mark", "marksync"} /\ pc' \in {"mark", "marksync", "close", "idle"}
    BY DEF Truncate, AppendCheckpoint, SyncCheckpoint
  <2> QED BY <2>1 DEF Truncate, AppendCheckpoint, SyncCheckpoint, handle, Committing, Cut, Phases
<1>2. log' = << >> \/ log' = <<Mark("checkpoint", 0)>>
  <2>1. CASE Truncate
    BY <2>1 DEF Truncate
  <2>2. CASE AppendCheckpoint
    <3>1. log = << >>
      BY <2>2 DEF AppendCheckpoint, Phases
    <3>2. PICK r : r = Mark("checkpoint", 0)
      OBVIOUS
    <3>3. r \in Record /\ r # Torn
      BY <3>2, MarksAre
    <3>4. log' = Append(log, r)
      BY <1>1, <2>2, <3>2, <3>3, AppendsOne DEF AppendCheckpoint
    <3> QED BY <3>1, <3>2, <3>4
  <2>3. CASE SyncCheckpoint
    BY <2>3 DEF SyncCheckpoint, Phases
  <2> QED BY <2>1, <2>2, <2>3
<1>3. /\ pc' = "mark" => log' = << >>
      /\ pc' = "marksync" => log' = <<Mark("checkpoint", 0)>>
      /\ pc' \in {"close", "idle"} => call' = NoCall /\ synced' = Len(log')
      /\ pc' \in {"mark", "marksync", "close", "idle"}
  <2>1. CASE Truncate
    BY <2>1 DEF Truncate
  <2>2. CASE AppendCheckpoint
    <3>1. log = << >>
      BY <2>2 DEF AppendCheckpoint, Phases
    <3>2. PICK r : r = Mark("checkpoint", 0)
      OBVIOUS
    <3>3. r \in Record /\ r # Torn
      BY <3>2, MarksAre
    <3>4. log' = Append(log, r)
      BY <1>1, <2>2, <3>2, <3>3, AppendsOne DEF AppendCheckpoint
    <3> QED BY <2>2, <3>1, <3>2, <3>4 DEF AppendCheckpoint
  <2>3. CASE SyncCheckpoint
    BY <2>3 DEF SyncCheckpoint
  <2> QED BY <2>1, <2>2, <2>3
<1>4. /\ DOMAIN log' = 1 .. Len(log') /\ Len(log') \in {0, 1}
      /\ \A i \in DOMAIN log' : log'[i].tx = 0 /\ log'[i] # Torn
  <2>1. CASE log' = << >>
    <3>1. Len(log') = 0 /\ DOMAIN log' = {}
      BY <2>1, EmptySeq
    <3> QED BY <3>1
  <2>2. CASE log' = <<Mark("checkpoint", 0)>>
    <3>1. Len(log') = 1 /\ DOMAIN log' = 1 .. 1 /\ log'[1] = Mark("checkpoint", 0)
      BY <2>2
    <3>2. \A i \in 1 .. 1 : i = 1
      OBVIOUS
    <3> QED BY <3>1, <3>2, MarksAre
  <2> QED BY <1>2, <2>1, <2>2
<1>5. Phases'
  BY <1>1, <1>3 DEF Phases
<1>6. Clean' /\ CallAtEnd' /\ Stable' /\ PagesAgree'
  BY <1>1, <1>3, <1>4 DEF Clean, CallAtEnd, Stable, PagesAgree
<1>7. IdsFresh'
  <2>1. \A t \in TxId : t # 0
    BY DEF TxId
  <2>2. 0 < nextTx
    BY BoundsAssumption DEF TypeOK
  <2>3. \A t \in TxId : tx[t].state = "ACTIVE" => t < nextTx
    BY <1>1 DEF IdsFresh
  <2> QED BY <1>1, <1>4, <2>1, <2>2, <2>3 DEF IdsFresh
<1>8. MemoryAgrees'
  <2>1. PICK l, r, s : l = log' /\ r = Reach' /\ s = mem
    OBVIOUS
  <2>2. Reached(l, r) = {}
    BY <1>2, <2>1, NothingReplayed
  <2>3. s \in Store
    BY <2>1 DEF TypeOK
  <2>4. After(s, l, {}) = s
    BY <2>3, AfterNothing
  <2> QED BY <1>1, <2>1, <2>2, <2>4 DEF MemoryAgrees
<1> QED BY <1>5, <1>6, <1>7, <1>8

LEMMA CloseSound ==
    ASSUME Intact', IInv, TypeOK', Close
    PROVE  IInv'
<1> USE DEF IInv
<1>1. /\ UNCHANGED <<log, mem, pos, call, tx, nextTx, faults>>
      /\ pc = "close" /\ pc' = "idle" /\ ~isOpen'
      /\ synced' = Len(log) /\ file' = mem /\ page' = mem
      /\ ~Committing' /\ Cut' = Cut
  <2>1. ~isOpen'
    BY Zenon DEF Close
  <2> QED BY <2>1 DEF Close, Committing, Cut
<1>2. Phases' /\ CallAtEnd' /\ Stable'
  BY <1>1 DEF Phases, CallAtEnd, Stable
<1>3. Clean' /\ IdsFresh' /\ PagesAgree' /\ MemoryAgrees'
  BY <1>1 DEF Clean, IdsFresh, PagesAgree, MemoryAgrees
<1> QED BY <1>2, <1>3

-------------------------------------------------------------------------------
\* Opening and recovery

LEMMA OpenSound ==
    ASSUME Intact', IInv, TypeOK', Open
    PROVE  IInv'
<1> USE DEF IInv
<1>1. /\ UNCHANGED <<log, synced, page, file, call, faults>>
      /\ mem' = file /\ pos' = 1 /\ tx' = NoTx /\ nextTx' = 1
      /\ pc = "down" \/ pc = "idle"
      /\ \/ log = << >> /\ pc' = "idle"
         \/ pc' = "redo" /\ ~isOpen'
      /\ ~Committing' /\ Cut' = Cut
  <2>1. Readable(log) = log
    <3>1. PICK l : l = log
      OBVIOUS
    <3>2. l \in Seq(Record) /\ \A i \in DOMAIN l : l[i] # Torn
      BY <3>1 DEF TypeOK, Clean
    <3> QED BY <3>1, <3>2, ReplayAll
  <2>2. \/ log = << >> /\ pc' = "idle"
        \/ pc' = "redo" /\ ~isOpen'
    BY <2>1, Zenon DEF Open
  <2> QED BY <2>2 DEF Open, disk, Committing, Cut
<1>2. Len(log) \in Nat /\ call = NoCall
  BY <1>1, Sizes DEF Phases
<1>3. Phases' /\ CallAtEnd' /\ Stable'
  BY <1>1, <1>2 DEF Phases, CallAtEnd, Stable
<1>4. Clean' /\ PagesAgree'
  BY <1>1 DEF Clean, PagesAgree
<1>5. IdsFresh'
  <2>1. CASE log = << >> /\ pc' = "idle"
    <3>1. DOMAIN log' = {}
      BY <1>1, <2>1
    <3>2. \A t \in TxId : tx'[t].state # "ACTIVE"
      BY <1>1 DEF NoTx
    <3> QED BY <1>1, <3>1, <3>2 DEF IdsFresh
  <2>2. CASE ~isOpen'
    BY <2>2 DEF IdsFresh
  <2> QED BY <1>1, <2>1, <2>2
<1>6. MemoryAgrees'
  <2>1. PICK l, s : l = log /\ s = file
    OBVIOUS
  <2>2. Reached(l, Reach') = {}
    <3>1. CASE log = << >> /\ pc' = "idle"
      <4>1. PICK r : r = Reach'
        OBVIOUS
      <4> QED BY <2>1, <3>1, <4>1, NothingReplayed
    <3>2. CASE pc' = "redo"
      <4>1. Reach' = 1
        BY <1>1, <3>2 DEF Reach
      <4>2. Reached(l, 1) = {}
        BY <1>2, <2>1, ReachedAll
      <4> QED BY <4>1, <4>2
    <3> QED BY <1>1, <3>1, <3>2
  <2>3. s \in Store
    BY <2>1 DEF TypeOK
  <2>4. After(s, l, {}) = s
    BY <2>3, AfterNothing
  <2> QED BY <1>1, <2>1, <2>2, <2>4 DEF MemoryAgrees
<1> QED BY <1>3, <1>4, <1>5, <1>6

LEMMA RecoveryReads ==
    ASSUME IInv
    PROVE  /\ Readable(log) = log
           /\ Replayed(log) = ReplayedIn(log, Len(log))
           /\ Committed(log) = CommittedIn(log, Len(log))
           /\ ReplayedIn(log, Len(log)) \in SUBSET (1 .. Len(log))
<1>1. PICK l : l = log
  OBVIOUS
<1>2. l \in Seq(Record) /\ \A i \in DOMAIN l : l[i] # Torn
  BY <1>1 DEF TypeOK, Clean, IInv
<1> QED BY <1>1, <1>2, ReplayAll DEF ReplayedIn

LEMMA RedoSound ==
    ASSUME Intact', IInv, TypeOK', Redo
    PROVE  IInv'
<1> USE DEF IInv
<1>1. /\ UNCHANGED <<log, synced, page, file, pc, call, tx, nextTx, isOpen, faults>>
      /\ pc = "redo" /\ ~isOpen /\ pos' = pos + 1
      /\ mem' = IF pos \in ReplayedIn(log, Len(log))
                THEN [mem EXCEPT ![log[pos].key] = log[pos].val] ELSE mem
      /\ ~Committing' /\ Cut' = Cut
  <2>1. ~isOpen /\ Replayed(log) = ReplayedIn(log, Len(log))
    BY RecoveryReads DEF Redo, Phases
  <2>2. mem' = IF pos \in Replayed(log) THEN [mem EXCEPT ![log[pos].key] = log[pos].val] ELSE mem
    BY DEF Redo, ChangeTree, Intact
  <2> QED BY <2>1, <2>2 DEF Redo, disk, handle, Committing, Cut
<1>2. PICK n \in Nat, p \in Nat : n = Len(log) /\ p = pos /\ p >= 1 /\ p <= n
  BY RecoveryReads, Sizes DEF Redo
<1>3. Phases'
  BY <1>1, <1>2 DEF Phases, Committing
<1>4. Clean' /\ IdsFresh' /\ CallAtEnd' /\ Stable' /\ PagesAgree'
  BY <1>1 DEF Clean, IdsFresh, CallAtEnd, Stable, PagesAgree
<1>5. MemoryAgrees'
  <2>1. Reach = p /\ Reach' = p + 1
    BY <1>1, <1>2 DEF Reach
  <2>2. PICK l, s, I : l = log /\ s = file /\ I = Reached(log, p)
    OBVIOUS
  <2>3. I \in SUBSET (1 .. n) /\ \A j \in I : j < p
    BY <1>2, <2>2 DEF Reached, ReplayedIn
  <2>4. CASE p \in ReplayedIn(l, n)
    <3>1. \A i \in 1 .. n : i < p + 1 <=> i < p \/ i = p
      BY <1>2
    <3>2. ReplayedIn(l, n) \in SUBSET (1 .. n)
      BY DEF ReplayedIn
    <3>3. Reached(l, p + 1) = I \cup {p}
      BY <1>2, <2>2, <2>4, <3>1, <3>2 DEF Reached
    <3>4. After(s, l, I \cup {p}) = [After(s, l, I) EXCEPT ![l[p].key] = l[p].val]
      <4>1. p \in Int
        OBVIOUS
      <4>2. Grows(s, l, I, p)
        BY <2>3, <4>1, AfterGrows, Zenon
      <4> QED BY <4>2, Zenon DEF Grows
    <3> QED BY <1>1, <1>2, <2>1, <2>2, <2>4, <3>3, <3>4 DEF MemoryAgrees
  <2>5. CASE p \notin ReplayedIn(l, n)
    <3>1. \A i \in 1 .. n : i # p => (i < p + 1 <=> i < p)
      BY <1>2
    <3>2. ReplayedIn(l, n) \in SUBSET (1 .. n)
      BY DEF ReplayedIn
    <3>3. Reached(l, p + 1) = I
      BY <1>2, <2>2, <2>5, <3>1, <3>2 DEF Reached
    <3> QED BY <1>1, <1>2, <2>1, <2>2, <2>5, <3>3 DEF MemoryAgrees
  <2> QED BY <2>4, <2>5
<1> QED BY <1>3, <1>4, <1>5

LEMMA FinishRecoverySound ==
    ASSUME Intact', IInv, TypeOK', FinishRecovery
    PROVE  IInv'
<1> USE DEF IInv
<1>1. /\ UNCHANGED <<log, synced, mem, pos, call, tx, faults>>
      /\ pc = "redo" /\ pc' = "idle" /\ isOpen' /\ nextTx' = TxAfter(log)
      /\ \/ file' = mem /\ page' = mem
         \/ UNCHANGED <<page, file>>
      /\ call = NoCall /\ tx = NoTx /\ ~Committing' /\ Cut' = Cut
  <2>1. isOpen'
    BY Zenon DEF FinishRecovery
  <2>2. call = NoCall /\ tx = NoTx
    BY SMTT(30) DEF FinishRecovery, Phases
  <2> QED BY <2>1, <2>2, SMTT(30) DEF FinishRecovery, Committing, Cut
<1>2. PICK n \in Nat : n = Len(log) /\ DOMAIN log = 1 .. n /\ pos = n + 1
  <2>1. pos <= Len(log) + 1
    BY <1>1 DEF Phases
  <2>2. pos = Len(log) + 1
    BY <2>1, RecoveryReads, Sizes DEF FinishRecovery
  <2> QED BY <2>2, Sizes
<1>3. Phases' /\ Clean' /\ CallAtEnd' /\ Stable'
  BY <1>1 DEF Phases, Clean, CallAtEnd, Stable
<1>4. PagesAgree'
  BY <1>1 DEF PagesAgree
<1>5. IdsFresh'
  <2>1. PICK l, m : l = log /\ m = TxAfter(log)
    OBVIOUS
  <2>2. l \in Seq(Record) /\ \A i \in DOMAIN l : l[i] # Torn
    BY <2>1 DEF TypeOK, Clean
  <2>3. \A i \in DOMAIN l : l[i].tx < m
    BY <2>1, <2>2, NextIdTyped
  <2>4. \A t \in TxId : tx'[t].state # "ACTIVE"
    BY <1>1 DEF NoTx
  <2> QED BY <1>1, <2>1, <2>3, <2>4 DEF IdsFresh
<1>6. MemoryAgrees'
  <2>1. Reach = n + 1 /\ Reach' = n + 1
    BY <1>1, <1>2 DEF Reach
  <2>2. PICK l, s, I : l = log /\ s = file /\ I = Reached(log, n + 1)
    OBVIOUS
  <2>3. I \in SUBSET (1 .. n)
    BY <1>2, <2>2, ReachedAll
  <2>4. After(After(s, l, I), l, I) = After(s, l, I)
    BY <1>2, <2>3, AfterTwice
  <2> QED BY <1>1, <2>1, <2>2, <2>4 DEF MemoryAgrees
<1> QED BY <1>3, <1>4, <1>5, <1>6

-------------------------------------------------------------------------------
\* The buffer pool, the operating system and the faults

\* The page that is written back is one the log knows about.
LEMMA EvictKnown ==
    ASSUME IInv, NEW k \in Key, Evict(k)
    PROVE  ~Unhit(log, k, Reached(log, Reach))
<1>1. file[k] # mem[k] /\ (isOpen \/ pc = "redo")
  BY Zenon DEF Evict
<1>2. PICK l, s, n, I : l = log /\ s = file /\ n = Len(log) /\ I = Reached(log, Reach)
  OBVIOUS
<1>3. I \in SUBSET Int
  <2>1. n \in Nat /\ I \in SUBSET (1 .. n)
    BY <1>2, Sizes, ReachedAll DEF IInv
  <2> QED BY <2>1
<1>4. mem = After(s, l, I)
  BY <1>1, <1>2 DEF MemoryAgrees, IInv
<1>5. (\A i \in I : l[i].key # k) => After(s, l, I)[k] = s[k]
  BY <1>3, AfterIs
<1> QED BY <1>1, <1>2, <1>4, <1>5 DEF Unhit

LEMMA EvictSound ==
    ASSUME Intact', IInv, TypeOK', NEW k \in Key, Evict(k)
    PROVE  IInv'
<1> USE DEF IInv
<1>1. /\ UNCHANGED <<log, synced, page, mem, pc, pos, call, tx, nextTx, isOpen, faults>>
      /\ file' = [file EXCEPT ![k] = mem[k]]
      /\ file[k] # mem[k]
      /\ isOpen \/ pc = "redo"
      /\ pc \in {"apply", "flush", "redo", "idle"}
      /\ Cut' = Cut /\ Committing' = Committing
  <2>1. pc \in {"apply", "flush", "redo", "idle"}
    BY DEF Evict
  <2>2. isOpen \/ pc = "redo"
    BY Zenon DEF Evict
  <2> QED BY <2>1, <2>2 DEF Evict, handle, Cut, Committing
<1>2. Reach' = Reach /\ Before' = Before /\ Logged' = Logged
      /\ \A j : LoggedWrite(j)' = LoggedWrite(j)
  BY <1>1 DEF Reach, Before, Logged, LoggedWrite
<1>3. Phases' /\ CallAtEnd' /\ Stable'
  <2>1. Phases'
    BY <1>1 DEF Phases
  <2>2. CallAtEnd'
    BY <1>1, <1>2 DEF CallAtEnd
  <2>3. Stable'
    BY <1>1, <1>2 DEF Stable
  <2> QED BY <2>1, <2>2, <2>3
<1>4. Clean' /\ IdsFresh'
  BY <1>1 DEF Clean, IdsFresh
<1>5. PICK l, s, n, r, I : /\ l = log /\ s = file /\ n = Len(log) /\ r = Reach
                           /\ I = Reached(log, Reach)
  OBVIOUS
<1>6. n \in Nat /\ I \in SUBSET (1 .. n) /\ I \subseteq ReplayedIn(l, n)
  BY <1>5, Sizes, ReachedAll DEF Reached
<1>7. mem = After(s, l, I)
  BY <1>1, <1>5 DEF MemoryAgrees
<1>8. ~Unhit(l, k, I)
  BY <1>5, EvictKnown
<1>9. MemoryAgrees'
  <2>1. PICK m : m = file'
    OBVIOUS
  <2>2. \A h \in Key : (\A i \in I : l[i].key # h) => s[h] = m[h]
    BY <1>1, <1>5, <1>8, <2>1 DEF Unhit, TypeOK, Store
  <2>3. After(s, l, I) = After(m, l, I)
    BY <2>2, AfterFrom
  <2> QED BY <1>1, <1>2, <1>5, <1>7, <2>1, <2>3 DEF MemoryAgrees
<1>10. PagesAgree'
  <2>1. Cut => synced = n
    BY <1>1, <1>5 DEF Stable
  <2>2. Cut => ~Unhit(log, k, ReplayedIn(log, synced))
    BY <1>5, <1>6, <1>8, <2>1 DEF Unhit
  <2>3. \A h \in Key : h # k => file'[h] = file[h]
    BY <1>1 DEF TypeOK, Store
  <2> QED BY <1>1, <2>2, <2>3 DEF PagesAgree
<1> QED BY <1>3, <1>4, <1>9, <1>10

LEMMA WriteBackSound ==
    ASSUME Intact', IInv, TypeOK', (\E k \in Key : WriteBackPage(k)) \/ WriteBackLog
    PROVE  IInv'
<1> USE DEF IInv
<1>1. /\ UNCHANGED <<log, file, mem, pc, pos, call, tx, nextTx, isOpen, faults>>
      /\ Cut' = Cut /\ Committing' = Committing
  BY DEF WriteBackPage, WriteBackLog, handle, Cut, Committing
<1>2. Reach' = Reach /\ Before' = Before /\ Logged' = Logged
      /\ \A j : LoggedWrite(j)' = LoggedWrite(j)
  BY <1>1 DEF Reach, Before, Logged, LoggedWrite
<1>3. CallAtEnd' /\ MemoryAgrees'
  BY <1>1, <1>2 DEF CallAtEnd, MemoryAgrees
<1>4. Clean' /\ IdsFresh'
  BY <1>1 DEF Clean, IdsFresh
<1>5. CASE \E k \in Key : WriteBackPage(k)
  <2>1. PICK k \in Key : WriteBackPage(k)
    BY <1>5
  <2>2. synced' = synced /\ page' = [page EXCEPT ![k] = file[k]] /\ page[k] # file[k]
    BY <2>1 DEF WriteBackPage
  <2>3. Phases'
    BY <1>1, <2>2 DEF Phases
  <2>4. Stable'
    BY <1>1, <1>2, <2>2 DEF Stable
  <2>5. PagesAgree'
    BY <1>1, <2>2 DEF PagesAgree, TypeOK, Store
  <2> QED BY <1>3, <1>4, <2>3, <2>4, <2>5
<1>6. CASE WriteBackLog
  <2>1. synced' = synced + 1 /\ page' = page /\ synced < Len(log) /\ Cut
    BY <1>6 DEF WriteBackLog, Cut
  <2>2. Phases'
    BY <1>1, <2>1 DEF Phases
  <2>3. pc \in {"append", "sync", "marksync"}
    <3>1. synced # Len(log)
      BY <2>1, Sizes
    <3>2. pc # "mark"
      <4>1. pc = "mark" => Len(log) = 0
        BY EmptySeq DEF Phases
      <4> QED BY <2>1, <4>1, Sizes
    <3> QED BY <2>1, <3>1, <3>2 DEF Stable
  <2>4. Stable'
    <3>1. pc \in {"append", "sync"} => synced >= Before
      BY <2>1 DEF Stable
    <3>2. pc \in {"append", "sync"} => Before \in Nat
      BY CallInLog DEF Committing
    <3>3. pc \in {"append", "sync"} => synced' >= Before
      BY <2>1, <3>1, <3>2, Sizes
    <3> QED BY <1>1, <1>2, <2>3, <3>3 DEF Stable
  <2>5. PagesAgree'
    <3>1. PICK n \in Nat, m \in Nat : n = synced /\ m = synced + 1 /\ n <= m
      BY Sizes
    <3>2. \A l, k : Unhit(l, k, ReplayedIn(l, m)) => Unhit(l, k, ReplayedIn(l, n))
      BY <3>1, UnhitBefore
    <3> QED BY <1>1, <2>1, <3>1, <3>2 DEF PagesAgree
  <2> QED BY <1>3, <1>4, <2>2, <2>4, <2>5
<1> QED BY <1>5, <1>6


LEMMA ProcessCrashSound ==
    ASSUME Intact', IInv, TypeOK', ProcessCrash
    PROVE  IInv'
<1> USE DEF IInv
<1>1. /\ UNCHANGED <<log, synced, page, file, faults>>
      /\ pc' = "down" /\ call' = NoCall /\ ~isOpen' /\ ~Committing' /\ Cut' = Cut
      /\ Cut => synced = Len(log)
  <2>1. ~isOpen'
    BY Zenon DEF ProcessCrash, MemoryLost
  <2>2. image = "whole" /\ ~(Cut /\ synced < Len(log))
    BY DEF ProcessCrash, Intact, Cut
  <2>3. file' = file
    BY <2>2 DEF ProcessCrash, Found
  <2>4. Cut => synced = Len(log)
    BY <2>2, Sizes
  <2> QED BY <2>1, <2>3, <2>4 DEF ProcessCrash, MemoryLost, Committing, Cut
<1>2. Phases' /\ CallAtEnd' /\ Stable'
  BY <1>1 DEF Phases, CallAtEnd, Stable
<1>3. Clean' /\ IdsFresh' /\ MemoryAgrees' /\ PagesAgree'
  BY <1>1 DEF Clean, IdsFresh, MemoryAgrees, PagesAgree
<1> QED BY <1>2, <1>3

LEMMA PowerCutSound ==
    ASSUME Intact', IInv, TypeOK', PowerCut
    PROVE  IInv'
<1> USE DEF IInv
<1>1. /\ log' = SubSeq(log, 1, synced) /\ synced' = Len(log') /\ page' = page /\ file' = page
      /\ pc' = "down" /\ call' = NoCall /\ ~isOpen' /\ ~Committing'
  <2>1. ~isOpen'
    BY Zenon DEF PowerCut, MemoryLost
  <2>2. log' = SubSeq(log, 1, synced) /\ image = "whole"
    BY DEF PowerCut, Intact
  <2>3. page' = page
    BY <2>2 DEF PowerCut, Found
  <2> QED BY <2>1, <2>2, <2>3 DEF PowerCut, MemoryLost, Committing
<1>2. Phases' /\ CallAtEnd' /\ Stable'
  BY <1>1 DEF Phases, CallAtEnd, Stable
<1>3. IdsFresh' /\ MemoryAgrees' /\ PagesAgree'
  BY <1>1 DEF IdsFresh, MemoryAgrees, PagesAgree
<1>4. Clean'
  <2>1. PICK l, n : l = log /\ n = synced
    OBVIOUS
  <2>2. l \in Seq(Record) /\ n \in 0 .. Len(l) /\ Len(l) \in Nat
    BY <2>1, Sizes DEF TypeOK
  <2>3. DOMAIN SubSeq(l, 1, n) = 1 .. n /\ \A i \in 1 .. n : SubSeq(l, 1, n)[i] = l[i]
    BY <2>2, CutOff
  <2>4. \A i \in 1 .. n : i \in DOMAIN l
    BY <2>2, LogIs
  <2> QED BY <1>1, <2>1, <2>3, <2>4 DEF Clean
<1> QED BY <1>2, <1>3, <1>4

-------------------------------------------------------------------------------
\* The invariant

LEMMA InitSound == Init => IInv
<1> SUFFICES ASSUME Init PROVE IInv
  OBVIOUS
<1>1. TypeOK
  BY InitTyped
<1>2. Len(log) = 0 /\ DOMAIN log = {} /\ synced = 0 /\ page = file /\ ~isOpen /\ pc = "down"
      /\ call = NoCall
  <2>1. ~isOpen
    BY Zenon DEF Init
  <2> QED BY <2>1, EmptySeq DEF Init
<1>3. Phases /\ Clean /\ IdsFresh
  BY <1>2 DEF Phases, Clean, IdsFresh, Committing
<1>4. CallAtEnd /\ Stable /\ MemoryAgrees /\ PagesAgree
  BY <1>2 DEF CallAtEnd, Stable, MemoryAgrees, PagesAgree, Committing
<1> QED BY <1>1, <1>3, <1>4 DEF IInv

LEMMA StepSound ==
    ASSUME Intact', IInv, TypeOK', [Next]_vars
    PROVE  IInv'
<1>1. CASE UNCHANGED vars
  <2>1. UNCHANGED <<log, synced, page, file, mem, pc, pos, call, tx, nextTx, isOpen, closing, faults>>
    BY <1>1 DEF vars, disk, handle
  <2>2. Phases' /\ IdsFresh'
    BY <2>1 DEF IInv, Phases, IdsFresh, Committing
  <2> QED BY <2>1, <2>2, FrameKept DEF IInv
<1>2. CASE Begin \/ \E t \in TxId : \/ \E k \in Key, v \in Val \cup {NoVal} : Stage(t, k, v)
                                   \/ Rollback(t) \/ CommitNothing(t)
  BY <1>2, StagingSound
<1>3. CASE \/ \E t \in TxId : Commit(t)
           \/ \E k \in Key, v \in Val \cup {NoVal} : AutoCommit(k, v)
  BY <1>3, SubmitSound
<1>4. CASE AppendOps \/ AppendCommit \/ Sync \/ Apply \/ FinishTx \/ FinishAuto
  BY <1>4, AppendOpsSound, AppendCommitSound, SyncSound, ApplySound, FinishSound
<1>5. CASE \/ \E close \in BOOLEAN : StartCheckpoint(close)
           \/ Flush \/ Truncate \/ AppendCheckpoint \/ SyncCheckpoint \/ Close
  BY <1>5, FlushSound, TruncateSound, CloseSound
<1>6. CASE Open \/ Redo \/ FinishRecovery
  BY <1>6, OpenSound, RedoSound, FinishRecoverySound
<1>7. CASE \/ \E k \in Key : Evict(k) \/ WriteBackPage(k)
           \/ WriteBackLog
  BY <1>7, EvictSound, WriteBackSound
<1>8. CASE ProcessCrash \/ PowerCut
  BY <1>8, ProcessCrashSound, PowerCutSound
<1>9. Next \/ UNCHANGED vars
  OBVIOUS
<1> QED BY <1>1, <1>2, <1>3, <1>4, <1>5, <1>6, <1>7, <1>8, <1>9 DEF Next

\* The invariant holds until a fault strikes that the code does not handle.
Sound == Intact => IInv

LEMMA Invariant ==
    Spec => []Sound
<1>1. Init => Sound
  BY InitSound DEF Sound
<1>2. Sound /\ TypeOK' /\ [Next]_vars => Sound'
  BY StepSound, Intactly DEF Sound
<1> QED BY <1>1, <1>2, TypeCorrect, PTL DEF Spec

-------------------------------------------------------------------------------
\* What the invariant says about recovery

\* A recovery after the worst fault reads the surviving records of the log.
View ==
    /\ Surviving \in 0 .. Len(log)
    /\ Committed(SurvivingLog) = CommittedIn(log, Surviving)
    /\ Recovered = After(Base, log, ReplayedIn(log, Surviving))

LEMMA Viewed == IInv => View
<1> SUFFICES ASSUME IInv PROVE View
  OBVIOUS
<1>1. PICK l, n, s : l = log /\ n = Surviving /\ s = Base
  OBVIOUS
<1>2. l \in Seq(Record) /\ (\A i \in DOMAIN l : l[i] # Torn) /\ n \in 0 .. Len(l)
  BY <1>1, Sizes DEF IInv, TypeOK, Clean, Surviving
<1>3. /\ Committed(SubSeq(l, 1, n)) = CommittedIn(l, n)
      /\ Replayed(SubSeq(l, 1, n)) = ReplayedIn(l, n)
      /\ \A r : After(r, SubSeq(l, 1, n), ReplayedIn(l, n)) = After(r, l, ReplayedIn(l, n))
  BY <1>2, ReplayIs
<1>4. SurvivingLog = SubSeq(l, 1, n)
  <2>1. CASE Cut
    BY <1>1, <2>1 DEF SurvivingLog, Surviving, Cut
  <2>2. CASE ~Cut
    <3>1. SubSeq(l, 1, Len(l)) = l
      BY <1>2, SubSeqFull
    <3> QED BY <1>1, <2>2, <3>1 DEF SurvivingLog, Surviving, Cut
  <2> QED BY <2>1, <2>2
<1>5. Recovered = After(s, SurvivingLog, Replayed(SurvivingLog))
  BY <1>1 DEF Recovered, Base, Cut
<1> QED BY <1>1, <1>2, <1>3, <1>4, <1>5 DEF View

\* Outside of the commit of a call the tree is what a recovery would restore.
LEMMA TreeIsRecovered ==
    ASSUME IInv, isOpen \/ pc = "redo",
           pc \notin {"append", "sync", "apply", "mark", "marksync"},
           Reached(log, Reach) = ReplayedIn(log, Len(log))
    PROVE  /\ mem = After(file, log, ReplayedIn(log, Len(log)))
           /\ mem = After(Base, log, ReplayedIn(log, Surviving))
           /\ Surviving = Len(log)
<1> USE DEF IInv
<1>1. Surviving = Len(log) /\ (Cut => synced = Len(log))
  BY DEF Stable, Surviving
<1>2. mem = After(file, log, ReplayedIn(log, Len(log)))
  BY DEF MemoryAgrees
<1>3. PICK l, I, s, r : l = log /\ I = ReplayedIn(log, Len(log)) /\ s = file /\ r = Base
  OBVIOUS
<1>4. \A k \in Key : (\A i \in I : l[i].key # k) => s[k] = r[k]
  BY <1>1, <1>3 DEF PagesAgree, Unhit, Base
<1>5. After(s, l, I) = After(r, l, I)
  BY <1>4, AfterFrom
<1> QED BY <1>1, <1>2, <1>3, <1>5

LEMMA EverythingReached ==
    ASSUME IInv, pc \notin {"redo", "sync", "apply"}
    PROVE  Reached(log, Reach) = ReplayedIn(log, Len(log))
<1>1. Reach = Len(log) + 1
  BY DEF Reach
<1>2. PICK l : l = log
  OBVIOUS
<1>3. Len(l) \in Nat
  BY <1>2, Sizes DEF IInv
<1> QED BY <1>1, <1>2, <1>3, ReachedAll

\* The state is typed, and whatever a commit has changed in the tree is behind
\* a commit record that survives the worst fault of the run.
THEOREM CommitsAreLogged == Spec => []LogLeads
<1>1. TypeOK /\ Sound => LogLeads
  <2> SUFFICES ASSUME IInv, pc = "apply" PROVE call.tx \in Committed(SurvivingLog)
    BY DEF LogLeads, AppliedIsLogged, Sound
  <2>1. Surviving = Len(log)
    BY DEF IInv, Stable, Surviving
  <2>2. call.tx \in CommittedIn(log, Len(log))
    BY CallInLog DEF Committing
  <2>3. Committed(SurvivingLog) = CommittedIn(log, Surviving)
    BY Viewed DEF View
  <2> QED BY <2>1, <2>2, <2>3
<1> QED BY <1>1, Invariant, TypeCorrect, PTL

\* Between calls, clients read exactly what a recovery would restore.
THEOREM ReadersSeeDurable == Spec => []ReadsAreDurable
<1>1. Sound => ReadsAreDurable
  <2> SUFFICES ASSUME IInv, pc = "idle", isOpen PROVE mem = Recovered
    BY Zenon DEF ReadsAreDurable, Sound
  <2>1. mem = After(Base, log, ReplayedIn(log, Surviving))
    BY EverythingReached, TreeIsRecovered
  <2>2. Recovered = After(Base, log, ReplayedIn(log, Surviving))
    BY Viewed DEF View
  <2> QED BY <2>1, <2>2
<1> QED BY <1>1, Invariant, PTL

-------------------------------------------------------------------------------
\* A call is one atomic change of the store

\* The writes ops, logged behind b records that hold the writes R, act on top
\* of them.
LEMMA CallEffect ==
    ASSUME NEW s, NEW l, NEW ops, NEW b \in Nat, NEW n \in Nat, NEW R \in SUBSET (1 .. b),
           \A j \in 1 .. n : l[b + j].key = ops[j].key /\ l[b + j].val = ops[j].val
    PROVE  After(s, l, R \cup ((b + 1) .. (b + n))) = After(After(s, l, R), ops, 1 .. n)
<1> DEFINE W == R \cup ((b + 1) .. (b + n))
<1>1. R \in SUBSET Int /\ W \in SUBSET Int /\ (1 .. n) \in SUBSET Int
  OBVIOUS
<1>2. PICK r : r = After(s, l, R)
  OBVIOUS
<1>3. ASSUME NEW i \in (b + 1) .. (b + n)
      PROVE  \E j \in 1 .. n : i = b + j /\ l[i].key = ops[j].key /\ l[i].val = ops[j].val
  <2>1. i - b \in 1 .. n /\ i = b + (i - b)
    OBVIOUS
  <2> QED BY <2>1
<1>4. ASSUME NEW k \in Key
      PROVE  After(s, l, W)[k] = After(r, ops, 1 .. n)[k]
  <2>1. CASE \A j \in 1 .. n : ops[j].key # k
    <3>1. \A i \in (b + 1) .. (b + n) : l[i].key # k
      BY <1>3, <2>1
    <3>2. After(r, ops, 1 .. n)[k] = r[k]
      BY <1>1, <2>1, AfterIs
    <3>3. CASE \A i \in R : l[i].key # k
      <4>1. \A i \in W : l[i].key # k
        BY <3>1, <3>3
      <4> HIDE DEF W
      <4>2. After(s, l, W)[k] = s[k] /\ After(s, l, R)[k] = s[k]
        BY <1>1, <3>3, <4>1, AfterIs
      <4> QED BY <1>2, <3>2, <4>2
    <3>4. ASSUME NEW i \in R, l[i].key = k, \A j \in R : l[j].key = k => j <= i
          PROVE  After(s, l, W)[k] = After(r, ops, 1 .. n)[k]
      <4>1. i \in W /\ \A j \in W : l[j].key = k => j <= i
        BY <3>1, <3>4
      <4> HIDE DEF W
      <4>2. After(s, l, W)[k] = l[i].val
        BY <1>1, <3>4, <4>1, AfterIs
      <4>3. After(s, l, R)[k] = l[i].val
        <5>1. R \in SUBSET Int
          BY <1>1
        <5>2. \A I \in SUBSET Int : (i \in I /\ l[i].key = k /\ \A j \in I : l[j].key = k => j <= i)
                 => After(s, l, I)[k] = l[i].val
          BY AfterIs
        <5> QED BY <3>4, <5>1, <5>2, Zenon
      <4> QED BY <1>2, <3>2, <4>2, <4>3
    <3>5. \/ \A i \in R : l[i].key # k
          \/ \E i \in R : l[i].key = k /\ \A j \in R : l[j].key = k => j <= i
      <4>1. \A I \in SUBSET (1 .. b) : LastOf(I, l, k)
        BY HasLast
      <4>2. LastOf(R, l, k)
        BY <4>1
      <4> QED BY <4>2 DEF LastOf
    <3> QED BY <3>3, <3>4, <3>5
  <2>2. ASSUME NEW j \in 1 .. n, ops[j].key = k, \A h \in 1 .. n : ops[h].key = k => h <= j
        PROVE  After(s, l, W)[k] = After(r, ops, 1 .. n)[k]
    <3>1. After(r, ops, 1 .. n)[k] = ops[j].val
      BY <1>1, <2>2, AfterIs
    <3>2. PICK i \in Int : i = b + j
      OBVIOUS
    <3>3. i \in W /\ l[i].key = k /\ l[i].val = ops[j].val
      BY <2>2, <3>2
    <3>4. ASSUME NEW h \in W, l[h].key = k PROVE h <= i
      <4>1. CASE h \in R
        BY <3>2, <4>1
      <4>2. CASE h \in (b + 1) .. (b + n)
        <5>1. PICK g \in 1 .. n : h = b + g /\ l[h].key = ops[g].key
          BY <1>3, <4>2
        <5>2. g <= j
          BY <2>2, <3>4, <5>1
        <5> QED BY <3>2, <5>1, <5>2
      <4> QED BY <4>1, <4>2
    <3> HIDE DEF W
    <3>5. After(s, l, W)[k] = l[i].val
      BY <1>1, <3>3, <3>4, AfterIs
    <3> QED BY <3>1, <3>3, <3>5
  <2>3. \/ \A j \in 1 .. n : ops[j].key # k
        \/ \E j \in 1 .. n : ops[j].key = k /\ \A h \in 1 .. n : ops[h].key = k => h <= j
    <3>1. LastOf(1 .. n, ops, k)
      BY HasLast
    <3> QED BY <3>1 DEF LastOf
  <2> QED BY <2>1, <2>2, <2>3
<1>5. /\ After(s, l, W) = [k \in Key |-> After(s, l, W)[k]]
      /\ After(r, ops, 1 .. n) = [k \in Key |-> After(r, ops, 1 .. n)[k]]
  BY DEF After
<1> HIDE DEF W
<1>6. After(s, l, W) = After(r, ops, 1 .. n)
  BY <1>4, <1>5
<1> QED BY <1>2, <1>6 DEF W

\* The call in progress in the log: what its records do to a store.
LEMMA CallTakesEffect ==
    ASSUME IInv, Committing, pc # "append"
    PROVE  \A s : After(s, log, ReplayedIn(log, Len(log)))
                      = After(After(s, log, ReplayedIn(log, Before)), call.ops, DOMAIN call.ops)
<1>1. PICK l, ops, b, n : l = log /\ ops = call.ops /\ b = Before /\ n = Len(call.ops)
  OBVIOUS
<1>2. b \in Nat /\ n \in Nat /\ DOMAIN ops = 1 .. n
  BY <1>1, CallInLog, Sizes, LenProperties DEF IInv
<1>3. \A j \in 1 .. n : l[b + j].key = ops[j].key /\ l[b + j].val = ops[j].val
  <2>1. \A j \in 1 .. n : l[b + j] = LoggedWrite(j)
    BY <1>1 DEF IInv, CallAtEnd, Logged
  <2> QED BY <1>1, <2>1, WriteLogged
<1>4. ReplayedIn(l, Len(log)) = ReplayedIn(l, b) \cup ((b + 1) .. (b + n))
  BY <1>1, CallInLog
<1>5. ReplayedIn(l, b) \in SUBSET (1 .. b)
  BY DEF ReplayedIn
<1>6. \A s : After(s, l, ReplayedIn(l, b) \cup ((b + 1) .. (b + n)))
                = After(After(s, l, ReplayedIn(l, b)), ops, 1 .. n)
  <2> SUFFICES ASSUME NEW s
               PROVE  After(s, l, ReplayedIn(l, b) \cup ((b + 1) .. (b + n)))
                        = After(After(s, l, ReplayedIn(l, b)), ops, 1 .. n)
    OBVIOUS
  <2>1. PICK R : R = ReplayedIn(l, b)
    OBVIOUS
  <2>2. b \in Nat /\ n \in Nat /\ R \in SUBSET (1 .. b)
    BY <1>2, <1>5, <2>1
  <2>3. After(s, l, R \cup ((b + 1) .. (b + n))) = After(After(s, l, R), ops, 1 .. n)
    BY <1>3, <2>2, CallEffect
  <2> QED BY <2>1, <2>3
<1> QED BY <1>1, <1>2, <1>4, <1>6

\* What tx_get answered just before tx_commit is what the tree holds after it.
THEOREM CommitsKeepReads == Spec => CommitKeepsReads
<1> DEFINE Keeps == \A t \in TxId : tx[t].state = "ACTIVE" /\ tx'[t].state = "COMMITTED" /\ Intact'
                        => \A k \in Key : TxGet(t, k) = mem'[k]
<1>1. ASSUME IInv, Next PROVE Keeps
  <2> SUFFICES ASSUME NEW t \in TxId, tx[t].state = "ACTIVE", tx'[t].state = "COMMITTED", NEW k \in Key
               PROVE  After(mem, tx[t].ops, DOMAIN tx[t].ops)[k] = mem'[k]
    BY DEF TxGet
  <2>1. tx[t] \in Transaction /\ tx[t].ops \in Seq(Op) /\ tx \in [TxId -> Transaction]
    <3>1. tx \in [TxId -> Transaction]
      BY <1>1 DEF IInv, TypeOK
    <3> QED BY <3>1, TransactionIs
  <2>2. CommitNothing(t) \/ (FinishTx /\ t = call.tx)
    <3>1. tx' # tx
      OBVIOUS
    <3>2. CASE Begin
      BY <2>1, <3>2 DEF Begin, Transaction
    <3>3. ASSUME NEW u \in TxId, NEW h \in Key, NEW v \in Val \cup {NoVal}, Stage(u, h, v)
          PROVE  FALSE
      BY <2>1, <3>3 DEF Stage, Transaction
    <3>4. ASSUME NEW u \in TxId, Rollback(u) PROVE FALSE
      BY <2>1, <3>4 DEF Rollback, Transaction
    <3>5. ASSUME NEW u \in TxId, CommitNothing(u) PROVE u = t
      BY <2>1, <3>5 DEF CommitNothing, Transaction
    <3>6. CASE FinishTx
      BY <2>1, <3>6 DEF FinishTx, Transaction
    <3>7. CASE Open \/ ProcessCrash \/ PowerCut
      BY <3>7 DEF Open, ProcessCrash, PowerCut, MemoryLost, NoTx
    <3>8. ~ (\E u \in TxId : Commit(u)) /\ ~ (\E h \in Key, v \in Val \cup {NoVal} : AutoCommit(h, v))
          /\ ~ AppendOps /\ ~ AppendCommit /\ ~ Sync /\ ~ Apply /\ ~ FinishAuto
          /\ ~ (\E close \in BOOLEAN : StartCheckpoint(close))
          /\ ~ Flush /\ ~ Truncate /\ ~ AppendCheckpoint /\ ~ SyncCheckpoint /\ ~ Close
          /\ ~ Redo /\ ~ FinishRecovery /\ ~ (\E h \in Key : Evict(h) \/ WriteBackPage(h))
          /\ ~ WriteBackLog
      BY <3>1 DEF Commit, AutoCommit, AppendOps, AppendCommit, Sync, Apply, FinishAuto,
                  StartCheckpoint, Flush, Truncate, AppendCheckpoint, SyncCheckpoint, Close,
                  Redo, FinishRecovery, Evict, WriteBackPage, WriteBackLog
    <3> QED BY <1>1, <3>2, <3>3, <3>4, <3>5, <3>6, <3>7, <3>8 DEF Next
  <2>3. CASE CommitNothing(t)
    <3>1. mem' = mem /\ tx[t].ops = << >>
      BY <2>3 DEF CommitNothing
    <3>2. PICK o, m : o = tx[t].ops /\ m = mem /\ m \in Store
      BY <1>1 DEF IInv, TypeOK
    <3>3. DOMAIN o = {} /\ After(m, o, {}) = m
      BY <3>1, <3>2, EmptySeq, AfterNothing
    <3> QED BY <3>1, <3>2, <3>3
  <2>4. CASE FinishTx /\ t = call.tx
    <3>1. mem' = mem /\ pc = "apply" /\ Committing /\ pos > Len(call.ops) /\ ~call.auto
      BY <2>4 DEF FinishTx, Committing
    <3>2. isOpen
      BY <1>1, <3>1 DEF IInv, Phases
    <3>3. tx[t].ops = call.ops
      BY <1>1, <2>4, <3>1, <3>2 DEF IInv, IdsFresh
    <3>4. mem = After(file, log, ReplayedIn(log, Len(log)))
      BY <1>1, <3>1, <3>2, AppliedAll DEF IInv, MemoryAgrees
    <3>5. PICK m, o, s, n : /\ m = mem /\ o = call.ops /\ n = Len(call.ops)
                            /\ s = After(file, log, ReplayedIn(log, Before))
      OBVIOUS
    <3>6. m = After(s, o, DOMAIN o)
      BY <1>1, <3>1, <3>4, <3>5, CallTakesEffect
    <3>7. n \in Nat /\ DOMAIN o = 1 .. n /\ (1 .. n) \in SUBSET (1 .. n)
      BY <1>1, <3>5, Sizes, LenProperties DEF IInv
    <3>8. After(After(s, o, 1 .. n), o, 1 .. n) = After(s, o, 1 .. n)
      BY <3>7, AfterTwice
    <3> QED BY <3>1, <3>3, <3>5, <3>6, <3>7, <3>8
  <2> QED BY <2>2, <2>3, <2>4
<1>2. Sound /\ [Next]_vars => [Keeps]_vars
  <2> SUFFICES ASSUME Sound, Next PROVE Keeps
    OBVIOUS
  <2>1. CASE Intact'
    <3>1. IInv
      BY <2>1, Intactly DEF Sound
    <3> QED BY <1>1, <3>1
  <2>2. CASE ~Intact'
    BY <2>2
  <2> QED BY <2>1, <2>2
<1> QED BY <1>2, Invariant, PTL DEF Spec, CommitKeepsReads

-------------------------------------------------------------------------------
\* The engine is a store of atomic, durable calls

\* The steps of DurableStore, seen from here.
Unseen == /\ Recovered' = Recovered /\ call'.ops = call.ops
          /\ Effective' <=> Effective
          /\ Up' <=> Up
Started == /\ ~Up /\ Up'
           /\ Recovered' = Recovered /\ call'.ops = call.ops
           /\ Effective' <=> Effective
Submitted == /\ Up /\ Up'
             /\ call.ops = << >> /\ call'.ops \in Seq(Op)
             /\ Recovered' = Recovered
             /\ Effective' <=> Effective
TookEffect == /\ Up' <=> Up
              /\ call.ops # << >> /\ call'.ops = call.ops
              /\ ~Effective /\ Effective'
              /\ Recovered' = After(Recovered, call.ops, DOMAIN call.ops)
Answered == /\ Up' <=> Up
            /\ call.ops # << >> /\ Effective
            /\ call'.ops = << >> /\ ~Effective'
            /\ Recovered' = Recovered
Died == /\ Up /\ ~Up'
        /\ call'.ops = << >> /\ ~Effective'
        /\ Recovered' = Recovered

LEMMA SameEffect ==
    ASSUME NEW s, NEW ops
    PROVE  Durable!After(s, ops) = After(s, ops, DOMAIN ops)
BY DEF Durable!After, After, Greatest

LEMMA FaultsKept == ASSUME [Next]_vars PROVE faults' = faults
BY DEF Next, vars, Begin, Stage, Rollback, CommitNothing, Commit, AutoCommit, AppendOps,
       AppendCommit, Sync, Apply, FinishTx, FinishAuto, StartCheckpoint, Flush, Truncate,
       AppendCheckpoint, SyncCheckpoint, Close, Open, Redo, FinishRecovery, Evict,
       WriteBackPage, WriteBackLog, ProcessCrash, PowerCut

\* The tree is at risk: the file may hold half a split, or more may go wrong than
\* one kind of crash.
Risky == image = "split" \/ Exposed

\* What spoils the tree struck while it was at risk.
LEMMA Breaking ==
    ASSUME TypeOK, [Next]_vars, Intact, ~Intact'
    PROVE  Risky
<1>1. image \in {"whole", "split"} /\ image' = "spoiled"
  BY DEF Intact, TypeOK
<1>2. Next
  BY <1>1 DEF vars
<1>3. \A f \in {"closed_handle", "write_error", "lost_key", "torn_write"} : f \in faults => Exposed
  BY DEF Exposed
<1>4. "process_crash" \in faults /\ "power_cut" \in faults => Exposed
  BY DEF Exposed
<1>5. ASSUME NEW r, AppendRecord(r) PROVE "write_error" \in faults
  BY <1>1, <1>5 DEF AppendRecord
<1>6. ASSUME NEW k, NEW v, ChangeTree(k, v) PROVE "lost_key" \in faults
  BY <1>1, <1>6 DEF ChangeTree
<1>7. CASE \E t \in TxId : Commit(t)
  <2>1. "closed_handle" \in faults
    BY <1>1, <1>7 DEF Commit, Usable
  <2> QED BY <1>3, <2>1 DEF Risky
<1>8. CASE AppendOps \/ AppendCommit \/ AppendCheckpoint
  <2>1. "write_error" \in faults
    BY <1>5, <1>8 DEF AppendOps, AppendCommit, AppendCheckpoint
  <2> QED BY <1>3, <2>1 DEF Risky
<1>9. CASE Apply \/ Redo
  <2>1. "lost_key" \in faults
    BY <1>1, <1>6, <1>9 DEF Apply, Redo
  <2> QED BY <1>3, <2>1 DEF Risky
<1>10. CASE ProcessCrash
  <2>1. "process_crash" \in faults /\ (image = "whole" => "power_cut" \in faults)
    BY <1>1, <1>10 DEF ProcessCrash
  <2> QED BY <1>1, <1>4, <2>1 DEF Risky
<1>11. CASE PowerCut
  <2>1. image = "whole" => "torn_write" \in faults
    BY <1>1, <1>11 DEF PowerCut
  <2> QED BY <1>1, <1>3, <2>1 DEF Risky
<1>12. CASE \/ Begin
            \/ \E t \in TxId : \/ \E k \in Key, v \in Val \cup {NoVal} : Stage(t, k, v)
                               \/ Rollback(t) \/ CommitNothing(t)
            \/ \E k \in Key, v \in Val \cup {NoVal} : AutoCommit(k, v)
  BY <1>1, <1>12 DEF Begin, Stage, Rollback, CommitNothing, AutoCommit
<1>13. CASE \/ \E close \in BOOLEAN : StartCheckpoint(close)
            \/ Sync \/ FinishTx \/ FinishAuto \/ Flush \/ Truncate \/ SyncCheckpoint \/ Close
            \/ Open \/ FinishRecovery
  BY <1>1, <1>13 DEF StartCheckpoint, Sync, FinishTx, FinishAuto, Flush, Mended, Truncate,
                     SyncCheckpoint, Close, Open, FinishRecovery
<1>14. CASE \/ \E k \in Key : Evict(k) \/ WriteBackPage(k)
            \/ WriteBackLog
  BY <1>1, <1>14 DEF Evict, WriteBackPage, WriteBackLog
<1> QED BY <1>2, <1>7, <1>8, <1>9, <1>10, <1>11, <1>12, <1>13, <1>14 DEF Next

\* A store that splits pages, or writes the last of a split, is running and does
\* nothing else that can be seen.
LEMMA Reorganizing ==
    ASSUME [Next]_vars, Intact', ~(Risky' <=> Risky)
    PROVE  Up /\ Up' /\ call' = call /\ (Effective' <=> Effective)
<1>1. image' # image
  BY FaultsKept DEF Risky, Exposed
<1>2. Apply \/ Redo \/ Flush \/ Close \/ FinishRecovery
  <2>1. Next
    BY <1>1 DEF vars
  <2>2. ~(\/ Begin
          \/ \E t \in TxId : \/ \E k \in Key, v \in Val \cup {NoVal} : Stage(t, k, v)
                             \/ Rollback(t) \/ CommitNothing(t) \/ Commit(t)
          \/ \E k \in Key, v \in Val \cup {NoVal} : AutoCommit(k, v))
    BY <1>1 DEF Begin, Stage, Rollback, CommitNothing, Commit, AutoCommit, Intact
  <2>3. ~(\/ AppendOps \/ AppendCommit \/ AppendCheckpoint \/ Sync \/ FinishTx \/ FinishAuto
          \/ \E close \in BOOLEAN : StartCheckpoint(close))
    BY <1>1 DEF AppendOps, AppendCommit, AppendCheckpoint, AppendRecord, Sync, FinishTx,
                FinishAuto, StartCheckpoint, Intact
  <2>4. ~(\/ Truncate \/ SyncCheckpoint \/ Open
          \/ \E k \in Key : Evict(k) \/ WriteBackPage(k)
          \/ WriteBackLog)
    BY <1>1 DEF Truncate, SyncCheckpoint, Open, Evict, WriteBackPage, WriteBackLog
  <2>5. ~(ProcessCrash \/ PowerCut)
    BY <1>1 DEF ProcessCrash, PowerCut, Intact
  <2> QED BY <2>1, <2>2, <2>3, <2>4, <2>5 DEF Next
<1>3. /\ pc \in {"apply", "redo", "flush", "close"}
      /\ pc' \in {"apply", "redo", "truncate", "idle"}
      /\ call' = call
  BY <1>2 DEF Apply, Redo, Flush, Close, FinishRecovery
<1> QED BY <1>3 DEF Up, Effective

LEMMA AbstractStep ==
    ASSUME Intact, Intact', [Next]_vars,
           Unseen \/ Started \/ Submitted \/ TookEffect \/ Answered \/ Died
    PROVE  [Durable!Next]_(Durable!vars)
<1> USE DEF Risky
<1>0. /\ Effective \in BOOLEAN /\ Effective' \in BOOLEAN /\ Up \in BOOLEAN /\ Up' \in BOOLEAN
      /\ Risky \in BOOLEAN /\ Risky' \in BOOLEAN
  BY DEF Effective, Up
<1>1. CASE ~(Risky' <=> Risky)
  <2>1. Up /\ Up' /\ call' = call /\ (Effective' <=> Effective)
    BY <1>1, Reorganizing
  <2>2. (Effective' = Effective) /\ Up /\ (Up' = Up)
    BY <1>0, <2>1
  <2>3. Recovered' = Recovered
    BY <2>1 DEF Unseen, Started, Submitted, TookEffect, Answered, Died
  <2>4. Durable!Reorganize
    BY <1>0, <2>1, <2>2, <2>3 DEF Durable!Reorganize
  <2> QED BY <2>4 DEF Durable!Next
<1> SUFFICES ASSUME Risky' = Risky PROVE [Durable!Next]_(Durable!vars)
  BY <1>0, <1>1
<1>2. CASE Unseen
  <2>1. (Effective' = Effective) /\ (Up' = Up)
    BY <1>0, <1>2 DEF Unseen
  <2> QED BY <1>2, <2>1 DEF Unseen, Durable!vars
<1>3. CASE Started
  <2>1. ~Up /\ Up' = TRUE /\ (Effective' = Effective)
    BY <1>0, <1>3 DEF Started
  <2>2. Durable!Start
    BY <1>3, <2>1 DEF Started, Durable!Start
  <2> QED BY <2>2 DEF Durable!Next
<1>4. CASE Submitted
  <2>1. Up /\ (Up' = Up) /\ (Effective' = Effective)
    BY <1>0, <1>4 DEF Submitted
  <2>2. Durable!Submit
    BY <1>4, <2>1 DEF Submitted, Durable!Submit, Durable!Op, Op
  <2> QED BY <2>2 DEF Durable!Next
<1>5. CASE TookEffect
  <2>1. (Up' = Up) /\ (Effective' = TRUE) /\ ~Effective
    BY <1>0, <1>5 DEF TookEffect
  <2>2. Durable!TakeEffect
    BY <1>5, <2>1, SameEffect DEF TookEffect, Durable!TakeEffect
  <2> QED BY <2>2 DEF Durable!Next
<1>6. CASE Answered
  <2>1. (Up' = Up) /\ (Effective' = FALSE) /\ Effective
    BY <1>0, <1>6 DEF Answered
  <2>2. Durable!Answer
    BY <1>6, <2>1 DEF Answered, Durable!Answer
  <2> QED BY <2>2 DEF Durable!Next
<1>7. CASE Died
  <2>1. Up /\ (Up' = FALSE) /\ (Effective' = FALSE)
    BY <1>0, <1>7 DEF Died
  <2>2. Durable!Die
    BY <1>7, <2>1 DEF Died, Durable!Die
  <2> QED BY <2>2 DEF Durable!Next
<1> QED BY <1>2, <1>3, <1>4, <1>5, <1>6, <1>7

\* Two logs that begin with the same n records make the same of them.
LEMMA PrefixDecides ==
    ASSUME NEW l, NEW m, NEW n \in Nat, \A i \in 1 .. n : l[i] = m[i]
    PROVE  /\ CommittedIn(l, n) = CommittedIn(m, n)
           /\ \A s : After(s, l, ReplayedIn(l, n)) = After(s, m, ReplayedIn(m, n))
<1>1. CommittedIn(l, n) = CommittedIn(m, n) /\ ReplayedIn(l, n) = ReplayedIn(m, n)
  BY SamePrefix
<1>2. PICK R : R = ReplayedIn(l, n)
  OBVIOUS
<1>3. R \in SUBSET (1 .. n) /\ \A i \in R : l[i] = m[i]
  BY <1>2 DEF ReplayedIn
<1>4. \A s : After(s, l, R) = After(s, m, R)
  BY <1>3, AfterSame
<1> QED BY <1>1, <1>2, <1>4

\* What a recovery would restore if nothing of the call in progress survived.
Old == After(Base, log, ReplayedIn(log, Before))

\* The call has taken effect when its commit record survives, and then as a whole.
CommitView ==
    Committing =>
        /\ call # NoCall /\ call.ops # << >>
        /\ Before \in Nat /\ Before <= Len(log)
        /\ Effective <=> pc # "append" /\ Surviving = Len(log)
        /\ Recovered = IF Effective THEN After(Old, call.ops, DOMAIN call.ops) ELSE Old

LEMMA CommitViewed == IInv => CommitView
<1> SUFFICES ASSUME IInv, Committing PROVE CommitView
  BY DEF CommitView
<1>1. View
  BY Viewed
<1>2. /\ Before \in Nat /\ Logged \in Nat
      /\ Len(log) = Before + Logged + (IF pc = "append" THEN 0 ELSE 1)
      /\ call.tx \notin CommittedIn(log, Before)
      /\ pc # "append" => CommittedIn(log, Len(log)) = CommittedIn(log, Before) \cup {call.tx}
  BY CallInLog
<1>3. call.tx \in TxId /\ call.ops # << >> /\ pc \in {"append", "sync", "apply"}
  BY DEF IInv, Phases, Committing
<1>4. call # NoCall
  BY <1>3 DEF NoCall
<1>5. Len(log) \in Nat /\ synced \in Nat /\ synced <= Len(log)
  BY Sizes DEF IInv
<1>6. \A n \in Before .. Before + Logged : /\ CommittedIn(log, n) = CommittedIn(log, Before)
                                           /\ ReplayedIn(log, n) = ReplayedIn(log, Before)
  <2>1. PICK l, t, b, m : l = log /\ t = call.tx /\ b = Before /\ m = Logged
    OBVIOUS
  <2>2. CallAt(l, b, m, t)
    BY <2>1, CallInLog DEF CallAt
  <2>3. b \in Nat /\ m \in Nat
    BY <1>2, <2>1
  <2>4. \A n \in b .. b + m : CommittedIn(l, n) = CommittedIn(l, b) /\ ReplayedIn(l, n) = ReplayedIn(l, b)
    BY <2>2, <2>3, CallReplayed
  <2> QED BY <2>1, <2>4
<1>7. CASE pc # "append" /\ Surviving = Len(log)
  <2>1. call.tx \in Committed(SurvivingLog)
    BY <1>1, <1>2, <1>7 DEF View
  <2>2. Effective
    BY <1>4, <2>1 DEF Effective
  <2>3. Recovered = After(Base, log, ReplayedIn(log, Len(log)))
    BY <1>1, <1>7 DEF View
  <2>4. Recovered = After(Old, call.ops, DOMAIN call.ops)
    BY <1>7, <2>3, CallTakesEffect DEF Old
  <2> QED BY <1>2, <1>3, <1>4, <1>5, <1>7, <2>2, <2>4 DEF CommitView
<1>8. CASE ~(pc # "append" /\ Surviving = Len(log))
  <2>1. pc # "apply" /\ Surviving \in Before .. Before + Logged
    <3>1. CASE Cut
      <4>1. Surviving = synced /\ synced \in Nat /\ synced <= Len(log)
        BY <1>5, <3>1 DEF Surviving
      <4>2. pc # "apply" /\ synced >= Before
        BY <1>3, <1>8, <3>1, <4>1 DEF IInv, Stable
      <4> QED BY <1>2, <1>3, <1>8, <4>1, <4>2
    <3>2. CASE ~Cut
      <4>1. Surviving = Len(log)
        BY <3>2 DEF Surviving
      <4> QED BY <1>2, <1>3, <1>8, <4>1
    <3> QED BY <3>1, <3>2
  <2>2. CommittedIn(log, Surviving) = CommittedIn(log, Before)
        /\ ReplayedIn(log, Surviving) = ReplayedIn(log, Before)
    BY <1>6, <2>1
  <2>3. call.tx \notin Committed(SurvivingLog)
    BY <1>1, <1>2, <2>2 DEF View
  <2>4. ~Effective
    BY <1>3, <2>1, <2>3 DEF Effective
  <2>5. Recovered = Old
    BY <1>1, <2>2 DEF View, Old
  <2> QED BY <1>2, <1>3, <1>4, <1>5, <1>8, <2>4, <2>5 DEF CommitView
<1> QED BY <1>7, <1>8

\* Outside of a commit the tree of an open engine is what a recovery would restore.
TreeView == isOpen /\ ~Committing => mem = Recovered

LEMMA TreeViewed == IInv => TreeView
<1> SUFFICES ASSUME IInv, isOpen, ~Committing PROVE mem = Recovered
  BY Zenon DEF TreeView
<1>1. Recovered = After(Base, log, ReplayedIn(log, Surviving)) /\ Surviving \in 0 .. Len(log)
  BY Viewed DEF View
<1>2. CASE pc \in {"mark", "marksync"}
  <2>1. Base = mem /\ mem \in Store
    BY <1>2 DEF IInv, Phases, Base, TypeOK
  <2>2. PICK l : l = log /\ (l = << >> \/ l = <<Mark("checkpoint", 0)>>)
    BY <1>2 DEF IInv, Phases
  <2>3. Len(l) \in Nat /\ ReplayedIn(l, Len(l)) = {}
    BY <2>2, NothingReplayed
  <2>4. PICK n \in Nat, m \in Nat : n = Surviving /\ m = Len(l) /\ n <= m
    BY <1>1, <2>2, <2>3
  <2>5. ReplayedIn(l, n) \subseteq ReplayedIn(l, m)
    BY <2>4, ReplayedGrows
  <2>6. ReplayedIn(log, Surviving) = {}
    BY <2>2, <2>3, <2>4, <2>5
  <2>7. PICK s : s = mem /\ s \in Store
    BY <2>1
  <2>8. \A m1 : After(s, m1, {}) = s
    BY <2>7, AfterNothing
  <2> QED BY <1>1, <2>1, <2>6, <2>7, <2>8
<1>3. CASE pc \notin {"mark", "marksync"}
  <2>1. pc \notin {"append", "sync", "apply", "mark", "marksync", "redo"}
    BY <1>3 DEF Committing, IInv, Phases
  <2>2. mem = After(Base, log, ReplayedIn(log, Surviving))
    BY <2>1, EverythingReached, TreeIsRecovered
  <2> QED BY <1>1, <2>2
<1> QED BY <1>2, <1>3

\* How the engine's state looks from outside.
Views == IInv /\ View /\ CommitView /\ TreeView

Seen == Intact => Views

LEMMA ViewsHold == Sound => Seen
BY Viewed, CommitViewed, TreeViewed DEF Views, Sound, Seen

LEMMA InitRefines == Init => Durable!Init
<1> SUFFICES ASSUME Init PROVE Durable!Init
  OBVIOUS
<1>1. Recovered = After(Base, log, ReplayedIn(log, Surviving)) /\ Surviving \in 0 .. Len(log)
  BY InitSound, Viewed DEF View
<1>2. Len(log) = 0 /\ Base = Empty
  BY EmptySeq DEF Init, Base
<1>3. Surviving = 0
  BY <1>1, <1>2
<1>4. ReplayedIn(log, 0) = {}
  BY DEF ReplayedIn
<1>5. PICK l, s : l = log /\ s = Empty /\ s \in Store
  BY NothingTyped
<1>6. After(s, l, {}) = s
  BY <1>5, AfterNothing
<1>7. Recovered = Empty
  BY <1>1, <1>2, <1>3, <1>4, <1>5, <1>6
<1>8. Effective = FALSE /\ Up = FALSE /\ call.ops = << >>
  <2>1. call = NoCall /\ pc = "down"
    BY DEF Init
  <2> QED BY <2>1 DEF Effective, Up, NoCall
<1>9. (image = "split" \/ Exposed) \in BOOLEAN /\ (~Intact) = FALSE
  BY DEF Init, Intact
<1> QED BY <1>7, <1>8, <1>9 DEF Durable!Init, Empty

\* The disk decides what a recovery restores.
LEMMA DiskKept ==
    ASSUME UNCHANGED <<log, synced, page, file, faults>>
    PROVE  /\ Recovered' = Recovered
           /\ Committed(SurvivingLog)' = Committed(SurvivingLog)
BY DEF Recovered, SurvivingLog

LEMMA QuietUnseen ==
    ASSUME UNCHANGED <<log, synced, page, file, call, faults>>,
           pc' = pc \/ (pc \notin {"append", "sync"} /\ pc' \notin {"append", "sync"}),
           pc' = "down" => pc = "down"
    PROVE  Unseen \/ Started
<1>1. Recovered' = Recovered /\ (Effective' <=> Effective)
  BY DiskKept DEF Effective
<1> QED BY <1>1 DEF Unseen, Started, Up

LEMMA StagingUnseen ==
    ASSUME IInv,
           \/ Begin
           \/ \E t \in TxId : \/ \E k \in Key, v \in Val \cup {NoVal} : Stage(t, k, v)
                              \/ Rollback(t) \/ CommitNothing(t)
           \/ Apply
           \/ \E close \in BOOLEAN : StartCheckpoint(close)
           \/ Open \/ Redo
    PROVE  Unseen \/ Started
<1>1. UNCHANGED <<log, synced, page, file, call, faults>>
  BY DEF Begin, Stage, Rollback, CommitNothing, Apply, StartCheckpoint, Open, Redo, disk
<1>2. \/ pc' = pc
      \/ pc \in {"idle", "down"} /\ pc' \in {"idle", "flush", "redo"}
  BY DEF Begin, Stage, Rollback, CommitNothing, Apply, StartCheckpoint, Open, Redo
<1> QED BY <1>1, <1>2, QuietUnseen

LEMMA SubmitRefines ==
    ASSUME Intact', Views, Views',
           \/ \E t \in TxId : Commit(t)
           \/ \E k \in Key, v \in Val \cup {NoVal} : AutoCommit(k, v)
    PROVE  Submitted
<1>1. /\ UNCHANGED <<log, synced, page, file, faults>>
      /\ pc = "idle" /\ pc' = "append" /\ call = NoCall
  BY DEF Commit, AutoCommit, Usable, disk, Views, IInv, Phases
<1>2. Recovered' = Recovered
  BY <1>1, DiskKept
<1>3. ~Effective /\ ~Effective'
  <2>1. ~Effective
    BY <1>1 DEF Effective
  <2>2. ~Effective'
    BY <1>1 DEF Views, CommitView, Committing
  <2> QED BY <2>1, <2>2
<1>4. call.ops = << >> /\ call'.ops \in Seq(Op)
  BY <1>1 DEF NoCall, Views, IInv, TypeOK, Call
<1> QED BY <1>1, <1>2, <1>3, <1>4 DEF Submitted, Up

\* A step of a commit that keeps the call and the records before it either is
\* unseen or makes the call take effect.
LEMMA CommitStep ==
    ASSUME Views, Views', Committing, Committing', call' = call, Before' = Before, Base' = Base,
           \A i \in 1 .. Before : log'[i] = log[i],
           Effective => Effective'
    PROVE  Unseen \/ TookEffect
<1>1. Old' = Old
  <2>1. PICK l, m, n, s : l = log /\ m = log' /\ n = Before /\ s = Base
    OBVIOUS
  <2>2. n \in Nat /\ \A i \in 1 .. n : l[i] = m[i]
    BY <2>1 DEF Views, CommitView
  <2>3. After(s, l, ReplayedIn(l, n)) = After(s, m, ReplayedIn(m, n))
    BY <2>2, PrefixDecides
  <2> QED BY <2>1, <2>3 DEF Old
<1>2. /\ call.ops # << >>
      /\ Recovered = IF Effective THEN After(Old, call.ops, DOMAIN call.ops) ELSE Old
      /\ Recovered' = IF Effective' THEN After(Old, call.ops, DOMAIN call.ops) ELSE Old
  BY <1>1 DEF Views, CommitView
<1>3. Up /\ Up'
  BY DEF Up, Committing
<1>4. CASE Effective <=> Effective'
  BY <1>2, <1>3, <1>4 DEF Unseen
<1>5. CASE ~Effective /\ Effective'
  BY <1>2, <1>3, <1>5 DEF TookEffect
<1> QED BY <1>4, <1>5

LEMMA AppendRefines ==
    ASSUME Intact', Views, Views', AppendOps \/ AppendCommit
    PROVE  Unseen \/ TookEffect
<1>1. /\ UNCHANGED <<synced, page, file, call, faults>>
      /\ pc = "append" /\ Committing /\ Committing' /\ isOpen
      /\ call.tx \in TxId
  <2>1. pc = "append" /\ pc' \in {"append", "sync"}
    BY DEF AppendOps, AppendCommit
  <2>2. isOpen /\ call.tx \in TxId
    BY <2>1 DEF Views, IInv, Phases, Committing
  <2> QED BY <2>1, <2>2 DEF AppendOps, AppendCommit, handle, Committing
<1>2. Len(log) \in Nat /\ Len(call.ops) \in Nat /\ pos \in Nat /\ pos >= 1
  BY Sizes DEF Views, IInv
<1>3. Len(log') = Len(log) + 1 /\ \A i \in 1 .. Len(log) : log'[i] = log[i]
  <2>1. ASSUME NEW r \in Record, r # Torn, AppendRecord(r)
        PROVE  Len(log') = Len(log) + 1 /\ \A i \in 1 .. Len(log) : log'[i] = log[i]
    BY <1>1, <2>1, AppendsOne DEF Views, IInv
  <2>2. CASE AppendOps
    <3>1. pos \in 1 .. Len(call.ops) /\ call.ops \in Seq(Op)
      BY <1>2, <2>2, Sizes DEF AppendOps, Views, IInv
    <3>2. PICK r : r = LoggedWrite(pos)
      OBVIOUS
    <3>3. r \in Record /\ r # Torn /\ AppendRecord(r)
      BY <1>1, <2>2, <3>1, <3>2, OpIs DEF AppendOps, LoggedWrite, Torn, Mark
    <3> QED BY <2>1, <3>3
  <2>3. CASE AppendCommit
    <3>1. PICK r : r = Mark("commit", call.tx)
      OBVIOUS
    <3>2. r \in Record /\ r # Torn /\ AppendRecord(r)
      BY <1>1, <2>3, <3>1, MarksAre DEF AppendCommit
    <3> QED BY <2>1, <3>2
  <2> QED BY <2>2, <2>3
<1>4. Before' = Before
  <2>1. CASE AppendOps
    BY <1>2, <1>3, <2>1 DEF AppendOps, Before
  <2>2. CASE AppendCommit
    <3>1. pos = Len(call.ops) + 1
      <4>1. pos <= Len(call.ops) + 1
        BY <1>1 DEF Views, IInv, Phases
      <4> QED BY <1>2, <2>2, <4>1 DEF AppendCommit
    <3> QED BY <1>2, <1>3, <2>2, <3>1 DEF AppendCommit, Before
  <2> QED BY <2>1, <2>2
<1>5. ~Effective
  BY <1>1 DEF Views, CommitView
<1>6. Base' = Base
  BY <1>1 DEF Base, Cut
<1>7. \A i \in 1 .. Before : log'[i] = log[i]
  <2>1. Before \in Nat /\ Before <= Len(log)
    BY <1>1 DEF Views, CommitView
  <2> QED BY <1>2, <1>3, <2>1
<1> QED BY <1>1, <1>4, <1>5, <1>6, <1>7, CommitStep

LEMMA SyncRefines ==
    ASSUME Intact', Views, Views', Sync
    PROVE  Unseen \/ TookEffect
<1>1. /\ UNCHANGED <<log, page, file, call, faults>>
      /\ pc = "sync" /\ pc' = "apply" /\ Committing /\ Committing'
  BY DEF Sync, handle, Committing
<1>2. Before' = Before /\ Base' = Base
  BY <1>1 DEF Before, Base, Cut
<1>3. Effective'
  <2>1. call' # NoCall
    BY <1>1 DEF Views, CommitView
  <2> QED BY <1>1, <2>1 DEF Effective
<1> QED BY <1>1, <1>2, <1>3, CommitStep

LEMMA FinishRefines ==
    ASSUME Intact', Views, Views', FinishTx \/ FinishAuto
    PROVE  Unseen \/ Answered
<1>1. /\ UNCHANGED <<log, synced, page, file, faults>>
      /\ pc = "apply" /\ Committing
      /\ (pc' = "idle" /\ call' = NoCall) \/ (pc' = "flush" /\ call' = call)
  BY DEF FinishTx, FinishAuto, disk, handle, Committing
<1>2. Recovered' = Recovered
  BY <1>1, DiskKept
<1>3. call # NoCall /\ call.ops # << >> /\ Effective
  BY <1>1 DEF Views, CommitView, Effective
<1>4. CASE call' = NoCall
  <2>1. call'.ops = << >> /\ ~Effective'
    BY <1>4 DEF NoCall, Effective
  <2> QED BY <1>1, <1>2, <1>3, <2>1 DEF Answered, Up
<1>5. CASE pc' = "flush" /\ call' = call
  <2>1. Effective'
    BY <1>3, <1>5 DEF Effective
  <2> QED BY <1>1, <1>2, <1>3, <1>5, <2>1 DEF Unseen, Up
<1> QED BY <1>1, <1>4, <1>5

LEMMA TreeStepRefines ==
    ASSUME Intact', Views, Views', Flush \/ Truncate \/ AppendCheckpoint \/ SyncCheckpoint
    PROVE  Unseen \/ Answered
<1>1. /\ mem' = mem /\ isOpen' = isOpen
      /\ pc \in {"flush", "truncate", "mark", "marksync"}
      /\ pc' \in {"truncate", "mark", "marksync", "close", "idle"}
      /\ call' = call \/ call' = NoCall
  BY DEF Flush, Truncate, AppendCheckpoint, SyncCheckpoint, handle
<1>2. isOpen /\ isOpen' /\ ~Committing /\ ~Committing'
  <2>1. isOpen
    BY <1>1 DEF Views, IInv, Phases
  <2> QED BY <1>1, <2>1 DEF Committing
<1>3. Recovered' = Recovered
  BY <1>1, <1>2 DEF Views, TreeView
<1>4. (Effective <=> call # NoCall) /\ (Effective' <=> call' # NoCall) /\ Up /\ Up'
  BY <1>1 DEF Effective, Up
<1>5. CASE call' = call
  BY <1>3, <1>4, <1>5 DEF Unseen
<1>6. CASE call' = NoCall /\ call # NoCall
  <2>1. call.ops # << >> /\ call'.ops = << >>
    BY <1>6 DEF Views, IInv, Phases, NoCall
  <2> QED BY <1>3, <1>4, <1>6, <2>1 DEF Answered
<1> QED BY <1>1, <1>5, <1>6

LEMMA CloseRefines ==
    ASSUME Intact', Views, Views', Close \/ FinishRecovery
    PROVE  Unseen
<1>1. /\ mem' = mem /\ log' = log /\ call' = call /\ faults' = faults
      /\ pc \in {"close", "redo"} /\ pc' = "idle" /\ call = NoCall
  <2>1. pc \in {"close", "redo"}
    BY DEF Close, FinishRecovery
  <2> QED BY <2>1 DEF Close, FinishRecovery, Views, IInv, Phases
<1>2. ~Effective /\ ~Effective' /\ Up /\ Up'
  BY <1>1 DEF Effective, Up
<1>3. /\ isOpen \/ pc = "redo"
      /\ Reached(log, Reach) = ReplayedIn(log, Len(log))
  <2>1. CASE pc = "close"
    <3>1. isOpen
      BY <2>1 DEF Views, IInv, Phases
    <3> QED BY <2>1, <3>1, EverythingReached DEF Views
  <2>2. CASE pc = "redo" /\ FinishRecovery
    <3>1. pos <= Len(log) + 1 /\ pos \in Nat /\ Len(log) \in Nat
      BY <2>2, Sizes DEF Views, IInv, Phases
    <3>2. pos = Len(log) + 1
      BY <2>2, <3>1, RecoveryReads DEF FinishRecovery, Views
    <3>3. Reach = Len(log) + 1
      BY <2>2, <3>2 DEF Reach
    <3>4. PICK l : l = log /\ Len(l) \in Nat
      BY <3>1
    <3> QED BY <2>2, <3>3, <3>4, ReachedAll
  <2> QED BY <2>1, <2>2 DEF Close, FinishRecovery
<1>4. /\ mem = After(file, log, ReplayedIn(log, Len(log)))
      /\ mem = Recovered
  <2>1. /\ mem = After(file, log, ReplayedIn(log, Len(log)))
        /\ mem = After(Base, log, ReplayedIn(log, Surviving))
    BY <1>1, <1>3, TreeIsRecovered DEF Views
  <2> QED BY <2>1 DEF Views, View
<1>5. Recovered' = mem
  <2>1. CASE Close
    <3>1. file' = mem /\ page' = mem /\ synced' = Len(log)
      BY <2>1 DEF Close
    <3>2. Recovered' = After(mem, log, ReplayedIn(log, Len(log)))
      BY <1>1, <3>1 DEF Views, View, Base, Surviving
    <3>3. PICK l, s, I, n : l = log /\ s = file /\ n = Len(log) /\ I = ReplayedIn(log, Len(log))
      OBVIOUS
    <3>4. n \in Nat /\ I \in SUBSET (1 .. n)
      BY <3>3, Sizes DEF Views, IInv, ReplayedIn
    <3>5. After(After(s, l, I), l, I) = After(s, l, I)
      BY <3>4, AfterTwice
    <3> QED BY <1>4, <3>2, <3>3, <3>5
  <2>2. CASE FinishRecovery
    <3>1. isOpen' /\ ~Committing'
      BY <2>2, Zenon DEF FinishRecovery, Committing
    <3> QED BY <1>1, <3>1 DEF Views, TreeView
  <2> QED BY <2>1, <2>2
<1> QED BY <1>1, <1>2, <1>4, <1>5 DEF Unseen

\* A page that is written somewhere is one recovery writes anyway.
LEMMA WriteBackRefines ==
    ASSUME Intact', Views, Views', NEW k \in Key, Evict(k) \/ WriteBackPage(k)
    PROVE  Unseen
<1>1. /\ UNCHANGED <<log, synced, mem, pc, call, faults>>
      /\ file' = file \/ file' = [file EXCEPT ![k] = mem[k]]
      /\ page' = page \/ page' = [page EXCEPT ![k] = file[k]]
  BY DEF Evict, WriteBackPage, handle
<1>2. file \in Store /\ page \in Store
  BY DEF Views, IInv, TypeOK
<1>3. Base' = Base \/ ~Unhit(log, k, ReplayedIn(log, Surviving))
  <2>1. CASE Evict(k) /\ ~Cut
    <3>1. ~Unhit(log, k, Reached(log, Reach))
      BY <2>1, EvictKnown DEF Views
    <3>2. ~Unhit(log, k, ReplayedIn(log, Len(log)))
      BY <3>1 DEF Unhit, Reached
    <3> QED BY <2>1, <3>2 DEF Surviving
  <2>2. CASE Evict(k) /\ Cut
    BY <1>1, <2>2 DEF Evict, Base, Cut
  <2>3. CASE WriteBackPage(k)
    BY <2>3 DEF WriteBackPage, Views, IInv, PagesAgree, Surviving, Cut
  <2> QED BY <2>1, <2>2, <2>3
<1>4. \A h \in Key : h # k => Base'[h] = Base[h]
  BY <1>1, <1>2 DEF Base, Cut, Store
<1>5. Recovered' = Recovered
  <2>1. PICK l, I, s, r : l = log /\ I = ReplayedIn(log, Surviving) /\ s = Base /\ r = Base'
    OBVIOUS
  <2>2. \A h \in Key : (\A i \in I : l[i].key # h) => s[h] = r[h]
    BY <1>3, <1>4, <2>1 DEF Unhit
  <2>3. After(s, l, I) = After(r, l, I)
    BY <2>2, AfterFrom
  <2>4. Surviving' = Surviving
    BY <1>1 DEF Surviving, Cut
  <2>5. Recovered = After(s, l, I) /\ Recovered' = After(r, l, I)
    BY <1>1, <2>1, <2>4 DEF Views, View
  <2> QED BY <2>3, <2>5
<1>6. Committed(SurvivingLog)' = Committed(SurvivingLog)
  BY <1>1 DEF SurvivingLog
<1> QED BY <1>1, <1>5, <1>6 DEF Unseen, Effective, Up

LEMMA WriteBackLogRefines ==
    ASSUME Intact', Views, Views', WriteBackLog
    PROVE  Unseen \/ TookEffect
<1>1. /\ UNCHANGED <<log, page, file, mem, pc, pos, call, isOpen, faults>>
      /\ Cut /\ synced < Len(log)
  BY DEF WriteBackLog, handle, Cut
<1>2. CASE Committing
  <2>1. Committing' /\ Before' = Before /\ Base' = Base
    BY <1>1, <1>2 DEF Committing, Before, Base, Cut
  <2>2. ~Effective
    <3>1. Surviving # Len(log)
      BY <1>1, Sizes DEF Surviving, Views, IInv
    <3> QED BY <1>2, <3>1 DEF Views, CommitView
  <2> QED BY <1>1, <1>2, <2>1, <2>2, CommitStep
<1>3. CASE ~Committing
  <2>1. pc \in {"mark", "marksync"}
    <3>1. synced # Len(log)
      BY <1>1, Sizes DEF Views, IInv
    <3> QED BY <1>1, <1>3, <3>1 DEF Views, IInv, Stable, Committing
  <2>2. isOpen
    BY <2>1 DEF Views, IInv, Phases
  <2>3. Recovered' = Recovered
    BY <1>1, <1>3, <2>2 DEF Views, TreeView, Committing
  <2>4. Effective' <=> Effective
    BY <1>1, <2>1 DEF Effective
  <2> QED BY <1>1, <2>3, <2>4 DEF Unseen, Up
<1> QED BY <1>2, <1>3

LEMMA CrashRefines ==
    ASSUME Intact', Views, Views', ProcessCrash \/ PowerCut
    PROVE  Unseen \/ Died
<1>1. pc' = "down" /\ call' = NoCall /\ faults' = faults
  BY DEF ProcessCrash, PowerCut, MemoryLost
<1>2. Recovered' = Recovered
  <2>1. CASE ProcessCrash
    <3>1. image = "whole"
      BY <2>1 DEF ProcessCrash, Intact
    <3> QED BY <2>1, <3>1, DiskKept DEF ProcessCrash, Found
  <2>2. CASE PowerCut
    <3>1. log' = SubSeq(log, 1, synced) /\ synced' = Len(log') /\ page' = page /\ Cut /\ Cut'
      <4>1. image = "whole" /\ log' = SubSeq(log, 1, synced)
        BY <2>2 DEF PowerCut, Intact
      <4> QED BY <1>1, <2>2, <4>1 DEF PowerCut, Found, Cut
    <3>2. PICK l, m, n, s : l = log /\ m = log' /\ n = synced /\ s = page
      OBVIOUS
    <3>3. l \in Seq(Record) /\ n \in 0 .. Len(l) /\ Len(l) \in Nat
      BY <3>2, Sizes DEF Views, IInv, TypeOK
    <3>4. m = SubSeq(l, 1, n) /\ Len(m) = n /\ n \in Nat /\ \A i \in 1 .. n : l[i] = m[i]
      BY <3>1, <3>2, <3>3, CutOff
    <3>5. After(s, l, ReplayedIn(l, n)) = After(s, m, ReplayedIn(m, n))
      BY <3>4, PrefixDecides, ZenonT(40)
    <3>6. Recovered = After(page, log, ReplayedIn(log, synced))
      BY <3>1 DEF Views, View, Base, Surviving
    <3>7. Recovered' = After(page, log', ReplayedIn(log', Len(log')))
      BY <3>1 DEF Views, View, Base, Surviving
    <3> QED BY <3>2, <3>4, <3>5, <3>6, <3>7
  <2> QED BY <2>1, <2>2
<1>3. ~Effective' /\ call'.ops = << >> /\ ~Up'
  BY <1>1 DEF Effective, NoCall, Up
<1>4. CASE Up
  BY <1>2, <1>3, <1>4 DEF Died
<1>5. CASE ~Up
  <2>1. call = NoCall
    BY <1>5 DEF Up, Views, IInv, Phases
  <2>2. ~Effective /\ call.ops = << >>
    BY <2>1 DEF Effective, NoCall
  <2> QED BY <1>2, <1>3, <1>5, <2>2 DEF Unseen
<1> QED BY <1>4, <1>5

LEMMA StepSeen ==
    ASSUME Intact', Views, Views', [Next]_vars
    PROVE  Unseen \/ Started \/ Submitted \/ TookEffect \/ Answered \/ Died
<1>1. CASE UNCHANGED vars
  <2>1. UNCHANGED <<log, synced, page, file, call, pc, faults>>
    BY <1>1 DEF vars, disk
  <2> QED BY <2>1, QuietUnseen
<1>2. CASE \/ Begin
           \/ \E t \in TxId : \/ \E k \in Key, v \in Val \cup {NoVal} : Stage(t, k, v)
                              \/ Rollback(t) \/ CommitNothing(t)
           \/ Apply
           \/ \E close \in BOOLEAN : StartCheckpoint(close)
           \/ Open \/ Redo
  BY <1>2, StagingUnseen DEF Views
<1>3. CASE \/ \E t \in TxId : Commit(t)
           \/ \E k \in Key, v \in Val \cup {NoVal} : AutoCommit(k, v)
  BY <1>3, SubmitRefines
<1>4. CASE AppendOps \/ AppendCommit \/ Sync
  BY <1>4, AppendRefines, SyncRefines
<1>5. CASE FinishTx \/ FinishAuto
  BY <1>5, FinishRefines
<1>6. CASE Flush \/ Truncate \/ AppendCheckpoint \/ SyncCheckpoint
  BY <1>6, TreeStepRefines
<1>7. CASE Close \/ FinishRecovery
  BY <1>7, CloseRefines
<1>8. CASE \E k \in Key : Evict(k) \/ WriteBackPage(k)
  BY <1>8, WriteBackRefines
<1>9. CASE WriteBackLog
  BY <1>9, WriteBackLogRefines
<1>10. CASE ProcessCrash \/ PowerCut
  BY <1>10, CrashRefines
<1>11. Next \/ UNCHANGED vars
  OBVIOUS
<1> QED BY <1>1, <1>2, <1>3, <1>4, <1>5, <1>6, <1>7, <1>8, <1>9, <1>10, <1>11 DEF Next

LEMMA StepRefines ==
    ASSUME TypeOK, Seen, Seen', [Next]_vars
    PROVE  [Durable!Next]_(Durable!vars)
<1>1. CASE Intact'
  <2>1. Intact
    BY <1>1, Intactly
  <2>2. Views /\ Views'
    BY <1>1, <2>1 DEF Seen
  <2> QED BY <1>1, <2>1, <2>2, StepSeen, AbstractStep
<1>2. CASE ~Intact'
  <2>1. Risky \/ ~Intact
    BY <1>2, Breaking
  <2>2. Durable!Break
    BY <1>2, <2>1 DEF Durable!Break, Risky
  <2> QED BY <2>2 DEF Durable!Next
<1> QED BY <1>1, <1>2

\* Every behaviour of the engine is one of a store whose calls are atomic and
\* durable, wherever the process or the machine stops; it breaks only if it stops
\* in the middle of a split or meets other faults than one kind of crash.
THEOREM CallsAreDurable == Spec => ImplementsDurableStore
<1>1. TypeOK /\ Seen /\ Seen' /\ [Next]_vars => [Durable!Next]_(Durable!vars)
  BY StepRefines
<1> QED
  BY <1>1, InitRefines, Invariant, TypeCorrect, ViewsHold, PTL
     DEF Spec, ImplementsDurableStore, Durable!Spec

-------------------------------------------------------------------------------
\* The buffer pool

\* The list of used frames, written as a sequence from the tail to the head

InList(s) == {s[i] : i \in 1 .. Len(s)}
NoneTwice(s) == \A i, j \in 1 .. Len(s) : s[i] = s[j] => i = j

Links == [prev : [Frame -> Frame \cup {Nil}], next : [Frame -> Frame \cup {Nil}],
          head : Frame \cup {Nil}, tail : Frame \cup {Nil}]

Lists(l, s) ==
    /\ l \in Links /\ s \in Seq(Frame) /\ NoneTwice(s)
    /\ l.tail = IF Len(s) = 0 THEN Nil ELSE s[1]
    /\ l.head = IF Len(s) = 0 THEN Nil ELSE s[Len(s)]
    /\ \A i \in 1 .. Len(s) : /\ l.prev[s[i]] = IF i = Len(s) THEN Nil ELSE s[i + 1]
                              /\ l.next[s[i]] = IF i = 1 THEN Nil ELSE s[i - 1]
    /\ \A f \in Frame \ InList(s) : l.prev[f] = Nil /\ l.next[f] = Nil

\* Nil, the -1 of the code, is not the number of a frame.
LEMMA NilIsNoFrame == Nil \notin Frame /\ Frame \subseteq Nat
BY CapacityAssumption DEF Nil, Frame

\* The largest pool has finitely many frames.
LEMMA FramesFinite == IsFiniteSet(Frame) /\ Cardinality(Frame) \in Nat
<1> DEFINE Ranges == {0 .. n - 1 : n \in Capacities}
           below == [n \in Capacities |-> 0 .. n - 1]
<1>1. below \in Surjection(Capacities, Ranges)
  BY DEF Surjection
<1>2. IsFiniteSet(Ranges)
  BY <1>1, FiniteAssumption, FS_Surjection, Zenon
<1>3. \A R \in Ranges : IsFiniteSet(R)
  <2>1. \A n \in Capacities : 0 \in Int /\ n - 1 \in Int
    BY CapacityAssumption
  <2>2. \A n \in Capacities : IsFiniteSet(0 .. n - 1)
    BY <2>1, FS_Interval
  <2> QED BY <2>2
<1>4. IsFiniteSet(Frame)
  BY <1>2, <1>3, FS_UNION, Zenon DEF Frame
<1> QED BY <1>4, FS_CardinalityType

\* lru_remove
LEMMA RemoveLists ==
    ASSUME NEW l, NEW s, Lists(l, s), NEW f \in Frame
    PROVE  \E t : Lists(Remove(l, f), t) /\ InList(t) = InList(s) \ {f}
<1> USE NilIsNoFrame
<1> DEFINE N == Len(s)
<1>0. N \in Nat /\ s \in Seq(Frame) /\ \A i \in 1 .. N : s[i] \in Frame
  BY DEF Lists
<1>1. CASE f \notin InList(s)
  <2>1. l.prev[f] = Nil /\ l.next[f] = Nil
    BY <1>1 DEF Lists
  <2>2. f \notin {l.head, l.tail}
    BY <1>0, <1>1 DEF Lists, InList
  <2>3. Remove(l, f) = l
    BY <2>1, <2>2 DEF Remove
  <2> QED BY <1>1, <2>3
<1>2. CASE f \in InList(s)
  <2>1. PICK k \in 1 .. N : s[k] = f
    BY <1>2 DEF InList
  <2> DEFINE t == [i \in 1 .. N - 1 |-> IF i < k THEN s[i] ELSE s[i + 1]]
             r == Remove(l, f)
             p == IF k = N THEN Nil ELSE s[k + 1]
             n == IF k = 1 THEN Nil ELSE s[k - 1]
  <2>2. l.prev[f] = p /\ l.next[f] = n
    BY <2>1 DEF Lists
  <2>3. /\ p = Nil <=> k = N
        /\ n = Nil <=> k = 1
        /\ p \in Frame \cup {Nil} /\ n \in Frame \cup {Nil}
    BY <1>0, <2>1
  <2>4. ~ (l.prev[f] = Nil /\ l.next[f] = Nil /\ f \notin {l.head, l.tail})
    <3>1. SUFFICES ASSUME p = Nil, n = Nil PROVE f = l.tail
      BY <2>2
    <3>2. N = 1 /\ k = 1
      BY <2>3, <3>1
    <3> QED BY <2>1, <3>2 DEF Lists
  <2>5. r = [prev |-> [g \in Frame |-> IF g = f THEN Nil ELSE IF g = n THEN p ELSE l.prev[g]],
             next |-> [g \in Frame |-> IF g = f THEN Nil ELSE IF g = p THEN n ELSE l.next[g]],
             head |-> IF p = Nil THEN n ELSE l.head,
             tail |-> IF n = Nil THEN p ELSE l.tail]
    BY <2>2, <2>4 DEF Remove
  <2> HIDE DEF r
  <2>6. r \in Links
    <3>1. l \in Links
      BY DEF Lists
    <3> QED BY <2>3, <2>5, <3>1 DEF Links
  <2>7. t \in Seq(Frame) /\ Len(t) = N - 1
        /\ \A i \in 1 .. N - 1 : t[i] = IF i < k THEN s[i] ELSE s[i + 1]
    <3>1. N - 1 \in Nat
      BY <2>1
    <3>2. \A i \in 1 .. N - 1 : (IF i < k THEN s[i] ELSE s[i + 1]) \in Frame
      BY <1>0, <2>1
    <3> QED BY <3>1, <3>2
  <2> HIDE DEF t
  <2>8. \A i, j \in 1 .. N : s[i] = s[j] => i = j
    BY DEF Lists, NoneTwice
  <2>9. NoneTwice(t)
    BY <1>0, <2>1, <2>7, <2>8 DEF NoneTwice
  <2>10. InList(t) = InList(s) \ {f}
    <3>1. \A i \in 1 .. N - 1 : t[i] \in InList(s) /\ t[i] # f
      BY <1>0, <2>1, <2>7, <2>8 DEF InList
    <3>2. \A i \in 1 .. N : s[i] # f => \E j \in 1 .. N - 1 : t[j] = s[i]
      <4> SUFFICES ASSUME NEW i \in 1 .. N, s[i] # f PROVE \E j \in 1 .. N - 1 : t[j] = s[i]
        OBVIOUS
      <4>1. CASE i < k
        BY <1>0, <2>1, <2>7, <4>1
      <4>2. CASE i > k
        <5>1. i - 1 \in 1 .. N - 1 /\ t[i - 1] = s[i]
          BY <1>0, <2>1, <2>7, <4>2
        <5> QED BY <5>1
      <4> QED BY <1>0, <2>1, <4>1, <4>2
    <3> QED BY <2>7, <3>1, <3>2 DEF InList
  <2>11. r.tail = IF Len(t) = 0 THEN Nil ELSE t[1]
    BY <1>0, <2>1, <2>3, <2>5, <2>7 DEF Lists
  <2>12. r.head = IF Len(t) = 0 THEN Nil ELSE t[Len(t)]
    BY <1>0, <2>1, <2>3, <2>5, <2>7 DEF Lists
  <2>13. ASSUME NEW i \in 1 .. Len(t)
         PROVE  /\ r.prev[t[i]] = IF i = Len(t) THEN Nil ELSE t[i + 1]
                /\ r.next[t[i]] = IF i = 1 THEN Nil ELSE t[i - 1]
    <3> DEFINE j == IF i < k THEN i ELSE i + 1
    <3>1. j \in 1 .. N /\ t[i] = s[j] /\ j # k /\ i \in 1 .. N - 1
      BY <1>0, <2>1, <2>7
    <3>2. s[j] \in Frame /\ s[j] # f
      BY <1>0, <2>1, <2>8, <3>1
    <3>3. /\ l.prev[s[j]] = IF j = N THEN Nil ELSE s[j + 1]
          /\ l.next[s[j]] = IF j = 1 THEN Nil ELSE s[j - 1]
      BY <3>1 DEF Lists
    <3>4. s[j] = n <=> k # 1 /\ j = k - 1
      BY <1>0, <2>1, <2>8, <3>1, <3>2
    <3>5. s[j] = p <=> k # N /\ j = k + 1
      BY <1>0, <2>1, <2>8, <3>1, <3>2
    <3>6. r.prev[t[i]] = IF k # 1 /\ j = k - 1 THEN p ELSE l.prev[s[j]]
      BY <2>5, <3>1, <3>2, <3>4
    <3>7. r.next[t[i]] = IF k # N /\ j = k + 1 THEN n ELSE l.next[s[j]]
      BY <2>5, <3>1, <3>2, <3>5
    <3>8. r.prev[t[i]] = IF i = Len(t) THEN Nil ELSE t[i + 1]
      <4>1. CASE i = Len(t)
        BY <1>0, <2>1, <2>7, <3>1, <3>3, <3>6, <4>1
      <4>2. CASE i # Len(t)
        <5>1. i + 1 \in 1 .. N - 1 /\ t[i + 1] = IF i + 1 < k THEN s[i + 1] ELSE s[(i + 1) + 1]
          BY <1>0, <2>7, <4>2
        <5>2. CASE j = k - 1
          BY <1>0, <2>1, <2>7, <3>1, <3>6, <4>2, <5>1, <5>2
        <5>3. CASE j # k - 1
          BY <1>0, <2>1, <2>7, <3>1, <3>3, <3>6, <4>2, <5>1, <5>3
        <5> QED BY <5>2, <5>3
      <4> QED BY <4>1, <4>2
    <3>9. r.next[t[i]] = IF i = 1 THEN Nil ELSE t[i - 1]
      BY <1>0, <2>1, <2>7, <3>1, <3>3, <3>7
    <3> QED BY <3>8, <3>9
  <2>14. ASSUME NEW g \in Frame \ InList(t)
         PROVE  r.prev[g] = Nil /\ r.next[g] = Nil
    <3>1. CASE g = f
      BY <2>5, <3>1
    <3>2. CASE g # f
      <4>1. g \notin InList(s)
        BY <2>10, <3>2
      <4>2. g # n /\ g # p
        BY <1>0, <2>1, <4>1 DEF InList
      <4>3. l.prev[g] = Nil /\ l.next[g] = Nil
        BY <4>1 DEF Lists
      <4> QED BY <2>5, <3>2, <4>2, <4>3
    <3> QED BY <3>1, <3>2
  <2>15. Lists(r, t)
    BY <2>6, <2>7, <2>9, <2>11, <2>12, <2>13, <2>14 DEF Lists
  <2> QED BY <2>10, <2>15 DEF r
<1> QED BY <1>1, <1>2

\* lru_push_front
LEMMA PushFrontLists ==
    ASSUME NEW l, NEW s, Lists(l, s), NEW f \in Frame
    PROVE  \E t : Lists(PushFront(l, f), t) /\ InList(t) = InList(s) \cup {f}
<1> USE NilIsNoFrame
<1>1. PICK u : Lists(Remove(l, f), u) /\ InList(u) = InList(s) \ {f}
  BY RemoveLists
<1> DEFINE r == Remove(l, f)
           m == PushFront(l, f)
           N == Len(u)
           t == Append(u, f)
<1>2. m = [prev |-> [g \in Frame |-> IF g = f THEN Nil ELSE IF g = r.head THEN f ELSE r.prev[g]],
           next |-> [r.next EXCEPT ![f] = r.head],
           head |-> f,
           tail |-> IF r.tail = Nil THEN f ELSE r.tail]
  BY DEF PushFront
<1> HIDE DEF r, m
<1>3. /\ N \in Nat /\ u \in Seq(Frame) /\ (\A i \in 1 .. N : u[i] \in Frame /\ u[i] # f)
      /\ r \in Links /\ f \notin InList(u)
  <2>1. u \in Seq(Frame) /\ r \in Links
    BY <1>1 DEF Lists, r
  <2>2. f \notin InList(u)
    BY <1>1
  <2>3. \A i \in 1 .. N : u[i] \in InList(u)
    BY DEF InList
  <2> QED BY <2>1, <2>2, <2>3
<1>4. /\ t \in Seq(Frame) /\ Len(t) = N + 1
      /\ \A i \in 1 .. N : t[i] = u[i]
      /\ t[N + 1] = f
  BY <1>3
<1> HIDE DEF t
<1>5. /\ r.head = IF N = 0 THEN Nil ELSE u[N]
      /\ r.tail = IF N = 0 THEN Nil ELSE u[1]
      /\ \A i, j \in 1 .. N : u[i] = u[j] => i = j
      /\ \A i \in 1 .. N : /\ r.prev[u[i]] = IF i = N THEN Nil ELSE u[i + 1]
                           /\ r.next[u[i]] = IF i = 1 THEN Nil ELSE u[i - 1]
      /\ \A g \in Frame \ InList(u) : r.prev[g] = Nil /\ r.next[g] = Nil
  BY <1>1 DEF Lists, NoneTwice, r
<1>6. m \in Links
  BY <1>2, <1>3 DEF Links
<1>7. NoneTwice(t)
  BY <1>3, <1>4, <1>5 DEF NoneTwice
<1>8. InList(t) = InList(u) \cup {f}
  BY <1>3, <1>4 DEF InList
<1>9. m.head = t[Len(t)] /\ m.tail = t[1]
  BY <1>2, <1>3, <1>4, <1>5
<1>10. \A g \in Frame : /\ m.prev[g] = IF g = f THEN Nil ELSE IF g = r.head THEN f ELSE r.prev[g]
                        /\ m.next[g] = IF g = f THEN r.head ELSE r.next[g]
  BY <1>2, <1>3 DEF Links
<1>11. ASSUME NEW i \in 1 .. Len(t)
       PROVE  /\ m.prev[t[i]] = IF i = Len(t) THEN Nil ELSE t[i + 1]
              /\ m.next[t[i]] = IF i = 1 THEN Nil ELSE t[i - 1]
  <2>1. CASE i = N + 1
    BY <1>3, <1>4, <1>5, <1>10, <2>1
  <2>2. CASE i # N + 1
    <3>1. i \in 1 .. N /\ t[i] = u[i] /\ t[i] \in Frame /\ t[i] # f
      BY <1>3, <1>4, <2>2
    <3>2. t[i] = r.head <=> i = N
      BY <1>3, <1>5, <3>1
    <3> DEFINE g == t[i]
    <3>5. g \in Frame /\ g # f /\ g = u[i]
      BY <3>1
    <3>6. /\ r.prev[g] = IF i = N THEN Nil ELSE u[i + 1]
          /\ r.next[g] = IF i = 1 THEN Nil ELSE u[i - 1]
      BY <1>5, <3>1
    <3> HIDE DEF g
    <3>7. /\ m.prev[g] = IF g = r.head THEN f ELSE r.prev[g]
          /\ m.next[g] = r.next[g]
      BY <1>10, <3>5
    <3>3. m.prev[g] = IF i = N THEN f ELSE u[i + 1]
      BY <3>2, <3>6, <3>7 DEF g
    <3>4. m.next[g] = IF i = 1 THEN Nil ELSE u[i - 1]
      BY <3>6, <3>7
    <3>8. m.prev[g] = IF i = Len(t) THEN Nil ELSE t[i + 1]
      BY <1>3, <1>4, <3>1, <3>3
    <3>9. m.next[g] = IF i = 1 THEN Nil ELSE t[i - 1]
      BY <1>3, <1>4, <3>1, <3>4
    <3> QED BY <3>8, <3>9 DEF g
  <2> QED BY <2>1, <2>2
<1>12. ASSUME NEW g \in Frame \ InList(t)
       PROVE  m.prev[g] = Nil /\ m.next[g] = Nil
  <2>1. g # f /\ g \notin InList(u)
    BY <1>8
  <2>2. g # r.head
    BY <1>3, <1>5, <2>1 DEF InList
  <2> QED BY <1>5, <1>10, <2>1, <2>2
<1>13. Lists(m, t)
  BY <1>3, <1>4, <1>6, <1>7, <1>9, <1>11, <1>12 DEF Lists
<1> QED BY <1>1, <1>8, <1>13 DEF m

-------------------------------------------------------------------------------
\* The walk from the tail

\* A list names every frame once at most, so its length is the number of its frames.
LEMMA ListIsShort ==
    ASSUME NEW l, NEW s, Lists(l, s)
    PROVE  Cardinality(InList(s)) = Len(s) /\ Len(s) <= Cardinality(Frame)
<1>1. Len(s) \in Nat /\ s \in [1 .. Len(s) -> InList(s)] /\ InList(s) \subseteq Frame
  BY DEF Lists, InList
<1>2. s \in Bijection(1 .. Len(s), InList(s))
  <2>1. s \in Injection(1 .. Len(s), InList(s))
    BY <1>1 DEF Lists, NoneTwice, Injection, IsInjective
  <2>2. \A f \in InList(s) : \E i \in 1 .. Len(s) : s[i] = f
    BY DEF InList
  <2> QED BY <1>1, <2>1, <2>2 DEF Bijection, Surjection
<1>3. Cardinality(InList(s)) = Len(s)
  BY <1>1, <1>2, FS_CountingElements DEF ExistsBijection
<1> QED BY <1>1, <1>3, FramesFinite, FS_Subset

\* The list links make the recursion of FromTail a walk along the sequence.
LEMMA WalkIs ==
    ASSUME NEW l, NEW s, Lists(l, s)
    PROVE  /\ DOMAIN FromTail(l) = 0 .. Cardinality(Frame)
           /\ \A n \in 0 .. Cardinality(Frame) :
                 FromTail(l)[n] = IF n < Len(s) THEN s[n + 1] ELSE Nil
<1> USE NilIsNoFrame
<1> DEFINE K == Cardinality(Frame)
           step(w, n) == IF n = 0 THEN l.tail ELSE IF w[n - 1] = Nil THEN Nil ELSE l.prev[w[n - 1]]
           walks(w) == w = [n \in 0 .. K |-> step(w, n)]
           at == [n \in 0 .. K |-> IF n < Len(s) THEN s[n + 1] ELSE Nil]
<1>1. K \in Nat /\ Len(s) \in Nat /\ Len(s) <= K /\ \A i \in 1 .. Len(s) : s[i] \in Frame
  BY FramesFinite, ListIsShort DEF Lists
<1>2. FromTail(l) = CHOOSE w : walks(w)
  BY DEF FromTail
<1>3. walks(at)
  <2>1. \A n \in 0 .. K : at[n] = step(at, n)
    <3> SUFFICES ASSUME NEW n \in 0 .. K PROVE at[n] = step(at, n)
      OBVIOUS
    <3>1. CASE n = 0
      BY <1>1, <3>1 DEF Lists
    <3>2. CASE n # 0
      <4>1. n - 1 \in 0 .. K /\ at[n - 1] = IF n - 1 < Len(s) THEN s[(n - 1) + 1] ELSE Nil
        BY <1>1, <3>2
      <4>2. CASE n - 1 < Len(s)
        <5>1. n \in 1 .. Len(s) /\ at[n - 1] = s[n]
          BY <1>1, <3>2, <4>1, <4>2
        <5>2. l.prev[s[n]] = IF n = Len(s) THEN Nil ELSE s[n + 1]
          BY <5>1 DEF Lists
        <5> QED BY <1>1, <3>2, <5>1, <5>2
      <4>3. CASE ~ (n - 1 < Len(s))
        BY <1>1, <3>2, <4>1, <4>3
      <4> QED BY <4>2, <4>3
    <3> QED BY <3>1, <3>2
  <2> QED BY <2>1
<1>4. ASSUME NEW w, walks(w) PROVE w = at
  <2> DEFINE Off == {n \in 0 .. K : w[n] # at[n]}
             Below == {ss \in Nat \X Nat : ss[1] < ss[2]}
  <2>0. /\ DOMAIN w = 0 .. K /\ \A n \in 0 .. K : w[n] = step(w, n)
        /\ DOMAIN at = 0 .. K /\ \A n \in 0 .. K : at[n] = step(at, n)
    BY <1>3, <1>4
  <2>1. CASE Off = {}
    <3>1. \A n \in 0 .. K : w[n] = at[n]
      BY <2>1
    <3>2. w = [n \in 0 .. K |-> w[n]] /\ at = [n \in 0 .. K |-> at[n]]
      BY <1>4
    <3> QED BY <3>1, <3>2
  <2>2. CASE Off # {}
    <3>1. IsWellFoundedOn(Below, Nat)
      BY NatLessThanWellFounded DEF OpToRel
    <3>2. Off \subseteq Nat
      BY <1>1
    <3>3. PICK n \in Off : \A k \in Off : ~ (<<k, n>> \in Below)
      BY <2>2, <3>1, <3>2, WFMin, Zenon
    <3>4. n # 0
      BY <2>0, <3>3
    <3>5. n - 1 \in 0 .. K /\ n - 1 < n
      BY <1>1, <3>3, <3>4
    <3>6. w[n - 1] = at[n - 1]
      BY <3>2, <3>3, <3>5
    <3>7. w[n] = at[n]
      BY <2>0, <3>3, <3>4, <3>6
    <3> QED BY <3>3, <3>7
  <2> QED BY <2>1, <2>2
<1>5. FromTail(l) = at
  <2>1. walks(CHOOSE w : walks(w))
    BY <1>3
  <2> QED BY <1>2, <1>4, <2>1
<1> QED BY <1>5

-------------------------------------------------------------------------------
\* The inductive invariant

Listed == \E s : Lists(lru, s) /\ InList(s) = Used

\* The pool has the frames below its capacity only.
Tables == TableAgrees /\ Used \subseteq 0 .. capacity - 1

\* A page number not given out yet is nowhere, and nothing was written to it.
Ahead ==
    \A p \in Page : p >= total => table[p] = Nil /\ stored[p] = Zero /\ latest[p] = Zero

\* A held buffer is of a page given out, and of a frame unless it is stray.
Buffers ==
    \A c \in Client : held[c] # NoBuffer =>
        /\ held[c].page \in Page /\ held[c].page < total
        /\ ~stray => held[c].frame \in Frame

PoolInv == PoolTypeOK /\ Listed /\ Tables /\ Ahead /\ Buffers /\ PinsHold /\ NoLostWrite

-------------------------------------------------------------------------------
\* The frame to be taken

\* lru_find_victim: the frame it finds is in use and nobody has it pinned.
LEMMA VictimIs ==
    ASSUME PoolInv, Victim # Nil
    PROVE  Victim \in Used /\ frames[Victim].pin = 0
<1>1. PICK s : Lists(lru, s) /\ InList(s) = Used
  BY DEF PoolInv, Listed
<1> DEFINE walk == FromTail(lru)
           K == Cardinality(Frame)
           unpinned == {n \in DOMAIN walk : walk[n] # Nil /\ frames[walk[n]].pin = 0}
           nearest == CHOOSE n \in unpinned : \A m \in unpinned : n <= m
           Below == {ss \in Nat \X Nat : ss[1] < ss[2]}
<1>2. K \in Nat /\ Len(s) \in Nat
  BY <1>1, FramesFinite DEF Lists
<1>3. /\ DOMAIN walk = 0 .. K
      /\ \A n \in 0 .. K : walk[n] = IF n < Len(s) THEN s[n + 1] ELSE Nil
  BY <1>1, WalkIs
<1>4. Victim = IF unpinned = {} THEN Nil ELSE walk[nearest]
  BY DEF Victim
<1>5. unpinned # {} /\ unpinned \subseteq Nat
  BY <1>2, <1>3, <1>4
<1>6. \E n \in unpinned : \A m \in unpinned : n <= m
  <2>1. IsWellFoundedOn(Below, Nat)
    BY NatLessThanWellFounded DEF OpToRel
  <2>2. PICK n \in unpinned : \A m \in unpinned : ~ (<<m, n>> \in Below)
    BY <1>5, <2>1, WFMin, Zenon
  <2> HIDE DEF unpinned
  <2>3. \A m \in unpinned : m < n => <<m, n>> \in Below
    BY <1>5
  <2>4. \A m \in unpinned : n \in Nat /\ m \in Nat /\ ~ (m < n)
    BY <1>5, <2>2, <2>3
  <2>5. \A m \in unpinned : n <= m
    BY <2>4
  <2> QED BY <2>5
<1>7. nearest \in unpinned
  BY <1>6
<1> HIDE DEF nearest
<1>8. nearest < Len(s) /\ nearest + 1 \in 1 .. Len(s) /\ walk[nearest] = s[nearest + 1]
  BY <1>2, <1>3, <1>7
<1> QED BY <1>1, <1>4, <1>5, <1>7, <1>8 DEF InList

\* The frame taken is a free one or an unpinned one; the free stack that is left
\* holds the other free frames.
LEMMA TargetIs ==
    ASSUME PoolInv, Target # Nil
    PROVE  /\ Target \in 0 .. capacity - 1 /\ Target \in Frame
           /\ FreeRest \in Seq(Frame)
           /\ {FreeRest[i] : i \in DOMAIN FreeRest} = (0 .. capacity - 1) \ (Used \cup {Target})
           /\ \A i, j \in DOMAIN FreeRest : FreeRest[i] = FreeRest[j] => i = j
           /\ free = << >> => Target \in Used /\ frames[Target].pin = 0
           /\ free # << >> => Target \notin Used
<1>1. /\ free \in Seq(Frame)
      /\ {free[i] : i \in DOMAIN free} = (0 .. capacity - 1) \ Used
      /\ \A i, j \in DOMAIN free : free[i] = free[j] => i = j
      /\ Used \subseteq 0 .. capacity - 1
  BY DEF PoolInv, PoolTypeOK, Tables, TableAgrees
<1>2. 0 .. capacity - 1 \subseteq Frame
  BY DEF PoolInv, PoolTypeOK, Frame
<1>3. CASE free = << >>
  <2>1. Target = Victim /\ FreeRest = free
    BY <1>3 DEF Target, FreeRest
  <2>2. Target \in Used /\ frames[Target].pin = 0
    BY <2>1, VictimIs
  <2> QED BY <1>1, <1>2, <1>3, <2>1, <2>2
<1>4. CASE free # << >>
  <2> DEFINE N == Len(free)
  <2>1. N \in Nat \ {0} /\ DOMAIN free = 1 .. N /\ \A i \in 1 .. N : free[i] \in Frame
    BY <1>1, <1>4
  <2>2. Target = free[N] /\ FreeRest = SubSeq(free, 1, N - 1)
    BY <1>4 DEF Target, FreeRest
  <2>3. /\ FreeRest \in Seq(Frame) /\ DOMAIN FreeRest = 1 .. N - 1
        /\ \A i \in 1 .. N - 1 : FreeRest[i] = free[i]
    BY <1>1, <2>1, <2>2
  <2>4. Target \in (0 .. capacity - 1) \ Used
    BY <1>1, <2>1, <2>2
  <2>5. {FreeRest[i] : i \in DOMAIN FreeRest} = {free[i] : i \in DOMAIN free} \ {Target}
    <3>1. \A i \in 1 .. N - 1 : FreeRest[i] \in {free[j] : j \in DOMAIN free} \ {Target}
      BY <1>1, <2>1, <2>2, <2>3
    <3>2. \A i \in 1 .. N : free[i] # Target => i \in 1 .. N - 1 /\ FreeRest[i] = free[i]
      BY <2>1, <2>2, <2>3
    <3> QED BY <2>1, <2>3, <3>1, <3>2
  <2>6. \A i, j \in DOMAIN FreeRest : FreeRest[i] = FreeRest[j] => i = j
    BY <1>1, <2>1, <2>3
  <2> QED BY <1>1, <1>2, <1>4, <2>3, <2>4, <2>5, <2>6
<1> QED BY <1>3, <1>4

\* As long as no buffer is stray, nobody holds the frame that is taken.
LEMMA TargetUnheld ==
    ASSUME PoolInv, Target # Nil, ~stray
    PROVE  Holders(Target) = {}
<1>1. CASE free = << >>
  <2>1. Cardinality(Holders(Target)) = 0
    BY <1>1, TargetIs DEF PoolInv, PinsHold
  <2>2. IsFiniteSet(Holders(Target))
    BY FiniteAssumption, FS_Subset DEF Holders
  <2> QED BY <2>1, <2>2, FS_EmptySet
<1>2. CASE free # << >>
  <2>1. Target \in Frame \ Used
    BY <1>2, TargetIs
  <2>2. \A c \in Holders(Target) : frames[Target].page \in Page
    BY DEF PoolInv, PinsHold, Buffers, Holders
  <2> QED BY <2>1, <2>2, NilIsNoFrame DEF Used, Page, Nil
<1> QED BY <1>1, <1>2

\* What buffer_pool_flush_all writes: a page is in one frame at most.
LEMMA FlushedIs ==
    ASSUME PoolInv
    PROVE  /\ Flushed \in [Page -> Data]
           /\ \A p \in Page : Flushed[p] =
                 IF table[p] # Nil /\ frames[table[p]].dirty THEN frames[table[p]].data ELSE stored[p]
<1>1. ASSUME NEW p \in Page
      PROVE  /\ Flushed[p] = IF table[p] # Nil /\ frames[table[p]].dirty
                             THEN frames[table[p]].data ELSE stored[p]
             /\ Flushed[p] \in Data
  <2> DEFINE dirty == {f \in Frame : frames[f].page = p /\ frames[f].dirty}
  <2>1. Flushed[p] = IF dirty = {} THEN stored[p] ELSE frames[CHOOSE f \in dirty : TRUE].data
    BY DEF Flushed
  <2>2. /\ \A f \in Frame : frames[f].page = p <=> table[p] = f
        /\ table[p] \in Frame \cup {Nil} /\ stored[p] \in Data
        /\ \A f \in Frame : frames[f].data \in Data
    BY DEF PoolInv, Tables, TableAgrees, PoolTypeOK
  <2>3. CASE table[p] # Nil /\ frames[table[p]].dirty
    <3>1. dirty = {table[p]}
      BY <2>2, <2>3
    <3>2. (CHOOSE f \in dirty : TRUE) = table[p]
      BY <3>1
    <3> QED BY <2>1, <2>2, <2>3, <3>1, <3>2
  <2>4. CASE ~ (table[p] # Nil /\ frames[table[p]].dirty)
    <3>1. dirty = {}
      BY <2>2, <2>4, NilIsNoFrame
    <3> QED BY <2>1, <2>2, <2>4, <3>1
  <2> QED BY <2>3, <2>4
<1>2. Flushed = [p \in Page |-> Flushed[p]]
  BY DEF Flushed
<1> QED BY <1>1, <1>2

-------------------------------------------------------------------------------
\* The list and the table under a step

\* A push to the front, of a frame in the list or of a new one, leaves a list.
LEMMA Pushed ==
    ASSUME Listed, NEW f \in Frame, lru' = PushFront(lru, f), Used' = Used \cup {f}
    PROVE  Listed' /\ lru' \in Links
<1>1. PICK s : Lists(lru, s) /\ InList(s) = Used
  BY DEF Listed
<1>2. PICK t : Lists(lru', t) /\ InList(t) = Used'
  BY <1>1, PushFrontLists
<1> QED BY <1>2 DEF Listed, Lists

\* The calls that leave every frame its page.
LEMMA PagesKept ==
    ASSUME PoolInv, UNCHANGED <<capacity, table, free>>,
           \A f \in Frame : frames'[f].page = frames[f].page,
           lru' = lru \/ \E f \in Used : lru' = PushFront(lru, f)
    PROVE  Used' = Used /\ Listed' /\ Tables' /\ lru' \in Links
<1>1. Used' = Used
  BY DEF Used
<1>2. Listed' /\ lru' \in Links
  <2>1. CASE lru' = lru
    BY <1>1, <2>1 DEF PoolInv, Listed, Lists
  <2>2. CASE \E f \in Used : lru' = PushFront(lru, f)
    <3>1. PICK f \in Used : lru' = PushFront(lru, f)
      BY <2>2
    <3>2. f \in Frame /\ Used' = Used \cup {f}
      BY <1>1 DEF Used
    <3> QED BY <3>1, <3>2, Pushed DEF PoolInv
  <2> QED BY <2>1, <2>2
<1>3. Tables'
  BY <1>1 DEF PoolInv, Tables, TableAgrees
<1> QED BY <1>1, <1>2, <1>3

\* The facts of PoolInv that are about one page or one frame.
LEMMA InvFacts ==
    ASSUME PoolInv
    PROVE  /\ \A f \in Frame : /\ frames[f].page \in Page \cup {Nil} /\ frames[f].dirty \in BOOLEAN
                                /\ frames[f].pin \in Nat /\ frames[f].data \in Data
                                /\ \A p \in Page : table[p] = f <=> frames[f].page = p
           /\ \A p \in Page : table[p] \in Frame \cup {Nil} /\ stored[p] \in Data /\ latest[p] \in Data
           /\ Page \subseteq Nat /\ Nil \notin Page
<1>1. /\ \A f \in Frame : frames[f] \in [page : Page \cup {Nil}, dirty : BOOLEAN, pin : Nat, data : Data]
      /\ \A p \in Page : table[p] \in Frame \cup {Nil} /\ stored[p] \in Data /\ latest[p] \in Data
  BY DEF PoolInv, PoolTypeOK
<1>2. \A p \in Page, f \in Frame : table[p] = f <=> frames[f].page = p
  BY DEF PoolInv, Tables, TableAgrees
<1>3. Page \subseteq Nat /\ Nil \notin Page
  BY BoundAssumption DEF Page, Nil
<1> QED BY <1>1, <1>2, <1>3

\* A frame is taken for page p, by a fetch that misses or by an allocation.
LEMMA TakeKeeps ==
    ASSUME PoolInv, NEW F \in Frame, F = Target, NEW p \in Page, table[p] = Nil, p < total',
           NEW c \in Client, held[c] = NoBuffer, NEW d \in BOOLEAN, NEW x \in Data,
           total' \in {total, total + 1}, total' <= MaxPages,
           stored' = Written(F),
           frames' = [frames EXCEPT ![F] = [page |-> p, dirty |-> d, pin |-> 1, data |-> x]],
           table' = Moved(F, p),
           free' = FreeRest,
           lru' = PushFront(lru, F),
           Hold(c, p, F),
           UNCHANGED <<capacity, latest, stray>>,
           d \/ x = stored'[p],
           ~stray => x = latest[p]
    PROVE  PoolInv'
<1> USE NilIsNoFrame
<1> DEFINE old == frames[F].page
           evicts == free = << >>
<1>0. F # Nil
  OBVIOUS
<1>1. /\ F \in Frame /\ F \in 0 .. capacity - 1
      /\ evicts => F \in Used /\ frames[F].pin = 0
      /\ ~evicts => F \notin Used
  BY <1>0, TargetIs
<1>2. /\ \A f \in Frame : /\ frames[f].page \in Page \cup {Nil} /\ frames[f].dirty \in BOOLEAN
                            /\ frames[f].pin \in Nat /\ frames[f].data \in Data
                            /\ \A q \in Page : table[q] = f <=> frames[f].page = q
      /\ \A q \in Page : table[q] \in Frame \cup {Nil} /\ stored[q] \in Data /\ latest[q] \in Data
      /\ Page \subseteq Nat /\ Nil \notin Page
  BY InvFacts
<1>3. evicts <=> old \in Page
  BY <1>1, <1>2 DEF Used
<1>4. \A q \in Page : table[q] = F <=> evicts /\ q = old
  BY <1>1, <1>2, <1>3
<1>5. /\ stored' \in [Page -> Data]
      /\ \A q \in Page : stored'[q] = IF evicts /\ q = old /\ frames[F].dirty
                                      THEN frames[F].data ELSE stored[q]
  <2>1. stored \in [Page -> Data]
    BY DEF PoolInv, PoolTypeOK
  <2>2. stored' = IF evicts /\ frames[F].dirty THEN [stored EXCEPT ![old] = frames[F].data] ELSE stored
    BY DEF Written
  <2> QED BY <1>1, <1>2, <1>3, <2>1, <2>2
<1>6. /\ frames' \in [Frame -> [page : Page \cup {Nil}, dirty : BOOLEAN, pin : Nat, data : Data]]
      /\ frames'[F] = [page |-> p, dirty |-> d, pin |-> 1, data |-> x]
      /\ \A f \in Frame \ {F} : frames'[f] = frames[f]
  BY <1>1 DEF PoolInv, PoolTypeOK
<1>7. /\ table' \in [Page -> Frame \cup {Nil}]
      /\ \A q \in Page : table'[q] = IF q = p THEN F ELSE IF evicts /\ q = old THEN Nil ELSE table[q]
  BY <1>1, <1>2 DEF Moved
<1>8. /\ held' \in [Client -> [page : Page \cup {Nil}, frame : Frame \cup {Nil}, changed : BOOLEAN]]
      /\ held'[c] = [page |-> p, frame |-> F, changed |-> FALSE]
      /\ \A b \in Client \ {c} : held'[b] = held[b]
  BY <1>1 DEF PoolInv, PoolTypeOK, Hold
<1>9. Used' = Used \cup {F}
  <2>1. \A f \in Frame : f \in Used' <=> frames'[f].page # Nil
    BY DEF Used
  <2>2. \A f \in Frame : f \in Used <=> frames[f].page # Nil
    BY DEF Used
  <2>3. \A f \in Frame : f \in Used' <=> f \in Used \cup {F}
    BY <1>1, <1>2, <1>6, <2>1, <2>2
  <2> QED BY <1>1, <2>3 DEF Used
<1>10. Listed' /\ lru' \in Links
  BY <1>1, <1>9, Pushed DEF PoolInv
<1>11. PoolTypeOK'
  <2>1. capacity' \in Capacities /\ latest' \in [Page -> Data] /\ stray' \in BOOLEAN
    BY DEF PoolInv, PoolTypeOK
  <2>2. total' \in 2 .. MaxPages
    BY BoundAssumption DEF PoolInv, PoolTypeOK
  <2>3. free' \in Seq(Frame)
    BY <1>0, TargetIs
  <2> QED BY <1>5, <1>6, <1>7, <1>8, <1>10, <2>1, <2>2, <2>3 DEF PoolTypeOK, Links
<1>12. Tables'
  <2>1. \A q \in Page, f \in Frame : table'[q] = f <=> frames'[f].page = q
    BY <1>1, <1>2, <1>4, <1>6, <1>7
  <2>2. {free'[i] : i \in DOMAIN free'} = (0 .. capacity' - 1) \ Used'
    BY <1>0, <1>9, TargetIs
  <2>3. \A i, j \in DOMAIN free' : free'[i] = free'[j] => i = j
    BY <1>0, TargetIs
  <2>4. Used' \subseteq 0 .. capacity' - 1
    BY <1>1, <1>9 DEF PoolInv, Tables
  <2> QED BY <2>1, <2>2, <2>3, <2>4 DEF Tables, TableAgrees
<1>13. Ahead'
  <2> SUFFICES ASSUME NEW q \in Page, q >= total'
               PROVE  table'[q] = Nil /\ stored'[q] = Zero /\ latest'[q] = Zero
    BY DEF Ahead
  <2>1. total \in Nat /\ q >= total /\ q # p
    BY <1>2 DEF PoolInv, PoolTypeOK
  <2>2. table[q] = Nil /\ stored[q] = Zero /\ latest[q] = Zero
    BY <2>1 DEF PoolInv, Ahead
  <2>3. ~ (evicts /\ q = old)
    BY <1>1, <1>4, <2>2
  <2> QED BY <1>5, <1>7, <2>1, <2>2, <2>3
<1>14. Buffers'
  <2> SUFFICES ASSUME NEW b \in Client, held'[b] # NoBuffer
               PROVE  /\ held'[b].page \in Page /\ held'[b].page < total'
                      /\ ~stray' => held'[b].frame \in Frame
    BY DEF Buffers
  <2>1. CASE b = c
    BY <1>1, <1>8, <2>1
  <2>2. CASE b # c
    <3>1. /\ held[b].page \in Page /\ held[b].page < total
          /\ ~stray => held[b].frame \in Frame
      BY <1>8, <2>2 DEF PoolInv, Buffers
    <3>2. total \in Nat /\ held[b].page \in Nat
      BY <1>2, <3>1 DEF PoolInv, PoolTypeOK
    <3> QED BY <1>8, <2>2, <3>1, <3>2
  <2> QED BY <2>1, <2>2
<1>15. ASSUME ~stray
       PROVE  /\ Holders(F) = {} /\ Holders(F)' = {c}
              /\ \A f \in Frame \ {F} : Holders(f)' = Holders(f)
              /\ \A f \in Frame \ {F} : \A b \in Holders(f) : held'[b] = held[b]
  <2>1. Holders(F) = {}
    BY <1>0, <1>15, TargetUnheld
  <2>2. held'[c] # NoBuffer /\ held'[c].frame = F
    BY <1>1, <1>2, <1>8 DEF NoBuffer
  <2>3. \A b \in Client \ {c} : ~ (held'[b] # NoBuffer /\ held'[b].frame = F)
    BY <1>8, <2>1 DEF Holders
  <2>4. Holders(F)' = {c}
    BY <2>2, <2>3 DEF Holders
  <2>5. ASSUME NEW f \in Frame \ {F}
        PROVE  Holders(f)' = Holders(f) /\ \A b \in Holders(f) : held'[b] = held[b]
    <3>1. \A b \in Client : held'[b] # NoBuffer /\ held'[b].frame = f <=> held[b] # NoBuffer /\ held[b].frame = f
      BY <1>8, <2>2
    <3>2. c \notin Holders(f)
      BY DEF Holders
    <3> QED BY <1>8, <3>1, <3>2 DEF Holders
  <2> QED BY <2>1, <2>4, <2>5
<1>16. PinsHold'
  <2> SUFFICES ASSUME ~stray'
               PROVE  /\ \A f \in Frame : frames'[f].pin = Cardinality(Holders(f)')
                      /\ \A b \in Client : held'[b] # NoBuffer => frames'[held'[b].frame].page = held'[b].page
    BY DEF PinsHold
  <2>1. ~stray
    OBVIOUS
  <2>2. /\ \A f \in Frame : frames[f].pin = Cardinality(Holders(f))
        /\ \A b \in Client : held[b] # NoBuffer => frames[held[b].frame].page = held[b].page
    BY <2>1 DEF PoolInv, PinsHold
  <2>3. \A f \in Frame : frames'[f].pin = Cardinality(Holders(f)')
    <3>1. frames'[F].pin = Cardinality(Holders(F)')
      <4>1. Cardinality({c}) = 1
        BY FS_Singleton
      <4> QED BY <1>6, <1>15, <2>1, <4>1
    <3>2. \A f \in Frame \ {F} : frames'[f].pin = Cardinality(Holders(f)')
      BY <1>6, <1>15, <2>1, <2>2
    <3> QED BY <3>1, <3>2
  <2>4. ASSUME NEW b \in Client, held'[b] # NoBuffer
        PROVE  frames'[held'[b].frame].page = held'[b].page
    <3>1. CASE b = c
      BY <1>6, <1>8, <3>1
    <3>2. CASE b # c
      <4>1. held'[b] = held[b] /\ held[b].frame \in Frame /\ b \in Holders(held[b].frame)
        BY <1>8, <2>1, <2>4, <3>2 DEF PoolInv, Buffers, Holders
      <4>2. held[b].frame # F
        BY <1>15, <2>1, <4>1
      <4> QED BY <1>6, <2>2, <2>4, <4>1, <4>2
    <3> QED BY <3>1, <3>2
  <2> QED BY <2>3, <2>4
<1>17. NoLostWrite'
  <2> SUFFICES ASSUME ~stray', NEW q \in Page, NEW f, f = table'[q]
               PROVE  /\ latest'[q] = IF f = Nil THEN stored'[q] ELSE frames'[f].data
                      /\ f # Nil /\ ~frames'[f].dirty /\ (\A b \in Holders(f)' : ~held'[b].changed)
                            => stored'[q] = frames'[f].data
    BY Zenon DEF NoLostWrite, Holders
  <2>1. ~stray
    OBVIOUS
  <2>2. /\ latest[q] = IF table[q] = Nil THEN stored[q] ELSE frames[table[q]].data
        /\ table[q] # Nil /\ ~frames[table[q]].dirty
           /\ (\A b \in Holders(table[q]) : ~held[b].changed)
              => stored[q] = frames[table[q]].data
    BY <2>1 DEF PoolInv, NoLostWrite
  <2>3. CASE q = p
    BY <1>1, <1>6, <1>7, <2>1, <2>3
  <2>4. CASE q # p /\ evicts /\ q = old
    BY <1>1, <1>4, <1>5, <1>7, <1>15, <2>1, <2>2, <2>4
  <2>5. CASE q # p /\ ~ (evicts /\ q = old)
    <3>1. table'[q] = table[q] /\ stored'[q] = stored[q] /\ table[q] # F
      BY <1>4, <1>5, <1>7, <2>5
    <3>2. CASE table[q] = Nil
      BY <2>2, <3>1, <3>2
    <3>3. CASE table[q] # Nil
      <4>1. table[q] \in Frame \ {F}
        BY <1>2, <3>1, <3>3
      <4>2. frames'[table[q]] = frames[table[q]]
        BY <1>6, <4>1
      <4>3. Holders(f)' = Holders(f) /\ \A b \in Holders(f) : held'[b] = held[b]
        BY <1>15, <2>1, <3>1, <4>1
      <4> QED BY <2>2, <3>1, <3>3, <4>2, <4>3
    <3> QED BY <3>2, <3>3
  <2> QED BY <2>3, <2>4, <2>5
<1> QED BY <1>10, <1>11, <1>12, <1>13, <1>14, <1>16, <1>17 DEF PoolInv

\* The calls that give every frame's page, the table and the free stack no change.
LEMMA QuietKeeps ==
    ASSUME PoolInv, UNCHANGED <<capacity, table, free>>, total' \in total .. MaxPages,
           frames' \in [Frame -> [page : Page \cup {Nil}, dirty : BOOLEAN, pin : Nat, data : Data]],
           \A f \in Frame : frames'[f].page = frames[f].page,
           lru' = lru \/ \E f \in Used : lru' = PushFront(lru, f),
           stored' \in [Page -> Data], latest' \in [Page -> Data], stray' \in BOOLEAN,
           \A p \in Page : p >= total => stored'[p] = stored[p] /\ latest'[p] = latest[p],
           held' \in [Client -> [page : Page \cup {Nil}, frame : Frame \cup {Nil}, changed : BOOLEAN]]
    PROVE  PoolTypeOK' /\ Listed' /\ Tables' /\ Ahead'
<1>1. Listed' /\ Tables' /\ lru' \in Links
  BY PagesKept
<1>2. PoolTypeOK'
  <2>1. capacity' \in Capacities /\ table' \in [Page -> Frame \cup {Nil}] /\ free' \in Seq(Frame)
        /\ total' \in 2 .. MaxPages
    BY BoundAssumption DEF PoolInv, PoolTypeOK
  <2> QED BY <1>1, <2>1 DEF PoolTypeOK, Links
<1>3. Ahead'
  <2>1. total \in Nat /\ total' \in Nat /\ total <= total' /\ Page \subseteq Nat
    BY InvFacts DEF PoolInv, PoolTypeOK
  <2> QED BY <2>1 DEF PoolInv, Ahead
<1> QED BY <1>1, <1>2, <1>3

-------------------------------------------------------------------------------
\* Every call keeps the invariant

\* lru, the frames, the table and the free stack of a pool just opened.
LEMMA OpenedSound ==
    ASSUME NEW n \in Capacities
    PROVE  /\ Lists(EmptyList, << >>) /\ InList(<< >>) = {}
           /\ EmptyList \in Links /\ AllFree(n) \in Seq(Frame)
           /\ {AllFree(n)[i] : i \in DOMAIN AllFree(n)} = 0 .. n - 1
           /\ \A i, j \in DOMAIN AllFree(n) : AllFree(n)[i] = AllFree(n)[j] => i = j
           /\ EmptyTable \in [Page -> Frame \cup {Nil}]
           /\ \A p \in Page : EmptyTable[p] = Nil
           /\ EmptyFrame \in [page : Page \cup {Nil}, dirty : BOOLEAN, pin : Nat, data : Data]
           /\ NoBuffer \in [page : Page \cup {Nil}, frame : Frame \cup {Nil}, changed : BOOLEAN]
           /\ Nil \notin Page
<1> USE NilIsNoFrame
<1>1. EmptyList \in Links
  BY DEF EmptyList, Links
<1>2. Lists(EmptyList, << >>) /\ InList(<< >>) = {}
  BY <1>1 DEF Lists, InList, NoneTwice, EmptyList
<1>3. n \in Nat /\ \A i \in 1 .. n : i - 1 \in 0 .. n - 1 /\ i - 1 \in Frame
  BY CapacityAssumption DEF Frame
<1>4. /\ AllFree(n) \in Seq(Frame) /\ DOMAIN AllFree(n) = 1 .. n
      /\ \A i \in 1 .. n : AllFree(n)[i] = i - 1
  BY <1>3 DEF AllFree
<1>5. {AllFree(n)[i] : i \in DOMAIN AllFree(n)} = 0 .. n - 1
  <2>1. \A k \in 0 .. n - 1 : k + 1 \in 1 .. n /\ AllFree(n)[k + 1] = k
    BY <1>3, <1>4
  <2>2. \A i \in DOMAIN AllFree(n) : AllFree(n)[i] \in 0 .. n - 1
    BY <1>3, <1>4
  <2>3. \A k \in 0 .. n - 1 : \E i \in DOMAIN AllFree(n) : AllFree(n)[i] = k
    BY <1>4, <2>1
  <2> QED BY <2>2, <2>3
<1>6. \A i, j \in DOMAIN AllFree(n) : AllFree(n)[i] = AllFree(n)[j] => i = j
  BY <1>3, <1>4
<1>7. /\ EmptyTable \in [Page -> Frame \cup {Nil}]
      /\ \A p \in Page : EmptyTable[p] = Nil
  BY DEF EmptyTable
<1>8. EmptyFrame \in [page : Page \cup {Nil}, dirty : BOOLEAN, pin : Nat, data : Data]
  BY DEF EmptyFrame, Data
<1>9. NoBuffer \in [page : Page \cup {Nil}, frame : Frame \cup {Nil}, changed : BOOLEAN]
  BY DEF NoBuffer
<1>10. Nil \notin Page
  BY DEF Page, Nil
<1> QED BY <1>1, <1>2, <1>4, <1>5, <1>6, <1>7, <1>8, <1>9, <1>10

\* buffer_pool_open on a new file.
LEMMA PoolInitSound == PoolInit => PoolInv
<1> SUFFICES ASSUME PoolInit PROVE PoolInv
  OBVIOUS
<1>0. capacity \in Capacities
  BY DEF PoolInit
<1>1. /\ Lists(lru, << >>) /\ InList(<< >>) = {}
      /\ lru \in Links /\ free \in Seq(Frame)
      /\ {free[i] : i \in DOMAIN free} = 0 .. capacity - 1
      /\ \A i, j \in DOMAIN free : free[i] = free[j] => i = j
      /\ table \in [Page -> Frame \cup {Nil}]
      /\ \A p \in Page : table[p] = Nil
      /\ EmptyFrame \in [page : Page \cup {Nil}, dirty : BOOLEAN, pin : Nat, data : Data]
      /\ NoBuffer \in [page : Page \cup {Nil}, frame : Frame \cup {Nil}, changed : BOOLEAN]
      /\ Nil \notin Page
  BY <1>0, OpenedSound DEF PoolInit
<1>2. /\ \A f \in Frame : frames[f] = EmptyFrame
      /\ \A p \in Page : stored[p] = Zero /\ latest[p] = Zero
      /\ \A c \in Client : held[c] = NoBuffer
      /\ ~stray /\ total = 2
  BY DEF PoolInit
<1>3. Used = {}
  BY <1>2 DEF Used, EmptyFrame
<1>4. PoolTypeOK
  <2>1. total \in 2 .. MaxPages
    BY <1>2, BoundAssumption
  <2>2. frames \in [Frame -> [page : Page \cup {Nil}, dirty : BOOLEAN, pin : Nat, data : Data]]
    BY <1>1 DEF PoolInit
  <2>3. stored \in [Page -> Data] /\ latest \in [Page -> Data]
    BY DEF PoolInit, Data
  <2>4. held \in [Client -> [page : Page \cup {Nil}, frame : Frame \cup {Nil}, changed : BOOLEAN]]
    BY <1>1 DEF PoolInit
  <2>5. stray \in BOOLEAN
    BY DEF PoolInit
  <2> QED BY <1>0, <1>1, <2>1, <2>2, <2>3, <2>4, <2>5 DEF PoolTypeOK, Links
<1>5. Tables
  BY <1>1, <1>2, <1>3, NilIsNoFrame DEF Tables, TableAgrees, EmptyFrame
<1>6. PinsHold
  <2>1. \A f \in Frame : Holders(f) = {}
    BY <1>2 DEF Holders
  <2> QED BY <1>2, <2>1, FS_EmptySet DEF PinsHold, EmptyFrame
<1> QED BY <1>1, <1>2, <1>3, <1>4, <1>5, <1>6 DEF PoolInv, Listed, Ahead, Buffers, NoLostWrite

\* The facts of PoolInv that are about one buffer, and about the holders of a frame.
LEMMA HeldFacts ==
    ASSUME PoolInv, NEW c \in Client, held[c] # NoBuffer
    PROVE  /\ held[c].page \in Page /\ held[c].page \in Nat /\ held[c].page < total /\ total \in Nat
           /\ held[c].frame = Nil \/ held[c].frame \in Frame
           /\ ~stray => /\ held[c].frame \in Frame /\ table[held[c].page] = held[c].frame
                        /\ frames[held[c].frame].page = held[c].page
                        /\ c \in Holders(held[c].frame)
<1>1. held[c].page \in Page /\ held[c].page < total /\ (~stray => held[c].frame \in Frame)
  BY DEF PoolInv, Buffers
<1>2. held[c].page \in Nat /\ total \in Nat
  <2>1. total \in 2 .. MaxPages
    BY DEF PoolInv, PoolTypeOK
  <2> QED BY <1>1, <2>1, InvFacts, BoundAssumption
<1>3. held[c].frame = Nil \/ held[c].frame \in Frame
  BY DEF PoolInv, PoolTypeOK
<1>4. ~stray => frames[held[c].frame].page = held[c].page
  BY DEF PoolInv, PinsHold
<1>5. \A p \in Page, f \in Frame : table[p] = f <=> frames[f].page = p
  BY DEF PoolInv, Tables, TableAgrees
<1>6. c \in Holders(held[c].frame)
  BY DEF Holders
<1> QED BY <1>1, <1>2, <1>3, <1>4, <1>5, <1>6

\* As long as no buffer is stray, the pin count is the number of holders.
LEMMA PinFacts ==
    ASSUME PoolInv, ~stray, NEW f \in Frame
    PROVE  /\ frames[f].pin = Cardinality(Holders(f)) /\ frames[f].pin \in Nat
           /\ IsFiniteSet(Holders(f))
<1>1. frames[f].pin = Cardinality(Holders(f))
  BY DEF PoolInv, PinsHold
<1>2. IsFiniteSet(Holders(f))
  BY FiniteAssumption, FS_Subset DEF Holders
<1> QED BY <1>1, <1>2, FS_CardinalityType

\* A hit: one pin and one holder more.
LEMMA FetchHitKeeps ==
    ASSUME PoolInv, NEW c \in Client, NEW p \in Page, FetchHit(c, p)
    PROVE  PoolInv'
<1>1. /\ held[c] = NoBuffer /\ p < total /\ table[p] # Nil
      /\ UNCHANGED <<capacity, total, table, free, stored, latest, stray>>
  BY DEF FetchHit
<1>2. PICK f \in Frame : f = table[p] /\ frames[f].page = p /\ f \in Used
  BY <1>1, InvFacts DEF Used
<1>3. /\ frames' \in [Frame -> [page : Page \cup {Nil}, dirty : BOOLEAN, pin : Nat, data : Data]]
      /\ \A g \in Frame : frames'[g] = IF g = f THEN [frames[f] EXCEPT !.pin = frames[f].pin + 1] ELSE frames[g]
  <2>1. frames \in [Frame -> [page : Page \cup {Nil}, dirty : BOOLEAN, pin : Nat, data : Data]]
    BY DEF PoolInv, PoolTypeOK
  <2>2. frames' = [frames EXCEPT ![f] = [frames[f] EXCEPT !.pin = frames[f].pin + 1]]
    BY <1>2 DEF FetchHit
  <2> QED BY <2>1, <2>2
<1>4. ASSUME NEW g \in Frame
      PROVE  /\ frames'[g].page = frames[g].page
             /\ frames'[g].dirty = frames[g].dirty
             /\ frames'[g].data = frames[g].data
             /\ frames'[g].pin = IF g = f THEN frames[g].pin + 1 ELSE frames[g].pin
  <2>1. frames[f] \in [page : Page \cup {Nil}, dirty : BOOLEAN, pin : Nat, data : Data]
    BY DEF PoolInv, PoolTypeOK
  <2> QED BY <1>3, <2>1
<1>5. /\ held' \in [Client -> [page : Page \cup {Nil}, frame : Frame \cup {Nil}, changed : BOOLEAN]]
      /\ held'[c] = [page |-> p, frame |-> f, changed |-> FALSE]
      /\ \A b \in Client \ {c} : held'[b] = held[b]
  BY <1>2 DEF FetchHit, Hold, PoolInv, PoolTypeOK
<1>6. held'[c] # NoBuffer /\ held'[c].page = p /\ held'[c].frame = f
  BY <1>5, InvFacts DEF NoBuffer
<1>7. PoolTypeOK' /\ Listed' /\ Tables' /\ Ahead'
  <2>1. lru' = PushFront(lru, f) /\ total' \in total .. MaxPages
    BY <1>1, <1>2 DEF FetchHit, PoolInv, PoolTypeOK
  <2>2. stored' \in [Page -> Data] /\ latest' \in [Page -> Data] /\ stray' \in BOOLEAN
    BY <1>1 DEF PoolInv, PoolTypeOK
  <2> QED BY <1>1, <1>2, <1>3, <1>4, <1>5, <2>1, <2>2, QuietKeeps
<1>8. Buffers'
  BY <1>1, <1>5, <1>6 DEF PoolInv, Buffers
<1>9. /\ Holders(f)' = Holders(f) \cup {c} /\ c \notin Holders(f)
      /\ \A g \in Frame \ {f} : Holders(g)' = Holders(g)
  BY <1>1, <1>5, <1>6 DEF Holders
<1>10. PinsHold'
  <2> SUFFICES ASSUME ~stray'
               PROVE  /\ \A g \in Frame : frames'[g].pin = Cardinality(Holders(g)')
                      /\ \A b \in Client : held'[b] # NoBuffer => frames'[held'[b].frame].page = held'[b].page
    BY DEF PinsHold
  <2>0. ~stray
    BY <1>1
  <2>1. frames'[f].pin = Cardinality(Holders(f)')
    <3>1. frames[f].pin = Cardinality(Holders(f)) /\ IsFiniteSet(Holders(f))
      BY <2>0, PinFacts
    <3>2. Cardinality(Holders(f) \cup {c}) = Cardinality(Holders(f)) + 1
      BY <1>9, <3>1, FS_AddElement
    <3> QED BY <1>4, <1>9, <3>1, <3>2
  <2>2. \A g \in Frame \ {f} : frames'[g].pin = Cardinality(Holders(g)')
    BY <1>4, <1>9, <2>0, PinFacts
  <2>3. ASSUME NEW b \in Client, held'[b] # NoBuffer
        PROVE  frames'[held'[b].frame].page = held'[b].page
    <3>1. CASE b = c
      BY <1>2, <1>4, <1>6, <3>1
    <3>2. CASE b # c
      <4>1. held'[b] = held[b] /\ held[b] # NoBuffer
        BY <1>5, <2>3, <3>2
      <4>2. held[b].frame \in Frame /\ frames[held[b].frame].page = held[b].page
        BY <2>0, <4>1, HeldFacts
      <4> QED BY <1>4, <4>1, <4>2
    <3> QED BY <3>1, <3>2
  <2> QED BY <2>1, <2>2, <2>3
<1>11. NoLostWrite'
  <2> SUFFICES ASSUME ~stray', NEW q \in Page, NEW g, g = table'[q]
               PROVE  /\ latest'[q] = IF g = Nil THEN stored'[q] ELSE frames'[g].data
                      /\ g # Nil /\ ~frames'[g].dirty /\ (\A b \in Holders(g)' : ~held'[b].changed)
                            => stored'[q] = frames'[g].data
    BY Zenon DEF NoLostWrite, Holders
  <2>0. ~stray /\ g = table[q]
    BY <1>1
  <2>1. /\ latest[q] = IF g = Nil THEN stored[q] ELSE frames[g].data
        /\ g # Nil /\ ~frames[g].dirty /\ (\A b \in Holders(g) : ~held[b].changed)
              => stored[q] = frames[g].data
    BY <2>0 DEF PoolInv, NoLostWrite
  <2>2. g = Nil \/ g \in Frame
    BY <2>0, InvFacts
  <2>3. g # Nil => \A b \in Holders(g) : b \in Holders(g)' /\ held'[b] = held[b]
    BY <1>1, <1>5, <1>9, <2>2 DEF Holders
  <2>4. g # Nil => frames'[g].dirty = frames[g].dirty /\ frames'[g].data = frames[g].data
    BY <1>4, <2>2
  <2> QED BY <1>1, <2>1, <2>3, <2>4
<1> QED BY <1>7, <1>8, <1>10, <1>11 DEF PoolInv

\* A miss: the page is read into the frame taken.
LEMMA FetchMissKeeps ==
    ASSUME PoolInv, NEW c \in Client, NEW p \in Page, FetchMiss(c, p)
    PROVE  PoolInv'
<1>1. PICK F \in Frame : F = Target
  BY TargetIs DEF FetchMiss
<1>2. /\ held[c] = NoBuffer /\ p < total /\ table[p] = Nil /\ total' = total
      /\ stored' = Written(F) /\ table' = Moved(F, p) /\ free' = FreeRest
      /\ frames' = [frames EXCEPT ![F] = [page |-> p, dirty |-> FALSE, pin |-> 1, data |-> stored'[p]]]
      /\ lru' = PushFront(lru, F) /\ Hold(c, p, F)
      /\ UNCHANGED <<capacity, latest, stray>>
  BY <1>1 DEF FetchMiss
<1>3. total <= MaxPages
  BY DEF PoolInv, PoolTypeOK
<1>4. stored'[p] = stored[p] /\ stored[p] \in Data
  <2>1. free = << >> => frames[F].page # p
    BY <1>1, <1>2, InvFacts, NilIsNoFrame
  <2>2. stored \in [Page -> Data]
    BY DEF PoolInv, PoolTypeOK
  <2> QED BY <1>2, <2>1, <2>2 DEF Written
<1>5. ~stray => stored'[p] = latest[p]
  BY <1>2, <1>4 DEF PoolInv, NoLostWrite
<1>6. \E d \in BOOLEAN : \E x \in Data :
         /\ frames' = [frames EXCEPT ![F] = [page |-> p, dirty |-> d, pin |-> 1, data |-> x]]
         /\ d \/ x = stored'[p]
         /\ ~stray => x = latest[p]
  BY <1>2, <1>4, <1>5
<1> QED BY <1>1, <1>2, <1>3, <1>6, TakeKeeps

\* An allocation: the new page is in the frame taken only.
LEMMA AllocateKeeps ==
    ASSUME PoolInv, NEW c \in Client, Allocate(c)
    PROVE  PoolInv'
<1>1. PICK F \in Frame : F = Target
  BY TargetIs DEF Allocate
<1>2. PICK p \in Page : p = total
  <2>1. total \in 2 .. MaxPages /\ total < MaxPages
    BY DEF Allocate, PoolInv, PoolTypeOK
  <2> QED BY <2>1, BoundAssumption DEF Page
<1>3. /\ held[c] = NoBuffer /\ total' = total + 1 /\ total < MaxPages
      /\ stored' = Written(F) /\ table' = Moved(F, p) /\ free' = FreeRest
      /\ frames' = [frames EXCEPT ![F] = [page |-> p, dirty |-> TRUE, pin |-> 1, data |-> Zero]]
      /\ lru' = PushFront(lru, F) /\ Hold(c, p, F)
      /\ UNCHANGED <<capacity, latest, stray>>
  BY <1>1, <1>2 DEF Allocate
<1>4. p < total' /\ total' <= MaxPages /\ p >= total
  BY <1>2, <1>3, BoundAssumption DEF PoolInv, PoolTypeOK
<1>5. table[p] = Nil /\ latest[p] = Zero
  BY <1>4 DEF PoolInv, Ahead
<1>6. Zero \in Data
  BY DEF Data
<1>7. \E d \in BOOLEAN : \E x \in Data :
         /\ frames' = [frames EXCEPT ![F] = [page |-> p, dirty |-> d, pin |-> 1, data |-> x]]
         /\ d \/ x = stored'[p]
         /\ ~stray => x = latest[p]
  BY <1>3, <1>5, <1>6
<1> QED BY <1>1, <1>3, <1>4, <1>5, <1>7, TakeKeeps

\* A fetch that finds every frame pinned gives out a stray buffer.
LEMMA FetchNoFrameKeeps ==
    ASSUME PoolInv, NEW c \in Client, NEW p \in Page, FetchNoFrame(c, p)
    PROVE  PoolInv'
<1>1. /\ p < total /\ stray'
      /\ UNCHANGED <<capacity, total, frames, table, free, lru, stored, latest>>
  BY DEF FetchNoFrame
<1>2. /\ held' \in [Client -> [page : Page \cup {Nil}, frame : Frame \cup {Nil}, changed : BOOLEAN]]
      /\ held'[c] = [page |-> p, frame |-> Nil, changed |-> FALSE]
      /\ \A b \in Client \ {c} : held'[b] = held[b]
  BY DEF FetchNoFrame, Hold, PoolInv, PoolTypeOK
<1>3. PoolTypeOK' /\ Listed' /\ Tables' /\ Ahead'
  <2>1. total' \in total .. MaxPages /\ stored' \in [Page -> Data] /\ latest' \in [Page -> Data]
        /\ frames' \in [Frame -> [page : Page \cup {Nil}, dirty : BOOLEAN, pin : Nat, data : Data]]
        /\ stray' \in BOOLEAN
    BY <1>1 DEF FetchNoFrame, PoolInv, PoolTypeOK
  <2> QED BY <1>1, <1>2, <2>1, QuietKeeps
<1>4. Buffers'
  BY <1>1, <1>2 DEF PoolInv, Buffers
<1> QED BY <1>1, <1>3, <1>4 DEF PoolInv, PinsHold, NoLostWrite

\* An allocation that finds every frame pinned uses up a page number and gives out
\* a stray buffer.
LEMMA AllocateNoFrameKeeps ==
    ASSUME PoolInv, AllocateNoFrame
    PROVE  PoolInv'
<1>1. /\ total < MaxPages /\ total' = total + 1
      /\ stray' /\ UNCHANGED <<capacity, frames, table, free, lru, stored, held, latest>>
  BY DEF AllocateNoFrame
<1>2. PoolTypeOK' /\ Listed' /\ Tables' /\ Ahead'
  <2>1. total' \in total .. MaxPages /\ stored' \in [Page -> Data] /\ latest' \in [Page -> Data]
        /\ frames' \in [Frame -> [page : Page \cup {Nil}, dirty : BOOLEAN, pin : Nat, data : Data]]
        /\ held' \in [Client -> [page : Page \cup {Nil}, frame : Frame \cup {Nil}, changed : BOOLEAN]]
        /\ stray' \in BOOLEAN
    BY <1>1, BoundAssumption DEF PoolInv, PoolTypeOK
  <2> QED BY <1>1, <2>1, QuietKeeps
<1>3. Buffers'
  <2>1. total \in Nat /\ Page \subseteq Nat
    BY InvFacts DEF PoolInv, PoolTypeOK
  <2>2. \A c \in Client : held[c] # NoBuffer =>
           /\ held[c].page \in Page /\ held[c].page < total
           /\ ~stray => held[c].frame \in Frame
    BY DEF PoolInv, Buffers
  <2>3. \A c \in Client : held[c] # NoBuffer => held[c].page < total'
    BY <1>1, HeldFacts
  <2>4. held' = held /\ stray'
    BY <1>1
  <2> QED BY <2>2, <2>3, <2>4 DEF Buffers
<1>4. PinsHold' /\ NoLostWrite'
  BY <1>1 DEF PoolInv, PinsHold, NoLostWrite, Holders
<1> QED BY <1>2, <1>3, <1>4 DEF PoolInv

\* A change goes to the frame of the page, whose holder has then changed it.
LEMMA ChangeKeeps ==
    ASSUME PoolInv, NEW c \in Client, NEW v \in Content, Change(c, v)
    PROVE  PoolInv'
<1>1. UNCHANGED <<capacity, total, table, free, lru, stored, stray>>
  BY DEF Change
<1>2. PICK f, p : f = held[c].frame /\ p = held[c].page
  OBVIOUS
<1>3. /\ held[c] # NoBuffer /\ p \in Page /\ p \in Nat /\ p < total /\ total \in Nat
      /\ f = Nil \/ f \in Frame
      /\ ~stray => f \in Frame /\ table[p] = f /\ frames[f].page = p /\ c \in Holders(f)
  BY <1>2, HeldFacts DEF Change
<1>4. /\ frames' = IF f = Nil THEN frames ELSE [frames EXCEPT ![f].data = v]
      /\ held' = [held EXCEPT ![c].changed = TRUE]
      /\ latest' = [latest EXCEPT ![p] = v]
      /\ v \in Data
  BY <1>2 DEF Change, Data
<1>5. /\ frames' \in [Frame -> [page : Page \cup {Nil}, dirty : BOOLEAN, pin : Nat, data : Data]]
      /\ \A g \in Frame : frames'[g] = IF g = f THEN [frames[g] EXCEPT !.data = v] ELSE frames[g]
  <2>1. frames \in [Frame -> [page : Page \cup {Nil}, dirty : BOOLEAN, pin : Nat, data : Data]]
    BY DEF PoolInv, PoolTypeOK
  <2>2. CASE f = Nil
    BY <1>4, <2>1, <2>2, NilIsNoFrame
  <2>3. CASE f # Nil
    <3>1. frames' = [frames EXCEPT ![f] = [frames[f] EXCEPT !.data = v]]
      BY <1>4, <2>3
    <3> QED BY <1>3, <1>4, <2>1, <2>3, <3>1
  <2> QED BY <2>2, <2>3
<1>6. ASSUME NEW g \in Frame
      PROVE  /\ frames'[g].page = frames[g].page
             /\ frames'[g].dirty = frames[g].dirty
             /\ frames'[g].pin = frames[g].pin
             /\ frames'[g].data = IF g = f THEN v ELSE frames[g].data
  <2>1. frames[g] \in [page : Page \cup {Nil}, dirty : BOOLEAN, pin : Nat, data : Data]
    BY DEF PoolInv, PoolTypeOK
  <2> QED BY <1>5, <2>1
<1>7. /\ held' \in [Client -> [page : Page \cup {Nil}, frame : Frame \cup {Nil}, changed : BOOLEAN]]
      /\ \A b \in Client : held'[b] = IF b = c THEN [held[c] EXCEPT !.changed = TRUE] ELSE held[b]
  BY <1>4 DEF PoolInv, PoolTypeOK
<1>8. held'[c].changed /\ held'[c].page = p /\ held'[c].frame = f /\ held'[c] # NoBuffer
  <2>1. held[c] \in [page : Page \cup {Nil}, frame : Frame \cup {Nil}, changed : BOOLEAN]
    BY DEF PoolInv, PoolTypeOK
  <2>2. held'[c].changed /\ held'[c].page = p /\ held'[c].frame = f
    BY <1>2, <1>7, <2>1
  <2> QED BY <2>2 DEF NoBuffer
<1>9. ASSUME NEW b \in Client
      PROVE  /\ held'[b].page = held[b].page /\ held'[b].frame = held[b].frame
             /\ held'[b] # NoBuffer <=> held[b] # NoBuffer
             /\ b # c => held'[b] = held[b]
  BY <1>2, <1>3, <1>7, <1>8
<1>10. latest' \in [Page -> Data] /\ \A q \in Page : latest'[q] = IF q = p THEN v ELSE latest[q]
  BY <1>4 DEF PoolInv, PoolTypeOK
<1>11. PoolTypeOK' /\ Listed' /\ Tables' /\ Ahead'
  <2>1. total' \in total .. MaxPages /\ stored' \in [Page -> Data] /\ stray' \in BOOLEAN
    BY <1>1 DEF PoolInv, PoolTypeOK
  <2>2. \A q \in Page : q >= total => latest'[q] = latest[q]
    BY <1>3, <1>10, InvFacts
  <2> QED BY <1>1, <1>5, <1>6, <1>7, <1>10, <2>1, <2>2, QuietKeeps
<1>12. Buffers'
  <2>1. total' = total /\ stray' = stray
    BY <1>1
  <2> QED BY <1>9, <2>1 DEF PoolInv, Buffers
<1>13. ASSUME NEW g PROVE Holders(g)' = Holders(g)
  <2>1. \A b \in Client : (held'[b] # NoBuffer /\ held'[b].frame = g) <=> (held[b] # NoBuffer /\ held[b].frame = g)
    BY <1>9
  <2> QED BY <2>1 DEF Holders
<1>14. PinsHold'
  <2> SUFFICES ASSUME ~stray'
               PROVE  /\ \A g \in Frame : frames'[g].pin = Cardinality(Holders(g)')
                      /\ \A b \in Client : held'[b] # NoBuffer => frames'[held'[b].frame].page = held'[b].page
    BY DEF PinsHold
  <2>0. ~stray
    BY <1>1
  <2>1. \A g \in Frame : frames'[g].pin = Cardinality(Holders(g)')
    BY <1>6, <1>13, <2>0, PinFacts
  <2>2. ASSUME NEW b \in Client, held'[b] # NoBuffer
        PROVE  frames'[held'[b].frame].page = held'[b].page
    <3>1. held[b].frame \in Frame /\ frames[held[b].frame].page = held[b].page
      BY <1>9, <2>0, <2>2, HeldFacts
    <3> QED BY <1>6, <1>9, <3>1
  <2> QED BY <2>1, <2>2
<1>15. NoLostWrite'
  <2> SUFFICES ASSUME ~stray', NEW q \in Page, NEW g, g = table'[q]
               PROVE  /\ latest'[q] = IF g = Nil THEN stored'[q] ELSE frames'[g].data
                      /\ g # Nil /\ ~frames'[g].dirty /\ (\A b \in Holders(g)' : ~held'[b].changed)
                            => stored'[q] = frames'[g].data
    BY Zenon DEF NoLostWrite, Holders
  <2>0. ~stray /\ g = table[q]
    BY <1>1
  <2>1. /\ latest[q] = IF g = Nil THEN stored[q] ELSE frames[g].data
        /\ g # Nil /\ ~frames[g].dirty /\ (\A b \in Holders(g) : ~held[b].changed)
              => stored[q] = frames[g].data
    BY <2>0 DEF PoolInv, NoLostWrite
  <2>2. g = Nil \/ g \in Frame
    BY <2>0, InvFacts
  <2>3. f \in Frame /\ f # Nil /\ table[p] = f /\ (f = g <=> p = q)
    <3>1. f \in Frame /\ f # Nil /\ table[p] = f /\ table[q] = g /\ frames[f].page = p
      BY <1>3, <2>0, NilIsNoFrame
    <3>2. f = g => frames[f].page = q
      BY <3>1, InvFacts
    <3> QED BY <3>1, <3>2
  <2>4. CASE q = p
    <3>1. c \in Holders(f)' /\ held'[c].changed
      BY <1>3, <1>8, <1>13, <2>0
    <3>2. frames'[f].data = v /\ latest'[q] = v
      BY <1>6, <1>10, <2>3, <2>4
    <3> QED BY <2>3, <2>4, <3>1, <3>2
  <2>5. CASE q # p
    <3>1. g # Nil => \A b \in Holders(g) : b \in Holders(g)' /\ held'[b] = held[b]
      BY <1>2, <1>9, <1>13, <2>3, <2>5 DEF Holders
    <3>2. g # Nil => frames'[g].dirty = frames[g].dirty /\ frames'[g].data = frames[g].data
      BY <1>6, <2>2, <2>3, <2>5
    <3>3. latest'[q] = latest[q] /\ stored'[q] = stored[q]
      BY <1>1, <1>10, <2>5
    <3> QED BY <2>1, <3>1, <3>2, <3>3
  <2> QED BY <2>4, <2>5
<1> QED BY <1>11, <1>12, <1>14, <1>15 DEF PoolInv

\* One pin and one holder less; what the holder changed leaves the frame dirty.
LEMMA UnpinKeeps ==
    ASSUME PoolInv, NEW c \in Client, NEW dirty \in BOOLEAN, Unpin(c, dirty)
    PROVE  PoolInv'
<1>1. UNCHANGED <<capacity, total, table, free, stored, latest, stray>>
  BY DEF Unpin
<1>2. PICK f, p : p = held[c].page /\ f = table[p]
  OBVIOUS
<1>3. /\ held[c] # NoBuffer /\ p \in Page
      /\ ~stray => f \in Frame /\ held[c].frame = f /\ c \in Holders(f)
  BY <1>2, HeldFacts DEF Unpin
<1>4. f = Nil \/ (f \in Used /\ f \in Frame)
  <2>1. f = Nil \/ f \in Frame
    BY <1>2, <1>3, InvFacts
  <2>2. f \in Frame => frames[f].page = p /\ p # Nil
    BY <1>2, <1>3, InvFacts
  <2> QED BY <2>1, <2>2 DEF Used
<1>5. /\ held[c].changed => dirty
      /\ held' = [held EXCEPT ![c] = NoBuffer]
      /\ f = Nil => UNCHANGED <<frames, lru>>
      /\ f # Nil => /\ lru' = PushFront(lru, f)
                    /\ frames' = [frames EXCEPT ![f].dirty = @ \/ dirty,
                                                ![f].pin = IF @ > 0 THEN @ - 1 ELSE @]
  BY <1>2 DEF Unpin
<1> DEFINE less(n) == IF n > 0 THEN n - 1 ELSE n
           r == [[frames[f] EXCEPT !.dirty = frames[f].dirty \/ dirty] EXCEPT !.pin = less(frames[f].pin)]
<1>6. /\ frames' \in [Frame -> [page : Page \cup {Nil}, dirty : BOOLEAN, pin : Nat, data : Data]]
      /\ \A g \in Frame : frames'[g] = IF g = f THEN r ELSE frames[g]
  <2>1. frames \in [Frame -> [page : Page \cup {Nil}, dirty : BOOLEAN, pin : Nat, data : Data]]
    BY DEF PoolInv, PoolTypeOK
  <2>2. CASE f = Nil
    BY <1>5, <2>1, <2>2, NilIsNoFrame
  <2>3. CASE f # Nil
    <3>1. frames[f] \in [page : Page \cup {Nil}, dirty : BOOLEAN, pin : Nat, data : Data]
      BY <1>4, <2>1, <2>3
    <3>2. frames' = [frames EXCEPT ![f] = r]
      BY <1>4, <1>5, <2>1, <2>3, <3>1
    <3>3. r \in [page : Page \cup {Nil}, dirty : BOOLEAN, pin : Nat, data : Data]
      <4>1. (frames[f].dirty \/ dirty) \in BOOLEAN
        BY <3>1, Zenon
      <4>2. less(frames[f].pin) \in Nat
        BY <3>1
      <4>3. ASSUME NEW a \in BOOLEAN, NEW n \in Nat
            PROVE  [[frames[f] EXCEPT !.dirty = a] EXCEPT !.pin = n]
                      \in [page : Page \cup {Nil}, dirty : BOOLEAN, pin : Nat, data : Data]
        BY <3>1
      <4> QED BY <4>1, <4>2, <4>3
    <3> HIDE DEF r
    <3> QED BY <1>4, <2>1, <2>3, <3>2, <3>3
  <2> QED BY <2>2, <2>3
<1>7. ASSUME NEW g \in Frame
      PROVE  /\ frames'[g].page = frames[g].page
             /\ frames'[g].data = frames[g].data
             /\ ~frames'[g].dirty => ~frames[g].dirty /\ (g = f => ~dirty)
             /\ frames'[g].pin = IF g = f THEN less(frames[g].pin) ELSE frames[g].pin
  <2>1. frames[g] \in [page : Page \cup {Nil}, dirty : BOOLEAN, pin : Nat, data : Data]
    BY DEF PoolInv, PoolTypeOK
  <2> QED BY <1>6, <2>1
<1> HIDE DEF r
<1>8. /\ held' \in [Client -> [page : Page \cup {Nil}, frame : Frame \cup {Nil}, changed : BOOLEAN]]
      /\ held'[c] = NoBuffer
      /\ \A b \in Client \ {c} : held'[b] = held[b]
  BY <1>5, NilIsNoFrame DEF PoolInv, PoolTypeOK, NoBuffer
<1>9. PoolTypeOK' /\ Listed' /\ Tables' /\ Ahead'
  <2>1. total' \in total .. MaxPages /\ stored' \in [Page -> Data] /\ latest' \in [Page -> Data]
        /\ stray' \in BOOLEAN
    BY <1>1 DEF PoolInv, PoolTypeOK
  <2>2. lru' = lru \/ \E g \in Used : lru' = PushFront(lru, g)
    BY <1>4, <1>5
  <2> QED BY <1>1, <1>6, <1>7, <1>8, <2>1, <2>2, QuietKeeps
<1>10. Buffers'
  <2>1. total' = total /\ stray' = stray
    BY <1>1
  <2> QED BY <1>8, <2>1 DEF PoolInv, Buffers
<1>11. /\ Holders(f)' = Holders(f) \ {c}
       /\ ~stray => \A g \in Frame \ {f} : Holders(g)' = Holders(g)
  BY <1>3, <1>8 DEF Holders
<1>12. PinsHold'
  <2> SUFFICES ASSUME ~stray'
               PROVE  /\ \A g \in Frame : frames'[g].pin = Cardinality(Holders(g)')
                      /\ \A b \in Client : held'[b] # NoBuffer => frames'[held'[b].frame].page = held'[b].page
    BY DEF PinsHold
  <2>0. ~stray /\ f \in Frame /\ c \in Holders(f)
    BY <1>1, <1>3
  <2>1. frames'[f].pin = Cardinality(Holders(f)')
    <3>1. frames[f].pin = Cardinality(Holders(f)) /\ IsFiniteSet(Holders(f))
      BY <2>0, PinFacts
    <3>2. /\ Cardinality(Holders(f) \ {c}) = frames[f].pin - 1
          /\ IsFiniteSet(Holders(f) \ {c})
      BY <2>0, <3>1, FS_RemoveElement
    <3>3. frames[f].pin \in Nat /\ frames[f].pin - 1 \in Nat
      BY <2>0, <3>2, PinFacts, FS_CardinalityType
    <3>4. frames'[f].pin = frames[f].pin - 1
      BY <1>7, <2>0, <3>3
    <3> QED BY <1>11, <3>2, <3>4
  <2>2. \A g \in Frame \ {f} : frames'[g].pin = Cardinality(Holders(g)')
    BY <1>7, <1>11, <2>0, PinFacts
  <2>3. ASSUME NEW b \in Client, held'[b] # NoBuffer
        PROVE  frames'[held'[b].frame].page = held'[b].page
    <3>1. held'[b] = held[b] /\ held[b] # NoBuffer
      BY <1>8, <2>3
    <3>2. held[b].frame \in Frame /\ frames[held[b].frame].page = held[b].page
      BY <2>0, <3>1, HeldFacts
    <3> QED BY <1>7, <3>1, <3>2
  <2> QED BY <2>1, <2>2, <2>3
<1>13. NoLostWrite'
  <2> SUFFICES ASSUME ~stray', NEW q \in Page, NEW g, g = table'[q]
               PROVE  /\ latest'[q] = IF g = Nil THEN stored'[q] ELSE frames'[g].data
                      /\ g # Nil /\ ~frames'[g].dirty /\ (\A b \in Holders(g)' : ~held'[b].changed)
                            => stored'[q] = frames'[g].data
    BY Zenon DEF NoLostWrite, Holders
  <2>0. ~stray /\ g = table[q]
    BY <1>1
  <2>1. /\ latest[q] = IF g = Nil THEN stored[q] ELSE frames[g].data
        /\ g # Nil /\ ~frames[g].dirty /\ (\A b \in Holders(g) : ~held[b].changed)
              => stored[q] = frames[g].data
    BY <2>0 DEF PoolInv, NoLostWrite
  <2>2. g = Nil \/ g \in Frame
    BY <2>0, InvFacts
  <2>3. latest'[q] = IF g = Nil THEN stored'[q] ELSE frames'[g].data
    BY <1>1, <1>7, <2>1, <2>2
  <2>4. ASSUME g # Nil, ~frames'[g].dirty, \A b \in Holders(g)' : ~held'[b].changed
        PROVE  stored'[q] = frames'[g].data
    <3>1. g \in Frame /\ ~frames[g].dirty /\ (g = f => ~held[c].changed)
      BY <1>5, <1>7, <2>2, <2>4
    <3>2. ASSUME NEW b \in Holders(g) PROVE ~held[b].changed
      <4>1. CASE b = c
        BY <1>3, <2>0, <3>1, <4>1 DEF Holders
      <4>2. CASE b # c
        <5>1. b \in Client \ {c} /\ held'[b] = held[b]
          BY <1>8, <4>2 DEF Holders
        <5>2. b \in Holders(g)'
          BY <5>1 DEF Holders
        <5> QED BY <2>4, <5>1, <5>2
      <4> QED BY <4>1, <4>2
    <3> QED BY <1>1, <1>7, <2>1, <2>4, <3>1, <3>2
  <2> QED BY <2>3, <2>4
<1> QED BY <1>9, <1>10, <1>12, <1>13 DEF PoolInv

\* Marking and flushing, which neither take nor release a buffer.
LEMMA SameHolders ==
    ASSUME PoolInv, UNCHANGED <<total, table, held, latest, stray>>,
           \A f \in Frame : /\ frames'[f].page = frames[f].page /\ frames'[f].pin = frames[f].pin
                            /\ frames'[f].data = frames[f].data,
           \A p \in Page : /\ table[p] = Nil => stored'[p] = stored[p]
                           /\ table[p] # Nil /\ ~frames'[table[p]].dirty =>
                                \/ stored'[p] = frames[table[p]].data
                                \/ stored'[p] = stored[p] /\ ~frames[table[p]].dirty
    PROVE  Buffers' /\ PinsHold' /\ NoLostWrite'
<1>1. Buffers'
  BY DEF PoolInv, Buffers
<1>2. ASSUME NEW g PROVE Holders(g)' = Holders(g)
  BY DEF Holders
<1>3. PinsHold'
  <2> SUFFICES ASSUME ~stray'
               PROVE  /\ \A g \in Frame : frames'[g].pin = Cardinality(Holders(g)')
                      /\ \A b \in Client : held'[b] # NoBuffer => frames'[held'[b].frame].page = held'[b].page
    BY DEF PinsHold
  <2>1. \A g \in Frame : frames'[g].pin = Cardinality(Holders(g)')
    BY <1>2, PinFacts
  <2>2. \A b \in Client : held'[b] # NoBuffer => frames'[held'[b].frame].page = held'[b].page
    BY HeldFacts
  <2> QED BY <2>1, <2>2
<1>4. NoLostWrite'
  <2> SUFFICES ASSUME ~stray', NEW q \in Page, NEW g, g = table'[q]
               PROVE  /\ latest'[q] = IF g = Nil THEN stored'[q] ELSE frames'[g].data
                      /\ g # Nil /\ ~frames'[g].dirty /\ (\A b \in Holders(g)' : ~held'[b].changed)
                            => stored'[q] = frames'[g].data
    BY Zenon DEF NoLostWrite, Holders
  <2>1. /\ latest[q] = IF g = Nil THEN stored[q] ELSE frames[g].data
        /\ g # Nil /\ ~frames[g].dirty /\ (\A b \in Holders(g) : ~held[b].changed)
              => stored[q] = frames[g].data
    BY DEF PoolInv, NoLostWrite
  <2>2. g = Nil \/ g \in Frame
    BY InvFacts
  <2> QED BY <1>2, <2>1, <2>2
<1> QED BY <1>1, <1>3, <1>4

\* buffer_pool_mark_dirty
LEMMA MarkDirtyKeeps ==
    ASSUME PoolInv, NEW p \in Page, MarkDirty(p)
    PROVE  PoolInv'
<1>1. UNCHANGED <<capacity, total, table, free, lru, stored, held, latest, stray>>
  BY DEF MarkDirty
<1>2. PICK f \in Frame : f = table[p]
  BY InvFacts DEF MarkDirty
<1>3. /\ frames' \in [Frame -> [page : Page \cup {Nil}, dirty : BOOLEAN, pin : Nat, data : Data]]
      /\ \A g \in Frame : frames'[g] = IF g = f THEN [frames[f] EXCEPT !.dirty = TRUE] ELSE frames[g]
  <2>1. frames \in [Frame -> [page : Page \cup {Nil}, dirty : BOOLEAN, pin : Nat, data : Data]]
    BY DEF PoolInv, PoolTypeOK
  <2>2. frames' = [frames EXCEPT ![f] = [frames[f] EXCEPT !.dirty = TRUE]]
    BY <1>2 DEF MarkDirty
  <2> QED BY <2>1, <2>2
<1>4. ASSUME NEW g \in Frame
      PROVE  /\ frames'[g].page = frames[g].page
             /\ frames'[g].data = frames[g].data
             /\ frames'[g].pin = frames[g].pin
             /\ ~frames'[g].dirty => ~frames[g].dirty
  <2>1. frames[f] \in [page : Page \cup {Nil}, dirty : BOOLEAN, pin : Nat, data : Data]
    BY DEF PoolInv, PoolTypeOK
  <2> QED BY <1>3, <2>1
<1>5. PoolTypeOK' /\ Listed' /\ Tables' /\ Ahead'
  <2>1. total' \in total .. MaxPages /\ stored' \in [Page -> Data] /\ latest' \in [Page -> Data]
        /\ held' \in [Client -> [page : Page \cup {Nil}, frame : Frame \cup {Nil}, changed : BOOLEAN]]
        /\ stray' \in BOOLEAN
    BY <1>1 DEF PoolInv, PoolTypeOK
  <2> QED BY <1>1, <1>3, <1>4, <2>1, QuietKeeps
<1>6. Buffers' /\ PinsHold' /\ NoLostWrite'
  <2>1. \A q \in Page : table[q] # Nil => table[q] \in Frame
    BY InvFacts
  <2> QED BY <1>1, <1>4, <2>1, SameHolders
<1> QED BY <1>5, <1>6 DEF PoolInv

\* buffer_pool_flush_page
LEMMA FlushPageKeeps ==
    ASSUME PoolInv, NEW p \in Page, FlushPage(p)
    PROVE  PoolInv'
<1>1. UNCHANGED <<capacity, total, table, free, lru, held, latest, stray>>
  BY DEF FlushPage
<1>2. PICK f \in Frame : f = table[p]
  BY InvFacts DEF FlushPage
<1>3. /\ frames' \in [Frame -> [page : Page \cup {Nil}, dirty : BOOLEAN, pin : Nat, data : Data]]
      /\ \A g \in Frame : frames'[g] = IF g = f THEN [frames[f] EXCEPT !.dirty = FALSE] ELSE frames[g]
  <2>1. frames \in [Frame -> [page : Page \cup {Nil}, dirty : BOOLEAN, pin : Nat, data : Data]]
    BY DEF PoolInv, PoolTypeOK
  <2>2. frames' = [frames EXCEPT ![f] = [frames[f] EXCEPT !.dirty = FALSE]]
    BY <1>2 DEF FlushPage
  <2> QED BY <2>1, <2>2
<1>4. ASSUME NEW g \in Frame
      PROVE  /\ frames'[g].page = frames[g].page
             /\ frames'[g].data = frames[g].data
             /\ frames'[g].pin = frames[g].pin
             /\ g # f => frames'[g].dirty = frames[g].dirty
  <2>1. frames[f] \in [page : Page \cup {Nil}, dirty : BOOLEAN, pin : Nat, data : Data]
    BY DEF PoolInv, PoolTypeOK
  <2> QED BY <1>3, <2>1
<1>5. /\ stored' \in [Page -> Data]
      /\ \A q \in Page : stored'[q] = IF q = p THEN frames[f].data ELSE stored[q]
  <2>1. stored \in [Page -> Data] /\ frames[f].data \in Data
    BY InvFacts DEF PoolInv, PoolTypeOK
  <2> QED BY <1>2, <2>1 DEF FlushPage
<1>6. PoolTypeOK' /\ Listed' /\ Tables' /\ Ahead'
  <2>1. total' \in total .. MaxPages /\ latest' \in [Page -> Data] /\ stray' \in BOOLEAN
        /\ held' \in [Client -> [page : Page \cup {Nil}, frame : Frame \cup {Nil}, changed : BOOLEAN]]
    BY <1>1 DEF PoolInv, PoolTypeOK
  <2>2. \A q \in Page : q >= total => stored'[q] = stored[q]
    BY <1>2, <1>5, NilIsNoFrame DEF PoolInv, Ahead
  <2> QED BY <1>1, <1>3, <1>4, <1>5, <2>1, <2>2, QuietKeeps
<1>7. ASSUME NEW q \in Page
      PROVE  /\ table[q] = Nil => stored'[q] = stored[q]
             /\ table[q] # Nil /\ ~frames'[table[q]].dirty =>
                  \/ stored'[q] = frames[table[q]].data
                  \/ stored'[q] = stored[q] /\ ~frames[table[q]].dirty
  <2>1. CASE q = p
    BY <1>2, <1>5, <2>1, NilIsNoFrame
  <2>2. CASE q # p
    <3>1. table[q] # Nil => table[q] \in Frame \ {f}
      BY <1>2, <2>2, InvFacts
    <3> QED BY <1>4, <1>5, <2>2, <3>1
  <2> QED BY <2>1, <2>2
<1>8. Buffers' /\ PinsHold' /\ NoLostWrite'
  BY <1>1, <1>4, <1>7, SameHolders
<1> QED BY <1>6, <1>8 DEF PoolInv

\* buffer_pool_flush_all
LEMMA FlushAllKeeps ==
    ASSUME PoolInv, FlushAll
    PROVE  PoolInv'
<1>1. UNCHANGED <<capacity, total, table, free, lru, held, latest, stray>>
  BY DEF FlushAll
<1>2. frames' \in [Frame -> [page : Page \cup {Nil}, dirty : BOOLEAN, pin : Nat, data : Data]]
      /\ \A g \in Frame : frames'[g] = [frames[g] EXCEPT !.dirty = FALSE]
  BY DEF FlushAll, PoolInv, PoolTypeOK
<1>3. ASSUME NEW g \in Frame
      PROVE  /\ frames'[g].page = frames[g].page
             /\ frames'[g].data = frames[g].data
             /\ frames'[g].pin = frames[g].pin
  <2>1. frames[g] \in [page : Page \cup {Nil}, dirty : BOOLEAN, pin : Nat, data : Data]
    BY DEF PoolInv, PoolTypeOK
  <2> QED BY <1>2, <2>1
<1>4. /\ stored' \in [Page -> Data]
      /\ \A p \in Page : stored'[p] =
            IF table[p] # Nil /\ frames[table[p]].dirty THEN frames[table[p]].data ELSE stored[p]
  BY FlushedIs DEF FlushAll
<1>5. PoolTypeOK' /\ Listed' /\ Tables' /\ Ahead'
  <2>1. total' \in total .. MaxPages /\ latest' \in [Page -> Data] /\ stray' \in BOOLEAN
        /\ held' \in [Client -> [page : Page \cup {Nil}, frame : Frame \cup {Nil}, changed : BOOLEAN]]
    BY <1>1 DEF PoolInv, PoolTypeOK
  <2>2. \A q \in Page : q >= total => stored'[q] = stored[q]
    BY <1>4 DEF PoolInv, Ahead
  <2> QED BY <1>1, <1>2, <1>3, <1>4, <2>1, <2>2, QuietKeeps
<1>6. ASSUME NEW q \in Page
      PROVE  /\ table[q] = Nil => stored'[q] = stored[q]
             /\ table[q] # Nil /\ ~frames'[table[q]].dirty =>
                  \/ stored'[q] = frames[table[q]].data
                  \/ stored'[q] = stored[q] /\ ~frames[table[q]].dirty
  BY <1>4
<1>7. Buffers' /\ PinsHold' /\ NoLostWrite'
  <2>1. UNCHANGED <<total, table, held, latest, stray>>
    BY <1>1
  <2> QED BY <1>3, <1>6, <2>1, SameHolders
<1> QED BY <1>5, <1>7 DEF PoolInv

\* buffer_pool_close and buffer_pool_open.
LEMMA ReopenKeeps ==
    ASSUME PoolInv, NEW n \in Capacities, Reopen(n)
    PROVE  PoolInv'
<1>1. /\ \A c \in Client : held[c] = NoBuffer
      /\ frames' = [f \in Frame |-> EmptyFrame]
      /\ capacity' = n /\ table' = EmptyTable /\ free' = AllFree(n) /\ lru' = EmptyList
      /\ latest' = IF stray THEN stored' ELSE latest
      /\ stray' = FALSE
      /\ total' = total /\ held' = held
  BY DEF Reopen
<1>2. /\ stored' \in [Page -> Data]
      /\ \A p \in Page : stored'[p] =
            IF table[p] # Nil /\ frames[table[p]].dirty THEN frames[table[p]].data ELSE stored[p]
  BY FlushedIs DEF Reopen
<1>3. /\ Lists(lru', << >>) /\ InList(<< >>) = {}
      /\ lru' \in Links /\ free' \in Seq(Frame)
      /\ {free'[i] : i \in DOMAIN free'} = 0 .. capacity' - 1
      /\ \A i, j \in DOMAIN free' : free'[i] = free'[j] => i = j
      /\ table' \in [Page -> Frame \cup {Nil}]
      /\ \A p \in Page : table'[p] = Nil
      /\ frames' \in [Frame -> [page : Page \cup {Nil}, dirty : BOOLEAN, pin : Nat, data : Data]]
      /\ Nil \notin Page
  BY <1>1, OpenedSound
<1>4. \A f \in Frame : frames'[f].page = Nil /\ frames'[f].pin = 0
  BY <1>1 DEF EmptyFrame
<1>5. Used' = {}
  BY <1>4 DEF Used
<1>6. Listed'
  BY <1>3, <1>5 DEF Listed
<1>7. PoolTypeOK'
  <2>1. total' \in 2 .. MaxPages /\ latest' \in [Page -> Data] /\ stray' \in BOOLEAN
        /\ held' \in [Client -> [page : Page \cup {Nil}, frame : Frame \cup {Nil}, changed : BOOLEAN]]
    BY <1>1, <1>2 DEF PoolInv, PoolTypeOK
  <2> QED BY <1>1, <1>2, <1>3, <2>1 DEF PoolTypeOK, Links
<1>8. Tables'
  BY <1>3, <1>4, <1>5, NilIsNoFrame DEF Tables, TableAgrees
<1>9. \A p \in Page : latest'[p] = stored'[p]
  <2> SUFFICES ASSUME NEW p \in Page, ~stray PROVE latest[p] = stored'[p]
    BY <1>1
  <2>1. /\ latest[p] = IF table[p] = Nil THEN stored[p] ELSE frames[table[p]].data
        /\ table[p] # Nil /\ ~frames[table[p]].dirty => stored[p] = frames[table[p]].data
    <3>1. \A f : Holders(f) = {}
      BY <1>1 DEF Holders
    <3> QED BY <3>1 DEF PoolInv, NoLostWrite
  <2> QED BY <1>2, <2>1
<1>10. Ahead'
  BY <1>1, <1>2, <1>3, <1>9 DEF PoolInv, Ahead
<1>11. Buffers'
  BY <1>1 DEF Buffers
<1>12. PinsHold'
  <2>1. ASSUME NEW f PROVE Holders(f)' = {}
    BY <1>1 DEF Holders
  <2> QED BY <1>1, <1>4, <2>1, FS_EmptySet DEF PinsHold
<1>13. NoLostWrite'
  BY <1>3, <1>9 DEF NoLostWrite
<1> QED BY <1>6, <1>7, <1>8, <1>10, <1>11, <1>12, <1>13 DEF PoolInv

-------------------------------------------------------------------------------
\* The invariant holds

\* Every step keeps the invariant.
LEMMA PoolNextKeeps == PoolInv /\ [PoolNext]_poolVars => PoolInv'
<1> SUFFICES ASSUME PoolInv, [PoolNext]_poolVars PROVE PoolInv'
  OBVIOUS
<1>1. ASSUME NEW c \in Client, NEW p \in Page, FetchHit(c, p) PROVE PoolInv'
  BY <1>1, FetchHitKeeps
<1>2. ASSUME NEW c \in Client, NEW p \in Page, FetchMiss(c, p) PROVE PoolInv'
  BY <1>2, FetchMissKeeps
<1>3. ASSUME NEW c \in Client, NEW p \in Page, FetchNoFrame(c, p) PROVE PoolInv'
  BY <1>3, FetchNoFrameKeeps
<1>4. ASSUME NEW c \in Client, Allocate(c) PROVE PoolInv'
  BY <1>4, AllocateKeeps
<1>5. ASSUME NEW c \in Client, NEW v \in Content, Change(c, v) PROVE PoolInv'
  BY <1>5, ChangeKeeps
<1>6. ASSUME NEW c \in Client, NEW dirty \in BOOLEAN, Unpin(c, dirty) PROVE PoolInv'
  BY <1>6, UnpinKeeps
<1>7. CASE AllocateNoFrame
  BY <1>7, AllocateNoFrameKeeps
<1>8. ASSUME NEW p \in Page, MarkDirty(p) PROVE PoolInv'
  BY <1>8, MarkDirtyKeeps
<1>9. ASSUME NEW p \in Page, FlushPage(p) PROVE PoolInv'
  BY <1>9, FlushPageKeeps
<1>10. CASE FlushAll
  BY <1>10, FlushAllKeeps
<1>11. ASSUME NEW n \in Capacities, Reopen(n) PROVE PoolInv'
  BY <1>11, ReopenKeeps
<1>12. CASE UNCHANGED poolVars
  BY <1>12 DEF poolVars, PoolInv, PoolTypeOK, Listed, Used, Tables, TableAgrees, Ahead, Buffers,
               PinsHold, NoLostWrite, Holders
<1> QED BY <1>1, <1>2, <1>3, <1>4, <1>5, <1>6, <1>7, <1>8, <1>9, <1>10, <1>11, <1>12 DEF PoolNext

\* The invariant of the buffer pool: its structures are one, pages not given out yet
\* are nowhere, and, until a fetch finds every frame pinned, pins hold and no write
\* is lost.
THEOREM PoolStaysSound == PoolSpec => []PoolInv
<1>1. PoolInit => PoolInv
  BY PoolInitSound
<1>2. PoolInv /\ [PoolNext]_poolVars => PoolInv'
  BY PoolNextKeeps
<1> QED BY <1>1, <1>2, PTL DEF PoolSpec

\* The sequence behind the links is what a walk over them from the tail visits.
LEMMA ListedIsLinked == PoolInv => LruLinked
<1> SUFFICES ASSUME PoolInv PROVE LruLinked
  OBVIOUS
<1>1. PICK s : Lists(lru, s) /\ InList(s) = Used
  BY DEF PoolInv, Listed
<1> DEFINE walk == FromTail(lru)
           n == Cardinality(Used)
           K == Cardinality(Frame)
<1>2. n = Len(s) /\ n \in Nat /\ K \in Nat /\ n <= K /\ s \in Seq(Frame)
  BY <1>1, ListIsShort, FramesFinite DEF Lists
<1>3. \A i \in 0 .. K : walk[i] = IF i < n THEN s[i + 1] ELSE Nil
  BY <1>1, <1>2, WalkIs
<1> HIDE DEF walk, n
<1>4. {walk[i] : i \in 0 .. n - 1} = Used
  <2>1. \A i \in 0 .. n - 1 : walk[i] = s[i + 1] /\ i + 1 \in 1 .. Len(s)
    BY <1>2, <1>3
  <2>2. \A j \in 1 .. Len(s) : j - 1 \in 0 .. n - 1 /\ walk[j - 1] = s[j]
    BY <1>2, <1>3
  <2>3. \A f \in {walk[i] : i \in 0 .. n - 1} : f \in Used
    BY <1>1, <2>1 DEF InList
  <2>4. \A f \in Used : \E i \in 0 .. n - 1 : walk[i] = f
    BY <1>1, <2>2 DEF InList
  <2> QED BY <2>3, <2>4
<1>5. walk[n] = Nil
  BY <1>2, <1>3
<1>6. lru.head = IF n = 0 THEN Nil ELSE walk[n - 1]
  BY <1>1, <1>2, <1>3 DEF Lists
<1>7. ASSUME NEW f \in Used
      PROVE  lru.next[f] = IF f = lru.tail THEN Nil ELSE CHOOSE g \in Used : lru.prev[g] = f
  <2>1. PICK i \in 1 .. Len(s) : s[i] = f
    BY <1>1 DEF InList
  <2>2. \A k, j \in 1 .. Len(s) : s[k] = s[j] => k = j
    BY <1>1 DEF Lists, NoneTwice
  <2>3. lru.next[f] = IF i = 1 THEN Nil ELSE s[i - 1]
    BY <1>1, <2>1 DEF Lists
  <2>4. f = lru.tail <=> i = 1
    BY <1>1, <1>2, <2>1, <2>2 DEF Lists
  <2>5. CASE i = 1
    BY <2>3, <2>4, <2>5
  <2>6. CASE i # 1
    <3>1. i - 1 \in 1 .. Len(s) /\ s[i - 1] \in Used /\ lru.prev[s[i - 1]] = f
      <4>1. i - 1 \in 1 .. Len(s) /\ i - 1 # Len(s) /\ (i - 1) + 1 = i
        BY <1>2, <2>1, <2>6
      <4> QED BY <1>1, <2>1, <4>1 DEF Lists, InList
    <3>2. ASSUME NEW g \in Used, lru.prev[g] = f PROVE g = s[i - 1]
      <4>1. PICK j \in 1 .. Len(s) : s[j] = g
        BY <1>1 DEF InList
      <4>2. lru.prev[g] = IF j = Len(s) THEN Nil ELSE s[j + 1]
        BY <1>1, <4>1 DEF Lists
      <4>3. f # Nil
        BY NilIsNoFrame DEF Used
      <4>4. j # Len(s) /\ s[j + 1] = s[i] /\ j + 1 \in 1 .. Len(s)
        BY <1>2, <2>1, <3>2, <4>2, <4>3
      <4>5. j + 1 = i
        BY <2>2, <4>4
      <4> QED BY <4>1, <4>5
    <3>3. (CHOOSE g \in Used : lru.prev[g] = f) = s[i - 1]
      BY <3>1, <3>2
    <3> QED BY <2>3, <2>4, <2>6, <3>3
  <2> QED BY <2>5, <2>6
<1>8. \A f \in Frame \ Used : lru.prev[f] = Nil /\ lru.next[f] = Nil
  BY <1>1 DEF Lists
<1> QED BY <1>4, <1>5, <1>6, <1>7, <1>8 DEF LruLinked, walk, n

\* The list of used frames, the page table, the free stack and the counters of
\* buffer.lp are one consistent structure after every call.
THEOREM PoolStaysLinked == PoolSpec => []PoolSound
<1>1. PoolInv => PoolSound
  BY ListedIsLinked DEF PoolInv, PoolSound, Tables
<1> QED BY <1>1, PoolStaysSound, PTL

\* No page is evicted while a client holds its buffer, and the pin count of a frame
\* is the number of its holders, until a fetch finds every frame pinned.
THEOREM PinsStayHeld == PoolSpec => []PinsHold
<1>1. PoolInv => PinsHold
  BY DEF PoolInv
<1> QED BY <1>1, PoolStaysSound, PTL

\* Until then a page holds what was last written to it, in its frame or in the file,
\* whatever was evicted, flushed, fetched again or reopened.
THEOREM WritesStay == PoolSpec => []NoLostWrite
<1>1. PoolInv => NoLostWrite
  BY DEF PoolInv
<1> QED BY <1>1, PoolStaysSound, PTL

===============================================================================
