----------------------------- MODULE SnapshotStore -----------------------------
(***************************************************************************)
(* What the version store of mvcc.lp promises its clients.  A transaction  *)
(* works on a copy of the committed store taken when it begins, keeps its  *)
(* writes to itself and publishes all of them at once when it commits.     *)
(*                                                                         *)
(* This is less than the snapshot isolation mvcc.lp:9 and :15 describe, in *)
(* two places.  A write is refused against a running writer of the key and *)
(* against a published one that began later (Write), but not against one   *)
(* that was running when the transaction began and has published since:    *)
(* the first committer does not win, and its update may be lost.  And a    *)
(* vacuum may take such keys out of a snapshot in use (Forget).            *)
(***************************************************************************)
CONSTANTS Key, Val, NotFound, Tx

NoWrite == <<"unwritten">>

VARIABLES
    store,      \* what committed transactions left
    status,     \* of each transaction: idle, running or finished
    snapshot,   \* of each running transaction: its copy of the store
    buffer,     \* of each running transaction: what it wrote
    overlap,    \* of each transaction: those that ran when it began
    published   \* of each key: the committed transactions that wrote it

vars == <<store, status, snapshot, buffer, overlap, published>>

Nothing == [k \in Key |-> NotFound]
Untouched == [k \in Key |-> NoWrite]

Init ==
    /\ store = Nothing
    /\ status = [t \in Tx |-> "idle"]
    /\ snapshot = [t \in Tx |-> Nothing]
    /\ buffer = [t \in Tx |-> Untouched]
    /\ overlap = [t \in Tx |-> {}]
    /\ published = [k \in Key |-> {}]

Begin(t) ==
    /\ status[t] = "idle"
    /\ status' = [status EXCEPT ![t] = "running"]
    /\ snapshot' = [snapshot EXCEPT ![t] = store]
    /\ overlap' = [overlap EXCEPT ![t] = {u \in Tx : status[u] = "running"}]
    /\ UNCHANGED <<store, buffer, published>>

\* The half of the conflict rule that holds: no other transaction has written k
\* and is still running, and none that began while t ran has published k.
Write(t, k, x) ==
    /\ status[t] = "running"
    /\ \A u \in Tx \ {t} : buffer[u][k] = NoWrite
    /\ \A u \in published[k] : t \notin overlap[u]
    /\ buffer' = [buffer EXCEPT ![t][k] = x]
    /\ UNCHANGED <<store, status, snapshot, overlap, published>>

\* The snapshot and the buffer of a finished transaction are discarded.
Finish(t) ==
    /\ status[t] = "running"
    /\ status' = [status EXCEPT ![t] = "finished"]
    /\ snapshot' = [snapshot EXCEPT ![t] = Nothing]
    /\ buffer' = [buffer EXCEPT ![t] = Untouched]
    /\ UNCHANGED overlap

Commit(t) ==
    /\ Finish(t)
    /\ store' = [k \in Key |-> IF buffer[t][k] = NoWrite THEN store[k] ELSE buffer[t][k]]
    /\ published' = [k \in Key |-> IF buffer[t][k] = NoWrite THEN published[k]
                                   ELSE published[k] \cup {t}]

Abort(t) == Finish(t) /\ UNCHANGED <<store, published>>

\* Keys go missing from snapshots in use, but only those that a transaction which
\* ran when the snapshot was taken has published since.
Forget ==
    /\ snapshot' \in [Tx -> [Key -> Val \cup {NotFound}]]
    /\ \A t \in Tx, k \in Key :
           \/ snapshot'[t][k] = snapshot[t][k]
           \/ /\ snapshot'[t][k] = NotFound
              /\ overlap[t] \cap published[k] # {}
    /\ UNCHANGED <<store, status, buffer, overlap, published>>

Next ==
    \/ \E t \in Tx :
        \/ Begin(t)
        \/ Commit(t)
        \/ Abort(t)
        \/ \E k \in Key, x \in Val \cup {NotFound} : Write(t, k, x)
    \/ Forget

Spec == Init /\ [][Next]_vars
================================================================================
