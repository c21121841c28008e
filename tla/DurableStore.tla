---------------------------- MODULE DurableStore ----------------------------
(***************************************************************************)
(* What universe/db/engine.lp gives its callers: one call at a time        *)
(* submits a list of writes; all of them take effect at once or, if the    *)
(* process dies before that, none does; nothing else changes the store,    *)
(* and a call is answered only after its writes took effect.  The store    *)
(* reorganizes itself at times; only one that dies while it does so, or    *)
(* meets faults it is not made for, may break, and then promises nothing.  *)
(***************************************************************************)
EXTENDS Integers, Sequences

CONSTANTS
    Key, Val,
    NoVal,      \* the value of an absent key
    NoCall      \* no call is in progress

Op == [key : Key, val : Val \cup {NoVal}]

VARIABLES
    store,      \* the contents a client can rely on
    writes,     \* the writes of the call in progress, or NoCall
    effective,  \* have they taken effect
    running,    \* is there a process to call
    risky,      \* would it break if it stopped now
    broken      \* has it broken

vars == <<store, writes, effective, running, risky, broken>>

\* The last write to a key decides.
After(s, ops) ==
    [k \in Key |->
        LET hits == {i \in DOMAIN ops : ops[i].key = k}
        IN  IF hits = {} THEN s[k]
            ELSE ops[CHOOSE i \in hits : \A j \in hits : j <= i].val]

Init ==
    /\ store = [k \in Key |-> NoVal]
    /\ writes = NoCall
    /\ effective = FALSE
    /\ running = FALSE
    /\ risky \in BOOLEAN
    /\ broken = FALSE

Start ==
    /\ ~running
    /\ running' = TRUE
    /\ UNCHANGED <<store, writes, effective, risky, broken>>

Submit ==
    /\ running /\ writes = NoCall
    /\ writes' \in Seq(Op)
    /\ UNCHANGED <<store, effective, running, risky, broken>>

TakeEffect ==
    /\ writes # NoCall /\ ~effective
    /\ store' = After(store, writes)
    /\ effective' = TRUE
    /\ UNCHANGED <<writes, running, risky, broken>>

Answer ==
    /\ writes # NoCall /\ effective
    /\ writes' = NoCall
    /\ effective' = FALSE
    /\ UNCHANGED <<store, running, risky, broken>>

\* The caller never learns whether its writes took effect.
Die ==
    /\ running
    /\ running' = FALSE
    /\ writes' = NoCall
    /\ effective' = FALSE
    /\ UNCHANGED <<store, risky, broken>>

\* Pages are split, or the last of a split is written.
Reorganize ==
    /\ running
    /\ risky' \in BOOLEAN
    /\ UNCHANGED <<store, writes, effective, running, broken>>

\* Nothing is said of a broken store but that it was at risk.
Break ==
    /\ risky \/ broken
    /\ broken' = TRUE

Next == Start \/ Submit \/ TakeEffect \/ Answer \/ Die \/ Reorganize \/ Break

Spec == Init /\ [][Next]_vars
=============================================================================
