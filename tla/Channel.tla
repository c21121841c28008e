------------------------------ MODULE Channel ------------------------------
(* The thread-safe channel of universe/os/thread.lp: a ring of Cap words in *)
(* memory that threads made by SYS_clone share, guarded by a spinlock word. *)
(* Every load and store of a shared word is a step of its own, because that *)
(* is all the code asks of the machine: spinlock_lock loads the word with   *)
(* one instruction and stores 1 with another.  Memory is sequentially       *)
(* consistent here.                                                         *)
EXTENDS Integers, Sequences, FiniteSets

CONSTANTS Senders, Receivers, Closers,  \* threads, by the call each one makes
          Cap,                          \* words in the ring (16 in the code)
          Junk,                         \* what malloc leaves in the ring
          Budgets                       \* bound: what calls each thread may make

ASSUME ChannelAssumption ==
    /\ Cap \in Nat \ {0}
    /\ Senders \cap Receivers = {}
    /\ (Senders \cup Receivers) \cap Closers = {}
    /\ Budgets \subseteq [Senders \cup Receivers \cup Closers -> Nat]

Threads == Senders \cup Receivers \cup Closers
Messages == (Senders \X Nat) \cup {Junk}

VARIABLES
    lock, count, head, tail, closed, buf,   \* the shared words
    pc,         \* thread -> what it does next
    n, i, v,    \* thread -> its locals: the count it read, its index, its value
    calls       \* thread -> calls still to make

(* History: what was put in and taken out, in the order the counts were     *)
(* stored; how much had been put in at the first close; who was told the    *)
(* channel is over; and whether two threads ever saw the lock free together.*)
VARIABLES sent, received, due, over, raced

shared == <<lock, count, head, tail, closed, buf>>
locals == <<n, i, v>>
history == <<sent, received, due, over, raced>>
vars == <<shared, pc, locals, calls, history>>

Init ==
    /\ lock = 0 /\ count = 0 /\ head = 0 /\ tail = 0 /\ closed = 0
    /\ buf = [k \in 0 .. Cap - 1 |-> Junk]
    /\ pc = [t \in Threads |-> "idle"]
    /\ n = [t \in Threads |-> 0]
    /\ i = [t \in Threads |-> 0]
    /\ v = [t \in Threads |-> Junk]
    /\ calls \in Budgets
    /\ sent = <<>> /\ received = <<>> /\ due = 0 /\ over = {} /\ raced = FALSE

Goto(t, from, to) == /\ pc[t] = from
                     /\ pc' = [pc EXCEPT ![t] = to]

-----------------------------------------------------------------------------

Call(t) ==
    /\ calls[t] > 0
    /\ Goto(t, "idle", "test")
    /\ calls' = [calls EXCEPT ![t] = @ - 1]
    /\ v' = [v EXCEPT ![t] = IF t \in Senders THEN <<t, calls[t]>> ELSE Junk]
    /\ UNCHANGED <<shared, n, i, history>>

(* A load of a taken lock leads back to the same load. *)
TestLock(t) ==
    /\ lock = 0
    /\ Goto(t, "test", "set")
    /\ raced' = (raced \/ \E u \in Threads : pc[u] = "set")
    /\ UNCHANGED <<shared, locals, calls, sent, received, due, over>>

SetLock(t) ==
    /\ Goto(t, "set", IF t \in Closers THEN "flag" ELSE "count")
    /\ lock' = 1
    /\ UNCHANGED <<count, head, tail, closed, buf, locals, calls, history>>

(* Mutant: a receiver looks at the closed flag before the count. *)
ReadClosedFirst(t) ==
    /\ \/ /\ t \in Senders
          /\ Goto(t, "count", IF count < Cap THEN "index" ELSE "retry")
       \/ /\ t \in Receivers
          /\ Goto(t, "count", IF count > 0 /\ closed = 0 THEN "index" ELSE "closed")
    /\ n' = [n EXCEPT ![t] = count]
    /\ UNCHANGED <<shared, i, v, calls, history>>

(* A sender finds the ring full, a receiver finds it empty, or they go on. *)
ReadCount(t) ==
    /\ \/ /\ t \in Senders
          /\ Goto(t, "count", IF count < Cap THEN "index" ELSE "retry")
       \/ /\ t \in Receivers
          /\ Goto(t, "count", IF count > 0 THEN "index" ELSE "closed")
    /\ n' = [n EXCEPT ![t] = count]
    /\ UNCHANGED <<shared, i, v, calls, history>>

ReadIndex(t) ==
    /\ Goto(t, "index", "slot")
    /\ i' = [i EXCEPT ![t] = IF t \in Senders THEN tail ELSE head]
    /\ UNCHANGED <<shared, n, v, calls, history>>

WriteSlot(t) ==
    /\ t \in Senders
    /\ Goto(t, "slot", "advance")
    /\ buf' = [buf EXCEPT ![i[t]] = v[t]]
    /\ UNCHANGED <<lock, count, head, tail, closed, locals, calls, history>>

ReadSlot(t) ==
    /\ t \in Receivers
    /\ Goto(t, "slot", "advance")
    /\ v' = [v EXCEPT ![t] = buf[i[t]]]
    /\ UNCHANGED <<shared, n, i, calls, history>>

(* Mutant: the index runs on. *)
IndexRunsOn(k) == k + 1

NextIndex(k) == (k + 1) % Cap

Advance(t) ==
    /\ Goto(t, "advance", "number")
    /\ IF t \in Senders THEN tail' = NextIndex(i[t]) /\ UNCHANGED head
                        ELSE head' = NextIndex(i[t]) /\ UNCHANGED tail
    /\ UNCHANGED <<lock, count, closed, buf, locals, calls, history>>

WriteCount(t) ==
    /\ Goto(t, "number", "unlock")
    /\ \/ /\ t \in Senders
          /\ count' = n[t] + 1
          /\ sent' = Append(sent, v[t])
          /\ UNCHANGED received
       \/ /\ t \in Receivers
          /\ count' = n[t] - 1
          /\ received' = Append(received, v[t])
          /\ UNCHANGED sent
    /\ UNCHANGED <<lock, head, tail, closed, buf, locals, calls, due, over, raced>>

(* An empty channel: the receiver ends its call only when it is closed. *)
ReadClosed(t) ==
    /\ Goto(t, "closed", IF closed = 1 THEN "quit" ELSE "retry")
    /\ UNCHANGED <<shared, locals, calls, history>>

WriteClosed(t) ==
    /\ Goto(t, "flag", "unlock")
    /\ closed' = 1
    /\ due' = IF closed = 0 THEN Len(sent) ELSE due
    /\ UNCHANGED <<lock, count, head, tail, buf, locals, calls,
                   sent, received, over, raced>>

(* spinlock_unlock stores 0, whoever holds the lock. *)
Unlock(t) ==
    /\ lock' = 0
    /\ n' = [n EXCEPT ![t] = 0]
    /\ i' = [i EXCEPT ![t] = 0]
    /\ UNCHANGED <<count, head, tail, closed, buf, calls, sent, received, due, raced>>

Return(t) == /\ Goto(t, "unlock", "idle")
             /\ v' = [v EXCEPT ![t] = Junk]
             /\ UNCHANGED over
             /\ Unlock(t)

(* Mutant: the way out of a closed channel keeps the lock. *)
QuitLocked(t) == /\ Goto(t, "quit", "idle")
                 /\ over' = over \cup {t}
                 /\ UNCHANGED <<shared, locals, calls, sent, received, due, raced>>

(* channel_recv answers 0. *)
Quit(t) == /\ Goto(t, "quit", "idle")
           /\ over' = over \cup {t}
           /\ UNCHANGED v
           /\ Unlock(t)

(* Full, or empty and open: unlock, yield, lock again. *)
Retry(t) == /\ Goto(t, "retry", "test")
            /\ UNCHANGED <<v, over>>
            /\ Unlock(t)

Step(t) ==
    \/ TestLock(t) \/ SetLock(t)
    \/ ReadCount(t) \/ ReadIndex(t) \/ WriteSlot(t) \/ ReadSlot(t)
    \/ Advance(t) \/ WriteCount(t)
    \/ ReadClosed(t) \/ WriteClosed(t)
    \/ Return(t) \/ Quit(t) \/ Retry(t)

Next == \E t \in Threads : Call(t) \/ Step(t)

(* The kernel runs every thread again and again; nobody promises that it    *)
(* runs one while the lock is free, nor that a thread makes another call.   *)
Fairness == \A t \in Threads : WF_vars(Step(t))

Spec == Init /\ [][Next]_vars /\ Fairness

-----------------------------------------------------------------------------

Inside == {t \in Threads : pc[t] \notin {"idle", "test", "set"}}

Buffered == [k \in 1 .. count |-> buf[(head + k - 1) % Cap]]

(* What thread.lp says of the channel (:66, a lock-protected ring for safe   *)
(* exchange between several threads): whenever no thread is between taking  *)
(* and releasing the lock, what was received followed by what is buffered   *)
(* is what was sent, in order.                                              *)
Exchange == Inside = {} => received \o Buffered = sent

(* Types of every shared word, local and history; the count never leaves    *)
(* 0..Cap, whatever the threads do to each other.                           *)
TypeOK ==
    /\ lock \in {0, 1} /\ closed \in {0, 1}
    /\ count \in 0 .. Cap
    /\ head \in 0 .. Cap - 1 /\ tail \in 0 .. Cap - 1
    /\ buf \in [0 .. Cap - 1 -> Messages]
    /\ pc \in [Threads -> {"idle", "test", "set", "count", "index", "slot", "advance",
                           "number", "closed", "flag", "unlock", "quit", "retry"}]
    /\ n \in [Threads -> 0 .. Cap]
    /\ i \in [Threads -> 0 .. Cap - 1]
    /\ v \in [Threads -> Messages]
    /\ calls \in [Threads -> Nat]
    /\ \A k \in DOMAIN sent : sent[k] \in Messages
    /\ \A k \in DOMAIN received : received[k] \in Messages
    /\ due \in 0 .. Len(sent)
    /\ over \subseteq Receivers
    /\ raced \in BOOLEAN

(* channel_send and channel_recv: the exchange is right, nothing lost,      *)
(* doubled or read before it was written, at any fill level and across the  *)
(* wrap of both indices, as long as no two threads saw the lock free        *)
(* together: the lock's two instructions are all that can go wrong.         *)
KeepsOrder == ~raced => Exchange

(* channel_close and channel_recv: a receiver is told 0 only after          *)
(* everything sent before the close was received, however many receivers    *)
(* and closers race for the last values; again while the lock excluded.     *)
DrainedBeforeOver == ~raced /\ over # {} => Len(received) >= due

(* A channel delivers: both hold together. *)
Delivers == KeepsOrder /\ DrainedBeforeOver

(* channel_close: once the channel is closed and no send is under way or    *)
(* to come, every receive call returns, races or not: no receiver waits for *)
(* ever on the lock or on a value that will not come.                       *)
SendsOver == \A s \in Senders : pc[s] = "idle" /\ calls[s] = 0
CloseReleases == \A r \in Receivers : (closed = 1 /\ SendsOver) ~> (pc[r] = "idle")

=============================================================================
