-------------------------- MODULE WasmWorkerProofs --------------------------
(* Proofs about the background worker, for any number of messages and any   *)
(* number of texts a program prints: types, and that the parent gets for a  *)
(* message its own texts and then at most one answer, however the runs      *)
(* interleave.                                                              *)
EXTENDS WasmWorker, FiniteSetTheorems, TLAPS

Compilable == {"invalid", "empty", "returns", "traps", "aborts", "endless"}

(* The queue holds messages that were posted and not yet handled, once. *)
Queue ==
    /\ inbox \in Seq(Messages)
    /\ \A i \in DOMAIN inbox : posted[inbox[i]] # None /\ task[inbox[i]] = "new"
    /\ \A i, j \in DOMAIN inbox : inbox[i] = inbox[j] => i = j

Kinds ==
    /\ engine \in BOOLEAN /\ stuck \in BOOLEAN
    /\ posted \in [Messages -> Requests \cup {None}]
    /\ task \in [Messages -> {"new", "compiling", "running", "ran", "done"}]
    /\ report \in [Messages -> {"none", "ok", "error", "source"}]
    /\ capturedOutput \in [Messages -> 0 .. MaxPrints + 2]
    /\ outbox \in Seq(Replies)

(* The thread runs one program, and continues one handler, at a time. *)
OneOnThread ==
    /\ \A m \in Messages : task[m] = "running" => stuck
    /\ \A m, k \in Messages : {task[m], task[k]} \subseteq {"running", "ran"} => m = k

(* What the parent got for m while m is under way: nothing before it runs,  *)
(* then the texts it captured, and a report that fits the request.          *)
Course(m) ==
    /\ posted[m] = None => task[m] = "new"
    /\ task[m] \in {"new", "compiling"} =>
          About(m) = {} /\ capturedOutput[m] = 0 /\ report[m] = "none"
    /\ task[m] = "compiling" => posted[m].type = "RUN" /\ posted[m].what \in Compilable
    /\ task[m] \in {"running", "ran"} => \A j \in About(m) : outbox[j].type = "OUTPUT"
    /\ task[m] = "ran" =>
          /\ Cardinality(About(m)) = capturedOutput[m]
          /\ report[m] # "none"
          /\ posted[m].type = IF report[m] = "source" THEN "RUN_SOURCE" ELSE "RUN"
          /\ report[m] = "ok" => posted[m].what \in {"empty", "returns"}

(* AnsweredOnce for one message. *)
Settled(m) ==
    \A i \in Final(m) :
        /\ \A j \in About(m) : j <= i
        /\ \A j \in About(m) \ {i} : outbox[j].type = "OUTPUT"
        /\ outbox[i].type \in Expected(posted[m])
        /\ outbox[i].type = "DONE" => outbox[i].outputCount = Cardinality(About(m)) - 1

IInv == /\ Kinds /\ Queue /\ OneOnThread
        /\ \A m \in Messages : Course(m) /\ Settled(m)

-----------------------------------------------------------------------------
(* Which message an entry of the outbox is about. *)
Concerns(r, m) == "id" \in DOMAIN r /\ r.id = m

LEMMA ReplyFacts ==
    ASSUME NEW m \in Messages, NEW type
    PROVE  /\ \A k : Concerns(Reply(m, type), k) <=> k = m
           /\ Reply(m, type).type = type
           /\ type \in {"PONG", "RESET_OK", "ERROR", "WASM_RESULT", "OUTPUT"}
                => Reply(m, type) \in Replies
BY DEF Reply, Concerns, Replies, Finals

LEMMA DoneFacts ==
    ASSUME NEW m \in Messages, NEW n \in Nat
    PROVE  LET r == [type |-> "DONE", id |-> m, outputCount |-> n]
           IN  /\ \A k : Concerns(r, k) <=> k = m
               /\ r.type = "DONE" /\ r.outputCount = n /\ r \in Replies
BY DEF Concerns, Replies

LEMMA NoIdFacts ==
    /\ [type |-> "ERROR"] \in Replies
    /\ \A k : ~Concerns([type |-> "ERROR"], k)
BY DEF Concerns, Replies

LEMMA OutputsFacts ==
    ASSUME NEW m \in Messages, NEW n \in Nat
    PROVE  /\ Outputs(m, n) \in Seq(Replies) /\ Len(Outputs(m, n)) = n
           /\ \A i \in 1 .. n : /\ Outputs(m, n)[i].type = "OUTPUT"
                                /\ \A k : Concerns(Outputs(m, n)[i], k) <=> k = m
<1>1. /\ \A k : Concerns(Output(m), k) <=> k = m
      /\ Output(m).type = "OUTPUT" /\ Output(m) \in Replies
  BY DEF Output, Concerns, Replies
<1> QED BY <1>1 DEF Outputs

(* What is appended changes nothing before it. *)
LEMMA Grows ==
    ASSUME outbox \in Seq(Replies), NEW t \in Seq(Replies), outbox' = outbox \o t,
           NEW m \in Messages
    PROVE  /\ outbox' \in Seq(Replies)
           /\ About(m) \subseteq DOMAIN outbox
           /\ \A i \in DOMAIN outbox : outbox'[i] = outbox[i]
           /\ \A i \in DOMAIN t : outbox'[Len(outbox) + i] = t[i]
           /\ About(m)' = About(m) \cup
                 {i \in Len(outbox) + 1 .. Len(outbox) + Len(t) : Concerns(t[i - Len(outbox)], m)}
<1>1. /\ outbox' \in Seq(Replies)
      /\ DOMAIN outbox = 1 .. Len(outbox) /\ Len(outbox) \in Nat
      /\ DOMAIN t = 1 .. Len(t) /\ Len(t) \in Nat
      /\ DOMAIN outbox' = 1 .. Len(outbox) + Len(t)
      /\ \A i \in 1 .. Len(outbox) : outbox'[i] = outbox[i]
      /\ \A i \in 1 .. Len(t) : outbox'[Len(outbox) + i] = t[i]
  OBVIOUS
<1>2. \A i \in Len(outbox) + 1 .. Len(outbox) + Len(t) :
         i - Len(outbox) \in 1 .. Len(t) /\ outbox'[i] = t[i - Len(outbox)]
  BY <1>1
<1>3. \A i : i \in 1 .. Len(outbox) + Len(t) <=>
         i \in 1 .. Len(outbox) \/ i \in Len(outbox) + 1 .. Len(outbox) + Len(t)
  BY <1>1
<1>4. About(m)' = {i \in DOMAIN outbox' : Concerns(outbox'[i], m)}
  BY DEF About, Concerns
<1>5. About(m) = {i \in DOMAIN outbox : Concerns(outbox[i], m)}
  BY DEF About, Concerns
<1> QED BY <1>1, <1>2, <1>3, <1>4, <1>5

LEMMA AboutFinite ==
    ASSUME outbox \in Seq(Replies), NEW m \in Messages
    PROVE  IsFiniteSet(About(m)) /\ Cardinality(About(m)) \in Nat
<1>1. About(m) \subseteq 1 .. Len(outbox) /\ Len(outbox) \in Nat
  BY DEF About
<1>2. IsFiniteSet(1 .. Len(outbox))
  BY <1>1, FS_Interval
<1> QED BY <1>1, <1>2, FS_Subset, FS_CardinalityType

(* A message that nothing sent concerns has what it had. *)
LEMMA AboutKept ==
    ASSUME IInv, NEW m \in Messages,
           outbox' = outbox \/ \E t \in Seq(Replies) : /\ outbox' = outbox \o t
                                                      /\ \A i \in DOMAIN t : ~Concerns(t[i], m)
    PROVE  About(m)' = About(m) /\ \A i \in About(m) : outbox'[i] = outbox[i]
<1>1. CASE outbox' = outbox
  BY <1>1 DEF About
<1>2. ASSUME NEW t \in Seq(Replies), outbox' = outbox \o t, \A i \in DOMAIN t : ~Concerns(t[i], m)
      PROVE  About(m)' = About(m) /\ \A i \in About(m) : outbox'[i] = outbox[i]
  <2>1. /\ About(m) \subseteq DOMAIN outbox
        /\ \A i \in DOMAIN outbox : outbox'[i] = outbox[i]
        /\ About(m)' = About(m) \cup
              {i \in Len(outbox) + 1 .. Len(outbox) + Len(t) : Concerns(t[i - Len(outbox)], m)}
    BY <1>2, Grows DEF IInv, Kinds
  <2>2. \A i \in Len(outbox) + 1 .. Len(outbox) + Len(t) : i - Len(outbox) \in DOMAIN t
    BY <1>2 DEF IInv, Kinds
  <2> QED BY <1>2, <2>1, <2>2
<1> QED BY <1>1, <1>2

LEMMA OthersKeep ==
    ASSUME IInv, NEW m \in Messages,
           outbox' = outbox \/ \E t \in Seq(Replies) : /\ outbox' = outbox \o t
                                                      /\ \A i \in DOMAIN t : ~Concerns(t[i], m),
           posted'[m] = posted[m], task'[m] = task[m], report'[m] = report[m],
           capturedOutput'[m] = capturedOutput[m]
    PROVE  Course(m)' /\ Settled(m)'
<1>1. About(m)' = About(m) /\ \A i \in About(m) : outbox'[i] = outbox[i]
  BY AboutKept
<1>2. Final(m)' = Final(m) /\ Final(m) \subseteq About(m)
  BY <1>1 DEF Final
<1>3. Course(m) /\ Settled(m)
  BY DEF IInv
<1>4. Course(m)'
  BY <1>1, <1>3 DEF Course
<1>5. Settled(m)'
  BY <1>1, <1>2, <1>3 DEF Settled
<1> QED BY <1>4, <1>5

(* The one answer of m, after nothing but texts. *)
LEMMA AnswerSettles ==
    ASSUME IInv, NEW m \in Messages, NEW r \in Replies, Concerns(r, m),
           outbox' = Append(outbox, r), \A j \in About(m) : outbox[j].type = "OUTPUT",
           r.type \in Expected(posted'[m]),
           r.type = "DONE" => r.outputCount = Cardinality(About(m)),
           posted'[m] # None, task'[m] = "done"
    PROVE  Course(m)' /\ Settled(m)'
<1> DEFINE last == Len(outbox) + 1
<1>1. outbox' = outbox \o <<r>> /\ outbox \in Seq(Replies) /\ Len(outbox) \in Nat
  BY DEF IInv, Kinds
<1>2. /\ About(m)' = About(m) \cup {last} /\ last \notin About(m)
      /\ outbox'[last] = r /\ \A j \in About(m) : outbox'[j] = outbox[j] /\ j <= last
  <2>1. /\ About(m) \subseteq DOMAIN outbox
        /\ \A i \in DOMAIN outbox : outbox'[i] = outbox[i]
        /\ \A i \in DOMAIN <<r>> : outbox'[Len(outbox) + i] = <<r>>[i]
        /\ About(m)' = About(m) \cup
              {i \in Len(outbox) + 1 .. Len(outbox) + Len(<<r>>) : Concerns(<<r>>[i - Len(outbox)], m)}
    <3>1. <<r>> \in Seq(Replies)
      OBVIOUS
    <3> QED BY <1>1, <3>1, Grows
  <2>2. {i \in Len(outbox) + 1 .. Len(outbox) + Len(<<r>>) : Concerns(<<r>>[i - Len(outbox)], m)}
            = {last}
    BY <1>1
  <2>3. \A j \in DOMAIN outbox : j <= last /\ j # last
    BY <1>1
  <2>4. outbox'[last] = r
    BY <1>1
  <2> QED BY <2>1, <2>2, <2>3, <2>4
<1>3. Final(m)' \subseteq {last}
  BY <1>2 DEF Final, Finals
<1>4. Cardinality(About(m)') - 1 = Cardinality(About(m))
  <2>1. IsFiniteSet(About(m)) /\ Cardinality(About(m)) \in Nat
    BY <1>1, AboutFinite
  <2>2. Cardinality(About(m) \cup {last}) = Cardinality(About(m)) + 1
    BY <1>2, <2>1, FS_AddElement
  <2> QED BY <1>2, <2>1, <2>2
<1>5. Settled(m)'
  <2>1. \A j \in About(m)' : j <= last
    BY <1>1, <1>2
  <2> HIDE DEF last
  <2> QED BY <1>2, <1>3, <1>4, <2>1 DEF Settled
<1>6. Course(m)'
  BY DEF Course
<1> QED BY <1>5, <1>6

(* The texts of m, which had none before. *)
LEMMA TextsCounted ==
    ASSUME IInv, NEW m \in Messages, NEW n \in Nat, outbox' = outbox \o Outputs(m, n),
           About(m) = {}
    PROVE  /\ \A j \in About(m)' : outbox'[j].type = "OUTPUT"
           /\ Cardinality(About(m)') = n
           /\ outbox' \in Seq(Replies)
<1> DEFINE t == Outputs(m, n)
<1>1. /\ t \in Seq(Replies) /\ Len(t) = n /\ DOMAIN t = 1 .. n
      /\ \A i \in 1 .. n : t[i].type = "OUTPUT" /\ Concerns(t[i], m)
  <2>1. /\ t \in Seq(Replies) /\ Len(t) = n
        /\ \A i \in 1 .. n : t[i].type = "OUTPUT" /\ \A k : Concerns(t[i], k) <=> k = m
    BY OutputsFacts
  <2>2. \A i \in 1 .. n : Concerns(t[i], m)
    BY <2>1
  <2> HIDE DEF t
  <2> QED BY <2>1, <2>2
<1> HIDE DEF t
<1>2. outbox \in Seq(Replies) /\ Len(outbox) \in Nat /\ outbox' = outbox \o t
  BY DEF IInv, Kinds, t
<1>3. /\ outbox' \in Seq(Replies)
      /\ \A i \in DOMAIN t : outbox'[Len(outbox) + i] = t[i]
      /\ About(m)' = About(m) \cup
            {i \in Len(outbox) + 1 .. Len(outbox) + Len(t) : Concerns(t[i - Len(outbox)], m)}
  BY <1>1, <1>2, Grows
<1>4. \A i \in Len(outbox) + 1 .. Len(outbox) + n :
         i - Len(outbox) \in 1 .. n /\ outbox'[i] = t[i - Len(outbox)]
  BY <1>1, <1>2, <1>3
<1>5. About(m)' = Len(outbox) + 1 .. Len(outbox) + n
  BY <1>1, <1>3, <1>4
<1>6. Cardinality(Len(outbox) + 1 .. Len(outbox) + n) = n
  BY <1>2, FS_Interval
<1> QED BY <1>1, <1>3, <1>4, <1>5, <1>6

(* A step sends to one message only: the others keep what they have. *)
LEMMA OneSent ==
    ASSUME IInv, NEW m \in Messages,
           \/ outbox' = outbox
           \/ \E r \in Replies : /\ outbox' = Append(outbox, r)
                                 /\ \A k \in Messages : Concerns(r, k) => k = m
           \/ \E n \in Nat : outbox' = outbox \o Outputs(m, n),
           \A k \in Messages : k # m => /\ posted'[k] = posted[k] /\ task'[k] = task[k]
                                        /\ report'[k] = report[k]
                                        /\ capturedOutput'[k] = capturedOutput[k]
    PROVE  /\ outbox' \in Seq(Replies)
           /\ \A k \in Messages : k # m => Course(k)' /\ Settled(k)'
<1>0. outbox \in Seq(Replies)
  BY DEF IInv, Kinds
<1>1. /\ outbox' \in Seq(Replies)
      /\ \A k \in Messages : k # m =>
            outbox' = outbox \/ \E t \in Seq(Replies) : /\ outbox' = outbox \o t
                                                       /\ \A i \in DOMAIN t : ~Concerns(t[i], k)
  <2>1. ASSUME NEW r \in Replies, outbox' = Append(outbox, r),
               \A k \in Messages : Concerns(r, k) => k = m
        PROVE  /\ outbox' \in Seq(Replies)
               /\ \A k \in Messages : k # m =>
                     \E t \in Seq(Replies) : /\ outbox' = outbox \o t
                                             /\ \A i \in DOMAIN t : ~Concerns(t[i], k)
    <3>1. outbox' = outbox \o <<r>> /\ outbox' \in Seq(Replies)
      BY <1>0, <2>1
    <3>2. <<r>> \in Seq(Replies) /\ DOMAIN <<r>> = {1} /\ <<r>>[1] = r
      OBVIOUS
    <3>3. ASSUME NEW k \in Messages, k # m PROVE \A i \in DOMAIN <<r>> : ~Concerns(<<r>>[i], k)
      BY <2>1, <3>2, <3>3
    <3> HIDE DEF Replies
    <3> QED BY <3>1, <3>2, <3>3
  <2>2. ASSUME NEW n \in Nat, outbox' = outbox \o Outputs(m, n)
        PROVE  /\ outbox' \in Seq(Replies)
               /\ \A k \in Messages : k # m =>
                     \E t \in Seq(Replies) : /\ outbox' = outbox \o t
                                             /\ \A i \in DOMAIN t : ~Concerns(t[i], k)
    <3> DEFINE t == Outputs(m, n)
    <3>1. /\ t \in Seq(Replies) /\ Len(t) = n
          /\ \A i \in 1 .. n : \A k : Concerns(t[i], k) <=> k = m
      BY OutputsFacts
    <3> HIDE DEF t
    <3>2. outbox' = outbox \o t /\ outbox' \in Seq(Replies)
      <4>1. outbox' = outbox \o t
        BY <2>2 DEF t
      <4> QED BY <1>0, <3>1, <4>1
    <3>3. \A k \in Messages : k # m => \A i \in DOMAIN t : ~Concerns(t[i], k)
      BY <3>1
    <3> QED BY <3>1, <3>2, <3>3
  <2> QED BY <1>0, <2>1, <2>2
<1> QED BY <1>1, OthersKeep

(* The queue after its first message went to its handler. *)
LEMMA QueueTaken ==
    ASSUME IInv, NEW m, NEW type, Take(m, type), NEW x, task' = [task EXCEPT ![m] = x]
    PROVE  /\ Queue' /\ m \in Messages /\ task[m] = "new" /\ posted[m] # None
           /\ posted[m].type = type /\ posted' = posted /\ engine' \in BOOLEAN /\ Free
           /\ About(m) = {} /\ capturedOutput[m] = 0 /\ report[m] = "none"
<1>1. /\ inbox \in Seq(Messages) /\ inbox # <<>> /\ m = Head(inbox) /\ inbox' = Tail(inbox)
      /\ posted' = posted /\ engine' \in BOOLEAN /\ posted[m].type = type /\ Free
      /\ \A i \in DOMAIN inbox : posted[inbox[i]] # None /\ task[inbox[i]] = "new"
      /\ \A i, j \in DOMAIN inbox : inbox[i] = inbox[j] => i = j
  BY DEF Take, EnsureRunnerLoaded, IInv, Queue, Kinds
<1>2. m \in Messages /\ 1 \in DOMAIN inbox /\ m = inbox[1]
  BY <1>1
<1>3. /\ inbox' \in Seq(Messages)
      /\ \A i \in DOMAIN inbox' : /\ i + 1 \in DOMAIN inbox /\ inbox'[i] = inbox[i + 1]
                                  /\ i + 1 # 1 /\ i \in Nat
  BY <1>1
<1>4. \A i \in DOMAIN inbox' : inbox'[i] # m /\ inbox'[i] \in Messages
  BY <1>1, <1>2, <1>3
<1>5. \A i \in DOMAIN inbox' : posted'[inbox'[i]] # None /\ task'[inbox'[i]] = "new"
  <2>1. task \in [Messages -> {"new", "compiling", "running", "ran", "done"}]
    BY DEF IInv, Kinds
  <2> QED BY <1>1, <1>3, <1>4, <2>1
<1>6. \A i, j \in DOMAIN inbox' : inbox'[i] = inbox'[j] => i = j
  BY <1>1, <1>3
<1>7. task[m] = "new" /\ posted[m] # None
  BY <1>1, <1>2
<1> QED BY <1>1, <1>2, <1>3, <1>5, <1>6, <1>7 DEF Queue, IInv, Course

LEMMA QueueKept ==
    ASSUME IInv, NEW m \in Messages, task[m] # "new", inbox' = inbox, posted' = posted,
           NEW x, task' = [task EXCEPT ![m] = x]
    PROVE  Queue'
<1>1. task \in [Messages -> {"new", "compiling", "running", "ran", "done"}]
  BY DEF IInv, Kinds
<1>2. \A i \in DOMAIN inbox : inbox[i] # m /\ inbox[i] \in Messages
  BY DEF IInv, Queue
<1> QED BY <1>1, <1>2 DEF IInv, Queue

LEMMA ThreadTaken ==
    ASSUME IInv, Free, NEW m \in Messages, NEW x, task' = [task EXCEPT ![m] = x],
           x = "running" => stuck'
    PROVE  OneOnThread'
<1>1. task \in [Messages -> {"new", "compiling", "running", "ran", "done"}]
  BY DEF IInv, Kinds
<1>2. \A k \in Messages : task[k] \notin {"running", "ran"}
  BY DEF IInv, OneOnThread, Free
<1> QED BY <1>1, <1>2 DEF OneOnThread

LEMMA ThreadLeft ==
    ASSUME IInv, NEW m \in Messages, task' = [task EXCEPT ![m] = "done"], stuck' = stuck
    PROVE  OneOnThread'
<1>1. task \in [Messages -> {"new", "compiling", "running", "ran", "done"}]
  BY DEF IInv, Kinds
<1> QED BY <1>1 DEF IInv, OneOnThread

-----------------------------------------------------------------------------
LEMMA Starts == Init => IInv
<1> SUFFICES ASSUME Init PROVE IInv
  OBVIOUS
<1>1. Kinds
  <2>1. [type |-> "READY"] \in Replies
    BY DEF Replies
  <2>2. outbox \in Seq(Replies)
    BY <2>1 DEF Init
  <2>3. 0 \in 0 .. MaxPrints + 2
    BY WorkerAssumption
  <2> QED BY <2>2, <2>3 DEF Init, Kinds
<1>2. Queue /\ OneOnThread
  BY DEF Init, Queue, OneOnThread
<1>3. ASSUME NEW m \in Messages PROVE About(m) = {}
  <2>1. \A i \in DOMAIN outbox : "id" \notin DOMAIN outbox[i]
    BY DEF Init
  <2> QED BY <2>1 DEF About
<1>4. ASSUME NEW m \in Messages PROVE Course(m) /\ Settled(m)
  BY <1>3 DEF Init, Course, Settled, Final
<1> QED BY <1>1, <1>2, <1>4 DEF IInv

LEMMA PostKeeps == ASSUME IInv, NEW m \in Messages, Post(m) PROVE IInv'
<1>1. PICK q \in Requests : posted' = [posted EXCEPT ![m] = q]
  BY DEF Post
<1>2. /\ posted[m] = None /\ inbox' = Append(inbox, m)
      /\ UNCHANGED <<engine, task, report, capturedOutput, stuck, outbox>>
  BY DEF Post, run
<1>3. q # None
  BY DEF Requests, None
<1>4. posted \in [Messages -> Requests \cup {None}]
  BY DEF IInv, Kinds
<1>5. task[m] = "new"
  BY <1>2 DEF IInv, Course
<1>6. Kinds'
  BY <1>1, <1>2 DEF IInv, Kinds
<1>7. Queue'
  <2>1. /\ inbox \in Seq(Messages)
        /\ \A i \in DOMAIN inbox : posted[inbox[i]] # None /\ task[inbox[i]] = "new"
        /\ \A i, j \in DOMAIN inbox : inbox[i] = inbox[j] => i = j
    BY DEF IInv, Queue
  <2>2. /\ inbox' \in Seq(Messages)
        /\ \A i \in DOMAIN inbox' : (i \in DOMAIN inbox /\ inbox'[i] = inbox[i])
                                    \/ (i = Len(inbox) + 1 /\ inbox'[i] = m)
    BY <1>2, <2>1
  <2>3. \A i \in DOMAIN inbox : inbox[i] # m /\ inbox[i] \in Messages
    BY <1>2, <2>1
  <2>4. \A i \in DOMAIN inbox' : posted'[inbox'[i]] # None /\ task'[inbox'[i]] = "new"
    BY <1>1, <1>2, <1>3, <1>4, <1>5, <2>1, <2>2, <2>3
  <2>5. \A i, j \in DOMAIN inbox' : inbox'[i] = inbox'[j] => i = j
    BY <2>1, <2>2, <2>3
  <2> QED BY <2>2, <2>4, <2>5 DEF Queue
<1>8. OneOnThread'
  BY <1>2 DEF IInv, OneOnThread
<1>9. \A k \in Messages : k # m => Course(k)' /\ Settled(k)'
  BY <1>1, <1>2, <1>4, OneSent
<1>10. Course(m)' /\ Settled(m)'
  <2>1. About(m)' = {} /\ About(m) = {} /\ capturedOutput[m] = 0 /\ report[m] = "none"
    BY <1>2, <1>5 DEF IInv, Course, About
  <2> QED BY <1>2, <1>5, <2>1 DEF Course, Settled, Final
<1> QED BY <1>6, <1>7, <1>8, <1>9, <1>10 DEF IInv

(* A handler that answers at once. *)
LEMMA AnswerKeeps ==
    ASSUME IInv, NEW m \in Messages, NEW type, Take(m, type),
           NEW r \in Replies, outbox' = Append(outbox, r),
           task' = [task EXCEPT ![m] = "done"], UNCHANGED <<report, capturedOutput, stuck>>,
           \/ (\A k \in Messages : Concerns(r, k) <=> k = m) /\ r.type \in Expected(posted[m]) \ {"DONE"}
           \/ \A k \in Messages : ~Concerns(r, k)
    PROVE  IInv'
<1>1. /\ Queue' /\ posted[m] # None /\ posted' = posted /\ engine' \in BOOLEAN /\ Free
      /\ About(m) = {}
  BY QueueTaken
<1>2. task \in [Messages -> {"new", "compiling", "running", "ran", "done"}]
  BY DEF IInv, Kinds
<1>3. outbox' \in Seq(Replies) /\ \A k \in Messages : k # m => Course(k)' /\ Settled(k)'
  BY <1>1, <1>2, OneSent
<1>4. Kinds'
  BY <1>1, <1>3 DEF IInv, Kinds
<1>5. OneOnThread'
  BY <1>1, ThreadTaken
<1>6. Course(m)' /\ Settled(m)'
  <2>1. CASE (\A k \in Messages : Concerns(r, k) <=> k = m) /\ r.type \in Expected(posted[m]) \ {"DONE"}
    BY <1>1, <1>2, <2>1, AnswerSettles
  <2>2. CASE \A k \in Messages : ~Concerns(r, k)
    <3>1. outbox' = outbox \o <<r>> /\ <<r>> \in Seq(Replies)
      BY DEF IInv, Kinds
    <3>2. \A i \in DOMAIN <<r>> : ~Concerns(<<r>>[i], m)
      BY <2>2
    <3>3. About(m)' = {}
      BY <1>1, <3>1, <3>2, AboutKept
    <3> QED BY <1>1, <1>2, <3>3 DEF Course, Settled, Final
  <2> QED BY <2>1, <2>2
<1> QED BY <1>1, <1>3, <1>4, <1>5, <1>6 DEF IInv

(* A handler that sends nothing yet, or the line that refuses a header. *)
LEMMA HandlerKeeps ==
    ASSUME IInv, NEW m \in Messages, NEW type, Take(m, type),
           NEW x \in {"compiling", "running", "ran"}, task' = [task EXCEPT ![m] = x],
           NEW y \in {"none", "error", "source"}, report' = [report EXCEPT ![m] = y],
           NEW n \in 0 .. 1, capturedOutput' = [capturedOutput EXCEPT ![m] = n],
           outbox' = outbox \o Outputs(m, n), stuck' = (x = "running"),
           x = "compiling" => n = 0 /\ y = "none" /\ type = "RUN" /\ posted[m].what \in Compilable,
           x = "ran" => y # "none" /\ type = IF y = "source" THEN "RUN_SOURCE" ELSE "RUN"
    PROVE  IInv'
<1>1. /\ Queue' /\ posted[m] # None /\ posted' = posted /\ engine' \in BOOLEAN /\ Free
      /\ About(m) = {} /\ capturedOutput[m] = 0 /\ posted[m].type = type
  BY QueueTaken
<1>2. /\ task \in [Messages -> {"new", "compiling", "running", "ran", "done"}]
      /\ report \in [Messages -> {"none", "ok", "error", "source"}]
      /\ capturedOutput \in [Messages -> 0 .. MaxPrints + 2]
  BY DEF IInv, Kinds
<1>3. n \in Nat /\ n <= MaxPrints + 2
  BY WorkerAssumption
<1>4. /\ \A j \in About(m)' : outbox'[j].type = "OUTPUT"
      /\ Cardinality(About(m)') = n
  BY <1>1, <1>3, TextsCounted
<1>5. outbox' \in Seq(Replies) /\ \A k \in Messages : k # m => Course(k)' /\ Settled(k)'
  BY <1>1, <1>2, <1>3, OneSent
<1>6. Kinds'
  <2>1. /\ task' \in [Messages -> {"new", "compiling", "running", "ran", "done"}]
        /\ report' \in [Messages -> {"none", "ok", "error", "source"}]
        /\ stuck' \in BOOLEAN
    BY <1>2
  <2>2. capturedOutput' \in [Messages -> 0 .. MaxPrints + 2]
    BY <1>2, <1>3
  <2> QED BY <1>1, <1>5, <2>1, <2>2 DEF IInv, Kinds
<1>7. OneOnThread'
  BY <1>1, ThreadTaken
<1>8. /\ task'[m] = x /\ report'[m] = y /\ capturedOutput'[m] = n
  BY <1>2
<1>9. Settled(m)'
  BY <1>4 DEF Settled, Final, Finals
<1>10. Course(m)'
  <2>1. x = "compiling" => About(m)' = {}
    <3>1. Outputs(m, 0) = <<>> /\ outbox \in Seq(Replies)
      BY DEF Outputs, IInv, Kinds
    <3>2. n = 0 => outbox' = outbox
      BY <3>1
    <3> QED BY <1>1, <3>2 DEF About
  <2> QED BY <1>1, <1>4, <1>8, <2>1 DEF Course
<1> QED BY <1>1, <1>5, <1>6, <1>7, <1>9, <1>10 DEF IInv

LEMMA NothingSent ==
    ASSUME IInv, NEW m \in Messages
    PROVE  /\ outbox = outbox \o Outputs(m, 0)
           /\ capturedOutput = [capturedOutput EXCEPT ![m] = capturedOutput[m]]
           /\ report = [report EXCEPT ![m] = report[m]]
<1>1. Outputs(m, 0) = <<>> /\ outbox \in Seq(Replies)
  BY DEF Outputs, IInv, Kinds
<1> QED BY <1>1 DEF IInv, Kinds

LEMMA HandleKeeps == ASSUME IInv, NEW m \in Messages, Handle(m) PROVE IInv'
<1>0. /\ outbox = outbox \o Outputs(m, 0)
      /\ capturedOutput = [capturedOutput EXCEPT ![m] = capturedOutput[m]]
      /\ report = [report EXCEPT ![m] = report[m]]
  BY NothingSent
<1>1. ASSUME NEW type, Take(m, type), NEW answer \in {"PONG", "RESET_OK", "ERROR"},
             answer \in Expected(posted[m]), Answer(m, answer)
      PROVE  IInv'
  <2>1. Reply(m, answer) \in Replies /\ Reply(m, answer).type = answer
    BY ReplyFacts
  <2>2. \A k \in Messages : Concerns(Reply(m, answer), k) <=> k = m
    BY ReplyFacts
  <2>3. answer # "DONE"
    OBVIOUS
  <2> QED BY <1>1, <2>1, <2>2, <2>3, AnswerKeeps DEF Answer
<1>2. ASSUME NEW type, Take(m, type)
      PROVE  /\ posted[m] \in Requests /\ posted[m].type = type
             /\ capturedOutput[m] = 0 /\ report[m] = "none"
  <2>1. inbox # <<>> /\ m = Head(inbox) /\ posted[m].type = type
    BY <1>2 DEF Take
  <2>2. 1 \in DOMAIN inbox /\ m = inbox[1]
    BY <2>1 DEF IInv, Queue
  <2>3. posted[m] # None /\ task[m] = "new"
    BY <2>2 DEF IInv, Queue
  <2>4. posted[m] \in Requests \cup {None} /\ Course(m)
    BY DEF IInv, Kinds
  <2> QED BY <2>1, <2>3, <2>4 DEF Course
<1>3. CASE Ping(m)
  BY <1>1, <1>2, <1>3 DEF Ping, Expected
<1>4. CASE Reset(m)
  BY <1>1, <1>2, <1>4 DEF Reset, Expected
<1>5. CASE Unknown(m)
  BY <1>1, <1>2, <1>5 DEF Unknown, Expected
<1>6. CASE Invalid(m)
  <2> DEFINE r == [type |-> "ERROR"]
  <2>1. r \in Replies /\ \A k \in Messages : ~Concerns(r, k)
    BY NoIdFacts
  <2>2. /\ Take(m, "NOT_OBJECT") /\ outbox' = Append(outbox, r)
        /\ task' = [task EXCEPT ![m] = "done"]
        /\ UNCHANGED <<report, capturedOutput, stuck>>
    BY <1>6 DEF Invalid
  <2> HIDE DEF r
  <2> QED BY <2>1, <2>2, AnswerKeeps
<1>7. CASE RunRefused(m)
  <2>1. posted[m].type = "RUN"
    BY <1>2, <1>7 DEF RunRefused
  <2> QED BY <1>1, <1>7, <2>1 DEF RunRefused, Expected
<1>8. CASE SourceRefused(m)
  <2>1. posted[m].type = "RUN_SOURCE"
    BY <1>2, <1>8 DEF SourceRefused
  <2> QED BY <1>1, <1>8, <2>1 DEF SourceRefused, Expected
<1>9. CASE RunBadHeader(m)
  <2>1. /\ Take(m, "RUN") /\ task' = [task EXCEPT ![m] = "ran"]
        /\ report' = [report EXCEPT ![m] = "error"] /\ stuck' = stuck
        /\ capturedOutput' = [capturedOutput EXCEPT ![m] = 1]
        /\ outbox' = outbox \o Outputs(m, 1)
    BY <1>9 DEF RunBadHeader, SendTexts, Capture
  <2>2. stuck' = FALSE
    BY <2>1 DEF Take, Free, IInv, Kinds
  <2>3. 1 \in 0 .. 1
    OBVIOUS
  <2> QED BY <2>1, <2>2, <2>3, HandlerKeeps
<1>10. CASE RunStarts(m)
  <2>1. /\ Take(m, "RUN") /\ task' = [task EXCEPT ![m] = "compiling"]
        /\ posted[m].what \notin {"none", "type", "header"}
        /\ UNCHANGED <<report, capturedOutput, stuck, outbox>>
    BY <1>10 DEF RunStarts
  <2>2. stuck' = FALSE
    BY <2>1 DEF Take, Free, IInv, Kinds
  <2>3. posted[m].what \in Compilable
    BY <1>2, <2>1 DEF Requests, Binaries, Compilable
  <2>4. 0 \in 0 .. 1
    OBVIOUS
  <2>5. /\ outbox' = outbox \o Outputs(m, 0)
        /\ capturedOutput' = [capturedOutput EXCEPT ![m] = 0]
        /\ report' = [report EXCEPT ![m] = "none"]
    BY <1>0, <1>2, <2>1
  <2> QED BY <2>1, <2>2, <2>3, <2>4, <2>5, HandlerKeeps
<1>11. CASE SourceRuns(m)
  <2> DEFINE x == IF stuck' THEN "running" ELSE "ran"
             y == IF stuck' THEN "none" ELSE "source"
  <2>1. /\ Take(m, "RUN_SOURCE") /\ stuck' = (posted[m].what = "endless")
        /\ UNCHANGED <<capturedOutput, outbox>>
    BY <1>11 DEF SourceRuns
  <2>2. task' = [task EXCEPT ![m] = x] /\ report' = [report EXCEPT ![m] = y]
    BY <1>0, <1>2, <1>11, <2>1 DEF SourceRuns
  <2>3. /\ x \in {"compiling", "running", "ran"} /\ y \in {"none", "error", "source"}
        /\ stuck' = (x = "running") /\ x # "compiling" /\ (x = "ran" => y = "source")
    BY <2>1
  <2>4. 0 \in 0 .. 1
    OBVIOUS
  <2>5. /\ outbox' = outbox \o Outputs(m, 0)
        /\ capturedOutput' = [capturedOutput EXCEPT ![m] = 0]
    BY <1>0, <1>2, <2>1
  <2> HIDE DEF x, y
  <2> QED BY <2>1, <2>2, <2>3, <2>4, <2>5, HandlerKeeps, ZenonT(40)
<1> QED BY <1>3, <1>4, <1>5, <1>6, <1>7, <1>8, <1>9, <1>10, <1>11 DEF Handle

(* A compiled module runs: its texts are the first things sent about it. *)
LEMMA RunEndsKeeps == ASSUME IInv, NEW m \in Messages, RunEnds(m) PROVE IInv'
<1>1. /\ task[m] = "compiling" /\ Free
      /\ UNCHANGED <<engine, posted, inbox>>
  BY DEF RunEnds
<1>2. PICK n0 \in 0 .. MaxPrints : SendTexts(m, Lines(posted[m].what, n0))
  BY DEF RunEnds
<1> DEFINE n == Lines(posted[m].what, n0)
<1>3. /\ posted[m].type = "RUN" /\ posted[m].what \in Compilable
      /\ About(m) = {} /\ capturedOutput[m] = 0 /\ report[m] = "none"
  BY <1>1 DEF IInv, Course
<1>4. n \in 0 .. MaxPrints + 2 /\ n \in Nat
  BY <1>3, WorkerAssumption DEF Lines, Compilable
<1> HIDE DEF n
<1>5. capturedOutput' = [capturedOutput EXCEPT ![m] = n] /\ outbox' = outbox \o Outputs(m, n)
  BY <1>2 DEF SendTexts, Capture, n
<1>6. PICK x \in {"running", "ran"}, y \in {"none", "ok", "error"} :
         /\ task' = [task EXCEPT ![m] = x] /\ report' = [report EXCEPT ![m] = y]
         /\ x = "running" => stuck' = TRUE
         /\ x = "ran" => stuck' = stuck /\ y # "none"
         /\ y = "ok" => posted[m].what \in {"empty", "returns"}
  <2>1. CASE stuck' = TRUE /\ task' = [task EXCEPT ![m] = "running"] /\ UNCHANGED report
    <3>1. report' = [report EXCEPT ![m] = "none"]
      BY <1>3, <2>1, NothingSent
    <3> QED BY <2>1, <3>1
  <2>2. CASE /\ task' = [task EXCEPT ![m] = "ran"]
             /\ report' = [report EXCEPT ![m] =
                             IF posted[m].what \in {"empty", "returns"} THEN "ok" ELSE "error"]
             /\ UNCHANGED stuck
    <3>1. CASE posted[m].what \in {"empty", "returns"}
      BY <2>2, <3>1
    <3>2. CASE posted[m].what \notin {"empty", "returns"}
      BY <2>2, <3>2
    <3> QED BY <3>1, <3>2
  <2> QED BY <2>1, <2>2 DEF RunEnds
<1>7. /\ task \in [Messages -> {"new", "compiling", "running", "ran", "done"}]
      /\ report \in [Messages -> {"none", "ok", "error", "source"}]
      /\ capturedOutput \in [Messages -> 0 .. MaxPrints + 2] /\ stuck \in BOOLEAN
  BY DEF IInv, Kinds
<1>8. /\ \A j \in About(m)' : outbox'[j].type = "OUTPUT"
      /\ Cardinality(About(m)') = n
  BY <1>3, <1>4, <1>5, TextsCounted
<1>9. outbox' \in Seq(Replies) /\ \A k \in Messages : k # m => Course(k)' /\ Settled(k)'
  BY <1>1, <1>4, <1>5, <1>6, <1>7, OneSent
<1>10. Kinds'
  <2>1. capturedOutput' \in [Messages -> 0 .. MaxPrints + 2]
    BY <1>4, <1>5, <1>7
  <2>2. task' \in [Messages -> {"new", "compiling", "running", "ran", "done"}]
    BY <1>6, <1>7
  <2>3. report' \in [Messages -> {"none", "ok", "error", "source"}] /\ stuck' \in BOOLEAN
    BY <1>6, <1>7
  <2> QED BY <1>1, <1>9, <2>1, <2>2, <2>3 DEF IInv, Kinds
<1>11. Queue' /\ OneOnThread'
  BY <1>1, <1>6, QueueKept, ThreadTaken
<1>12. /\ task'[m] = x /\ report'[m] = y /\ capturedOutput'[m] = n
  BY <1>5, <1>6, <1>7
<1>13. Settled(m)'
  BY <1>8 DEF Settled, Final, Finals
<1>14. posted[m] # None
  BY <1>3 DEF None
<1>15. Course(m)'
  BY <1>1, <1>3, <1>6, <1>8, <1>12, <1>14 DEF Course
<1> QED BY <1>9, <1>10, <1>11, <1>13, <1>15 DEF IInv

(* The handler that continues sends the one answer. *)
LEMMA ReportKeeps ==
    ASSUME IInv, NEW m \in Messages, task[m] = "ran",
           UNCHANGED <<engine, posted, inbox, report, capturedOutput, stuck>>,
           task' = [task EXCEPT ![m] = "done"],
           NEW r \in Replies, outbox' = Append(outbox, r),
           \A k \in Messages : Concerns(r, k) <=> k = m,
           r.type \in Expected(posted[m]),
           r.type = "DONE" => r.outputCount = capturedOutput[m]
    PROVE  IInv'
<1>1. task \in [Messages -> {"new", "compiling", "running", "ran", "done"}]
  BY DEF IInv, Kinds
<1>2. /\ \A j \in About(m) : outbox[j].type = "OUTPUT"
      /\ Cardinality(About(m)) = capturedOutput[m] /\ posted[m] # None
  BY DEF IInv, Course
<1>3. outbox' \in Seq(Replies) /\ \A k \in Messages : k # m => Course(k)' /\ Settled(k)'
  BY <1>1, OneSent
<1>4. Course(m)' /\ Settled(m)'
  BY <1>1, <1>2, AnswerSettles
<1>5. Kinds'
  BY <1>1, <1>3 DEF IInv, Kinds
<1>6. Queue' /\ OneOnThread'
  BY QueueKept, ThreadLeft
<1> QED BY <1>3, <1>4, <1>5, <1>6 DEF IInv

LEMMA ResumeKeeps == ASSUME IInv, NEW m \in Messages, Resume(m) PROVE IInv'
<1>1. CASE RunEnds(m)
  BY <1>1, RunEndsKeeps
<1>2. task[m] = "ran" =>
         /\ report[m] # "none"
         /\ posted[m].type = IF report[m] = "source" THEN "RUN_SOURCE" ELSE "RUN"
         /\ report[m] = "ok" => posted[m].what \in {"empty", "returns"}
  BY DEF IInv, Course
<1>3. CASE RunReports(m)
  <2>1. /\ task[m] = "ran" /\ report[m] # "source" /\ task' = [task EXCEPT ![m] = "done"]
        /\ UNCHANGED <<engine, posted, inbox, report, capturedOutput, stuck>>
    BY <1>3 DEF RunReports
  <2>2. CASE report[m] = "ok"
    <3> DEFINE r == [type |-> "DONE", id |-> m, outputCount |-> capturedOutput[m]]
    <3>1. capturedOutput[m] \in Nat
      BY WorkerAssumption DEF IInv, Kinds
    <3>2. /\ \A k : Concerns(r, k) <=> k = m
          /\ r.type = "DONE" /\ r.outputCount = capturedOutput[m] /\ r \in Replies
      BY <3>1, DoneFacts
    <3>3. outbox' = Append(outbox, r)
      BY <1>3, <2>2 DEF RunReports
    <3> HIDE DEF r
    <3>4. r.type \in Expected(posted[m])
      BY <1>2, <2>1, <2>2, <3>2 DEF Expected
    <3> QED BY <2>1, <3>2, <3>3, <3>4, ReportKeeps
  <2>3. CASE report[m] # "ok"
    <3>1. outbox' = Append(outbox, Reply(m, "ERROR"))
      BY <1>3, <2>3 DEF RunReports
    <3>2. /\ \A k : Concerns(Reply(m, "ERROR"), k) <=> k = m
          /\ Reply(m, "ERROR").type = "ERROR" /\ Reply(m, "ERROR") \in Replies
      BY ReplyFacts
    <3>3. "ERROR" \in Expected(posted[m])
      BY <1>2, <2>1 DEF Expected
    <3> QED BY <2>1, <3>1, <3>2, <3>3, ReportKeeps
  <2> QED BY <2>2, <2>3
<1>4. CASE SourceReports(m)
  <2>1. /\ task[m] = "ran" /\ report[m] = "source" /\ task' = [task EXCEPT ![m] = "done"]
        /\ outbox' = Append(outbox, Reply(m, "WASM_RESULT"))
        /\ UNCHANGED <<engine, posted, inbox, report, capturedOutput, stuck>>
    BY <1>4 DEF SourceReports
  <2>2. /\ \A k : Concerns(Reply(m, "WASM_RESULT"), k) <=> k = m
        /\ Reply(m, "WASM_RESULT").type = "WASM_RESULT" /\ Reply(m, "WASM_RESULT") \in Replies
    BY ReplyFacts
  <2>3. "WASM_RESULT" \in Expected(posted[m])
    BY <1>2, <2>1 DEF Expected
  <2> QED BY <2>1, <2>2, <2>3, ReportKeeps
<1> QED BY <1>1, <1>3, <1>4 DEF Resume

LEMMA StepKeeps == IInv /\ [Next]_vars => IInv'
<1> SUFFICES ASSUME IInv, [Next]_vars PROVE IInv'
  OBVIOUS
<1>1. CASE UNCHANGED vars
  <2>1. UNCHANGED <<engine, posted, inbox, task, report, capturedOutput, stuck, outbox>>
    BY <1>1 DEF vars, run
  <2>2. \A m \in Messages : Course(m)' /\ Settled(m)'
    BY <2>1, OthersKeep
  <2> QED BY <2>1, <2>2 DEF IInv, Kinds, Queue, OneOnThread
<1> QED BY <1>1, PostKeeps, HandleKeeps, ResumeKeeps DEF Next

(* The invariant the two results below are read off from. *)
THEOREM WorkerStaysSound == Spec => []IInv
BY Starts, StepKeeps, PTL DEF Spec

(* Types of the worker's state, for any number of messages; at most one     *)
(* handler waits on the thread to continue.                                 *)
THEOREM TypeCorrect == Spec => []TypeOK
<1>1. IInv => TypeOK
  <2> SUFFICES ASSUME IInv PROVE TypeOK
    OBVIOUS
  <2>1. inbox \in Seq({m \in Messages : posted[m] # None /\ task[m] = "new"})
    BY DEF IInv, Queue
  <2>2. Cardinality({m \in Messages : task[m] \in {"running", "ran"}}) <= 1
    <3> DEFINE B == {m \in Messages : task[m] \in {"running", "ran"}}
    <3>1. \A m, k \in B : m = k
      BY DEF IInv, OneOnThread
    <3>2. CASE B = {}
      BY <3>2, FS_EmptySet
    <3>3. CASE B # {}
      <4>1. PICK m \in B : TRUE
        BY <3>3
      <4>2. B = {m}
        BY <3>1, <4>1
      <4>3. Cardinality({m}) = 1
        BY FS_Singleton
      <4> QED BY <4>2, <4>3
    <3> QED BY <3>2, <3>3
  <2> QED BY <2>1, <2>2 DEF IInv, Kinds, TypeOK
<1> QED BY <1>1, WorkerStaysSound, PTL

(* The handlers of lipi_worker.js, for any number of messages and texts:    *)
(* what the parent gets for a message is the texts of its own run and then  *)
(* at most one answer, of the kind the message calls for, with their count. *)
THEOREM AnswersComeOnce == Spec => []AnsweredOnce
<1>1. IInv => AnsweredOnce
  BY DEF IInv, Settled, AnsweredOnce
<1> QED BY <1>1, WorkerStaysSound, PTL

=============================================================================
