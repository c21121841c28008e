---------------------------- MODULE EditorProofs ----------------------------
(* Proofs about the language client, for any number of questions, restarts  *)
(* and whatever the server writes.                                          *)
(*                                                                          *)
(* First the client objects: a question that is open has a timer, and the   *)
(* client in use is not disconnected from a server that lives.  Neither     *)
(* depends on how the stream is cut, so Cut and Parsed stay unexpanded.     *)
(* Then what the loop of _onData returns for every buffer, from the         *)
(* recursive definition of Frames; then the ids in the pipes, the questions *)
(* that wait, and where the answers are.                                    *)
(*                                                                          *)
(* Then the three passes over lines (SourceLines), for every text.          *)
(*                                                                          *)
(* The transformer.  The stack of levels grows from the bottom, a level     *)
(* opened by a header is as deep as the header and a block's width, and the *)
(* headers on the stack are those that every line of code since is inside   *)
(* of (Opened).  A line leaves on the stack exactly the levels that are not *)
(* deeper than itself (IndentResult), hence the headers it is inside of,    *)
(* and no other.                                                            *)
(*                                                                          *)
(* The linter and the formatter.  A directive on the linter's stack has as  *)
(* many more openings than ends below it as there are entries from it to    *)
(* the top (Blocks), so an @end closes the top one, and one that finds the  *)
(* stack empty closes none.  The formatter's level is the balance of the    *)
(* text above it, which a text without reports keeps at zero or more.       *)
EXTENDS LspClient, SourceLines, FiniteSetTheorems, SequenceTheorems, WellFoundedInduction,
        NaturalsInduction, TLAPS


(* The domains and the values the two results rest on. *)
Shape ==
    /\ current \in {0} \cup Clients
    /\ host = "new" => current = 0
    /\ process \in [Clients -> BOOLEAN] /\ isReady \in [Clients -> BOOLEAN]
    /\ DOMAIN pending = Clients /\ DOMAIN timers = Clients
    /\ DOMAIN server = Clients /\ DOMAIN call = Queries

(* A client object that was not created yet has no server. *)
Unborn == \A c \in Clients : c > current => server[c] = "none"

InUse(c) ==
    /\ process[c]
    /\ \/ isReady[c] \/ c \in gaveUp
       \/ \E m \in pending[c] : m.by = Init0

IInv == Shape /\ Unborn /\ OpenHasTimer /\ LiveServerIsUsed

-----------------------------------------------------------------------------
LEMMA Starts == Init => IInv
BY DEF Init, IInv, Shape, Unborn, OpenHasTimer, LiveServerIsUsed

(* A question stays open only with its request and its timer in place. *)
LEMMA OpenKept ==
    ASSUME Shape, OpenHasTimer, DOMAIN call' = Queries,
           \A q \in Queries : call'[q] = "open" =>
              /\ call[q] = "open"
              /\ \A c \in Clients : \A m \in pending[c] \cap timers[c] :
                    m.by = q => m \in pending'[c] \cap timers'[c]
    PROVE  OpenHasTimer'
BY DEF OpenHasTimer

(* A chunk of output: a request leaves pendingRequests only when an answer  *)
(* settles its question or makes the client ready.                          *)
LEMMA ReceiveKeeps ==
    ASSUME IInv, NEW c \in Clients, Receive(c)
    PROVE  IInv'
<1>1. PICK n \in 1 .. Len(stdout[c]) : OnData(c, n)
  BY DEF Receive
<1>2. PICK got : /\ pending' = [pending EXCEPT ![c] = Forget(@, got)]
                 /\ call' = [q \in Queries |->
                       IF {m \in got : \E p \in pending[c] : p.by = q /\ p.id = m.id} = {}
                       THEN call[q]
                       ELSE IF \A m \in {m \in got : \E p \in pending[c] : p.by = q /\ p.id = m.id} :
                               m.by = q THEN "own" ELSE "other"]
                 /\ isReady' = [isReady EXCEPT ![c] =
                       @ \/ {m \in got : \E p \in pending[c] : p.by = Init0 /\ p.id = m.id} # {}]
  BY <1>1 DEF OnData
<1>3. /\ host' = host /\ current' = current /\ process' = process
      /\ timers' = timers /\ server' = server /\ gaveUp' = gaveUp
  BY <1>1 DEF OnData
<1>4. Shape'
  <2>1. isReady' \in [Clients -> BOOLEAN]
    BY <1>2 DEF IInv, Shape
  <2> QED BY <1>2, <1>3, <2>1 DEF IInv, Shape
<1>5. OpenHasTimer'
  <2>1. ASSUME NEW q \in Queries, call'[q] = "open"
        PROVE  /\ call[q] = "open"
               /\ \A p \in pending[c] : p.by = q => p \in Forget(pending[c], got)
    <3>1. {m \in got : \E p \in pending[c] : p.by = q /\ p.id = m.id} = {}
      BY <1>2, <2>1
    <3> QED BY <1>2, <2>1, <3>1 DEF Forget
  <2>2. pending'[c] = Forget(pending[c], got)
    BY <1>2 DEF IInv, Shape
  <2>3. \A d \in Clients : d # c => pending'[d] = pending[d]
    BY <1>2 DEF IInv, Shape
  <2>4. \A q \in Queries : call'[q] = "open" =>
              /\ call[q] = "open"
              /\ \A d \in Clients : \A m \in pending[d] \cap timers[d] :
                    m.by = q => m \in pending'[d] \cap timers'[d]
    BY <1>3, <2>1, <2>2, <2>3
  <2>5. DOMAIN call' = Queries
    BY <1>2
  <2> QED BY <2>4, <2>5, OpenKept DEF IInv
<1>6. LiveServerIsUsed'
  <2> SUFFICES ASSUME host = "active", current # 0, server[current] = "up"
               PROVE  InUse(current)'
    BY <1>3 DEF LiveServerIsUsed, InUse
  <2>1. InUse(current)
    BY DEF IInv, LiveServerIsUsed, InUse
  <2>2. CASE current # c
    BY <1>2, <1>3, <2>1, <2>2 DEF InUse, IInv, Shape
  <2>3. CASE current = c
    <3>1. isReady'[c] = (isReady[c] \/
             {m \in got : \E p \in pending[c] : p.by = Init0 /\ p.id = m.id} # {})
      BY <1>2 DEF IInv, Shape
    <3>2. pending'[c] = Forget(pending[c], got)
      BY <1>2 DEF IInv, Shape
    <3>3. isReady'[c] \/ \A p \in pending[c] : p.by = Init0 => p \in pending'[c]
      BY <3>1, <3>2 DEF Forget
    <3>4. isReady[c] => isReady'[c]
      BY <3>1
    <3> QED BY <1>3, <2>1, <2>3, <3>3, <3>4 DEF InUse
  <2> QED BY <2>2, <2>3
<1>7. Unborn'
  BY <1>3 DEF IInv, Unborn
<1> QED BY <1>4, <1>5, <1>6, <1>7 DEF IInv

(* A timer that fires gives up the request it was armed for, and no other. *)
LEMMA TimeoutKeeps ==
    ASSUME IInv, NEW c \in Clients, Timeout(c)
    PROVE  IInv'
<1>1. PICK m \in timers[c] : TimerFires(c, m)
  BY DEF Timeout
<1>2. /\ timers' = [timers EXCEPT ![c] = timers[c] \ {m}]
      /\ pending' = [pending EXCEPT ![c] = pending[c] \ {m}]
      /\ call' = [q \in Queries |-> IF m \in pending[c] /\ m.by = q THEN "spare" ELSE call[q]]
      /\ gaveUp' = IF m \in pending[c] /\ m.by = Init0 THEN gaveUp \cup {c} ELSE gaveUp
      /\ host' = host /\ current' = current /\ process' = process /\ isReady' = isReady
      /\ server' = server
  BY <1>1 DEF TimerFires
<1>3. Shape'
  BY <1>2 DEF IInv, Shape
<1>4. /\ pending'[c] = pending[c] \ {m} /\ timers'[c] = timers[c] \ {m}
      /\ \A d \in Clients : d # c => pending'[d] = pending[d] /\ timers'[d] = timers[d]
  BY <1>2 DEF IInv, Shape
<1>5. OpenHasTimer'
  <2>1. \A q \in Queries : call'[q] = "open" =>
              call[q] = "open" /\ ~(m \in pending[c] /\ m.by = q)
    BY <1>2
  <2>2. \A q \in Queries : call'[q] = "open" =>
              /\ call[q] = "open"
              /\ \A d \in Clients : \A p \in pending[d] \cap timers[d] :
                    p.by = q => p \in pending'[d] \cap timers'[d]
    BY <1>4, <2>1
  <2>3. DOMAIN call' = Queries
    BY <1>2
  <2> QED BY <2>2, <2>3, OpenKept DEF IInv
<1>6. LiveServerIsUsed'
  <2> SUFFICES ASSUME host = "active", current # 0, server[current] = "up"
               PROVE  InUse(current)'
    BY <1>2 DEF LiveServerIsUsed, InUse
  <2>1. InUse(current)
    BY DEF IInv, LiveServerIsUsed, InUse
  <2>2. gaveUp \subseteq gaveUp'
    BY <1>2
  <2>3. c \in gaveUp' \/ \A p \in pending[c] : p.by = Init0 => p \in pending'[c]
    BY <1>2, <1>4
  <2>4. \A d \in Clients : d # c => pending'[d] = pending[d]
    BY <1>4
  <2>5. current \in Clients
    BY DEF IInv, Shape
  <2> QED BY <1>2, <2>1, <2>2, <2>3, <2>4, <2>5 DEF InUse
<1>7. Unborn'
  BY <1>2 DEF IInv, Unborn
<1> QED BY <1>3, <1>5, <1>6, <1>7 DEF IInv

-----------------------------------------------------------------------------
(* A request that is sent is pending and timed in the same step. *)
LEMMA SendAdds ==
    ASSUME Shape, NEW c \in Clients, NEW by, SendRequest(c, by)
    PROVE  /\ DOMAIN pending' = Clients /\ DOMAIN timers' = Clients
           /\ \A d \in Clients : pending[d] \subseteq pending'[d] /\ timers[d] \subseteq timers'[d]
           /\ \E m \in pending'[c] \cap timers'[c] : m.by = by
<1> DEFINE m == [id |-> nextId[c], by |-> by]
<1>1. /\ pending' = [pending EXCEPT ![c] = pending[c] \cup {m}]
      /\ timers' = [timers EXCEPT ![c] = timers[c] \cup {m}]
  BY DEF SendRequest
<1>2. m.by = by
  OBVIOUS
<1> HIDE DEF m
<1>3. m \in pending'[c] /\ m \in timers'[c]
  BY <1>1 DEF Shape
<1>4. \A d \in Clients : pending[d] \subseteq pending'[d] /\ timers[d] \subseteq timers'[d]
  BY <1>1 DEF Shape
<1> QED BY <1>1, <1>2, <1>3, <1>4 DEF Shape

LEMMA AskKeeps ==
    ASSUME IInv, NEW q \in Queries, Ask(q)
    PROVE  IInv'
<1>1. /\ host' = host /\ current' = current /\ process' = process /\ isReady' = isReady
      /\ server' = server /\ gaveUp' = gaveUp
      /\ call' = [call EXCEPT ![q] = "open"]
      /\ current # 0 /\ SendRequest(current, q)
  BY DEF Ask
<1>2. current \in Clients
  BY <1>1 DEF IInv, Shape
<1>3. /\ DOMAIN pending' = Clients /\ DOMAIN timers' = Clients
      /\ \A d \in Clients : pending[d] \subseteq pending'[d] /\ timers[d] \subseteq timers'[d]
      /\ \E m \in pending'[current] \cap timers'[current] : m.by = q
  BY <1>1, <1>2, SendAdds DEF IInv
<1>4. Shape'
  BY <1>1, <1>3 DEF IInv, Shape
<1>5. OpenHasTimer'
  <2> SUFFICES ASSUME NEW r \in Queries, call'[r] = "open"
               PROVE  \E d \in Clients : \E m \in pending'[d] \cap timers'[d] : m.by = r
    BY DEF OpenHasTimer
  <2>1. CASE r = q
    BY <1>2, <1>3, <2>1
  <2>2. CASE r # q
    <3>1. call[r] = "open"
      BY <1>1, <2>2 DEF IInv, Shape
    <3> QED BY <1>3, <3>1 DEF IInv, OpenHasTimer
  <2> QED BY <2>1, <2>2
<1>6. LiveServerIsUsed'
  BY <1>1, <1>2, <1>3 DEF IInv, LiveServerIsUsed
<1>7. Unborn'
  BY <1>1 DEF IInv, Unborn
<1> QED BY <1>4, <1>5, <1>6, <1>7 DEF IInv

(* start on a new client object c, after the ones before it. *)
LEMMA StartedKeeps ==
    ASSUME IInv, NEW c \in Clients, c > current, NEW live,
           live \in [Clients -> BOOLEAN], Started(c, live),
           isReady' \in [Clients -> BOOLEAN], UNCHANGED <<call, gaveUp>>,
           host' # "new"
    PROVE  IInv'
<1>1. /\ current' = c /\ Start(c)
      /\ process' = [live EXCEPT ![c] = (server'[c] # "none")]
      /\ call' = call /\ gaveUp' = gaveUp
  BY DEF Started
<1>2. /\ DOMAIN pending = Clients /\ DOMAIN timers = Clients /\ DOMAIN server = Clients
      /\ server[c] = "none"
  BY DEF IInv, Shape, Unborn
<1>3. /\ DOMAIN pending' = Clients /\ DOMAIN timers' = Clients
      /\ \A d \in Clients : pending[d] \subseteq pending'[d] /\ timers[d] \subseteq timers'[d]
      /\ DOMAIN server' = Clients
      /\ \A d \in Clients : d # c => server'[d] = server[d]
      /\ server'[c] # "none" => \E m \in pending'[c] : m.by = Init0
  <2>1. CASE UNCHANGED <<server, nextId, pending, timers, stdin>>
    BY <1>2, <2>1
  <2>2. CASE /\ \E s \in {"up", "failed"} : server' = [server EXCEPT ![c] = s]
             /\ SendRequest(c, Init0)
    <3>1. /\ DOMAIN pending' = Clients /\ DOMAIN timers' = Clients
          /\ \A d \in Clients : pending[d] \subseteq pending'[d] /\ timers[d] \subseteq timers'[d]
          /\ \E m \in pending'[c] \cap timers'[c] : m.by = Init0
      BY <2>2, SendAdds DEF IInv
    <3>2. DOMAIN server' = Clients /\ \A d \in Clients : d # c => server'[d] = server[d]
      BY <1>2, <2>2
    <3> QED BY <3>1, <3>2
  <2> QED BY <1>1, <2>1, <2>2 DEF Start
<1>4. Shape'
  BY <1>1, <1>3 DEF IInv, Shape
<1>5. OpenHasTimer'
  BY <1>1, <1>3 DEF IInv, OpenHasTimer
<1>6. LiveServerIsUsed'
  <2>1. server'[c] # "none" => process'[c]
    BY <1>1
  <2> QED BY <1>1, <1>3, <2>1 DEF LiveServerIsUsed
<1>7. Unborn'
  <2>1. \A d \in Clients : d > c => d > current /\ d # c
    BY LspAssumption DEF IInv, Shape, Clients
  <2> QED BY <1>1, <1>3, <2>1 DEF IInv, Unborn
<1> QED BY <1>4, <1>5, <1>6, <1>7 DEF IInv

LEMMA ActivateKeeps == IInv /\ Activate => IInv'
<1> SUFFICES ASSUME IInv, Activate PROVE IInv'
  OBVIOUS
<1>1. /\ Started(1, process) /\ isReady' = isReady /\ UNCHANGED <<call, gaveUp>>
      /\ current = 0 /\ host' # "new"
  BY DEF Activate, IInv, Shape
<1>2. 1 \in Clients /\ 1 > current
  BY <1>1, LspAssumption DEF Clients
<1>3. process \in [Clients -> BOOLEAN] /\ isReady' \in [Clients -> BOOLEAN]
  BY <1>1 DEF IInv, Shape
<1> QED BY <1>1, <1>2, <1>3, StartedKeeps

LEMMA RestartKeeps == IInv /\ RestartLsp => IInv'
<1> SUFFICES ASSUME IInv, RestartLsp PROVE IInv'
  OBVIOUS
<1>1. /\ Started(current + 1, [process EXCEPT ![current] = FALSE])
      /\ isReady' = [isReady EXCEPT ![current] = @ /\ ~process[current]]
      /\ current < MaxClients /\ UNCHANGED <<call, gaveUp>> /\ host' # "new"
  BY DEF RestartLsp
<1>2. current + 1 \in Clients /\ current + 1 > current
  BY <1>1, LspAssumption DEF IInv, Shape, Clients
<1>3. /\ [process EXCEPT ![current] = FALSE] \in [Clients -> BOOLEAN]
      /\ isReady' \in [Clients -> BOOLEAN]
  BY <1>1 DEF IInv, Shape
<1> QED BY <1>1, <1>2, <1>3, StartedKeeps

(* The steps that send nothing and settle no open question. *)
LEMMA QuietKeeps ==
    ASSUME IInv, Shape', current' = current, pending' = pending, timers' = timers,
           gaveUp' = gaveUp,
           \A q \in Queries : call'[q] = "open" => call[q] = "open",
           \A c \in Clients : server'[c] = "none" <=> server[c] = "none",
           host' = "active" /\ current # 0 /\ server'[current] = "up" =>
              /\ host = "active" /\ server[current] = "up"
              /\ process'[current] = process[current]
              /\ isReady'[current] = isReady[current]
    PROVE  IInv'
<1>1. OpenHasTimer'
  BY DEF IInv, OpenHasTimer
<1>2. LiveServerIsUsed'
  BY DEF IInv, LiveServerIsUsed
<1>3. Unborn'
  BY DEF IInv, Unborn
<1> QED BY <1>1, <1>2, <1>3 DEF IInv

LEMMA UserKeeps == IInv /\ User => IInv'
<1> SUFFICES ASSUME IInv, User PROVE IInv'
  OBVIOUS
<1>1. CASE Activate
  BY <1>1, ActivateKeeps
<1>2. CASE RestartLsp
  BY <1>2, RestartKeeps
<1>3. CASE Deactivate
  <2>1. /\ host' = "done" /\ current' = current /\ pending' = pending /\ timers' = timers
        /\ server' = server /\ call' = call /\ gaveUp' = gaveUp
    BY <1>3 DEF Deactivate
  <2>2. /\ process' = [process EXCEPT ![current] = FALSE]
        /\ isReady' = [isReady EXCEPT ![current] = @ /\ ~process[current]]
    BY <1>3 DEF Deactivate, Stop
  <2>3. Shape'
    BY <2>1, <2>2 DEF IInv, Shape
  <2> QED BY <2>1, <2>3, QuietKeeps
<1>4. ASSUME NEW q \in Queries, Ask(q) PROVE IInv'
  BY <1>4, AskKeeps
<1>5. ASSUME NEW q \in Queries, AnswerBuiltIn(q) PROVE IInv'
  <2>1. /\ call' = [call EXCEPT ![q] = "spare"]
        /\ UNCHANGED <<host, current, process, isReady, nextId, pending, timers, pipes,
                       server, gaveUp>>
    BY <1>5 DEF AnswerBuiltIn
  <2>2. \A r \in Queries : call'[r] = "open" => call[r] = "open"
    BY <2>1 DEF IInv, Shape
  <2>3. Shape'
    BY <2>1 DEF IInv, Shape
  <2> QED BY <2>1, <2>2, <2>3, QuietKeeps
<1> QED BY <1>1, <1>2, <1>3, <1>4, <1>5 DEF User

(* The events of a process that ends concern its own client object only. *)
LEMMA MachineKeeps == ASSUME IInv, NEW c \in Clients, Machine(c) PROVE IInv'
<1>1. CASE Receive(c)
  BY <1>1, ReceiveKeeps
<1>2. CASE Timeout(c)
  BY <1>2, TimeoutKeeps
<1>3. CASE StartFails(c)
  <2>1. /\ server[c] = "failed" /\ server' = [server EXCEPT ![c] = "gone"]
        /\ process' = [process EXCEPT ![c] = FALSE]
        /\ UNCHANGED <<host, current, isReady, nextId, pending, timers, pipes, call, gaveUp>>
    BY <1>3 DEF StartFails
  <2>2. Shape'
    BY <2>1 DEF IInv, Shape
  <2>3. \A d \in Clients : server'[d] = "none" <=> server[d] = "none"
    BY <2>1 DEF IInv, Shape
  <2>4. ASSUME current # 0, server'[current] = "up"
        PROVE  server[current] = "up" /\ process'[current] = process[current]
    BY <2>1, <2>4 DEF IInv, Shape
  <2> QED BY <2>1, <2>2, <2>3, <2>4, QuietKeeps
<1>4. CASE Close(c)
  <2>1. /\ server[c] = "gone" /\ server' = [server EXCEPT ![c] = "closed"]
        /\ process' = [process EXCEPT ![c] = FALSE]
        /\ isReady' = [isReady EXCEPT ![c] = FALSE]
        /\ UNCHANGED <<host, current, nextId, pending, timers, pipes, call, gaveUp>>
    BY <1>4 DEF Close
  <2>2. Shape'
    BY <2>1 DEF IInv, Shape
  <2>3. \A d \in Clients : server'[d] = "none" <=> server[d] = "none"
    BY <2>1 DEF IInv, Shape
  <2>4. ASSUME current # 0, server'[current] = "up"
        PROVE  /\ server[current] = "up" /\ process'[current] = process[current]
               /\ isReady'[current] = isReady[current]
    BY <2>1, <2>4 DEF IInv, Shape
  <2> QED BY <2>1, <2>2, <2>3, <2>4, QuietKeeps
<1>5. CASE ServerAnswers(c)
  <2>1. UNCHANGED <<host, current, process, isReady, nextId, pending, timers, buffer,
                    server, call, gaveUp>>
    BY <1>5 DEF ServerAnswers
  <2>2. Shape'
    BY <2>1 DEF IInv, Shape
  <2> QED BY <2>1, <2>2, QuietKeeps
<1>6. CASE ServerEnds(c)
  <2>1. /\ server[c] = "up" /\ server' = [server EXCEPT ![c] = "gone"]
        /\ UNCHANGED <<host, current, process, isReady, nextId, pending, timers, buffer,
                       stdin, garbled, call, gaveUp>>
    BY <1>6 DEF ServerEnds
  <2>2. Shape'
    BY <2>1 DEF IInv, Shape
  <2>3. \A d \in Clients : server'[d] = "none" <=> server[d] = "none"
    BY <2>1 DEF IInv, Shape
  <2>4. ASSUME current # 0, server'[current] = "up" PROVE server[current] = "up"
    BY <2>1, <2>4 DEF IInv, Shape
  <2> QED BY <2>1, <2>2, <2>3, <2>4, QuietKeeps
<1> QED BY <1>1, <1>2, <1>3, <1>4, <1>5, <1>6 DEF Machine

LEMMA StepKeeps == IInv /\ [Next]_vars => IInv'
<1> SUFFICES ASSUME IInv, [Next]_vars PROVE IInv'
  OBVIOUS
<1>1. CASE UNCHANGED vars
  <2>1. UNCHANGED <<host, current, process, isReady, pending, timers, server, call, gaveUp>>
    BY <1>1 DEF vars
  <2>2. Shape'
    BY <2>1 DEF IInv, Shape
  <2> QED BY <2>1, <2>2, QuietKeeps
<1> QED BY <1>1, UserKeeps, MachineKeeps DEF Next

(* The invariant the two results below are read off from. *)
THEOREM ClientsStaySound == Spec => []IInv
<1> QED BY Starts, StepKeeps, PTL DEF Spec

(* sendRequest: for any number of questions and clients, a question that is *)
(* open waits for a request that a timer of the same client will end.       *)
THEOREM OpenAlwaysHasTimer == Spec => []OpenHasTimer
<1>1. IInv => OpenHasTimer
  BY DEF IInv
<1> QED BY <1>1, ClientsStaySound, PTL

(* start, stop and the event handlers: nothing an old client object hears   *)
(* after a restart disconnects the new one from a server that lives.        *)
THEOREM LiveServerStaysUsed == Spec => []LiveServerIsUsed
<1>1. IInv => LiveServerIsUsed
  BY DEF IInv
<1> QED BY <1>1, ClientsStaySound, PTL

-----------------------------------------------------------------------------
LEMMA LeastExists ==
    ASSUME NEW S \in SUBSET Nat, S # {}
    PROVE  \E i \in S : \A j \in S : i <= j
<1> DEFINE R == {ss \in Nat \X Nat : ss[1] < ss[2]}
<1>1. IsWellFoundedOn(R, Nat)
  BY NatLessThanWellFounded DEF OpToRel
<1>2. PICK i \in S : \A j \in S : ~ (<<j, i>> \in R)
  BY <1>1, WFMin, Zenon
<1>3. ASSUME NEW j \in S PROVE i <= j
  <2>1. i \in Nat /\ j \in Nat
    OBVIOUS
  <2>2. j < i => <<j, i>> \in R
    BY <2>1
  <2> QED BY <1>2, <2>1, <2>2
<1> QED BY <1>3

LEMMA LeastIs ==
    ASSUME NEW S \in SUBSET Nat, S # {}
    PROVE  Least(S) \in S /\ \A j \in S : Least(S) <= j
BY LeastExists DEF Least

(* The units of the stream. *)
LEMMA UnitKinds ==
    /\ \A n \in Nat : Length(n) \in Units /\ Length(n).k = "length" /\ Length(n).n = n
    /\ Blank \in Units /\ Blank.k = "blank"
    /\ \A m \in Requests : Body(m) \in Units /\ Body(m).k = "body" /\ Body(m).of = m
    /\ \A u \in Units : u.k = "length" => u.n \in Nat
    /\ \A u \in Units : u.k = "body" => u.of \in Requests /\ u = Body(u.of)
    /\ \A u \in Units : u.k = "blank" => u = Blank
BY DEF Units, Length, Blank, Body

(* One turn of the loop, with f for the turns after it. *)
Blanks(b) == At(b, "blank")
LengthsBefore(b) == {i \in At(b, "length") : i < Least(Blanks(b))}
Reach(b) == Least(Blanks(b)) + b[Least(LengthsBefore(b))].n
Whole(b) == SubSeq(b, Least(Blanks(b)) + 1, Reach(b))

Turn(f, b) ==
    IF Blanks(b) = {} THEN [rest |-> b, bodies |-> {}]
    ELSE IF LengthsBefore(b) = {} THEN f[Drop(b, Least(Blanks(b)))]
    ELSE IF Len(b) < Reach(b) THEN [rest |-> b, bodies |-> {}]
    ELSE [f[Drop(b, Reach(b))] EXCEPT !.bodies = @ \cup {Whole(b)}]

LEMMA FramesChosen == Frames = CHOOSE f : f = [b \in Seq(Units) |-> Turn(f, b)]
BY DEF Frames, Turn, Blanks, LengthsBefore, Reach, Whole

LEMMA DropResult ==
    ASSUME NEW S, NEW b \in Seq(S), NEW k \in 0 .. Len(b)
    PROVE  /\ Drop(b, k) \in Seq(S) /\ Len(Drop(b, k)) = Len(b) - k
           /\ \A i \in 1 .. Len(b) - k : Drop(b, k)[i] = b[k + i]
BY DEF Drop

(* Where a turn cuts the buffer. *)
LEMMA CutPlaces ==
    ASSUME NEW b \in Seq(Units), Blanks(b) # {}
    PROVE  /\ Least(Blanks(b)) \in 1 .. Len(b) /\ b[Least(Blanks(b))] = Blank
           /\ LengthsBefore(b) # {} =>
                 /\ Least(LengthsBefore(b)) \in 1 .. Least(Blanks(b)) - 1
                 /\ Reach(b) \in Nat /\ Reach(b) >= Least(Blanks(b))
<1>1. DOMAIN b = 1 .. Len(b) /\ Len(b) \in Nat /\ \A i \in 1 .. Len(b) : b[i] \in Units
  OBVIOUS
<1>2. Blanks(b) \in SUBSET Nat /\ \A i \in Blanks(b) : i \in 1 .. Len(b) /\ b[i].k = "blank"
  BY <1>1 DEF Blanks, At
<1>3. Least(Blanks(b)) \in Blanks(b)
  BY <1>2, LeastIs
<1>4. Least(Blanks(b)) \in 1 .. Len(b) /\ b[Least(Blanks(b))] = Blank
  BY <1>1, <1>2, <1>3, UnitKinds
<1>5. ASSUME LengthsBefore(b) # {}
      PROVE  /\ Least(LengthsBefore(b)) \in 1 .. Least(Blanks(b)) - 1
             /\ Reach(b) \in Nat /\ Reach(b) >= Least(Blanks(b))
  <2>1. LengthsBefore(b) \in SUBSET Nat
    BY <1>1 DEF LengthsBefore, At
  <2>2. \A i \in LengthsBefore(b) : i \in 1 .. Least(Blanks(b)) - 1 /\ i \in 1 .. Len(b) /\ b[i].k = "length"
    BY <1>1, <1>4 DEF LengthsBefore, At
  <2>3. Least(LengthsBefore(b)) \in LengthsBefore(b)
    BY <1>5, <2>1, LeastIs
  <2>4. b[Least(LengthsBefore(b))].n \in Nat
    BY <1>1, <2>2, <2>3, UnitKinds
  <2> QED BY <1>4, <2>2, <2>3, <2>4 DEF Reach
<1> QED BY <1>4, <1>5

LEMMA TurnLocal ==
    ASSUME NEW b \in Seq(Units), NEW f, NEW g,
           \A a \in Seq(Units) : Len(a) < Len(b) => f[a] = g[a]
    PROVE  Turn(f, b) = Turn(g, b)
<1>1. CASE Blanks(b) = {}
  BY <1>1 DEF Turn
<1>2. CASE Blanks(b) # {} /\ LengthsBefore(b) = {}
  <2>1. Drop(b, Least(Blanks(b))) \in Seq(Units) /\ Len(Drop(b, Least(Blanks(b)))) < Len(b)
    BY <1>2, CutPlaces, DropResult
  <2> QED BY <1>2, <2>1 DEF Turn
<1>3. CASE Blanks(b) # {} /\ LengthsBefore(b) # {}
  <2>1. Least(Blanks(b)) \in 1 .. Len(b) /\ Reach(b) \in Nat /\ Reach(b) >= Least(Blanks(b))
    BY <1>3, CutPlaces
  <2>2. Reach(b) <= Len(b) => Drop(b, Reach(b)) \in Seq(Units) /\ Len(Drop(b, Reach(b))) < Len(b)
    BY <2>1, DropResult
  <2>3. CASE Len(b) < Reach(b)
    BY <1>3, <2>3 DEF Turn
  <2>4. CASE ~(Len(b) < Reach(b))
    <3>1. f[Drop(b, Reach(b))] = g[Drop(b, Reach(b))]
      BY <2>1, <2>2, <2>4
    <3>2. \A h : Turn(h, b) = [h[Drop(b, Reach(b))] EXCEPT !.bodies = @ \cup {Whole(b)}]
      BY <1>3, <2>4 DEF Turn
    <3> QED BY <3>1, <3>2, Zenon
  <2> QED BY <2>3, <2>4
<1> QED BY <1>1, <1>2, <1>3

(* The loop up to buffers of length n. *)
Short(n) == {b \in Seq(Units) : Len(b) < n}
Loop(f, n) == f = [b \in Short(n) |-> f[b]] /\ \A b \in Short(n) : f[b] = Turn(f, b)

LEMMA LoopsAgree ==
    ASSUME NEW f, NEW g, NEW m \in Nat, NEW n \in Nat, Loop(f, m), Loop(g, n),
           NEW b \in Seq(Units), Len(b) < m, Len(b) < n
    PROVE  f[b] = g[b]
<1> DEFINE Differ == {Len(a) : a \in {x \in Seq(Units) : Len(x) < m /\ Len(x) < n /\ f[x] # g[x]}}
<1>1. CASE Differ = {}
  BY <1>1
<1>2. CASE Differ # {}
  <2>1. Differ \in SUBSET Nat
    OBVIOUS
  <2>2. PICK l \in Differ : \A j \in Differ : l <= j
    BY <1>2, <2>1, LeastExists
  <2>3. PICK a \in Seq(Units) : l = Len(a) /\ Len(a) < m /\ Len(a) < n /\ f[a] # g[a]
    BY <2>2
  <2>4. ASSUME NEW x \in Seq(Units), Len(x) < Len(a) PROVE f[x] = g[x]
    <3>1. Len(x) < m /\ Len(x) < n
      BY <2>3, <2>4
    <3>2. f[x] # g[x] => Len(x) \in Differ
      BY <3>1
    <3> HIDE DEF Differ
    <3> QED BY <2>2, <2>3, <2>4, <3>2
  <2>5. Turn(f, a) = Turn(g, a)
    BY <2>4, TurnLocal
  <2>6. a \in Short(m) /\ a \in Short(n)
    BY <2>3 DEF Short
  <2> QED BY <2>3, <2>5, <2>6 DEF Loop
<1> QED BY <1>1, <1>2

LEMMA LoopExtends ==
    ASSUME NEW n \in Nat, NEW f, Loop(f, n)
    PROVE  Loop([b \in Short(n + 1) |-> Turn(f, b)], n + 1)
<1> DEFINE h == [b \in Short(n + 1) |-> Turn(f, b)]
<1>1. ASSUME NEW b \in Short(n + 1) PROVE h[b] = Turn(h, b)
  <2>1. b \in Seq(Units) /\ Len(b) < n + 1 /\ h[b] = Turn(f, b)
    BY DEF Short
  <2>2. ASSUME NEW a \in Seq(Units), Len(a) < Len(b) PROVE f[a] = h[a]
    <3>1. a \in Short(n) /\ a \in Short(n + 1)
      BY <2>1, <2>2 DEF Short
    <3>2. h[a] = Turn(f, a)
      BY <3>1
    <3> QED BY <3>1, <3>2 DEF Loop
  <2> HIDE DEF h
  <2> QED BY <2>1, <2>2, TurnLocal
<1>2. h = [b \in Short(n + 1) |-> h[b]]
  OBVIOUS
<1> QED BY <1>1, <1>2, Zenon DEF Loop

LEMMA LoopExists == ASSUME NEW n \in Nat PROVE \E f : Loop(f, n)
<1> DEFINE Missing == {k \in Nat : ~ \E f : Loop(f, k)}
<1>1. CASE Missing = {}
  BY <1>1
<1>2. CASE Missing # {}
  <2>1. PICK k \in Missing : \A j \in Missing : k <= j
    BY <1>2, LeastExists
  <2>2. k \in Nat /\ ~ \E f : Loop(f, k)
    OBVIOUS
  <2>3. k # 0
    <3>1. Short(0) = {}
      BY DEF Short
    <3>2. Loop([b \in Short(0) |-> b], 0)
      BY <3>1 DEF Loop
    <3> QED BY <2>2, <3>2
  <2>4. k - 1 \in Nat /\ k - 1 \notin Missing
    <3>1. k - 1 \in Nat /\ ~(k <= k - 1)
      BY <2>2, <2>3
    <3> HIDE DEF Missing
    <3> QED BY <2>1, <3>1
  <2>5. PICK f : Loop(f, k - 1)
    BY <2>4
  <2>6. Loop([b \in Short((k - 1) + 1) |-> Turn(f, b)], (k - 1) + 1)
    BY <2>4, <2>5, LoopExtends
  <2>7. (k - 1) + 1 = k
    BY <2>2
  <2> QED BY <2>2, <2>6, <2>7
<1> QED BY <1>1, <1>2

(* The loop as one function: each buffer is cut by a loop long enough.      *)
LoopFor(b) == CHOOSE f : Loop(f, Len(b) + 1)

LEMMA FramesUnfold == \A b \in Seq(Units) : Frames[b] = Turn(Frames, b)
<1> DEFINE F == [b \in Seq(Units) |-> LoopFor(b)[b]]
<1>1. \A b \in Seq(Units) : Loop(LoopFor(b), Len(b) + 1) /\ Len(b) + 1 \in Nat
  <2>1. \A b \in Seq(Units) : Len(b) + 1 \in Nat
    OBVIOUS
  <2> QED BY <2>1, LoopExists DEF LoopFor
<1>2. ASSUME NEW b \in Seq(Units) PROVE F[b] = Turn(F, b)
  <2>1. ASSUME NEW a \in Seq(Units), Len(a) < Len(b) PROVE F[a] = LoopFor(b)[a]
    <3>1. Len(a) < Len(a) + 1 /\ Len(a) < Len(b) + 1
      BY <2>1
    <3>2. LoopFor(a)[a] = LoopFor(b)[a]
      BY <1>1, <3>1, LoopsAgree
    <3> QED BY <3>2
  <2>2. b \in Short(Len(b) + 1)
    BY DEF Short
  <2>3. LoopFor(b)[b] = Turn(LoopFor(b), b)
    BY <1>1, <2>2 DEF Loop
  <2>4. F[b] = LoopFor(b)[b]
    OBVIOUS
  <2> HIDE DEF F
  <2>5. Turn(F, b) = Turn(LoopFor(b), b)
    BY <2>1, TurnLocal
  <2> QED BY <2>3, <2>4, <2>5
<1>3. F = [b \in Seq(Units) |-> Turn(F, b)]
  <2>1. [b \in Seq(Units) |-> F[b]] = [b \in Seq(Units) |-> Turn(F, b)]
    <3> HIDE DEF F
    <3> QED BY <1>2
  <2>2. F = [b \in Seq(Units) |-> F[b]]
    OBVIOUS
  <2> HIDE DEF F
  <2> QED BY <2>1, <2>2
<1> HIDE DEF F
<1>4. Frames = [b \in Seq(Units) |-> Turn(Frames, b)]
  BY <1>3, FramesChosen, Zenon
<1> HIDE DEF Frames
<1> QED BY <1>4

-----------------------------------------------------------------------------
(* A stream of ASCII answers: frames, the last one perhaps not complete.    *)
Framed(b) ==
    \A i \in 1 .. Len(b) : /\ i % 3 = 1 => b[i] = Length(1)
                           /\ i % 3 = 2 => b[i] = Blank
                           /\ i % 3 = 0 => \E m \in Requests : b[i] = Body(m)

Occurs(u, s) == \E i \in DOMAIN s : s[i] = u

(* What the loop returns is made of the buffer's units. *)
CutSound(b) ==
    /\ Frames[b] = [rest |-> Frames[b].rest, bodies |-> Frames[b].bodies]
    /\ Frames[b].rest \in Seq(Units)
    /\ \A u \in Units : Occurs(u, Frames[b].rest) => Occurs(u, b)
    /\ \A x \in Frames[b].bodies : x \in Seq(Units) /\ \A u \in Units : Occurs(u, x) => Occurs(u, b)

Cuts(b) == Len(b) - Len(Frames[b].rest)

(* Of ASCII answers it cuts off every complete frame, and no more. *)
CutWhole(b) ==
    /\ Len(Frames[b].rest) < 3 /\ Len(Frames[b].rest) <= Len(b)
    /\ Cuts(b) % 3 = 0
    /\ \A j \in 1 .. Len(Frames[b].rest) : Frames[b].rest[j] = b[Cuts(b) + j]
    /\ \A i \in 1 .. Cuts(b) : i % 3 = 0 => <<b[i]>> \in Frames[b].bodies

CutRight(b) == CutSound(b) /\ (Framed(b) => CutWhole(b))

LEMMA DropOccurs ==
    ASSUME NEW b \in Seq(Units), NEW k \in 0 .. Len(b), NEW u, Occurs(u, Drop(b, k))
    PROVE  Occurs(u, b)
<1>1. /\ Drop(b, k) \in Seq(Units) /\ Len(Drop(b, k)) = Len(b) - k
      /\ \A i \in 1 .. Len(b) - k : Drop(b, k)[i] = b[k + i]
  BY DropResult
<1>2. PICK i \in DOMAIN Drop(b, k) : Drop(b, k)[i] = u
  BY DEF Occurs
<1>3. i \in 1 .. Len(b) - k /\ k + i \in 1 .. Len(b) /\ DOMAIN b = 1 .. Len(b)
  BY <1>1, <1>2
<1> QED BY <1>1, <1>2, <1>3 DEF Occurs

LEMMA WholeOccurs ==
    ASSUME NEW b \in Seq(Units), NEW l \in 1 .. Len(b), NEW k \in l - 1 .. Len(b)
    PROVE  /\ SubSeq(b, l, k) \in Seq(Units)
           /\ \A u : Occurs(u, SubSeq(b, l, k)) => Occurs(u, b)
<1>1. /\ SubSeq(b, l, k) \in Seq(Units) /\ DOMAIN SubSeq(b, l, k) = 1 .. k - l + 1
      /\ \A i \in 1 .. k - l + 1 : SubSeq(b, l, k)[i] = b[l + i - 1]
  OBVIOUS
<1>2. \A i \in 1 .. k - l + 1 : l + i - 1 \in DOMAIN b
  OBVIOUS
<1> QED BY <1>1, <1>2 DEF Occurs

LEMMA StepSound ==
    ASSUME NEW b \in Seq(Units), \A a \in Seq(Units) : Len(a) < Len(b) => CutSound(a)
    PROVE  CutSound(b)
<1>0. Frames[b] = Turn(Frames, b)
  BY FramesUnfold
<1>1. CASE Frames[b] = [rest |-> b, bodies |-> {}]
  BY <1>1 DEF CutSound
<1>2. CASE Blanks(b) # {} /\ LengthsBefore(b) = {}
  <2>1. Least(Blanks(b)) \in 1 .. Len(b)
    BY <1>2, CutPlaces
  <2>2. PICK a \in Seq(Units) : a = Drop(b, Least(Blanks(b))) /\ Len(a) < Len(b)
    BY <2>1, DropResult
  <2>3. Frames[b] = Frames[a]
    BY <1>0, <1>2, <2>2 DEF Turn
  <2>4. CutSound(a) /\ \A u : Occurs(u, a) => Occurs(u, b)
    BY <2>1, <2>2, DropOccurs
  <2> QED BY <2>3, <2>4 DEF CutSound
<1>3. CASE Blanks(b) # {} /\ LengthsBefore(b) # {} /\ ~(Len(b) < Reach(b))
  <2>1. Least(Blanks(b)) \in 1 .. Len(b) /\ Reach(b) \in Least(Blanks(b)) .. Len(b)
    BY <1>3, CutPlaces
  <2>2. PICK a \in Seq(Units) : a = Drop(b, Reach(b)) /\ Len(a) < Len(b)
    BY <2>1, DropResult
  <2>3. Frames[b] = [Frames[a] EXCEPT !.bodies = @ \cup {Whole(b)}]
    BY <1>0, <1>3, <2>2 DEF Turn
  <2>4. CutSound(a) /\ \A u : Occurs(u, a) => Occurs(u, b)
    BY <2>1, <2>2, DropOccurs
  <2>5. Whole(b) \in Seq(Units) /\ \A u : Occurs(u, Whole(b)) => Occurs(u, b)
    <3>1. CASE Least(Blanks(b)) = Len(b)
      <4>1. Whole(b) = <<>>
        BY <2>1, <3>1 DEF Whole
      <4> QED BY <4>1 DEF Occurs
    <3>2. CASE Least(Blanks(b)) # Len(b)
      <4>1. Least(Blanks(b)) + 1 \in 1 .. Len(b) /\ Reach(b) \in (Least(Blanks(b)) + 1) - 1 .. Len(b)
        BY <2>1, <3>2
      <4> QED BY <4>1, WholeOccurs DEF Whole
    <3> QED BY <3>1, <3>2
  <2>6. Frames[b] = [rest |-> Frames[a].rest, bodies |-> Frames[a].bodies \cup {Whole(b)}]
    BY <2>3, <2>4 DEF CutSound
  <2>7. Frames[b].rest = Frames[a].rest /\ Frames[b].bodies = Frames[a].bodies \cup {Whole(b)}
    BY <2>6
  <2>8. Frames[b] = [rest |-> Frames[b].rest, bodies |-> Frames[b].bodies]
    BY <2>6, <2>7
  <2> QED BY <2>4, <2>5, <2>7, <2>8 DEF CutSound
<1> QED BY <1>0, <1>1, <1>2, <1>3 DEF Turn

LEMMA OneUnit == ASSUME NEW S, NEW b \in Seq(S), Len(b) >= 3 PROVE SubSeq(b, 3, 3) = <<b[3]>>
<1>1. SubSeq(b, 3, 3) \in Seq(S) /\ Len(SubSeq(b, 3, 3)) = 1 /\ SubSeq(b, 3, 3)[1] = b[3]
  OBVIOUS
<1>2. <<b[3]>> \in Seq(S) /\ Len(<<b[3]>>) = 1 /\ <<b[3]>>[1] = b[3]
  OBVIOUS
<1>3. ASSUME NEW p \in Seq(S), NEW q \in Seq(S), Len(p) = 1, Len(q) = 1, p[1] = q[1] PROVE p = q
  BY <1>3, SeqEqual
<1> QED BY <1>1, <1>2, <1>3

(* The first turn over ASCII answers cuts off the first frame. *)
LEMMA FirstFrame ==
    ASSUME NEW b \in Seq(Units), Framed(b)
    PROVE  /\ Len(b) < 3 => Frames[b] = [rest |-> b, bodies |-> {}]
           /\ Len(b) >= 3 => Frames[b] = [Frames[Drop(b, 3)] EXCEPT !.bodies = @ \cup {<<b[3]>>}]
<1>0. Frames[b] = Turn(Frames, b)
  BY FramesUnfold
<1>1. DOMAIN b = 1 .. Len(b) /\ Len(b) \in Nat /\ \A i \in 1 .. Len(b) : b[i] \in Units
  OBVIOUS
<1>2. /\ Len(b) >= 1 => b[1] = Length(1) /\ b[1].k = "length" /\ b[1].n = 1
      /\ Len(b) >= 2 => b[2] = Blank /\ b[2].k = "blank"
  BY <1>1, UnitKinds DEF Framed
<1>3. CASE ~(Len(b) >= 2)
  <2>1. Blanks(b) = {}
    BY <1>1, <1>2, <1>3 DEF Blanks, At
  <2> QED BY <1>0, <1>3, <2>1 DEF Turn
<1>4. CASE Len(b) >= 2
  <2>1. 2 \in Blanks(b) /\ 1 \notin Blanks(b) /\ Blanks(b) \in SUBSET Nat /\ 0 \notin Blanks(b)
    BY <1>1, <1>2, <1>4 DEF Blanks, At
  <2>2. Least(Blanks(b)) \in Blanks(b) /\ Least(Blanks(b)) <= 2
    BY <2>1, LeastIs
  <2>3. Least(Blanks(b)) = 2
    BY <2>1, <2>2
  <2>4. LengthsBefore(b) = {1}
    BY <1>1, <1>2, <1>4, <2>3 DEF LengthsBefore, At
  <2>5. Least({1}) = 1
    BY LeastIs
  <2>6. Reach(b) = 3
    BY <1>2, <1>4, <2>3, <2>4, <2>5 DEF Reach
  <2>7. Len(b) >= 3 => Whole(b) = <<b[3]>>
    <3>1. Whole(b) = SubSeq(b, 3, 3)
      BY <2>3, <2>6 DEF Whole
    <3> QED BY <3>1, OneUnit
  <2>8. CASE Len(b) < 3
    BY <1>0, <2>1, <2>4, <2>6, <2>8 DEF Turn
  <2>9. CASE Len(b) >= 3
    <3>1. Turn(Frames, b) = [Frames[Drop(b, 3)] EXCEPT !.bodies = @ \cup {Whole(b)}]
      BY <2>1, <2>4, <2>6, <2>9 DEF Turn
    <3>2. Frames[b] = [Frames[Drop(b, 3)] EXCEPT !.bodies = @ \cup {<<b[3]>>}]
      BY <1>0, <2>7, <2>9, <3>1, Zenon
    <3>3. ~(Len(b) < 3)
      BY <1>1, <2>9
    <3> QED BY <3>2, <3>3, Zenon
  <2> QED BY <1>1, <2>8, <2>9
<1>5. Len(b) < 3 => Frames[b] = [rest |-> b, bodies |-> {}]
  BY <1>1, <1>3, <1>4
<1>6. Len(b) >= 3 => Frames[b] = [Frames[Drop(b, 3)] EXCEPT !.bodies = @ \cup {<<b[3]>>}]
  <2>1. Len(b) >= 3 => Len(b) >= 2
    BY <1>1
  <2> QED BY <1>4, <2>1, Zenon
<1> QED BY <1>5, <1>6, Zenon

LEMMA StepWhole ==
    ASSUME NEW b \in Seq(Units), Framed(b), \A a \in Seq(Units) : Len(a) < Len(b) => CutRight(a)
    PROVE  CutWhole(b)
<1>0. Len(b) \in Nat
  OBVIOUS
<1>1. CASE Len(b) < 3
  <2>0. Frames[b] = [rest |-> b, bodies |-> {}]
    BY <1>1, FirstFrame
  <2>1. Frames[b].rest = b
    BY <2>0
  <2>2. Cuts(b) = 0
    BY <1>0, <2>1 DEF Cuts
  <2> QED BY <1>0, <1>1, <2>1, <2>2 DEF CutWhole
<1>2. CASE Len(b) >= 3
  <2>1. PICK a \in Seq(Units) : /\ a = Drop(b, 3) /\ Len(a) = Len(b) - 3
                                /\ \A i \in 1 .. Len(b) - 3 : a[i] = b[3 + i]
    BY <1>2, DropResult
  <2>2. Frames[b] = [Frames[a] EXCEPT !.bodies = @ \cup {<<b[3]>>}]
    BY <1>2, <2>1, FirstFrame
  <2>3. CutRight(a)
    BY <1>2, <2>1
  <2>4. Framed(a)
    <3> SUFFICES ASSUME NEW i \in 1 .. Len(a)
                 PROVE  /\ i % 3 = 1 => a[i] = Length(1)
                        /\ i % 3 = 2 => a[i] = Blank
                        /\ i % 3 = 0 => \E m \in Requests : a[i] = Body(m)
      BY DEF Framed
    <3>1. 3 + i \in 1 .. Len(b) /\ (3 + i) % 3 = i % 3 /\ a[i] = b[3 + i]
      BY <2>1
    <3> QED BY <3>1 DEF Framed
  <2>5. CutWhole(a)
    BY <2>3, <2>4 DEF CutRight
  <2>6. Frames[b].rest = Frames[a].rest /\ Frames[b].bodies = Frames[a].bodies \cup {<<b[3]>>}
    BY <2>2, <2>3 DEF CutRight, CutSound
  <2>7. Len(Frames[a].rest) \in Nat
    BY <2>3 DEF CutRight, CutSound
  <2>8. Cuts(b) = Cuts(a) + 3 /\ Cuts(a) \in Nat
    BY <1>0, <1>2, <2>1, <2>5, <2>6, <2>7 DEF Cuts, CutWhole
  <2>9. Cuts(b) % 3 = 0
    BY <2>5, <2>8 DEF CutWhole
  <2>10. \A j \in 1 .. Len(Frames[b].rest) : Frames[b].rest[j] = b[Cuts(b) + j]
    <3> SUFFICES ASSUME NEW j \in 1 .. Len(Frames[b].rest)
                 PROVE  Frames[b].rest[j] = b[Cuts(b) + j]
      OBVIOUS
    <3>1. Frames[b].rest[j] = a[Cuts(a) + j]
      BY <2>5, <2>6 DEF CutWhole
    <3>2. Cuts(a) + j \in 1 .. Len(b) - 3
      BY <1>0, <2>1, <2>5, <2>6, <2>7, <2>8 DEF Cuts
    <3>3. a[Cuts(a) + j] = b[3 + (Cuts(a) + j)]
      BY <2>1, <3>2
    <3>4. 3 + (Cuts(a) + j) = Cuts(b) + j
      BY <2>8
    <3> QED BY <3>1, <3>3, <3>4
  <2>11. \A i \in 1 .. Cuts(b) : i % 3 = 0 => <<b[i]>> \in Frames[b].bodies
    <3> SUFFICES ASSUME NEW i \in 1 .. Cuts(b), i % 3 = 0
                 PROVE  <<b[i]>> \in Frames[b].bodies
      OBVIOUS
    <3>1. CASE i <= 3
      <4>1. i = 3
        BY <3>1
      <4> QED BY <2>6, <4>1
    <3>2. CASE i > 3
      <4>0. Cuts(a) <= Len(b) - 3
        BY <1>0, <2>1, <2>7 DEF Cuts
      <4>1. i - 3 \in 1 .. Cuts(a) /\ (i - 3) % 3 = 0 /\ i - 3 \in 1 .. Len(b) - 3 /\ 3 + (i - 3) = i
        BY <1>0, <2>8, <3>2, <4>0
      <4>2. <<a[i - 3]>> \in Frames[a].bodies /\ a[i - 3] = b[i]
        BY <2>1, <2>5, <4>1 DEF CutWhole
      <4> QED BY <2>6, <4>2
    <3> QED BY <2>8, <3>1, <3>2
  <2>12. Len(Frames[b].rest) < 3 /\ Len(Frames[b].rest) <= Len(b)
    BY <1>0, <2>1, <2>5, <2>6, <2>7 DEF CutWhole
  <2> QED BY <2>9, <2>10, <2>11, <2>12 DEF CutWhole
<1> QED BY <1>0, <1>1, <1>2

(* The loop, for every buffer. *)
LEMMA FramesRight == \A b \in Seq(Units) : CutRight(b)
<1> DEFINE Wrong == {Len(a) : a \in {x \in Seq(Units) : ~CutRight(x)}}
<1>1. CASE Wrong = {}
  BY <1>1
<1>2. CASE Wrong # {}
  <2>1. Wrong \in SUBSET Nat
    OBVIOUS
  <2>2. PICK l \in Wrong : \A j \in Wrong : l <= j
    BY <1>2, <2>1, LeastExists
  <2>3. PICK b \in Seq(Units) : l = Len(b) /\ ~CutRight(b)
    BY <2>2
  <2>4. ASSUME NEW a \in Seq(Units), Len(a) < Len(b) PROVE CutRight(a)
    <3>1. ~CutRight(a) => Len(a) \in Wrong
      OBVIOUS
    <3> HIDE DEF Wrong
    <3> QED BY <2>2, <2>3, <2>4, <3>1
  <2>5. CutSound(b)
    BY <2>4, StepSound DEF CutRight
  <2>6. Framed(b) => CutWhole(b)
    BY <2>4, StepWhole
  <2> QED BY <2>3, <2>5, <2>6 DEF CutRight
<1> QED BY <1>1, <1>2

-----------------------------------------------------------------------------
LEMMA NoticeApart == /\ Notice \notin Requests
                     /\ \A m \in Requests : m.by \in Askers /\ m.id \in Nat
                     /\ Init0 \notin Queries /\ Askers = Queries \cup {Init0}
BY LspAssumption DEF Notice, Requests, Askers

LEMMA AppendOccurs ==
    ASSUME NEW S, NEW s \in Seq(S), NEW e \in S
    PROVE  /\ Append(s, e) \in Seq(S)
           /\ Occurs(e, Append(s, e))
           /\ \A u : Occurs(u, s) => Occurs(u, Append(s, e))
           /\ \A u : Occurs(u, Append(s, e)) => Occurs(u, s) \/ u = e
<1>1. /\ Append(s, e) \in Seq(S) /\ DOMAIN Append(s, e) = 1 .. Len(s) + 1
      /\ DOMAIN s = 1 .. Len(s) /\ Len(s) \in Nat
      /\ Append(s, e)[Len(s) + 1] = e /\ \A i \in 1 .. Len(s) : Append(s, e)[i] = s[i]
  OBVIOUS
<1> QED BY <1>1 DEF Occurs

LEMMA TailOccurs ==
    ASSUME NEW S, NEW s \in Seq(S), s # <<>>
    PROVE  /\ Head(s) \in S /\ Occurs(Head(s), s) /\ Tail(s) \in Seq(S)
           /\ \A u : Occurs(u, Tail(s)) => Occurs(u, s)
           /\ \A u : Occurs(u, s) => Occurs(u, Tail(s)) \/ u = Head(s)
<1>1. /\ Tail(s) \in Seq(S) /\ DOMAIN Tail(s) = 1 .. Len(s) - 1
      /\ DOMAIN s = 1 .. Len(s) /\ Len(s) \in Nat /\ Len(s) > 0
      /\ Head(s) = s[1] /\ \A i \in 1 .. Len(s) - 1 : Tail(s)[i] = s[i + 1]
  OBVIOUS
<1>2. \A i \in 1 .. Len(s) : i = 1 \/ (i - 1 \in 1 .. Len(s) - 1 /\ (i - 1) + 1 = i)
  BY <1>1
<1>3. \A i \in 1 .. Len(s) - 1 : i + 1 \in 1 .. Len(s)
  BY <1>1
<1>4. 1 \in 1 .. Len(s) /\ s[1] \in S
  BY <1>1
<1>5. \A u : Occurs(u, Tail(s)) => Occurs(u, s)
  BY <1>1, <1>3 DEF Occurs
<1>6. ASSUME NEW u, Occurs(u, s) PROVE Occurs(u, Tail(s)) \/ u = Head(s)
  <2>1. PICK i \in 1 .. Len(s) : s[i] = u
    BY <1>1, <1>6 DEF Occurs
  <2>2. i # 1 => Tail(s)[i - 1] = u
    BY <1>1, <1>2, <2>1
  <2> QED BY <1>1, <1>2, <2>1, <2>2 DEF Occurs
<1> QED BY <1>1, <1>4, <1>5, <1>6 DEF Occurs

LEMMA ConcatOccurs ==
    ASSUME NEW S, NEW s \in Seq(S), NEW t \in Seq(S), NEW r, r = s \o t
    PROVE  /\ r \in Seq(S) /\ Len(r) = Len(s) + Len(t)
           /\ \A i \in 1 .. Len(s) : r[i] = s[i]
           /\ \A i \in 1 .. Len(t) : r[Len(s) + i] = t[i]
           /\ \A u : Occurs(u, r) <=> Occurs(u, s) \/ Occurs(u, t)
<1>1. /\ r \in Seq(S) /\ Len(r) = Len(s) + Len(t) /\ DOMAIN r = 1 .. Len(s) + Len(t)
      /\ DOMAIN s = 1 .. Len(s) /\ DOMAIN t = 1 .. Len(t) /\ Len(s) \in Nat /\ Len(t) \in Nat
  OBVIOUS
<1>2. \A i \in 1 .. Len(s) : r[i] = s[i] /\ i \in 1 .. Len(s) + Len(t)
  BY <1>1
<1>3. \A i \in 1 .. Len(t) : r[Len(s) + i] = t[i] /\ Len(s) + i \in 1 .. Len(s) + Len(t)
  BY <1>1
<1>4. \A i \in 1 .. Len(s) + Len(t) :
          i \in 1 .. Len(s) \/ (i - Len(s) \in 1 .. Len(t) /\ Len(s) + (i - Len(s)) = i)
  BY <1>1
<1>5. ASSUME NEW u, Occurs(u, r) PROVE Occurs(u, s) \/ Occurs(u, t)
  <2>1. PICK i \in 1 .. Len(s) + Len(t) : r[i] = u
    BY <1>1, <1>5 DEF Occurs
  <2>2. i \in 1 .. Len(s) => s[i] = u
    BY <1>2, <2>1
  <2>3. i \notin 1 .. Len(s) => i - Len(s) \in 1 .. Len(t) /\ t[i - Len(s)] = u
    BY <1>3, <1>4, <2>1
  <2> QED BY <1>1, <2>2, <2>3 DEF Occurs
<1>6. ASSUME NEW u, Occurs(u, s) \/ Occurs(u, t) PROVE Occurs(u, r)
  BY <1>1, <1>2, <1>3, <1>6 DEF Occurs
<1> QED BY <1>1, <1>2, <1>3, <1>5, <1>6

LEMMA FirstUnit == \A y \in Seq(Units) : Len(y) = 1 => 1 \in DOMAIN y /\ y[1] \in Units
OBVIOUS

(* The messages a chunk completes were in the buffer or in the chunk.       *)
LEMMA GotOccurs ==
    ASSUME NEW b \in Seq(Units), NEW m \in Parsed(Cut(b).bodies)
    PROVE  m \in Requests /\ Occurs(Body(m), b)
<1>1. PICK x \in Cut(b).bodies : Len(x) = 1 /\ x[1].k = "body" /\ m = x[1].of
  BY DEF Parsed
<1>2. x \in Seq(Units) /\ \A u \in Units : Occurs(u, x) => Occurs(u, b)
  <2>1. CutSound(b)
    BY FramesRight DEF CutRight
  <2> QED BY <1>1, <2>1 DEF CutSound, Cut
<1>3. 1 \in DOMAIN x /\ x[1] \in Units
  BY <1>1, <1>2, FirstUnit
<1>4. m \in Requests /\ x[1] = Body(m)
  BY <1>1, <1>3, UnitKinds
<1> QED BY <1>2, <1>3, <1>4 DEF Occurs

LEMMA GotWhole ==
    ASSUME NEW b, NEW m \in Requests, <<Body(m)>> \in Cut(b).bodies
    PROVE  m \in Parsed(Cut(b).bodies)
<1>1. Len(<<Body(m)>>) = 1 /\ <<Body(m)>>[1].k = "body" /\ <<Body(m)>>[1].of = m
  BY UnitKinds
<1> QED BY <1>1 DEF Parsed

-----------------------------------------------------------------------------
(* Ids.  All that a client still has of its requests, in its maps or in the *)
(* two pipes: no id stands for two of them.                                 *)
Held(c) ==
    {m \in Requests : \/ m \in pending[c] \/ m \in timers[c]
                      \/ Occurs(m, stdin[c])
                      \/ Occurs(Body(m), buffer[c]) \/ Occurs(Body(m), stdout[c])}

IdsOnce ==
    \A c \in Clients : \A m, n \in Held(c) : m.id < nextId[c] /\ (m.id = n.id => m = n)

Fields ==
    /\ host \in {"new", "active", "done"}
    /\ nextId \in [Clients -> Nat]
    /\ pending \in [Clients -> SUBSET Requests]
    /\ timers \in [Clients -> SUBSET Requests]
    /\ buffer \in [Clients -> Seq(Units)] /\ stdout \in [Clients -> Seq(Units)]
    /\ stdin \in [Clients -> Seq(Requests \cup {Notice})]
    /\ server \in [Clients -> {"none", "failed", "up", "gone", "closed"}]
    /\ call \in [Queries -> {"idle", "open", "own", "other", "spare"}]
    /\ garbled \subseteq Clients /\ gaveUp \subseteq Clients

Wire == Fields /\ IdsOnce

LEMMA WireStarts == Init => Wire
<1> SUFFICES ASSUME Init PROVE Wire
  OBVIOUS
<1>1. Fields
  BY LspAssumption DEF Init, Fields
<1>2. \A c \in Clients : Held(c) = {}
  BY DEF Init, Held, Occurs
<1> QED BY <1>1, <1>2 DEF Wire, IdsOnce

LEMMA HeldKept ==
    ASSUME IdsOnce, nextId' = nextId, \A c \in Clients : Held(c)' \subseteq Held(c)
    PROVE  IdsOnce'
BY DEF IdsOnce

Req(c, by) == [id |-> nextId[c], by |-> by]

(* A request that is sent gets an id nothing of this client has. *)
LEMMA SendKeepsWire ==
    ASSUME Wire, NEW c \in Clients, NEW by \in Askers, SendRequest(c, by),
           buffer' = buffer, stdout' = stdout
    PROVE  /\ nextId' \in [Clients -> Nat]
           /\ pending' \in [Clients -> SUBSET Requests]
           /\ timers' \in [Clients -> SUBSET Requests]
           /\ stdin' \in [Clients -> Seq(Requests \cup {Notice})]
           /\ IdsOnce'
<1> DEFINE r == Req(c, by)
<1>1. /\ nextId' = [nextId EXCEPT ![c] = nextId[c] + 1]
      /\ pending' = [pending EXCEPT ![c] = pending[c] \cup {r}]
      /\ timers' = [timers EXCEPT ![c] = timers[c] \cup {r}]
      /\ stdin' = [stdin EXCEPT ![c] = Append(stdin[c], r)]
  BY DEF SendRequest, Req
<1>2. r \in Requests /\ r.id = nextId[c] /\ nextId[c] \in Nat
  BY DEF Wire, Fields, Req, Requests
<1> HIDE DEF r
<1>3. /\ Append(stdin[c], r) \in Seq(Requests \cup {Notice})
      /\ \A u : Occurs(u, Append(stdin[c], r)) => Occurs(u, stdin[c]) \/ u = r
  <2>1. stdin[c] \in Seq(Requests \cup {Notice}) /\ r \in Requests \cup {Notice}
    BY <1>2 DEF Wire, Fields
  <2> QED BY <2>1, AppendOccurs
<1>4. /\ nextId' \in [Clients -> Nat]
      /\ pending' \in [Clients -> SUBSET Requests]
      /\ timers' \in [Clients -> SUBSET Requests]
  BY <1>1, <1>2 DEF Wire, Fields
<1>5. stdin' \in [Clients -> Seq(Requests \cup {Notice})]
  BY <1>1, <1>3 DEF Wire, Fields
<1>6. \A d \in Clients : Held(d)' \subseteq Held(d) \cup (IF d = c THEN {r} ELSE {})
  BY <1>1, <1>3 DEF Wire, Fields, Held
<1>7. \A d \in Clients : nextId'[d] = IF d = c THEN nextId[c] + 1 ELSE nextId[d]
  BY <1>1 DEF Wire, Fields
<1>8. IdsOnce'
  <2> SUFFICES ASSUME NEW d \in Clients, NEW m \in Held(d)', NEW n \in Held(d)'
               PROVE  m.id < nextId'[d] /\ (m.id = n.id => m = n)
    BY DEF IdsOnce
  <2>1. \A k \in Held(d) : k.id \in Nat /\ k.id < nextId[d]
    BY NoticeApart DEF Wire, IdsOnce, Held
  <2>2. CASE d = c
    <3>1. (m \in Held(c) \/ m = r) /\ (n \in Held(c) \/ n = r)
      BY <1>6, <2>2
    <3>2. m \in Held(c) /\ n \in Held(c) /\ m.id = n.id => m = n
      BY DEF Wire, IdsOnce
    <3> QED BY <1>2, <1>7, <2>1, <2>2, <3>1, <3>2
  <2>3. CASE d # c
    BY <1>6, <1>7, <2>3 DEF Wire, IdsOnce
  <2> QED BY <2>2, <2>3
<1> QED BY <1>4, <1>5, <1>8

(* A chunk of output: what the buffer keeps and what remains in the pipe    *)
(* was there before.                                                        *)
Chunk(c, n) == buffer[c] \o SubSeq(stdout[c], 1, n)

LEMMA ChunkParts ==
    ASSUME Fields, NEW c \in Clients, NEW n \in 1 .. Len(stdout[c])
    PROVE  /\ Chunk(c, n) \in Seq(Units)
           /\ \A u : Occurs(u, Chunk(c, n)) => Occurs(u, buffer[c]) \/ Occurs(u, stdout[c])
           /\ Drop(stdout[c], n) \in Seq(Units)
           /\ \A u : Occurs(u, Drop(stdout[c], n)) => Occurs(u, stdout[c])
<1>1. buffer[c] \in Seq(Units) /\ stdout[c] \in Seq(Units)
  BY DEF Fields
<1>2. /\ SubSeq(stdout[c], 1, n) \in Seq(Units)
      /\ \A u : Occurs(u, SubSeq(stdout[c], 1, n)) => Occurs(u, stdout[c])
  <2>1. 1 \in 1 .. Len(stdout[c]) /\ n \in 1 - 1 .. Len(stdout[c])
    BY <1>1
  <2> QED BY <1>1, <2>1, WholeOccurs
<1>3. n \in 0 .. Len(stdout[c])
  BY <1>1
<1>4. Drop(stdout[c], n) \in Seq(Units) /\ \A u : Occurs(u, Drop(stdout[c], n)) => Occurs(u, stdout[c])
  BY <1>1, <1>3, DropOccurs, DropResult
<1>5. /\ Chunk(c, n) \in Seq(Units)
      /\ \A u : Occurs(u, Chunk(c, n)) <=> Occurs(u, buffer[c]) \/ Occurs(u, SubSeq(stdout[c], 1, n))
  <2>1. PICK s \in Seq(Units), t \in Seq(Units) : s = buffer[c] /\ t = SubSeq(stdout[c], 1, n)
    BY <1>1, <1>2
  <2>2. PICK b : b = s \o t
    OBVIOUS
  <2>3. b \in Seq(Units) /\ \A u : Occurs(u, b) <=> Occurs(u, s) \/ Occurs(u, t)
    BY <2>2, ConcatOccurs
  <2> QED BY <2>1, <2>2, <2>3 DEF Chunk
<1> QED BY <1>2, <1>4, <1>5

(* The messages a chunk completes, and those that answer q. *)
Got(c, n) == Parsed(Cut(Chunk(c, n)).bodies)
Answering(c, n, q) == {m \in Got(c, n) : \E p \in pending[c] : p.by = q /\ p.id = m.id}

LEMMA OnDataIs ==
    ASSUME NEW c \in Clients, NEW n, OnData(c, n)
    PROVE  /\ buffer' = [buffer EXCEPT ![c] = Cut(Chunk(c, n)).rest]
           /\ stdout' = [stdout EXCEPT ![c] = Drop(stdout[c], n)]
           /\ pending' = [pending EXCEPT ![c] = Forget(pending[c], Got(c, n))]
           /\ call' = [q \in Queries |->
                          IF Answering(c, n, q) = {} THEN call[q]
                          ELSE IF \A m \in Answering(c, n, q) : m.by = q THEN "own" ELSE "other"]
           /\ stdin' = [stdin EXCEPT ![c] = IF Answering(c, n, Init0) # {} /\ process[c]
                                            THEN Append(stdin[c], Notice) ELSE stdin[c]]
           /\ UNCHANGED <<host, current, nextId, timers, server, garbled, gaveUp>>
BY DEF OnData, Got, Answering, Chunk

LEMMA ReceiveKeepsWire == ASSUME Wire, NEW c \in Clients, Receive(c) PROVE Wire'
<1>1. PICK n \in 1 .. Len(stdout[c]) : OnData(c, n)
  BY DEF Receive
<1>2. PICK b \in Seq(Units) : b = Chunk(c, n)
  BY ChunkParts DEF Wire
<1>3. PICK told \in BOOLEAN :
           /\ buffer' = [buffer EXCEPT ![c] = Cut(b).rest]
           /\ stdout' = [stdout EXCEPT ![c] = Drop(stdout[c], n)]
           /\ pending' = [pending EXCEPT ![c] = Forget(pending[c], Got(c, n))]
           /\ stdin' = [stdin EXCEPT ![c] = IF told THEN Append(stdin[c], Notice) ELSE stdin[c]]
           /\ UNCHANGED <<host, nextId, timers, server, garbled, gaveUp>>
  BY <1>1, <1>2, OnDataIs
<1>4. call' \in [Queries -> {"idle", "open", "own", "other", "spare"}]
  BY <1>1, OnDataIs DEF Wire, Fields
<1>5. Cut(b).rest \in Seq(Units) /\ \A u \in Units : Occurs(u, Cut(b).rest) => Occurs(u, b)
  BY FramesRight DEF CutRight, CutSound, Cut
<1>6. Drop(stdout[c], n) \in Seq(Units) /\ \A u : Occurs(u, Drop(stdout[c], n)) => Occurs(u, stdout[c])
  BY ChunkParts DEF Wire
<1>7. /\ Append(stdin[c], Notice) \in Seq(Requests \cup {Notice})
      /\ \A u : Occurs(u, Append(stdin[c], Notice)) => Occurs(u, stdin[c]) \/ u = Notice
  <2>1. stdin[c] \in Seq(Requests \cup {Notice}) /\ Notice \in Requests \cup {Notice}
    BY DEF Wire, Fields
  <2> QED BY <2>1, AppendOccurs
<1>8. Forget(pending[c], Got(c, n)) \subseteq pending[c]
  BY DEF Forget
<1>9. Fields'
  <2>1. buffer' \in [Clients -> Seq(Units)] /\ stdout' \in [Clients -> Seq(Units)]
    BY <1>3, <1>5, <1>6 DEF Wire, Fields
  <2>2. stdin' \in [Clients -> Seq(Requests \cup {Notice})]
    BY <1>3, <1>7 DEF Wire, Fields
  <2>3. pending' \in [Clients -> SUBSET Requests]
    BY <1>3, <1>8 DEF Wire, Fields
  <2> QED BY <1>3, <1>4, <2>1, <2>2, <2>3 DEF Wire, Fields
<1>10. ASSUME NEW d \in Clients, NEW m \in Held(d)' PROVE m \in Held(d)
  <2>1. /\ m \in Requests /\ m # Notice /\ Body(m) \in Units
        /\ m \in pending'[d] \/ m \in timers'[d] \/ Occurs(m, stdin'[d])
              \/ Occurs(Body(m), buffer'[d]) \/ Occurs(Body(m), stdout'[d])
    BY NoticeApart, UnitKinds DEF Held
  <2>2. CASE d # c
    <3>1. /\ pending'[d] = pending[d] /\ timers'[d] = timers[d] /\ stdin'[d] = stdin[d]
          /\ buffer'[d] = buffer[d] /\ stdout'[d] = stdout[d]
      BY <1>3, <2>2 DEF Wire, Fields
    <3> QED BY <2>1, <3>1 DEF Held
  <2>3. CASE d = c
    <3>1. /\ pending'[c] = Forget(pending[c], Got(c, n)) /\ timers'[c] = timers[c]
          /\ stdin'[c] = (IF told THEN Append(stdin[c], Notice) ELSE stdin[c])
          /\ buffer'[c] = Cut(b).rest /\ stdout'[c] = Drop(stdout[c], n)
      BY <1>3 DEF Wire, Fields
    <3>2. m \in pending'[c] \/ m \in timers'[c] => m \in Held(c)
      BY <1>8, <2>1, <3>1 DEF Held
    <3>3. Occurs(m, stdin'[c]) => m \in Held(c)
      BY <1>7, <2>1, <3>1 DEF Held
    <3>4. Occurs(Body(m), buffer'[c]) => Occurs(Body(m), buffer[c]) \/ Occurs(Body(m), stdout[c])
      BY <1>2, <1>5, <2>1, <3>1, ChunkParts DEF Wire
    <3>5. Occurs(Body(m), stdout'[c]) => Occurs(Body(m), stdout[c])
      BY <1>6, <3>1
    <3> QED BY <2>1, <2>3, <3>2, <3>3, <3>4, <3>5 DEF Held
  <2> QED BY <2>2, <2>3
<1>11. IdsOnce'
  BY <1>3, <1>10, HeldKept DEF Wire
<1> QED BY <1>9, <1>11 DEF Wire

LEMMA TwoUnits ==
    ASSUME NEW S, NEW a \in S, NEW b \in S
    PROVE  /\ <<a, b>> \in Seq(S) /\ Len(<<a, b>>) = 2 /\ DOMAIN <<a, b>> = 1 .. 2
           /\ <<a, b>>[1] = a /\ <<a, b>>[2] = b
OBVIOUS

LEMMA ThreeUnits ==
    ASSUME NEW S, NEW a \in S, NEW b \in S, NEW e \in S
    PROVE  /\ <<a, b, e>> \in Seq(S) /\ Len(<<a, b, e>>) = 3 /\ DOMAIN <<a, b, e>> = 1 .. 3
           /\ <<a, b, e>>[1] = a /\ <<a, b, e>>[2] = b /\ <<a, b, e>>[3] = e
OBVIOUS

(* An answer is the next request of the pipe, framed: no new request.       *)
Appended(r, s, m, x) ==
    /\ r \in Seq(Units) /\ Len(r) = Len(s) + 3
    /\ \A i \in 1 .. Len(s) : r[i] = s[i]
    /\ r[Len(s) + 1] = Length(1 + x) /\ r[Len(s) + 2] = Blank /\ r[Len(s) + 3] = Body(m)
    /\ \A u \in Requests : Occurs(Body(u), r) => Occurs(Body(u), s) \/ u = m
    /\ \A u : Occurs(u, s) => Occurs(u, r)

LEMMA FrameParts ==
    ASSUME NEW s \in Seq(Units), NEW m \in Requests, NEW x \in Nat, NEW r, r = s \o Frame(m, x)
    PROVE  Appended(r, s, m, x)
<1>1. Length(1 + x) \in Units /\ Blank \in Units /\ Body(m) \in Units
  BY UnitKinds
<1>2. PICK t \in Seq(Units) :
           /\ t = Frame(m, x) /\ Len(t) = 3 /\ DOMAIN t = 1 .. 3
           /\ t[1] = Length(1 + x) /\ t[2] = Blank /\ t[3] = Body(m)
  <2>1. /\ Frame(m, x) \in Seq(Units) /\ Len(Frame(m, x)) = 3 /\ DOMAIN Frame(m, x) = 1 .. 3
        /\ Frame(m, x)[1] = Length(1 + x) /\ Frame(m, x)[2] = Blank /\ Frame(m, x)[3] = Body(m)
    BY <1>1, ThreeUnits DEF Frame
  <2> QED BY <2>1, Zenon
<1>3. r = s \o t
  BY <1>2
<1>4. /\ r \in Seq(Units) /\ Len(r) = Len(s) + Len(t)
      /\ \A i \in 1 .. Len(s) : r[i] = s[i]
      /\ \A i \in 1 .. Len(t) : r[Len(s) + i] = t[i]
  BY <1>3
<1>7. \A u : Occurs(u, r) <=> Occurs(u, s) \/ Occurs(u, t)
  BY <1>3, ConcatOccurs
<1>5. r[Len(s) + 1] = Length(1 + x) /\ r[Len(s) + 2] = Blank /\ r[Len(s) + 3] = Body(m)
  BY <1>2, <1>4
<1>6. ASSUME NEW u \in Requests, Occurs(Body(u), t) PROVE u = m
  <2>1. PICK i \in 1 .. 3 : t[i] = Body(u)
    BY <1>2, <1>6 DEF Occurs
  <2>2. Length(1 + x).k = "length" /\ Blank.k = "blank" /\ Body(u).k = "body" /\ Body(u).of = u /\ Body(m).of = m
    BY UnitKinds
  <2> QED BY <1>2, <2>1, <2>2
<1> QED BY <1>2, <1>4, <1>5, <1>6, <1>7 DEF Appended

LEMMA StubParts ==
    ASSUME NEW s \in Seq(Units), NEW r, r = s \o <<Length(1), Blank>>
    PROVE  /\ r \in Seq(Units) /\ Len(r) = Len(s) + 2
           /\ \A i \in 1 .. Len(s) : r[i] = s[i]
           /\ r[Len(s) + 1] = Length(1) /\ r[Len(s) + 2] = Blank
           /\ \A u \in Requests : Occurs(Body(u), r) => Occurs(Body(u), s)
<1>1. Length(1) \in Units /\ Blank \in Units
  BY UnitKinds
<1>2. PICK t \in Seq(Units) :
           /\ t = <<Length(1), Blank>> /\ Len(t) = 2 /\ DOMAIN t = 1 .. 2
           /\ t[1] = Length(1) /\ t[2] = Blank
  <2>1. /\ <<Length(1), Blank>> \in Seq(Units)
        /\ Len(<<Length(1), Blank>>) = 2 /\ DOMAIN <<Length(1), Blank>> = 1 .. 2
        /\ <<Length(1), Blank>>[1] = Length(1) /\ <<Length(1), Blank>>[2] = Blank
    BY <1>1, TwoUnits
  <2> QED BY <2>1, Zenon
<1>3. r = s \o t
  BY <1>2
<1>4. /\ r \in Seq(Units) /\ Len(r) = Len(s) + Len(t)
      /\ \A i \in 1 .. Len(s) : r[i] = s[i]
      /\ \A i \in 1 .. Len(t) : r[Len(s) + i] = t[i]
  BY <1>3
<1>7. \A u : Occurs(u, r) <=> Occurs(u, s) \/ Occurs(u, t)
  BY <1>3, ConcatOccurs
<1>5. r[Len(s) + 1] = Length(1) /\ r[Len(s) + 2] = Blank
  BY <1>2, <1>4
<1>6. ASSUME NEW u \in Requests PROVE ~Occurs(Body(u), t)
  <2>1. Length(1).k = "length" /\ Blank.k = "blank" /\ Body(u).k = "body"
    BY UnitKinds
  <2>2. \A i \in 1 .. 2 : t[i] # Body(u)
    BY <1>2, <2>1
  <2> QED BY <1>2, <2>2 DEF Occurs
<1> QED BY <1>2, <1>4, <1>5, <1>6, <1>7

LEMMA ServerKeepsWire == ASSUME Wire, NEW c \in Clients, ServerAnswers(c) \/ ServerEnds(c) PROVE Wire'
<1>1. /\ stdin[c] \in Seq(Requests \cup {Notice}) /\ stdout[c] \in Seq(Units)
      /\ UNCHANGED <<host, current, process, isReady, nextId, pending, timers, buffer, call, gaveUp>>
  BY DEF Wire, Fields, ServerAnswers, ServerEnds
<1>2. CASE ServerEnds(c)
  <2>1. /\ server' = [server EXCEPT ![c] = "gone"] /\ stdin' = stdin /\ garbled' = garbled
        /\ stdout' = stdout \/ stdout' = [stdout EXCEPT ![c] = stdout[c] \o <<Length(1), Blank>>]
    BY <1>2 DEF ServerEnds
  <2>2. PICK r : r = stdout[c] \o <<Length(1), Blank>>
    OBVIOUS
  <2>3. r \in Seq(Units) /\ \A u \in Requests : Occurs(Body(u), r) => Occurs(Body(u), stdout[c])
    BY <1>1, <2>2, StubParts
  <2>4. stdout' = stdout \/ stdout' = [stdout EXCEPT ![c] = r]
    BY <2>1, <2>2
  <2>5. Fields'
    BY <1>1, <2>1, <2>3, <2>4 DEF Wire, Fields
  <2>6. \A d \in Clients : Held(d)' \subseteq Held(d)
    BY <1>1, <2>1, <2>3, <2>4 DEF Wire, Fields, Held
  <2> QED BY <1>1, <2>5, <2>6, HeldKept DEF Wire
<1>3. CASE ServerAnswers(c)
  <2>1. /\ server' = server /\ stdin' = [stdin EXCEPT ![c] = Tail(stdin[c])] /\ stdin[c] # <<>>
    BY <1>3 DEF ServerAnswers
  <2>2. PICK m : m = Head(stdin[c])
    OBVIOUS
  <2>3. /\ Tail(stdin[c]) \in Seq(Requests \cup {Notice}) /\ \A u : Occurs(u, Tail(stdin[c])) => Occurs(u, stdin[c])
        /\ m \in Requests \cup {Notice} /\ Occurs(m, stdin[c])
    BY <1>1, <2>1, <2>2, TailOccurs
  <2>4. CASE m = Notice /\ stdout' = stdout /\ garbled' = garbled
    <3>1. Fields'
      BY <1>1, <2>1, <2>3, <2>4 DEF Wire, Fields
    <3>2. \A d \in Clients : Held(d)' \subseteq Held(d)
      BY <1>1, <2>1, <2>3, <2>4 DEF Wire, Fields, Held
    <3> QED BY <1>1, <3>1, <3>2, HeldKept DEF Wire
  <2>5. ASSUME m # Notice, NEW x \in Nat, stdout' = [stdout EXCEPT ![c] = stdout[c] \o Frame(m, x)],
               garbled' \subseteq Clients
        PROVE  Wire'
    <3>1. m \in Requests
      BY <2>3, <2>5
    <3>2. PICK r : r = stdout[c] \o Frame(m, x)
      OBVIOUS
    <3>3. r \in Seq(Units) /\ \A u \in Requests : Occurs(Body(u), r) => Occurs(Body(u), stdout[c]) \/ u = m
      <4>1. Appended(r, stdout[c], m, x)
        BY <1>1, <3>1, <3>2, FrameParts
      <4> QED BY <4>1 DEF Appended
    <3>4. stdout' = [stdout EXCEPT ![c] = r]
      BY <2>5, <3>2
    <3>5. Fields'
      BY <1>1, <2>1, <2>3, <2>5, <3>3, <3>4, ZenonT(60) DEF Wire, Fields
    <3>6. \A d \in Clients : Held(d)' \subseteq Held(d)
      BY <1>1, <2>1, <2>3, <3>3, <3>4, ZenonT(60) DEF Wire, Fields, Held
    <3> QED BY <1>1, <3>5, <3>6, HeldKept DEF Wire
  <2>6. \/ m = Notice /\ stdout' = stdout /\ garbled' = garbled
        \/ /\ m # Notice
           /\ \E x \in Nat : /\ stdout' = [stdout EXCEPT ![c] = stdout[c] \o Frame(m, x)]
                             /\ garbled' \subseteq Clients
    <3>1. garbled \subseteq Clients /\ garbled \cup {c} \subseteq Clients
      BY DEF Wire, Fields
    <3> QED BY <1>3, <2>2, <3>1, LspAssumption DEF ServerAnswers
  <2> QED BY <2>4, <2>5, <2>6
<1> QED BY <1>2, <1>3

LEMMA TimeoutKeepsWire == ASSUME Wire, NEW c \in Clients, Timeout(c) PROVE Wire'
<1>1. PICK m \in timers[c] : TimerFires(c, m)
  BY DEF Timeout
<1>2. /\ timers' = [timers EXCEPT ![c] = timers[c] \ {m}]
      /\ pending' = [pending EXCEPT ![c] = pending[c] \ {m}]
      /\ call' = [q \in Queries |-> IF m \in pending[c] /\ m.by = q THEN "spare" ELSE call[q]]
      /\ gaveUp' = gaveUp \/ gaveUp' = gaveUp \cup {c}
      /\ UNCHANGED <<host, nextId, buffer, stdin, stdout, garbled, server>>
  BY <1>1 DEF TimerFires, pipes
<1>3. Fields'
  BY <1>2 DEF Wire, Fields
<1>4. \A d \in Clients : Held(d)' \subseteq Held(d)
  BY <1>2 DEF Wire, Fields, Held
<1> QED BY <1>2, <1>3, <1>4, HeldKept DEF Wire

LEMMA StillKeepsWire ==
    ASSUME Wire, UNCHANGED <<nextId, pending, timers, pipes, gaveUp>>,
           host' \in {"new", "active", "done"},
           server' \in [Clients -> {"none", "failed", "up", "gone", "closed"}],
           call' \in [Queries -> {"idle", "open", "own", "other", "spare"}]
    PROVE  Wire'
<1>1. Fields'
  BY DEF Wire, Fields, pipes
<1>2. \A d \in Clients : Held(d)' \subseteq Held(d)
  BY DEF Wire, Fields, Held, pipes
<1> QED BY <1>1, <1>2, HeldKept DEF Wire

LEMMA StartKeepsWire ==
    ASSUME Wire, NEW c \in Clients, Start(c), UNCHANGED <<buffer, stdout, garbled, call, gaveUp>>,
           host' = "active"
    PROVE  Wire'
<1>1. CASE UNCHANGED <<server, nextId, pending, timers, stdin>>
  BY <1>1, StillKeepsWire DEF Wire, Fields, pipes
<1>2. CASE /\ \E s \in {"up", "failed"} : server' = [server EXCEPT ![c] = s]
           /\ SendRequest(c, Init0)
  <2>1. /\ nextId' \in [Clients -> Nat]
        /\ pending' \in [Clients -> SUBSET Requests]
        /\ timers' \in [Clients -> SUBSET Requests]
        /\ stdin' \in [Clients -> Seq(Requests \cup {Notice})]
        /\ IdsOnce'
    BY <1>2, SendKeepsWire, NoticeApart
  <2> QED BY <1>2, <2>1 DEF Wire, Fields
<1> QED BY <1>1, <1>2 DEF Start

LEMMA UserKeepsWire == ASSUME Wire, Shape, User PROVE Wire'
<1>1. CASE Activate
  <2>1. /\ Start(1) /\ host' = "active"
        /\ UNCHANGED <<buffer, stdout, garbled, call, gaveUp>>
    BY <1>1 DEF Activate, Started
  <2>2. 1 \in Clients
    BY LspAssumption DEF Clients
  <2> QED BY <2>1, <2>2, StartKeepsWire
<1>2. CASE RestartLsp
  <2>1. /\ Start(current + 1) /\ host' = "active"
        /\ UNCHANGED <<buffer, stdout, garbled, call, gaveUp>>
    BY <1>2 DEF RestartLsp, Started
  <2>2. current + 1 \in Clients
    BY <1>2, LspAssumption DEF RestartLsp, Clients, Shape
  <2> QED BY <2>1, <2>2, StartKeepsWire
<1>3. CASE Deactivate
  BY <1>3, StillKeepsWire DEF Deactivate, Wire, Fields
<1>4. ASSUME NEW q \in Queries, Ask(q) PROVE Wire'
  <2>1. current \in Clients /\ q \in Askers
    BY <1>4, NoticeApart DEF Ask, Shape
  <2>2. /\ SendRequest(current, q) /\ call' = [call EXCEPT ![q] = "open"]
        /\ UNCHANGED <<host, buffer, stdout, server, garbled, gaveUp>>
    BY <1>4 DEF Ask
  <2>3. /\ nextId' \in [Clients -> Nat]
        /\ pending' \in [Clients -> SUBSET Requests]
        /\ timers' \in [Clients -> SUBSET Requests]
        /\ stdin' \in [Clients -> Seq(Requests \cup {Notice})]
        /\ IdsOnce'
    BY <2>1, <2>2, SendKeepsWire
  <2> QED BY <2>2, <2>3 DEF Wire, Fields
<1>5. ASSUME NEW q \in Queries, AnswerBuiltIn(q) PROVE Wire'
  BY <1>5, StillKeepsWire DEF AnswerBuiltIn, Wire, Fields
<1> QED BY <1>1, <1>2, <1>3, <1>4, <1>5 DEF User

LEMMA StepKeepsWire == Wire /\ Shape /\ [Next]_vars => Wire'
<1> SUFFICES ASSUME Wire, Shape, [Next]_vars PROVE Wire'
  OBVIOUS
<1>1. CASE UNCHANGED vars
  BY <1>1, StillKeepsWire DEF vars, Wire, Fields
<1>2. CASE User
  BY <1>2, UserKeepsWire
<1>3. ASSUME NEW c \in Clients, StartFails(c) \/ Close(c) PROVE Wire'
  <2>1. /\ UNCHANGED <<host, nextId, pending, timers, pipes, call, gaveUp>>
        /\ server' = [server EXCEPT ![c] = "gone"] \/ server' = [server EXCEPT ![c] = "closed"]
    BY <1>3 DEF StartFails, Close
  <2> QED BY <2>1, StillKeepsWire DEF Wire, Fields
<1> QED BY <1>1, <1>2, <1>3, ReceiveKeepsWire, TimeoutKeepsWire, ServerKeepsWire DEF Next, Machine

-----------------------------------------------------------------------------
(* A request that is awaited belongs to an open question, and a question    *)
(* waits for one request, of one client.                                    *)
OpenWaits == \A c \in Clients : \A m \in pending[c] : m.by \in Queries => call[m.by] = "open"

OneWait ==
    \A c, d \in Clients : \A m \in pending[c] : \A n \in pending[d] :
        m.by \in Queries /\ m.by = n.by => c = d /\ m = n

(* What a step may do to a question. *)
Moved ==
    /\ DOMAIN call' = Queries
    /\ \A q \in Queries : \/ call'[q] = call[q]
                          \/ call[q] = "idle" /\ call'[q] \in {"open", "spare"}
                          \/ call[q] = "open" /\ call'[q] \in {"own", "spare"}

Waits == OpenWaits /\ OneWait

LEMMA WaitsKept ==
    ASSUME Waits, \A c \in Clients : pending'[c] \subseteq pending[c],
           \A c \in Clients : \A m \in pending'[c] : m.by \in Queries => call'[m.by] = call[m.by]
    PROVE  Waits'
BY DEF Waits, OpenWaits, OneWait

LEMMA ReceiveWaits ==
    ASSUME Wire, Waits, NEW c \in Clients, Receive(c)
    PROVE  Waits' /\ Moved
<1>1. PICK n \in 1 .. Len(stdout[c]) : OnData(c, n)
  BY DEF Receive
<1>2. /\ pending' = [pending EXCEPT ![c] = Forget(pending[c], Got(c, n))]
      /\ call' = [q \in Queries |->
                    IF Answering(c, n, q) = {} THEN call[q]
                    ELSE IF \A m \in Answering(c, n, q) : m.by = q THEN "own" ELSE "other"]
  BY <1>1, OnDataIs
<1>3. /\ pending'[c] = Forget(pending[c], Got(c, n))
      /\ \A d \in Clients : d # c => pending'[d] = pending[d]
  BY <1>2 DEF Wire, Fields
<1>4. ASSUME NEW q \in Queries, NEW a \in Answering(c, n, q)
      PROVE  \E p \in pending[c] : /\ p.by = q /\ a = p /\ p \notin pending'[c]
                                   /\ call[q] = "open"
  <2>1. PICK p \in pending[c] : p.by = q /\ p.id = a.id
    BY DEF Answering
  <2>2. a \in Got(c, n) /\ a \in Requests /\ Occurs(Body(a), Chunk(c, n))
    BY ChunkParts, GotOccurs DEF Answering, Got, Wire
  <2>3. a \in Held(c)
    BY <2>2, ChunkParts DEF Held, Wire
  <2>4. p \in Held(c)
    BY DEF Held, Wire, Fields
  <2>5. a = p
    BY <2>1, <2>3, <2>4 DEF Wire, IdsOnce
  <2>6. p \notin pending'[c]
    BY <1>3, <2>1, <2>2 DEF Forget
  <2> QED BY <2>1, <2>5, <2>6 DEF Waits, OpenWaits
<1>5. Moved
  <2> SUFFICES ASSUME NEW q \in Queries
               PROVE  call'[q] = call[q] \/ (call[q] = "open" /\ call'[q] = "own")
    BY <1>2 DEF Moved
  <2>1. CASE Answering(c, n, q) = {}
    BY <1>2, <2>1
  <2>2. CASE Answering(c, n, q) # {}
    BY <1>2, <1>4, <2>2
  <2> QED BY <2>1, <2>2
<1>6. ASSUME NEW d \in Clients, NEW m \in pending'[d], m.by \in Queries
      PROVE  call'[m.by] = call[m.by]
  <2>1. m \in pending[d]
    BY <1>3 DEF Forget
  <2>2. ASSUME NEW a \in Answering(c, n, m.by) PROVE FALSE
    <3>1. PICK p \in pending[c] : p.by = m.by /\ p \notin pending'[c]
      BY <1>4, <1>6
    <3>2. c = d /\ p = m
      BY <1>6, <2>1, <3>1 DEF Waits, OneWait
    <3> QED BY <3>1, <3>2
  <2> QED BY <1>2, <1>6, <2>2
<1>7. \A d \in Clients : pending'[d] \subseteq pending[d]
  BY <1>3 DEF Forget
<1> QED BY <1>5, <1>6, <1>7, WaitsKept

LEMMA TimeoutWaits ==
    ASSUME Wire, Waits, NEW c \in Clients, Timeout(c)
    PROVE  Waits' /\ Moved
<1>1. PICK m \in timers[c] : TimerFires(c, m)
  BY DEF Timeout
<1>2. /\ pending' = [pending EXCEPT ![c] = pending[c] \ {m}]
      /\ call' = [q \in Queries |-> IF m \in pending[c] /\ m.by = q THEN "spare" ELSE call[q]]
  BY <1>1 DEF TimerFires
<1>3. /\ pending'[c] = pending[c] \ {m}
      /\ \A d \in Clients : d # c => pending'[d] = pending[d]
  BY <1>2 DEF Wire, Fields
<1>4. Moved
  BY <1>2 DEF Moved, Waits, OpenWaits
<1>5. ASSUME NEW d \in Clients, NEW p \in pending'[d], p.by \in Queries
      PROVE  call'[p.by] = call[p.by]
  <2>1. p \in pending[d]
    BY <1>3
  <2>2. ~(m \in pending[c] /\ m.by = p.by)
    BY <1>3, <1>5, <2>1 DEF Waits, OneWait
  <2> QED BY <1>2, <1>5, <2>2
<1> QED BY <1>3, <1>4, <1>5, WaitsKept

LEMMA SendWaits ==
    ASSUME Wire, Waits, NEW c \in Clients, NEW by \in Askers, SendRequest(c, by),
           \A q \in Queries : q # by => call'[q] = call[q],
           by \in Queries => call[by] = "idle" /\ call'[by] = "open"
    PROVE  Waits'
<1> DEFINE r == Req(c, by)
<1>1. pending' = [pending EXCEPT ![c] = pending[c] \cup {r}]
  BY DEF SendRequest, Req
<1>2. r.by = by
  BY DEF Req
<1> HIDE DEF r
<1>3. /\ pending'[c] = pending[c] \cup {r}
      /\ \A d \in Clients : d # c => pending'[d] = pending[d]
  BY <1>1 DEF Wire, Fields
<1>4. by \in Queries => \A d \in Clients : \A m \in pending[d] : m.by # by
  BY DEF Waits, OpenWaits
<1>5. \A d \in Clients : \A m \in pending'[d] : m \in pending[d] \/ (d = c /\ m = r)
  BY <1>3
<1>6. OpenWaits'
  <2> SUFFICES ASSUME NEW d \in Clients, NEW m \in pending'[d], m.by \in Queries
               PROVE  call'[m.by] = "open"
    BY DEF OpenWaits
  <2>1. CASE m \in pending[d]
    BY <1>4, <2>1 DEF Waits, OpenWaits
  <2>2. CASE m = r
    BY <1>2, <2>2
  <2> QED BY <1>5, <2>1, <2>2
<1>7. OneWait'
  <2> SUFFICES ASSUME NEW d \in Clients, NEW e \in Clients, NEW m \in pending'[d], NEW n \in pending'[e],
                      m.by \in Queries, m.by = n.by
               PROVE  d = e /\ m = n
    BY DEF OneWait
  <2>1. CASE m \in pending[d] /\ n \in pending[e]
    BY <2>1 DEF Waits, OneWait
  <2>2. CASE ~(m \in pending[d] /\ n \in pending[e])
    BY <1>2, <1>4, <1>5, <2>2
  <2> QED BY <2>1, <2>2
<1> QED BY <1>6, <1>7 DEF Waits

LEMMA StillWaits ==
    ASSUME Wire, Waits, pending' = pending, call' = call
    PROVE  Waits' /\ Moved
BY DEF Waits, OpenWaits, OneWait, Moved, Wire, Fields

LEMMA StartWaits ==
    ASSUME Wire, Waits, NEW c \in Clients, Start(c), call' = call
    PROVE  Waits' /\ Moved
<1>1. Moved
  BY DEF Moved, Wire, Fields
<1>2. CASE pending' = pending
  BY <1>2, StillWaits
<1>3. CASE SendRequest(c, Init0)
  BY <1>1, <1>3, SendWaits, NoticeApart
<1> QED BY <1>1, <1>2, <1>3 DEF Start

LEMMA UserWaits == ASSUME Wire, Waits, Shape, User PROVE Waits' /\ Moved
<1>1. CASE Activate
  <2>1. Start(1) /\ call' = call
    BY <1>1 DEF Activate, Started
  <2>2. 1 \in Clients
    BY LspAssumption DEF Clients
  <2> QED BY <2>1, <2>2, StartWaits
<1>2. CASE RestartLsp
  <2>1. Start(current + 1) /\ call' = call
    BY <1>2 DEF RestartLsp, Started
  <2>2. current + 1 \in Clients
    BY <1>2, LspAssumption DEF RestartLsp, Clients, Shape
  <2> QED BY <2>1, <2>2, StartWaits
<1>3. CASE Deactivate
  BY <1>3, StillWaits DEF Deactivate
<1>4. ASSUME NEW q \in Queries, Ask(q) PROVE Waits' /\ Moved
  <2>1. current \in Clients /\ q \in Askers
    BY <1>4, NoticeApart DEF Ask, Shape
  <2>2. SendRequest(current, q) /\ call' = [call EXCEPT ![q] = "open"] /\ call[q] = "idle"
    BY <1>4 DEF Ask
  <2>3. Moved /\ call'[q] = "open" /\ \A r \in Queries : r # q => call'[r] = call[r]
    BY <2>2 DEF Moved, Wire, Fields
  <2> QED BY <2>1, <2>2, <2>3, SendWaits
<1>5. ASSUME NEW q \in Queries, AnswerBuiltIn(q) PROVE Waits' /\ Moved
  <2>1. call[q] = "idle" /\ call' = [call EXCEPT ![q] = "spare"] /\ pending' = pending
    BY <1>5 DEF AnswerBuiltIn
  <2>2. Moved
    BY <2>1 DEF Moved, Wire, Fields
  <2>3. \A c \in Clients : \A m \in pending[c] : m.by \in Queries => m.by # q /\ call'[m.by] = call[m.by]
    BY <2>1 DEF Waits, OpenWaits, Wire, Fields
  <2> QED BY <2>1, <2>2, <2>3, WaitsKept
<1> QED BY <1>1, <1>2, <1>3, <1>4, <1>5 DEF User

LEMMA StepWaits == Wire /\ Shape /\ Waits /\ [Next]_vars => Waits' /\ Moved
<1> SUFFICES ASSUME Wire, Shape, Waits, [Next]_vars PROVE Waits' /\ Moved
  OBVIOUS
<1>1. CASE UNCHANGED vars
  BY <1>1, StillWaits DEF vars
<1>2. CASE User
  BY <1>2, UserWaits
<1>3. ASSUME NEW c \in Clients, StartFails(c) \/ Close(c) \/ ServerAnswers(c) \/ ServerEnds(c)
      PROVE  Waits' /\ Moved
  <2>1. pending' = pending /\ call' = call
    BY <1>3 DEF StartFails, Close, ServerAnswers, ServerEnds
  <2> QED BY <2>1, StillWaits
<1> QED BY <1>1, <1>2, <1>3, ReceiveWaits, TimeoutWaits DEF Next, Machine

-----------------------------------------------------------------------------
(* Where the answers are, for a client none of whose answers needed more    *)
(* than ASCII.                                                              *)
Alive(c) == server[c] \notin {"gone", "closed"}

Placed(c) ==
    /\ Framed(Stream(c)) /\ Len(buffer[c]) < 3
    /\ Alive(c) => /\ Len(Stream(c)) % 3 = 0
                   /\ \A m \in pending[c] : Occurs(m, stdin[c]) \/ Occurs(Body(m), Stream(c))

Places == \A c \in Clients : c \notin garbled => Placed(c)

(* A body of a framed stream is the third unit of its frame. *)
LEMMA BodyThird ==
    ASSUME NEW s \in Seq(Units), Framed(s), NEW m \in Requests, NEW i \in 1 .. Len(s), s[i] = Body(m)
    PROVE  i % 3 = 0
<1>1. Length(1).k = "length" /\ Blank.k = "blank" /\ Body(m).k = "body"
  BY UnitKinds
<1>2. i % 3 # 1 /\ i % 3 # 2
  BY <1>1 DEF Framed
<1> QED BY <1>2

LEMMA Thirds == \A k \in Nat : \A i \in Nat : k % 3 = 0 => (k + i) % 3 = i % 3
OBVIOUS

(* What is left of a stream after its first k units, k a number of frames.  *)
LEMMA FramedAfter ==
    ASSUME NEW s \in Seq(Units), Framed(s), NEW k \in 0 .. Len(s), k % 3 = 0,
           NEW t \in Seq(Units), Len(t) = Len(s) - k,
           \A i \in 1 .. Len(t) : t[i] = s[k + i]
    PROVE  /\ Framed(t) /\ Len(t) % 3 = Len(s) % 3
           /\ \A u : Occurs(u, s) => Occurs(u, t) \/ \E i \in 1 .. k : s[i] = u
<1>1. Len(s) \in Nat /\ Len(t) \in Nat /\ k \in Nat
  OBVIOUS
<1>2. Framed(t)
  <2> SUFFICES ASSUME NEW i \in 1 .. Len(t)
               PROVE  /\ i % 3 = 1 => t[i] = Length(1)
                      /\ i % 3 = 2 => t[i] = Blank
                      /\ i % 3 = 0 => \E m \in Requests : t[i] = Body(m)
    BY DEF Framed
  <2>1. k + i \in 1 .. Len(s) /\ t[i] = s[k + i] /\ i \in Nat
    BY <1>1
  <2>2. (k + i) % 3 = i % 3
    BY <1>1, <2>1, Thirds
  <2> QED BY <2>1, <2>2 DEF Framed
<1>3. Len(t) % 3 = Len(s) % 3
  <2>1. k + Len(t) = Len(s)
    BY <1>1
  <2> QED BY <1>1, <2>1, Thirds
<1>4. ASSUME NEW u, Occurs(u, s) PROVE Occurs(u, t) \/ \E i \in 1 .. k : s[i] = u
  <2>1. DOMAIN s = 1 .. Len(s) /\ DOMAIN t = 1 .. Len(t)
    OBVIOUS
  <2>2. PICK i \in 1 .. Len(s) : s[i] = u
    BY <1>4, <2>1 DEF Occurs
  <2>3. i \in 1 .. k \/ (i - k \in 1 .. Len(t) /\ k + (i - k) = i)
    BY <1>1
  <2>4. i - k \in 1 .. Len(t) => t[i - k] = u
    BY <2>2, <2>3
  <2> QED BY <2>1, <2>2, <2>3, <2>4 DEF Occurs
<1> QED BY <1>2, <1>3, <1>4

Joins(r, s, t) ==
    /\ r \in Seq(Units) /\ Len(r) = Len(s) + Len(t) /\ Len(s) \in Nat /\ Len(t) \in Nat
    /\ \A i \in 1 .. Len(s) : r[i] = s[i]
    /\ \A i \in 1 .. Len(t) : r[Len(s) + i] = t[i]

LEMMA Joined == \A s, t \in Seq(Units) : Joins(s \o t, s, t)
BY DEF Joins

(* A chunk: whole frames leave the stream all, each with its message, and   *)
(* less than a frame of b stays in the buffer.                              *)
CutFrom(new, b, all) ==
    /\ Framed(new) /\ Len(Cut(b).rest) < 3
    /\ Len(new) % 3 = Len(all) % 3
    /\ \A m \in Requests : Occurs(Body(m), all) =>
          Occurs(Body(m), new) \/ m \in Parsed(Cut(b).bodies)

LEMMA ChunkCuts ==
    ASSUME NEW s \in Seq(Units), NEW t \in Seq(Units), NEW n \in 1 .. Len(t), Framed(s \o t),
           NEW b, b = s \o SubSeq(t, 1, n), NEW new, new = Cut(b).rest \o Drop(t, n)
    PROVE  CutFrom(new, b, s \o t)
<1>0. PICK all : all = s \o t
  OBVIOUS
<1>1. /\ all \in Seq(Units) /\ all = s \o t /\ Len(all) = Len(s) + Len(t)
      /\ \A i \in 1 .. Len(s) : all[i] = s[i]
      /\ \A i \in 1 .. Len(t) : all[Len(s) + i] = t[i]
  BY <1>0
<1>2. Len(s) \in Nat /\ Len(t) \in Nat
  OBVIOUS
<1>3a. PICK first : first = SubSeq(t, 1, n)
  OBVIOUS
<1>3. /\ first \in Seq(Units) /\ first = SubSeq(t, 1, n) /\ Len(first) = n
      /\ \A i \in 1 .. n : first[i] = t[i]
  BY <1>2, <1>3a
<1>4. /\ b \in Seq(Units) /\ Len(b) = Len(s) + n
      /\ \A i \in 1 .. Len(s) : b[i] = s[i]
      /\ \A i \in 1 .. n : b[Len(s) + i] = first[i]
  <2>1. b = s \o first
    BY <1>3
  <2> QED BY <1>3, <2>1
<1>5. \A i \in 1 .. Len(b) : i \in 1 .. Len(all) /\ b[i] = all[i]
  <2> SUFFICES ASSUME NEW i \in 1 .. Len(b) PROVE i \in 1 .. Len(all) /\ b[i] = all[i]
    OBVIOUS
  <2>1. i \in 1 .. Len(all)
    BY <1>1, <1>2, <1>4
  <2>2. CASE i <= Len(s)
    BY <1>1, <1>2, <1>4, <2>1, <2>2
  <2>3. CASE i > Len(s)
    <3>1. i - Len(s) \in 1 .. n /\ i - Len(s) \in 1 .. Len(t) /\ Len(s) + (i - Len(s)) = i
      BY <1>2, <1>4, <2>3
    <3>2. b[i] = t[i - Len(s)] /\ all[i] = t[i - Len(s)]
      BY <1>1, <1>3, <1>4, <3>1
    <3> QED BY <2>1, <3>2
  <2> QED BY <1>2, <2>2, <2>3
<1>6. Framed(b)
  BY <1>1, <1>5 DEF Framed
<1>7. PICK rest \in Seq(Units) : rest = Frames[b].rest
  BY <1>4, FramesRight DEF CutRight, CutSound
<1>8. CutWhole(b)
  BY <1>4, <1>6, FramesRight DEF CutRight
<1>8a. PICK k : k = Cuts(b)
  OBVIOUS
<1>9. k = Cuts(b) /\ k = Len(b) - Len(rest) /\ Len(b) \in Nat /\ Len(rest) \in Nat
  BY <1>4, <1>7, <1>8a DEF Cuts
<1>10. /\ Len(rest) < 3 /\ Len(rest) <= Len(b) /\ k % 3 = 0 /\ k \in 0 .. Len(b) /\ k \in Nat
       /\ \A j \in 1 .. Len(rest) : rest[j] = b[k + j]
       /\ \A i \in 1 .. k : i % 3 = 0 => <<b[i]>> \in Frames[b].bodies
  <2>1. Len(rest) < 3 /\ Len(rest) <= Len(b) /\ k % 3 = 0
    BY <1>7, <1>8, <1>8a DEF CutWhole
  <2>2. k \in 0 .. Len(b) /\ k \in Nat
    BY <1>9, <2>1
  <2>3. \A j \in 1 .. Len(rest) : rest[j] = b[k + j]
    BY <1>7, <1>8, <1>8a DEF CutWhole
  <2>4. \A i \in 1 .. k : i % 3 = 0 => <<b[i]>> \in Frames[b].bodies
    BY <1>8, <1>8a DEF CutWhole
  <2> QED BY <2>1, <2>2, <2>3, <2>4
<1>11a. PICK left : left = Drop(t, n)
  OBVIOUS
<1>11. /\ left \in Seq(Units) /\ left = Drop(t, n) /\ Len(left) = Len(t) - n /\ Len(left) \in Nat
       /\ \A i \in 1 .. Len(t) - n : left[i] = t[n + i]
  <2>1. n \in 0 .. Len(t)
    BY <1>2
  <2>2. /\ Drop(t, n) \in Seq(Units) /\ Len(Drop(t, n)) = Len(t) - n
        /\ \A i \in 1 .. Len(t) - n : Drop(t, n)[i] = t[n + i]
    BY <2>1, DropResult
  <2>3. Len(t) - n \in Nat
    BY <1>2
  <2> QED BY <1>11a, <2>2, <2>3
<1>12. /\ new \in Seq(Units) /\ Len(new) = Len(rest) + Len(left)
       /\ \A i \in 1 .. Len(rest) : new[i] = rest[i]
       /\ \A i \in 1 .. Len(left) : new[Len(rest) + i] = left[i]
  <2>1. new = rest \o left
    BY <1>7, <1>11 DEF Cut
  <2>2. Joins(rest \o left, rest, left)
    BY <1>7, <1>11, Joined, Zenon
  <2> QED BY <2>1, <2>2, Zenon DEF Joins
<1>13. /\ Len(new) = Len(all) - k /\ k \in 0 .. Len(all)
       /\ \A i \in 1 .. Len(new) : new[i] = all[k + i]
  <2>1. \A j \in 1 .. Len(rest) : rest[j] = all[k + j]
    <3>1. \A j \in 1 .. Len(rest) : k + j \in 1 .. Len(b)
      BY <1>9, <1>10
    <3> QED BY <1>5, <1>10, <3>1
  <2>2. k + Len(rest) = Len(s) + n
    BY <1>2, <1>4, <1>9
  <2>3. \A i \in 1 .. Len(t) - n : new[Len(rest) + i] = left[i]
    BY <1>11, <1>12
  <2>4. /\ k <= Len(s) + Len(t) /\ Len(rest) + (Len(t) - n) = (Len(s) + Len(t)) - k
        /\ \A i \in 1 .. Len(rest) + (Len(t) - n) : new[i] = all[k + i]
    <3>1. PICK ls \in Nat, lt \in Nat, lr \in Nat : ls = Len(s) /\ lt = Len(t) /\ lr = Len(rest)
      BY <1>2, <1>9
    <3>2. n \in 1 .. lt /\ k \in Nat /\ k + lr = ls + n
      BY <1>10, <2>2, <3>1
    <3>3. /\ \A i \in 1 .. lt : all[ls + i] = t[i]
          /\ \A i \in 1 .. lt - n : left[i] = t[n + i]
          /\ \A j \in 1 .. lr : rest[j] = all[k + j]
          /\ \A i \in 1 .. lr : new[i] = rest[i]
          /\ \A i \in 1 .. lt - n : new[lr + i] = left[i]
      BY <1>1, <1>11, <1>12, <2>1, <2>3, <3>1, Zenon
    <3>4. /\ k <= ls + lt /\ lr + (lt - n) = (ls + lt) - k
          /\ \A i \in 1 .. lr + (lt - n) : new[i] = all[k + i]
      <4>1. k <= ls + lt /\ lr + (lt - n) = (ls + lt) - k
        BY <3>2
      <4>2. ASSUME NEW i \in 1 .. lr + (lt - n), i > lr PROVE new[i] = all[k + i]
        <5>1. PICK j \in Int : j = i - lr
          OBVIOUS
        <5>2. j \in 1 .. lt - n /\ lr + j = i /\ n + j \in 1 .. lt /\ ls + (n + j) = k + i
          BY <3>2, <4>2, <5>1
        <5>3. new[i] = t[n + j] /\ all[k + i] = t[n + j]
          BY <3>3, <5>2
        <5> QED BY <5>3
      <4>3. ASSUME NEW i \in 1 .. lr + (lt - n), i <= lr PROVE new[i] = all[k + i]
        <5>1. i \in 1 .. lr
          BY <4>3
        <5> QED BY <3>3, <5>1
      <4>4. \A i \in 1 .. lr + (lt - n) : i > lr \/ i <= lr
        OBVIOUS
      <4> QED BY <4>1, <4>2, <4>3, <4>4
    <3> QED BY <3>1, <3>4, Zenon
  <2>5. Len(new) = Len(rest) + (Len(t) - n)
    BY <1>11, <1>12
  <2>6. k \in 0 .. Len(all)
    BY <1>1, <1>2, <1>10, <2>4
  <2> QED BY <1>1, <2>4, <2>5, <2>6, Zenon
<1>15. /\ Framed(new) /\ Len(new) % 3 = Len(all) % 3
       /\ \A u : Occurs(u, all) => Occurs(u, new) \/ \E i \in 1 .. k : all[i] = u
  BY <1>1, <1>10, <1>12, <1>13, FramedAfter
<1>16. ASSUME NEW m \in Requests, NEW i \in 1 .. k, all[i] = Body(m) PROVE m \in Parsed(Cut(b).bodies)
  <2>1. i \in 1 .. Len(b) /\ i \in 1 .. Len(all) /\ b[i] = Body(m)
    <3>1. i \in 1 .. Len(b)
      BY <1>9, <1>10
    <3> QED BY <1>5, <1>16, <3>1
  <2>2. i % 3 = 0
    BY <1>4, <1>6, <2>1, BodyThird
  <2>3. <<Body(m)>> \in Cut(b).bodies
    BY <1>10, <2>1, <2>2 DEF Cut
  <2> QED BY <2>3, GotWhole
<1>17. Len(Cut(b).rest) < 3
  BY <1>7, <1>10 DEF Cut
<1> QED BY <1>0, <1>15, <1>16, <1>17 DEF CutFrom

-----------------------------------------------------------------------------
LEMMA StreamIs ==
    ASSUME Wire, NEW c \in Clients
    PROVE  /\ Stream(c) \in Seq(Units) /\ buffer[c] \in Seq(Units) /\ stdout[c] \in Seq(Units)
           /\ stdin[c] \in Seq(Requests \cup {Notice}) /\ pending[c] \in SUBSET Requests
           /\ \A u : Occurs(u, Stream(c)) <=> Occurs(u, buffer[c]) \/ Occurs(u, stdout[c])
<1>1. /\ buffer[c] \in Seq(Units) /\ stdout[c] \in Seq(Units)
      /\ stdin[c] \in Seq(Requests \cup {Notice}) /\ pending[c] \in SUBSET Requests
  BY DEF Wire, Fields
<1>2. \A s, t \in Seq(Units) : s \o t \in Seq(Units)
  OBVIOUS
<1>3. \A s, t \in Seq(Units) : \A u : Occurs(u, s \o t) <=> Occurs(u, s) \/ Occurs(u, t)
  BY ConcatOccurs
<1> QED BY <1>1, <1>2, <1>3 DEF Stream

LEMMA PlacesStart == Init => Places
<1> SUFFICES ASSUME Init, NEW c \in Clients PROVE Placed(c)
  BY DEF Places
<1>1. buffer[c] = <<>> /\ stdout[c] = <<>> /\ pending[c] = {}
  BY DEF Init
<1>2. Stream(c) = <<>>
  BY <1>1 DEF Stream
<1>3. Len(Stream(c)) = 0 /\ Len(buffer[c]) = 0
  BY <1>1, <1>2
<1>4. Framed(Stream(c))
  BY <1>3 DEF Framed
<1> QED BY <1>1, <1>3, <1>4 DEF Placed

(* A client whose pipe did not move, with what was sent since in its stdin. *)
LEMMA PlacedKept ==
    ASSUME NEW c \in Clients, Placed(c), buffer'[c] = buffer[c], stdout'[c] = stdout[c],
           Alive(c)' => Alive(c),
           \A m \in pending'[c] : m \in pending[c] \/ Occurs(m, stdin'[c]),
           \A m \in pending[c] : Occurs(m, stdin[c]) => Occurs(m, stdin'[c])
    PROVE  Placed(c)'
<1>1. Stream(c)' = Stream(c)
  BY DEF Stream
<1> QED BY <1>1 DEF Placed

LEMMA ReceivePlaces ==
    ASSUME Wire, Places, NEW c \in Clients, Receive(c)
    PROVE  Places'
<1>1. PICK n \in 1 .. Len(stdout[c]) : OnData(c, n)
  BY DEF Receive
<1>2. PICK told \in BOOLEAN :
           /\ buffer' = [buffer EXCEPT ![c] = Cut(Chunk(c, n)).rest]
           /\ stdout' = [stdout EXCEPT ![c] = Drop(stdout[c], n)]
           /\ pending' = [pending EXCEPT ![c] = Forget(pending[c], Got(c, n))]
           /\ stdin' = [stdin EXCEPT ![c] = IF told THEN Append(stdin[c], Notice) ELSE stdin[c]]
           /\ server' = server /\ garbled' = garbled
  BY <1>1, OnDataIs
<1>3. SUFFICES ASSUME NEW d \in Clients, d \notin garbled PROVE Placed(d)'
  BY <1>2 DEF Places
<1>4. Placed(d)
  BY <1>3 DEF Places
<1>5. CASE d # c
  <2>1. /\ buffer'[d] = buffer[d] /\ stdout'[d] = stdout[d] /\ pending'[d] = pending[d]
        /\ stdin'[d] = stdin[d] /\ server'[d] = server[d]
    BY <1>2, <1>5 DEF Wire, Fields
  <2> QED BY <1>4, <2>1, PlacedKept DEF Alive
<1>6. CASE d = c
  <2>1. /\ buffer'[c] = Cut(Chunk(c, n)).rest /\ stdout'[c] = Drop(stdout[c], n)
        /\ pending'[c] = Forget(pending[c], Got(c, n)) /\ server'[c] = server[c]
        /\ stdin'[c] = (IF told THEN Append(stdin[c], Notice) ELSE stdin[c])
    BY <1>2 DEF Wire, Fields
  <2>2. Framed(buffer[c] \o stdout[c])
    BY <1>4, <1>6 DEF Placed, Stream
  <2>3. PICK b, new : b = Chunk(c, n) /\ new = Cut(b).rest \o Drop(stdout[c], n)
    OBVIOUS
  <2>4. /\ Framed(new) /\ Len(Cut(b).rest) < 3
        /\ Len(new) % 3 = Len(buffer[c] \o stdout[c]) % 3
        /\ \A m \in Requests : Occurs(Body(m), buffer[c] \o stdout[c]) =>
              Occurs(Body(m), new) \/ m \in Parsed(Cut(b).bodies)
    <3>1. b = buffer[c] \o SubSeq(stdout[c], 1, n)
      BY <2>3 DEF Chunk
    <3>2. CutFrom(new, b, buffer[c] \o stdout[c])
      BY <2>2, <2>3, <3>1, StreamIs, ChunkCuts, Zenon
    <3> QED BY <3>2 DEF CutFrom
  <2>5. Stream(c)' = new
    BY <2>1, <2>3 DEF Stream
  <2>6. /\ Append(stdin[c], Notice) \in Seq(Requests \cup {Notice})
        /\ \A u : Occurs(u, stdin[c]) => Occurs(u, Append(stdin[c], Notice))
    <3>1. stdin[c] \in Seq(Requests \cup {Notice}) /\ Notice \in Requests \cup {Notice}
      BY StreamIs
    <3> QED BY <3>1, AppendOccurs
  <2>7. ASSUME Alive(c), NEW m \in pending'[c]
        PROVE  Occurs(m, stdin'[c]) \/ Occurs(Body(m), new)
    <3>1. m \in pending[c] /\ m \in Requests /\ m \notin Got(c, n)
      BY <2>1, StreamIs DEF Forget
    <3>2. Occurs(m, stdin[c]) \/ Occurs(Body(m), buffer[c] \o stdout[c])
      BY <1>4, <1>6, <2>7, <3>1 DEF Placed, Stream
    <3>3. Occurs(m, stdin[c]) => Occurs(m, stdin'[c])
      BY <2>1, <2>6
    <3>4. m \notin Parsed(Cut(b).bodies)
      BY <2>3, <3>1 DEF Got
    <3> QED BY <2>4, <3>1, <3>2, <3>3, <3>4
  <2>8. Alive(c)' <=> Alive(c)
    BY <2>1 DEF Alive
  <2>9. Alive(c) => Len(new) % 3 = 0
    BY <1>4, <1>6, <2>4 DEF Placed, Stream
  <2>10. Len(buffer'[c]) < 3
    BY <2>1, <2>3, <2>4
  <2> QED BY <1>6, <2>4, <2>5, <2>7, <2>8, <2>9, <2>10 DEF Placed
<1> QED BY <1>5, <1>6

(* Frames put at the end of a framed stream, or the header of one. *)
LEMMA FramedJoin ==
    ASSUME NEW s \in Seq(Units), Framed(s), Len(s) % 3 = 0, NEW r \in Seq(Units),
           Len(r) \in Len(s) .. Len(s) + 3,
           \A i \in 1 .. Len(s) : r[i] = s[i],
           Len(r) > Len(s) => r[Len(s) + 1] = Length(1),
           Len(r) > Len(s) + 1 => r[Len(s) + 2] = Blank,
           Len(r) > Len(s) + 2 => \E m \in Requests : r[Len(s) + 3] = Body(m)
    PROVE  Framed(r)
<1>0. PICK l \in Nat : l = Len(s)
  OBVIOUS
<1> SUFFICES ASSUME NEW i \in 1 .. Len(r)
             PROVE  /\ i % 3 = 1 => r[i] = Length(1)
                    /\ i % 3 = 2 => r[i] = Blank
                    /\ i % 3 = 0 => \E m \in Requests : r[i] = Body(m)
  BY DEF Framed
<1>1. CASE i <= l
  <2>1. i \in 1 .. Len(s)
    BY <1>0, <1>1
  <2> QED BY <2>1 DEF Framed
<1>2. CASE i = l + 1
  <2>1. i % 3 = 1 /\ Len(r) > Len(s)
    BY <1>0, <1>2, SMTT(30)
  <2> QED BY <1>0, <1>2, <2>1
<1>3. CASE i = l + 2
  <2>1. i % 3 = 2 /\ Len(r) > Len(s) + 1
    BY <1>0, <1>3, SMTT(30)
  <2> QED BY <1>0, <1>3, <2>1
<1>4. CASE i = l + 3
  <2>1. i % 3 = 0 /\ Len(r) > Len(s) + 2
    BY <1>0, <1>4, SMTT(30)
  <2> QED BY <1>0, <1>4, <2>1
<1>5. i <= l \/ i = l + 1 \/ i = l + 2 \/ i = l + 3
  BY <1>0
<1> QED BY <1>1, <1>2, <1>3, <1>4, <1>5

LEMMA Associates ==
    \A s, t, u \in Seq(Units) : s \o (t \o u) = (s \o t) \o u
BY ConcatAssociative

-----------------------------------------------------------------------------
(* What the server writes comes after all that is in the pipe.              *)
LEMMA WritesAtEnd ==
    ASSUME Wire, NEW c \in Clients, NEW u \in Seq(Units), buffer'[c] = buffer[c],
           stdout'[c] = stdout[c] \o u
    PROVE  Stream(c)' = Stream(c) \o u
<1>1. buffer[c] \in Seq(Units) /\ stdout[c] \in Seq(Units)
  BY StreamIs
<1>2. buffer[c] \o (stdout[c] \o u) = (buffer[c] \o stdout[c]) \o u
  BY <1>1, Associates
<1> QED BY <1>2 DEF Stream

LEMMA AnswersPlaces ==
    ASSUME Wire, Places, NEW c \in Clients, ServerAnswers(c)
    PROVE  Places'
<1>1. /\ server[c] = "up" /\ stdin[c] # <<>> /\ stdin' = [stdin EXCEPT ![c] = Tail(stdin[c])]
      /\ buffer' = buffer /\ pending' = pending /\ server' = server
  BY DEF ServerAnswers
<1>2. PICK m : m = Head(stdin[c])
  OBVIOUS
<1>3. \/ m = Notice /\ stdout' = stdout /\ garbled' = garbled
      \/ /\ m # Notice
         /\ \E x \in Nat : /\ stdout' = [stdout EXCEPT ![c] = stdout[c] \o Frame(m, x)]
                           /\ garbled \subseteq garbled'
                           /\ c \notin garbled' => x = 0
  BY <1>2, LspAssumption DEF ServerAnswers
<1>4. garbled \subseteq garbled'
  BY <1>3
<1>5. SUFFICES ASSUME NEW d \in Clients, d \notin garbled' PROVE Placed(d)'
  BY DEF Places
<1>6. Placed(d)
  BY <1>4, <1>5 DEF Places
<1>7. CASE d # c
  <2>1. /\ buffer'[d] = buffer[d] /\ stdout'[d] = stdout[d] /\ pending'[d] = pending[d]
        /\ stdin'[d] = stdin[d] /\ server'[d] = server[d]
    BY <1>1, <1>3, <1>7 DEF Wire, Fields
  <2> QED BY <1>6, <2>1, PlacedKept DEF Alive
<1>8. CASE d = c
  <2>1. /\ \A u : Occurs(u, stdin[c]) => Occurs(u, stdin'[c]) \/ u = m
        /\ m \in Requests \cup {Notice}
    <3>1. stdin[c] \in Seq(Requests \cup {Notice}) /\ stdin'[c] = Tail(stdin[c])
      BY <1>1, StreamIs DEF Wire, Fields
    <3> QED BY <1>1, <1>2, <3>1, TailOccurs
  <2>2. CASE m = Notice /\ stdout' = stdout
    <3>1. \A p \in pending[c] : p # m
      BY <2>2, NoticeApart, StreamIs
    <3> QED BY <1>1, <1>6, <1>8, <2>1, <2>2, <3>1, PlacedKept DEF Alive
  <2>3. CASE m # Notice /\ stdout' = [stdout EXCEPT ![c] = stdout[c] \o Frame(m, 0)]
    <3>1. PICK s \in Seq(Units) : s = Stream(c)
      BY StreamIs
    <3>2. PICK r : r = s \o Frame(m, 0)
      OBVIOUS
    <3>3. m \in Requests
      BY <2>1, <2>3
    <3>4. /\ r \in Seq(Units) /\ Len(r) = Len(s) + 3
          /\ \A i \in 1 .. Len(s) : r[i] = s[i]
          /\ r[Len(s) + 1] = Length(1 + 0) /\ r[Len(s) + 2] = Blank /\ r[Len(s) + 3] = Body(m)
          /\ \A u : Occurs(u, s) => Occurs(u, r)
      <4>1. \A x \in Nat : r = s \o Frame(m, x) => Appended(r, s, m, x)
        BY <3>3, FrameParts
      <4>2. Appended(r, s, m, 0)
        BY <3>2, <4>1
      <4> QED BY <4>2 DEF Appended
    <3>5. Stream(c)' = r
      <4>1. stdout'[c] = stdout[c] \o Frame(m, 0) /\ buffer'[c] = buffer[c]
        BY <1>1, <2>3 DEF Wire, Fields
      <4>2. Frame(m, 0) \in Seq(Units)
        BY <3>3, UnitKinds, ThreeUnits DEF Frame
      <4> QED BY <3>1, <3>2, <4>1, <4>2, WritesAtEnd
    <3>6. Framed(s) /\ Len(s) % 3 = 0 /\ Len(s) \in Nat
      BY <1>1, <1>6, <1>8, <3>1 DEF Placed, Alive
    <3>7. Framed(r)
      <4>1. Len(r) \in Len(s) .. Len(s) + 3 /\ 1 + 0 = 1
        BY <3>4, <3>6
      <4> QED BY <3>3, <3>4, <3>6, <4>1, FramedJoin
    <3>8. Len(r) % 3 = 0
      BY <3>4, <3>6
    <3>9. Occurs(Body(m), r)
      <4>1. Len(s) + 3 \in 1 .. Len(r) /\ DOMAIN r = 1 .. Len(r)
        BY <3>4, <3>6
      <4> QED BY <3>4, <4>1 DEF Occurs
    <3>10. \A p \in pending[c] : Occurs(p, stdin'[c]) \/ Occurs(Body(p), r)
      <4>1. \A p \in pending[c] : Occurs(p, stdin[c]) \/ Occurs(Body(p), s)
        BY <1>1, <1>6, <1>8, <3>1 DEF Placed, Alive
      <4> QED BY <2>1, <3>4, <3>9, <4>1
    <3>11. Len(buffer[c]) < 3
      BY <1>6, <1>8 DEF Placed
    <3> QED BY <1>1, <1>8, <3>5, <3>7, <3>8, <3>10, <3>11 DEF Placed
  <2> QED BY <1>3, <1>5, <1>8, <2>2, <2>3
<1> QED BY <1>7, <1>8

LEMMA EndsPlaces ==
    ASSUME Wire, Places, NEW c \in Clients, ServerEnds(c)
    PROVE  Places'
<1>1. /\ server[c] = "up" /\ server' = [server EXCEPT ![c] = "gone"]
      /\ stdin' = stdin /\ buffer' = buffer /\ pending' = pending /\ garbled' = garbled
      /\ stdout' = stdout \/ stdout' = [stdout EXCEPT ![c] = stdout[c] \o <<Length(1), Blank>>]
  BY DEF ServerEnds
<1>2. SUFFICES ASSUME NEW d \in Clients, d \notin garbled PROVE Placed(d)'
  BY <1>1 DEF Places
<1>3. Placed(d)
  BY <1>2 DEF Places
<1>4. CASE d # c \/ stdout' = stdout
  <2>1. /\ buffer'[d] = buffer[d] /\ stdout'[d] = stdout[d] /\ pending'[d] = pending[d]
        /\ stdin'[d] = stdin[d] /\ (Alive(d)' => Alive(d))
    BY <1>1, <1>4 DEF Wire, Fields, Alive
  <2> QED BY <1>3, <2>1, PlacedKept
<1>5. CASE d = c /\ stdout' = [stdout EXCEPT ![c] = stdout[c] \o <<Length(1), Blank>>]
  <2>1. PICK s \in Seq(Units) : s = Stream(c)
    BY StreamIs
  <2>2. PICK r : r = s \o <<Length(1), Blank>>
    OBVIOUS
  <2>3. /\ r \in Seq(Units) /\ Len(r) = Len(s) + 2
        /\ \A i \in 1 .. Len(s) : r[i] = s[i]
        /\ r[Len(s) + 1] = Length(1) /\ r[Len(s) + 2] = Blank
    BY <2>2, StubParts
  <2>4. Stream(c)' = r
    <3>1. stdout'[c] = stdout[c] \o <<Length(1), Blank>> /\ buffer'[c] = buffer[c]
      BY <1>1, <1>5 DEF Wire, Fields
    <3>2. <<Length(1), Blank>> \in Seq(Units)
      BY UnitKinds, TwoUnits
    <3> QED BY <2>1, <2>2, <3>1, <3>2, WritesAtEnd
  <2>5. Framed(s) /\ Len(s) % 3 = 0 /\ Len(s) \in Nat
    BY <1>1, <1>3, <1>5, <2>1 DEF Placed, Alive
  <2>6. Framed(r)
    <3>1. Len(r) \in Len(s) .. Len(s) + 3 /\ ~(Len(r) > Len(s) + 2)
      BY <2>3, <2>5
    <3> QED BY <2>3, <2>5, <3>1, FramedJoin
  <2>7. ~Alive(c)'
    BY <1>1 DEF Alive, Wire, Fields
  <2>8. Len(buffer[c]) < 3
    BY <1>3, <1>5 DEF Placed
  <2> QED BY <1>1, <1>5, <2>4, <2>6, <2>7, <2>8 DEF Placed
<1> QED BY <1>1, <1>4, <1>5

LEMMA StillPlaces ==
    ASSUME Wire, Places, buffer' = buffer, stdout' = stdout, stdin' = stdin, garbled' = garbled,
           \A c \in Clients : pending'[c] \subseteq pending[c],
           \A c \in Clients : Alive(c)' => Alive(c)
    PROVE  Places'
<1> SUFFICES ASSUME NEW c \in Clients, c \notin garbled PROVE Placed(c)'
  BY DEF Places
<1>1. Placed(c)
  BY DEF Places
<1> QED BY <1>1, PlacedKept

LEMMA SendPlaces ==
    ASSUME Wire, Places, NEW c \in Clients, NEW by \in Askers, SendRequest(c, by),
           buffer' = buffer, stdout' = stdout, garbled' = garbled,
           \A d \in Clients : Alive(d)' => Alive(d)
    PROVE  Places'
<1> SUFFICES ASSUME NEW d \in Clients, d \notin garbled PROVE Placed(d)'
  BY DEF Places
<1>1. Placed(d)
  BY DEF Places
<1>2. PICK r \in Requests : r = Req(c, by)
  BY DEF Wire, Fields, Req, Requests
<1>3. /\ pending' = [pending EXCEPT ![c] = pending[c] \cup {r}]
      /\ stdin' = [stdin EXCEPT ![c] = Append(stdin[c], r)]
  BY <1>2 DEF SendRequest, Req
<1>4. /\ Occurs(r, Append(stdin[c], r))
      /\ \A u : Occurs(u, stdin[c]) => Occurs(u, Append(stdin[c], r))
  <2>1. stdin[c] \in Seq(Requests \cup {Notice}) /\ r \in Requests \cup {Notice}
    BY StreamIs
  <2> QED BY <2>1, AppendOccurs
<1>5. /\ \A m \in pending'[d] : m \in pending[d] \/ Occurs(m, stdin'[d])
      /\ \A u : Occurs(u, stdin[d]) => Occurs(u, stdin'[d])
  BY <1>3, <1>4 DEF Wire, Fields
<1> QED BY <1>1, <1>5, PlacedKept

LEMMA StartPlaces ==
    ASSUME Wire, Places, NEW c \in Clients, server[c] = "none", Start(c),
           UNCHANGED <<buffer, stdout, garbled>>
    PROVE  Places'
<1>1. CASE UNCHANGED <<server, nextId, pending, timers, stdin>>
  BY <1>1, StillPlaces DEF Alive
<1>2. CASE /\ \E s \in {"up", "failed"} : server' = [server EXCEPT ![c] = s]
           /\ SendRequest(c, Init0)
  <2>1. \A d \in Clients : Alive(d)' => Alive(d)
    BY <1>2 DEF Alive, Wire, Fields
  <2> QED BY <1>2, <2>1, SendPlaces, NoticeApart
<1> QED BY <1>1, <1>2 DEF Start

LEMMA UserPlaces == ASSUME Wire, Places, Shape, Unborn, User PROVE Places'
<1>1. CASE Activate
  <2>1. Start(1) /\ UNCHANGED <<buffer, stdout, garbled>> /\ current = 0
    BY <1>1 DEF Activate, Started, Shape
  <2>2. 1 \in Clients /\ server[1] = "none"
    BY <2>1, LspAssumption DEF Clients, Unborn
  <2> QED BY <2>1, <2>2, StartPlaces
<1>2. CASE RestartLsp
  <2>1. Start(current + 1) /\ UNCHANGED <<buffer, stdout, garbled>>
    BY <1>2 DEF RestartLsp, Started
  <2>2. current + 1 \in Clients /\ current + 1 > current
    BY <1>2, LspAssumption DEF RestartLsp, Clients, Shape
  <2>3. server[current + 1] = "none"
    BY <2>2 DEF Unborn
  <2> QED BY <2>1, <2>2, <2>3, StartPlaces
<1>3. CASE Deactivate
  BY <1>3, StillPlaces DEF Deactivate, pipes, Alive
<1>4. ASSUME NEW q \in Queries, Ask(q) PROVE Places'
  <2>1. current \in Clients /\ q \in Askers
    BY <1>4, NoticeApart DEF Ask, Shape
  <2>2. SendRequest(current, q) /\ UNCHANGED <<buffer, stdout, garbled, server>>
    BY <1>4 DEF Ask
  <2> QED BY <2>1, <2>2, SendPlaces DEF Alive
<1>5. ASSUME NEW q \in Queries, AnswerBuiltIn(q) PROVE Places'
  BY <1>5, StillPlaces DEF AnswerBuiltIn, pipes, Alive
<1> QED BY <1>1, <1>2, <1>3, <1>4, <1>5 DEF User

LEMMA StepPlaces == Wire /\ Shape /\ Unborn /\ Places /\ [Next]_vars => Places'
<1> SUFFICES ASSUME Wire, Shape, Unborn, Places, [Next]_vars PROVE Places'
  OBVIOUS
<1>1. CASE UNCHANGED vars
  BY <1>1, StillPlaces DEF vars, pipes, Alive
<1>2. CASE User
  BY <1>2, UserPlaces
<1>3. ASSUME NEW c \in Clients, StartFails(c) \/ Close(c) PROVE Places'
  <2>1. /\ UNCHANGED <<buffer, stdout, stdin, garbled, pending>>
        /\ server' = [server EXCEPT ![c] = "gone"] \/ server' = [server EXCEPT ![c] = "closed"]
    BY <1>3 DEF StartFails, Close, pipes
  <2>2. \A d \in Clients : Alive(d)' => Alive(d)
    BY <2>1 DEF Alive, Wire, Fields
  <2> QED BY <2>1, <2>2, StillPlaces
<1>4. ASSUME NEW c \in Clients, Timeout(c) PROVE Places'
  <2>1. PICK m \in timers[c] : TimerFires(c, m)
    BY <1>4 DEF Timeout
  <2>2. /\ UNCHANGED <<buffer, stdout, stdin, garbled, server>>
        /\ pending' = [pending EXCEPT ![c] = pending[c] \ {m}]
    BY <2>1 DEF TimerFires, pipes
  <2>3. \A d \in Clients : pending'[d] \subseteq pending[d]
    BY <2>2 DEF Wire, Fields
  <2> QED BY <2>2, <2>3, StillPlaces DEF Alive
<1> QED BY <1>1, <1>2, <1>3, <1>4, ReceivePlaces, AnswersPlaces, EndsPlaces DEF Next, Machine

-----------------------------------------------------------------------------
(* Ids, questions and answers together. *)
PipesSound == Wire /\ Waits /\ Places

LEMMA PipesStart == Init => PipesSound
<1>1. Init => Waits
  BY DEF Init, Waits, OpenWaits, OneWait
<1> QED BY <1>1, WireStarts, PlacesStart DEF PipesSound

THEOREM PipesStaySound == Spec => []PipesSound
<1>1. PipesSound /\ IInv /\ [Next]_vars => PipesSound'
  BY StepKeepsWire, StepWaits, StepPlaces DEF PipesSound, IInv
<1> QED BY <1>1, PipesStart, ClientsStaySound, PTL DEF Spec

(* The fields of the client objects and of the pipes have their types, and  *)
(* an id below nextId stands for one request.                               *)
THEOREM TypeCorrect == Spec => []TypeOK
<1>1. IInv /\ PipesSound => TypeOK
  <2> SUFFICES ASSUME IInv, PipesSound PROVE TypeOK
    OBVIOUS
  <2>1. \A c \in Clients : pending[c] \cup timers[c] \subseteq Held(c)
    BY DEF PipesSound, Wire, Fields, Held
  <2>2. \A c \in Clients : \A m, n \in pending[c] \cup timers[c] :
           m.id < nextId[c] /\ (m.id = n.id => m = n)
    BY <2>1 DEF PipesSound, Wire, IdsOnce
  <2> QED BY <2>2 DEF TypeOK, IInv, Shape, PipesSound, Wire, Fields
<1> QED BY <1>1, ClientsStaySound, PipesStaySound, PTL

(* _onData: wherever the pipe cuts the stream, whenever the server ends and *)
(* however late an answer comes, as long as the answers were ASCII none is  *)
(* lost, and the buffer keeps less than a frame.                            *)
THEOREM AnswersStayInPlace == Spec => []AnswersInPlace
<1>1. PipesSound => AnswersInPlace
  <2> SUFFICES ASSUME PipesSound, NEW c \in Clients, c \notin garbled
               PROVE  /\ Len(buffer[c]) < Len(Frame(Notice, 0))
                      /\ server[c] = "up" => \A m \in pending[c] :
                           \/ \E i \in DOMAIN stdin[c] : stdin[c][i] = m
                           \/ \E i \in DOMAIN Stream(c) : SubSeq(Stream(c), i, i + 2) = Frame(m, 0)
    BY DEF AnswersInPlace
  <2>1. Placed(c) /\ Wire
    BY DEF PipesSound, Places
  <2>2. Len(Frame(Notice, 0)) = 3
    BY DEF Frame
  <2>3. ASSUME server[c] = "up", NEW m \in pending[c], Occurs(Body(m), Stream(c))
        PROVE  \E i \in DOMAIN Stream(c) : SubSeq(Stream(c), i, i + 2) = Frame(m, 0)
    <3>1. PICK s \in Seq(Units) : s = Stream(c) /\ Framed(s)
      BY <2>1, StreamIs DEF Placed
    <3>2. Len(s) \in Nat /\ DOMAIN s = 1 .. Len(s)
      OBVIOUS
    <3>3. PICK i \in 1 .. Len(s) : s[i] = Body(m)
      BY <2>3, <3>1, <3>2 DEF Occurs
    <3>4. m \in Requests
      BY <2>1, StreamIs
    <3>5. i % 3 = 0
      BY <3>1, <3>3, <3>4, BodyThird
    <3>6. PICK j \in 1 .. Len(s) : j + 2 = i /\ j % 3 = 1 /\ j + 1 \in 1 .. Len(s) /\ (j + 1) % 3 = 2
      <4>1. i - 2 \in 1 .. Len(s) /\ (i - 2) + 2 = i /\ (i - 2) % 3 = 1
            /\ (i - 2) + 1 \in 1 .. Len(s) /\ ((i - 2) + 1) % 3 = 2
        BY <3>2, <3>5
      <4> QED BY <4>1
    <3>7. s[j] = Length(1) /\ s[j + 1] = Blank /\ s[j + 2] = Body(m)
      BY <3>1, <3>3, <3>6 DEF Framed
    <3>8. SubSeq(s, j, j + 2) = <<s[j], s[j + 1], s[j + 2]>>
      <4>1. PICK p : p = SubSeq(s, j, j + 2)
        OBVIOUS
      <4>2. j \in Nat /\ j >= 1 /\ j + 2 <= Len(s)
        BY <3>2, <3>6
      <4>3. p \in Seq(Units) /\ Len(p) = 3 /\ p[1] = s[j] /\ p[2] = s[j + 1] /\ p[3] = s[j + 2]
        BY <3>2, <4>1, <4>2
      <4>4. \A q \in Seq(Units) : Len(q) = 3 => q = <<q[1], q[2], q[3]>>
        OBVIOUS
      <4> QED BY <4>1, <4>3, <4>4
    <3>9. SubSeq(s, j, j + 2) = Frame(m, 0)
      BY <3>7, <3>8 DEF Frame
    <3> QED BY <3>1, <3>2, <3>9
  <2>4. server[c] = "up" => \A m \in pending[c] : Occurs(m, stdin[c]) \/ Occurs(Body(m), Stream(c))
    BY <2>1 DEF Placed, Alive
  <2>5. Len(buffer[c]) < 3
    BY <2>1 DEF Placed
  <2> QED BY <2>2, <2>3, <2>4, <2>5 DEF Occurs
<1> QED BY <1>1, PipesStaySound, PTL

(* LipiLspClient implements Calls, for any number of questions and clients: *)
(* a question is settled once, with its own answer or the built-in text,    *)
(* whatever the server writes and however the pipe cuts it.                 *)
THEOREM QuestionsAreCalls == Spec => EachSettledOnce
<1>1. Init => C!Init
  BY DEF Init, C!Init
<1>2. PipesSound /\ IInv /\ [Next]_vars => Moved
  BY StepWaits DEF PipesSound, IInv
<1>3. Moved => C!Next
  BY DEF Moved, C!Next, C!Moves
<1>4. PipesSound /\ IInv /\ [Next]_vars => C!Next
  BY <1>2, <1>3
<1> QED BY <1>1, <1>4, ClientsStaySound, PipesStaySound, PTL DEF Spec, EachSettledOnce, C!Spec

-----------------------------------------------------------------------------
(* SourceLines. *)


Entry == [spaces : Nat, line : Nat]

Rising(stack) ==
    /\ stack \in Seq(Entry) /\ Len(stack) >= 1
    /\ stack[1] = Bottom
    /\ \A m, n \in DOMAIN stack : m < n => stack[m].spaces <= stack[n].spaces

Lines0(stack) == {stack[n].line : n \in DOMAIN stack} \ {0}

(* The headers above line i that all code from there to line j is inside of. *)
Opened(text, i, j) ==
    {h \in 1 .. i - 1 :
        /\ IsHead(text[h])
        /\ \A k \in h + 1 .. j : text[k].kind \notin {"blank", "note"} =>
              text[k].spaces >= text[h].spaces + BlockWidth}

-----------------------------------------------------------------------------
LEMMA AppendResult ==
    ASSUME NEW S, NEW s \in Seq(S), NEW e \in S, NEW r, r = Append(s, e)
    PROVE  /\ r \in Seq(S) /\ Len(r) = Len(s) + 1 /\ r[Len(s) + 1] = e
           /\ DOMAIN r = 1 .. Len(s) + 1 /\ DOMAIN s = 1 .. Len(s) /\ Len(s) \in Nat
           /\ \A n \in 1 .. Len(s) : r[n] = s[n]
OBVIOUS

LEMMA PrefixResult ==
    ASSUME NEW S, NEW s \in Seq(S), NEW l \in 1 .. Len(s), NEW r, r = SubSeq(s, 1, l)
    PROVE  /\ r \in Seq(S) /\ Len(r) = l /\ DOMAIN r = 1 .. l
           /\ DOMAIN s = 1 .. Len(s) /\ Len(s) \in Nat
           /\ \A n \in 1 .. l : r[n] = s[n]
OBVIOUS

(* What a line finds on the stack after its pushes and pops: the levels     *)
(* that are not deeper than itself, and at most one new one without header. *)
LEMMA IndentResult ==
    ASSUME NEW stack, Rising(stack), NEW spaces \in Nat,
           NEW before \in Indent(stack, spaces)
    PROVE  /\ Rising(before)
           /\ \A n \in DOMAIN before : before[n].spaces <= spaces
           /\ \A n \in DOMAIN before :
                 before[n].line # 0 => \E m \in DOMAIN stack : before[n] = stack[m]
           /\ \A m \in DOMAIN stack : stack[m].spaces <= spaces =>
                 \E n \in DOMAIN before : before[n] = stack[m]
           /\ Len(before) <= Len(stack) + 1
<1> DEFINE N == Len(stack)
<1>1. N \in Nat /\ N >= 1 /\ DOMAIN stack = 1 .. N /\ stack \in Seq(Entry) /\ stack[1] = Bottom
  BY DEF Rising
<1>2. \A n \in 1 .. N : stack[n] \in Entry /\ stack[n].spaces \in Nat
  <2>1. \A n \in 1 .. N : stack[n] \in Entry
    BY <1>1
  <2>2. \A e \in Entry : e.spaces \in Nat
    BY DEF Entry
  <2> QED BY <2>1, <2>2
<1>3. \A m, n \in 1 .. N : m < n => stack[m].spaces <= stack[n].spaces
  BY <1>1 DEF Rising
<1>4. Bottom \in Entry /\ Bottom.spaces = 0
  BY DEF Bottom, Entry
<1>5. CASE spaces > Top(stack).spaces
  <2> DEFINE e == [spaces |-> spaces, line |-> 0]
  <2>1. before = Append(stack, e)
    BY <1>5 DEF Indent
  <2>2. e \in Entry
    BY DEF Entry
  <2>3. /\ before \in Seq(Entry) /\ Len(before) = N + 1 /\ before[N + 1] = e
        /\ DOMAIN before = 1 .. N + 1
        /\ \A n \in 1 .. N : before[n] = stack[n]
    BY <1>1, <2>1, <2>2, AppendResult
  <2>4. \A n \in 1 .. N : stack[n].spaces <= spaces
    BY <1>1, <1>2, <1>3, <1>5 DEF Top
  <2>5. \A n \in 1 .. N + 1 : before[n].spaces <= spaces
    BY <1>1, <2>3, <2>4
  <2>6. \A m, n \in 1 .. N + 1 : m < n => before[m].spaces <= before[n].spaces
    <3> SUFFICES ASSUME NEW m \in 1 .. N + 1, NEW n \in 1 .. N + 1, m < n
                 PROVE  before[m].spaces <= before[n].spaces
      OBVIOUS
    <3>1. CASE n = N + 1
      BY <3>1, <2>3, <2>5
    <3>2. CASE n # N + 1
      BY <3>2, <1>1, <1>3, <2>3
    <3> QED BY <3>1, <3>2
  <2>7. before[1] = Bottom
    BY <1>1, <2>3
  <2>8. Rising(before)
    BY <1>1, <2>3, <2>6, <2>7 DEF Rising
  <2>9. \A n \in DOMAIN before :
           before[n].line # 0 => \E m \in DOMAIN stack : before[n] = stack[m]
    BY <1>1, <2>3
  <2>10. \A m \in DOMAIN stack : \E n \in DOMAIN before : before[n] = stack[m]
    BY <1>1, <2>3
  <2> QED BY <1>1, <2>3, <2>5, <2>8, <2>9, <2>10
<1>6. CASE spaces < Top(stack).spaces
  <2>1. PICK l \in Pop(stack, spaces) : before = SubSeq(stack, 1, l)
    BY <1>5, <1>6, <1>2, <1>1 DEF Indent, Top
  <2>2. /\ l \in 1 .. N
        /\ \A m \in l + 1 .. N : stack[m].spaces > spaces
        /\ l = 1 \/ stack[l].spaces <= spaces
    BY <2>1 DEF Pop
  <2>3. /\ before \in Seq(Entry) /\ Len(before) = l /\ DOMAIN before = 1 .. l
        /\ \A n \in 1 .. l : before[n] = stack[n]
    BY <1>1, <2>1, <2>2, PrefixResult
  <2>4. stack[l].spaces <= spaces
    BY <1>1, <1>4, <2>2
  <2>5. \A n \in 1 .. l : before[n].spaces <= spaces
    BY <1>1, <1>2, <1>3, <2>2, <2>3, <2>4
  <2>6. Rising(before)
    BY <1>1, <1>3, <2>2, <2>3 DEF Rising
  <2>7. \A m \in DOMAIN stack : stack[m].spaces <= spaces =>
           \E n \in DOMAIN before : before[n] = stack[m]
    <3> SUFFICES ASSUME NEW m \in 1 .. N, stack[m].spaces <= spaces
                 PROVE  \E n \in 1 .. l : before[n] = stack[m]
      BY <1>1, <2>3
    <3>1. m \in 1 .. l
      BY <1>1, <1>2, <2>2
    <3> QED BY <3>1, <2>3
  <2> QED BY <1>1, <2>2, <2>3, <2>5, <2>6, <2>7
<1>7. CASE spaces = Top(stack).spaces
  <2>1. before = stack
    BY <1>7 DEF Indent
  <2>2. \A n \in 1 .. N : stack[n].spaces <= spaces
    BY <1>1, <1>2, <1>3, <1>7 DEF Top
  <2> QED BY <1>1, <2>1, <2>2
<1>8. Top(stack).spaces \in Nat
  BY <1>1, <1>2 DEF Top
<1> QED BY <1>5, <1>6, <1>7, <1>8

-----------------------------------------------------------------------------

(* Every level on the stack that a header opened is the header's own indent *)
(* and a block's width.                                                     *)
Grounded(text, i, stack) ==
    \A n \in DOMAIN stack : stack[n].line # 0 =>
        /\ stack[n].line \in 1 .. i - 1
        /\ stack[n].spaces = text[stack[n].line].spaces + BlockWidth

(* The pops of a line leave the headers the line itself is inside of. *)
LEMMA HeadersLeft ==
    ASSUME NEW text \in Seq(TextLine), NEW i \in 1 .. Len(text),
           text[i].kind \notin {"blank", "note"},
           NEW stack, Rising(stack), Grounded(text, i, stack),
           Lines0(stack) = Opened(text, i, i - 1),
           NEW before \in Indent(stack, text[i].spaces)
    PROVE  Lines0(before) = Opened(text, i, i)
<1> DEFINE spaces == text[i].spaces
<1>1. /\ i \in Nat /\ spaces \in Nat
      /\ \A h \in 1 .. i - 1 : text[h].spaces \in Nat
  <2>1. \A h \in 1 .. Len(text) : text[h] \in TextLine
    OBVIOUS
  <2>2. \A t \in TextLine : t.spaces \in Nat
    BY DEF TextLine
  <2> QED BY <2>1, <2>2
<1>2. /\ Rising(before)
      /\ \A n \in DOMAIN before : before[n].spaces <= spaces
      /\ \A n \in DOMAIN before :
            before[n].line # 0 => \E m \in DOMAIN stack : before[n] = stack[m]
      /\ \A m \in DOMAIN stack : stack[m].spaces <= spaces =>
            \E n \in DOMAIN before : before[n] = stack[m]
  BY <1>1, IndentResult
<1>3. ASSUME NEW h \in Lines0(before) PROVE h \in Opened(text, i, i)
  <2>1. PICK n \in DOMAIN before : before[n].line = h /\ h # 0
    BY <1>3 DEF Lines0
  <2>2. PICK m \in DOMAIN stack : before[n] = stack[m]
    BY <1>2, <2>1
  <2>3. h \in Opened(text, i, i - 1)
    BY <2>1, <2>2 DEF Lines0
  <2>4. h \in 1 .. i - 1 /\ spaces >= text[h].spaces + BlockWidth
    BY <1>1, <1>2, <2>1, <2>2 DEF Grounded, BlockWidth
  <2> QED BY <1>1, <2>3, <2>4 DEF Opened
<1>4. ASSUME NEW h \in Opened(text, i, i) PROVE h \in Lines0(before)
  <2>1. h \in 1 .. i - 1 /\ spaces >= text[h].spaces + BlockWidth
    BY <1>1 DEF Opened
  <2>2. h \in Opened(text, i, i - 1)
    BY <1>1 DEF Opened
  <2>3. PICK m \in DOMAIN stack : stack[m].line = h /\ h # 0
    BY <2>2 DEF Lines0
  <2>4. stack[m].spaces <= spaces
    BY <1>1, <2>1, <2>3 DEF Grounded, BlockWidth
  <2>5. PICK n \in DOMAIN before : before[n] = stack[m]
    BY <1>2, <2>4
  <2> QED BY <2>3, <2>5 DEF Lines0
<1> QED BY <1>3, <1>4

(* A line of code extends the headers that are open after it by itself, if  *)
(* it is one; any other line leaves them.                                   *)
LEMMA HeadersAfter ==
    ASSUME NEW text, NEW i \in Nat \ {0}
    PROVE  /\ text[i].kind \notin {"blank", "note"} =>
                Opened(text, i + 1, i) = Opened(text, i, i)
                                         \cup (IF IsHead(text[i]) THEN {i} ELSE {})
           /\ text[i].kind \in {"blank", "note"} =>
                Opened(text, i + 1, i) = Opened(text, i, i - 1)
<1>1. (i + 1) - 1 = i /\ 1 .. i = (1 .. i - 1) \cup {i} /\ i \notin 1 .. i - 1
  OBVIOUS
<1>2. i + 1 .. i = {}
  OBVIOUS
<1>3. \A h \in 1 .. i - 1 : h + 1 .. i = (h + 1 .. i - 1) \cup {i}
  OBVIOUS
<1>4. ASSUME text[i].kind \in {"blank", "note"}
      PROVE  Opened(text, i + 1, i) = Opened(text, i, i - 1)
  <2>1. ~IsHead(text[i])
    BY <1>4 DEF IsHead
  <2> QED BY <1>1, <1>3, <1>4, <2>1 DEF Opened
<1>5. Opened(text, i + 1, i) = Opened(text, i, i) \cup (IF IsHead(text[i]) THEN {i} ELSE {})
  BY <1>1, <1>2 DEF Opened
<1> QED BY <1>4, <1>5

NoneDeeper(stack, spaces) == \A n \in DOMAIN stack : stack[n].spaces <= spaces

HeadEntry(text, i) == [spaces |-> text[i].spaces + BlockWidth, line |-> i]

(* What the header of a block pushes. *)
LEMMA HeadPushed ==
    ASSUME NEW text \in Seq(TextLine), NEW i \in 1 .. Len(text),
           NEW before, Rising(before), Grounded(text, i, before),
           NoneDeeper(before, text[i].spaces),
           NEW after, after = Append(before, HeadEntry(text, i))
    PROVE  /\ Rising(after) /\ Len(after) = Len(before) + 1
           /\ Grounded(text, i + 1, after)
           /\ Lines0(after) = Lines0(before) \cup {i}
<1> DEFINE e == HeadEntry(text, i)
           N == Len(before)
<1>1. text[i].spaces \in Nat
  <2>1. text[i] \in TextLine
    OBVIOUS
  <2> QED BY <2>1 DEF TextLine
<1>2. e \in Entry /\ e.line = i /\ e.spaces = text[i].spaces + BlockWidth /\ i # 0 /\ i \in Nat
  BY <1>1 DEF Entry, BlockWidth, HeadEntry
<1>3. before \in Seq(Entry) /\ N >= 1 /\ before[1] = Bottom
  BY DEF Rising
<1>4. /\ after \in Seq(Entry) /\ Len(after) = N + 1 /\ after[N + 1] = e
      /\ DOMAIN after = 1 .. N + 1 /\ DOMAIN before = 1 .. N /\ N \in Nat
      /\ \A n \in 1 .. N : after[n] = before[n]
  BY <1>2, <1>3, AppendResult
<1>5. \A n \in 1 .. N : before[n].spaces \in Nat
  <2>1. \A n \in 1 .. N : before[n] \in Entry
    BY <1>3, <1>4
  <2>2. \A x \in Entry : x.spaces \in Nat
    BY DEF Entry
  <2> QED BY <2>1, <2>2
<1>6. \A m, n \in 1 .. N : m < n => before[m].spaces <= before[n].spaces
  BY <1>4 DEF Rising
<1>7. \A m, n \in 1 .. N + 1 : m < n => after[m].spaces <= after[n].spaces
  <2> SUFFICES ASSUME NEW m \in 1 .. N + 1, NEW n \in 1 .. N + 1, m < n
               PROVE  after[m].spaces <= after[n].spaces
    OBVIOUS
  <2>1. CASE n = N + 1
    <3>1. m \in 1 .. N /\ after[m] = before[m] /\ before[m].spaces <= text[i].spaces
      BY <1>4, <2>1 DEF NoneDeeper
    <3> QED BY <1>1, <1>2, <1>4, <1>5, <2>1, <3>1 DEF BlockWidth
  <2>2. CASE n # N + 1
    BY <1>4, <1>6, <2>2
  <2> QED BY <2>1, <2>2
<1>8. Rising(after)
  BY <1>3, <1>4, <1>7 DEF Rising
<1>9. Grounded(text, i + 1, after)
  <2> SUFFICES ASSUME NEW n \in 1 .. N + 1, after[n].line # 0
               PROVE  /\ after[n].line \in 1 .. (i + 1) - 1
                      /\ after[n].spaces = text[after[n].line].spaces + BlockWidth
    BY <1>4 DEF Grounded
  <2>1. CASE n = N + 1
    BY <1>2, <1>4, <2>1
  <2>2. CASE n # N + 1
    BY <1>2, <1>4, <2>2 DEF Grounded
  <2> QED BY <2>1, <2>2
<1>10. Lines0(after) = Lines0(before) \cup {i}
  BY <1>2, <1>4 DEF Lines0
<1> QED BY <1>4, <1>8, <1>9, <1>10

-----------------------------------------------------------------------------
(* The inductive invariant: the counts, and what the stack stands for. *)
Counted ==
    /\ opened \in Nat /\ closed \in Int
    /\ opened - closed = Len(indentStack) - 1
    /\ pass # "run" => opened = closed

LinesPlaced ==
    /\ pass = "run" => /\ Grounded(source, at, indentStack)
                       /\ Lines0(indentStack) = Opened(source, at, at - 1)
    /\ DOMAIN within = DOMAIN source
    /\ RunsWhereIndented

LinesInv == /\ source \in Seq(TextLine) /\ at \in Nat \ {0}
        /\ Rising(indentStack)
        /\ Counted
        /\ LinesPlaced

LEMMA BottomRises == /\ Rising(<<Bottom>>) /\ Len(<<Bottom>>) = 1
                     /\ Lines0(<<Bottom>>) = {}
                     /\ \A text, i : Grounded(text, i, <<Bottom>>)
<1>1. Bottom \in Entry /\ Bottom.line = 0
  BY DEF Bottom, Entry
<1>2. /\ <<Bottom>> \in Seq(Entry) /\ Len(<<Bottom>>) = 1 /\ DOMAIN <<Bottom>> = {1}
      /\ <<Bottom>>[1] = Bottom
  BY <1>1
<1> QED BY <1>1, <1>2 DEF Rising, Lines0, Grounded

LEMMA LinesStart == LinesInit => LinesInv
<1> SUFFICES ASSUME LinesInit PROVE LinesInv
  OBVIOUS
<1>1. source \in Seq(TextLine) /\ at = 1 /\ pass = "run" /\ indentStack = <<Bottom>>
  BY SourceAssumption DEF LinesInit, TextLine
<1>2. Rising(indentStack) /\ Grounded(source, at, indentStack)
  BY <1>1, BottomRises
<1>3. Counted
  BY <1>1, BottomRises DEF Counted, LinesInit
<1>4. Lines0(indentStack) = Opened(source, at, at - 1)
  BY <1>1, BottomRises DEF Opened
<1>5. DOMAIN within = DOMAIN source /\ RunsWhereIndented
  BY <1>1 DEF LinesInit, RunsWhereIndented
<1> QED BY <1>1, <1>2, <1>3, <1>4, <1>5 DEF LinesInv, LinesPlaced

(* The braces a line writes are what it adds to the stack or takes from it. *)
LEMMA CountStep ==
    ASSUME NEW o \in Nat, NEW c \in Int, NEW s \in Nat, NEW b \in Nat, NEW h \in 0 .. 1,
           o - c = s - 1, b <= s + 1,
           NEW o2, o2 = o + (IF b > s THEN 1 ELSE 0) + h,
           NEW c2, c2 = c + (IF b < s THEN s - b ELSE 0)
    PROVE  o2 \in Nat /\ c2 \in Int /\ o2 - c2 = (b + h) - 1
<1>1. CASE b > s
  <2>1. o2 = o + 1 + h /\ c2 = c /\ b = s + 1
    BY <1>1
  <2> QED BY <2>1
<1>2. CASE b < s
  <2>1. o2 = o + h /\ c2 = c + (s - b)
    BY <1>2
  <2> QED BY <2>1
<1>3. CASE b = s
  <2>1. o2 = o + h /\ c2 = c
    BY <1>3
  <2> QED BY <1>3, <2>1
<1> QED BY <1>1, <1>2, <1>3

(* RunLine on a line of code, once its pops and pushes are chosen. *)
StackMoves(before) ==
    indentStack' = IF IsHead(Line)
       THEN Append(before, [spaces |-> Line.spaces + BlockWidth, line |-> at])
       ELSE before

BracesMove(before) ==
    /\ opened' = opened + (IF Len(before) > Len(indentStack) THEN 1 ELSE 0)
                        + (IF IsHead(Line) THEN 1 ELSE 0)
    /\ closed' = closed + (IF Len(before) < Len(indentStack)
                           THEN Len(indentStack) - Len(before) ELSE 0)

LineIsPlaced(before) ==
    within' = [within EXCEPT ![at] = {before[n].line : n \in 1 .. Len(before)} \ {0}]

LEMMA CodeLineKeeps ==
    ASSUME LinesInv, pass = "run", NextLine, Line.kind \notin {"blank", "note"},
           NEW before, before \in Indent(indentStack, Line.spaces),
           StackMoves(before), BracesMove(before), LineIsPlaced(before)
    PROVE  LinesInv'
<1>1. /\ source \in Seq(TextLine) /\ at \in 1 .. Len(source) /\ at \in Nat \ {0}
      /\ source' = source /\ at' = at + 1 /\ pass' = "run"
      /\ DOMAIN source = 1 .. Len(source)
  BY DEF LinesInv, NextLine
<1>2. Line.spaces \in Nat
  <2>1. Line \in TextLine
    BY <1>1 DEF Line
  <2> QED BY <2>1 DEF TextLine
<1>3. /\ Rising(indentStack) /\ Grounded(source, at, indentStack)
      /\ Lines0(indentStack) = Opened(source, at, at - 1)
      /\ opened \in Nat /\ closed \in Int /\ opened - closed = Len(indentStack) - 1
  BY DEF LinesInv, LinesPlaced, Counted
<1>4. /\ Rising(before)
      /\ \A n \in DOMAIN before : before[n].spaces <= Line.spaces
      /\ \A n \in DOMAIN before :
            before[n].line # 0 => \E m \in DOMAIN indentStack : before[n] = indentStack[m]
      /\ Len(before) <= Len(indentStack) + 1
  BY <1>2, <1>3, IndentResult
<1>5. Lines0(before) = Opened(source, at, at)
  BY <1>1, <1>3, HeadersLeft DEF Line
<1>6. Grounded(source, at, before)
  BY <1>3, <1>4 DEF Grounded
<1>7. /\ Len(before) \in Nat /\ DOMAIN before = 1 .. Len(before) /\ Len(indentStack) \in Nat
      /\ before \in Seq(Entry)
  BY <1>3, <1>4 DEF Rising
<1>8. /\ Rising(indentStack') /\ Grounded(source, at + 1, indentStack')
      /\ Lines0(indentStack') = Lines0(before) \cup (IF IsHead(Line) THEN {at} ELSE {})
      /\ Len(indentStack') = Len(before) + (IF IsHead(Line) THEN 1 ELSE 0)
  <2>1. CASE IsHead(Line)
    <3>1. indentStack' = Append(before, HeadEntry(source, at))
      BY <2>1 DEF Line, StackMoves, HeadEntry
    <3>2. NoneDeeper(before, source[at].spaces)
      BY <1>4 DEF Line, NoneDeeper
    <3>3. /\ Rising(indentStack') /\ Len(indentStack') = Len(before) + 1
          /\ Grounded(source, at + 1, indentStack')
          /\ Lines0(indentStack') = Lines0(before) \cup {at}
      <4>1. /\ source \in Seq(TextLine) /\ at \in 1 .. Len(source)
            /\ Rising(before) /\ Grounded(source, at, before)
        BY <1>1, <1>4, <1>6
      <4>2. \A after : after = Append(before, HeadEntry(source, at)) =>
               /\ Rising(after) /\ Len(after) = Len(before) + 1
               /\ Grounded(source, at + 1, after)
               /\ Lines0(after) = Lines0(before) \cup {at}
        BY <3>2, <4>1, HeadPushed
      <4>3. PICK after : after = indentStack'
        OBVIOUS
      <4> QED BY <3>1, <4>2, <4>3
    <3> QED BY <2>1, <3>3
  <2>2. CASE ~IsHead(Line)
    <3>1. indentStack' = before
      BY <2>2 DEF StackMoves
    <3>2. Grounded(source, at + 1, before)
      BY <1>1, <1>6 DEF Grounded
    <3> QED BY <1>4, <1>7, <2>2, <3>1, <3>2
  <2> QED BY <2>1, <2>2
<1>9. Lines0(indentStack') = Opened(source, at + 1, at)
  <2>1. Opened(source, at + 1, at) =
           Opened(source, at, at) \cup (IF IsHead(source[at]) THEN {at} ELSE {})
    BY <1>1, HeadersAfter DEF Line
  <2> QED BY <1>5, <1>8, <2>1 DEF Line
<1>10. Counted'
  <2>1. PICK b : b = Len(before)
    OBVIOUS
  <2>2. PICK s : s = Len(indentStack)
    OBVIOUS
  <2>3. PICK h : h = (IF IsHead(Line) THEN 1 ELSE 0)
    OBVIOUS
  <2>4. b \in Nat /\ s \in Nat /\ h \in 0 .. 1 /\ b <= s + 1 /\ opened - closed = s - 1
    BY <1>3, <1>4, <1>7, <2>1, <2>2, <2>3
  <2>5. /\ opened' = opened + (IF b > s THEN 1 ELSE 0) + h
        /\ closed' = closed + (IF b < s THEN s - b ELSE 0)
    BY <2>1, <2>2, <2>3 DEF BracesMove
  <2>6. opened' \in Nat /\ closed' \in Int /\ opened' - closed' = (b + h) - 1
    BY <1>3, <2>4, <2>5, CountStep
  <2>7. Len(indentStack') = b + h
    BY <1>8, <2>1, <2>3
  <2> QED BY <1>1, <2>6, <2>7 DEF Counted
<1>11. RunsWhereIndented'
  <2>1. Around(at) = Lines0(before)
    BY <1>5 DEF Around, Opened, Code
  <2>2. /\ DOMAIN within = DOMAIN source
        /\ \A i \in DOMAIN source : Code(i) /\ i < at => within[i] = Around(i)
    BY DEF LinesInv, LinesPlaced, RunsWhereIndented
  <2>3. within'[at] = Lines0(before)
    BY <1>1, <1>7, <2>2 DEF Lines0, LineIsPlaced
  <2>4. \A i \in DOMAIN source : i # at => within'[i] = within[i]
    BY <2>2 DEF LineIsPlaced
  <2>5. \A i \in DOMAIN source : Code(i) /\ i < at + 1 => within'[i] = Around(i)
    BY <1>1, <2>1, <2>2, <2>3, <2>4
  <2>6. \A i : (Around(i)' = Around(i)) /\ (Code(i)' <=> Code(i))
    BY <1>1 DEF Around, Code
  <2> QED BY <1>1, <2>5, <2>6 DEF RunsWhereIndented
<1>12. LinesPlaced'
  <2>1. DOMAIN within' = DOMAIN source'
    BY <1>1 DEF LinesInv, LinesPlaced, LineIsPlaced
  <2> QED BY <1>1, <1>8, <1>9, <1>11, <2>1 DEF LinesPlaced
<1> QED BY <1>1, <1>8, <1>10, <1>12 DEF LinesInv

(* A line that is blank or a comment. *)
LEMMA BlankLineKeeps ==
    ASSUME LinesInv, pass = "run", NextLine, Line.kind \in {"blank", "note"}, UNCHANGED running
    PROVE  LinesInv'
<1>1. /\ source' = source /\ pass' = pass /\ at \in Nat \ {0} /\ at' = at + 1
      /\ indentStack' = indentStack /\ within' = within
      /\ opened' = opened /\ closed' = closed
  BY DEF LinesInv, NextLine, running
<1>2. /\ Grounded(source, at, indentStack) /\ Rising(indentStack)
      /\ Lines0(indentStack) = Opened(source, at, at - 1)
      /\ \A i \in DOMAIN source : Code(i) /\ i < at => within[i] = Around(i)
  BY DEF LinesInv, LinesPlaced, RunsWhereIndented
<1>3. Grounded(source, at + 1, indentStack)
  BY <1>1, <1>2 DEF Grounded
<1>4. Lines0(indentStack) = Opened(source, at + 1, at)
  BY <1>1, <1>2, HeadersAfter DEF Line
<1>5. RunsWhereIndented'
  <2>1. \A i : (Around(i)' = Around(i)) /\ (Code(i)' <=> Code(i))
    BY <1>1 DEF Around, Code
  <2>2. DOMAIN source = 1 .. Len(source)
    BY DEF LinesInv
  <2>3. ~Code(at)
    BY DEF Code, Line
  <2>4. \A i \in DOMAIN source : Code(i) /\ i < at + 1 => within[i] = Around(i)
    BY <1>1, <1>2, <2>2, <2>3
  <2> QED BY <1>1, <2>1, <2>4 DEF RunsWhereIndented
<1>6. LinesPlaced'
  <2>1. DOMAIN within' = DOMAIN source'
    BY <1>1 DEF LinesInv, LinesPlaced
  <2> QED BY <1>1, <1>3, <1>4, <1>5, <2>1 DEF LinesPlaced
<1>7. Counted' /\ Rising(indentStack')
  BY <1>1, <1>2 DEF LinesInv, Counted
<1> QED BY <1>1, <1>6, <1>7 DEF LinesInv

LEMMA RunLineKeeps == LinesInv /\ RunLine => LinesInv'
<1> SUFFICES ASSUME LinesInv, RunLine PROVE LinesInv'
  OBVIOUS
<1>1. pass = "run" /\ NextLine
  BY DEF RunLine
<1>2. CASE Line.kind \in {"blank", "note"} /\ UNCHANGED running
  BY <1>1, <1>2, BlankLineKeeps
<1>3. CASE Line.kind \notin {"blank", "note"}
  <2>1. PICK before : /\ before \in Indent(indentStack, Line.spaces)
                      /\ StackMoves(before) /\ BracesMove(before) /\ LineIsPlaced(before)
    BY <1>3 DEF RunLine, StackMoves, BracesMove, LineIsPlaced
  <2> QED BY <1>1, <1>3, <2>1, CodeLineKeeps
<1> QED BY <1>2, <1>3 DEF RunLine

(* The end of the pass writes the braces that are still missing. *)
LEMMA RunEndsKeeps == LinesInv /\ RunEnds => LinesInv'
<1> SUFFICES ASSUME LinesInv, RunEnds PROVE LinesInv'
  OBVIOUS
<1>1. /\ pass = "run" /\ pass' = "lint" /\ at > Len(source) /\ at' = 1
      /\ source' = source /\ indentStack' = <<Bottom>>
      /\ closed' = closed + Len(indentStack) - 1
      /\ opened' = opened /\ within' = within
  BY DEF RunEnds, NextPass
<1>2. /\ source \in Seq(TextLine) /\ DOMAIN source = 1 .. Len(source)
      /\ Len(source) \in Nat /\ at \in Nat
  BY DEF LinesInv
<1>3. RunsWhereIndented'
  <2>1. \A i : (Around(i)' = Around(i)) /\ (Code(i)' <=> Code(i))
    BY <1>1 DEF Around, Code
  <2>2. \A i \in DOMAIN source : i < at
    BY <1>1, <1>2
  <2>3. \A i \in DOMAIN source : Code(i) => within[i] = Around(i)
    BY <2>2 DEF LinesInv, LinesPlaced, RunsWhereIndented
  <2> QED BY <1>1, <2>1, <2>3 DEF RunsWhereIndented
<1>4. LinesPlaced'
  <2>1. DOMAIN within' = DOMAIN source'
    BY <1>1 DEF LinesInv, LinesPlaced
  <2> QED BY <1>1, <1>3, <2>1 DEF LinesPlaced
<1>5. Counted'
  <2>1. PICK n : n = Len(indentStack)
    OBVIOUS
  <2>2. n \in Nat /\ opened \in Nat /\ closed \in Int /\ opened - closed = n - 1
    BY <2>1 DEF LinesInv, Counted, Rising
  <2>3. closed' = closed + n - 1
    BY <1>1, <2>1
  <2>4. closed' \in Int /\ opened = closed'
    BY <2>2, <2>3
  <2>5. Len(indentStack') = 1
    BY <1>1, BottomRises
  <2>6. opened' - closed' = 1 - 1
    BY <1>1, <2>2, <2>4
  <2> QED BY <1>1, <2>2, <2>4, <2>5, <2>6 DEF Counted
<1>6. Rising(indentStack')
  BY <1>1, BottomRises
<1> QED BY <1>1, <1>2, <1>4, <1>5, <1>6 DEF LinesInv

(* The linter and the formatter leave the transformer's result alone. *)
LEMMA OthersKeep == LinesInv /\ (LintLine \/ LintEnds \/ FormatLine \/ FormatEnds) => LinesInv'
<1> SUFFICES ASSUME LinesInv, LintLine \/ LintEnds \/ FormatLine \/ FormatEnds PROVE LinesInv'
  OBVIOUS
<1>1. /\ pass # "run" /\ pass' # "run" /\ source' = source /\ at' \in Nat \ {0}
      /\ UNCHANGED running
  BY DEF LinesInv, LintLine, LintEnds, FormatLine, FormatEnds, NextLine, NextPass
<1>2. /\ indentStack' = indentStack /\ within' = within
      /\ opened' = opened /\ closed' = closed
  BY <1>1 DEF running
<1>3. RunsWhereIndented'
  <2>1. \A i : (Around(i)' = Around(i)) /\ (Code(i)' <=> Code(i))
    BY <1>1 DEF Around, Code
  <2> QED BY <1>1, <1>2, <2>1 DEF LinesInv, LinesPlaced, RunsWhereIndented
<1>4. LinesPlaced'
  <2>1. DOMAIN within' = DOMAIN source'
    BY <1>1, <1>2 DEF LinesInv, LinesPlaced
  <2> QED BY <1>1, <1>3, <2>1 DEF LinesPlaced
<1>5. Counted' /\ Rising(indentStack')
  BY <1>1, <1>2 DEF LinesInv, Counted
<1> QED BY <1>1, <1>4, <1>5 DEF LinesInv

LEMMA LinesKeep == LinesInv /\ [LinesNext]_lineVars => LinesInv'
<1> SUFFICES ASSUME LinesInv, [LinesNext]_lineVars PROVE LinesInv'
  OBVIOUS
<1>1. CASE UNCHANGED lineVars
  <2>1. /\ source' = source /\ at' = at /\ pass' = pass /\ indentStack' = indentStack
        /\ within' = within /\ opened' = opened /\ closed' = closed
    BY <1>1 DEF lineVars, running
  <2>2. \A i : (Around(i)' = Around(i)) /\ (Code(i)' <=> Code(i))
    BY <2>1 DEF Around, Code
  <2>3. RunsWhereIndented'
    BY <2>1, <2>2 DEF LinesInv, LinesPlaced, RunsWhereIndented
  <2>4. LinesPlaced'
    BY <2>1, <2>3 DEF LinesInv, LinesPlaced
  <2>5. Counted'
    BY <2>1 DEF LinesInv, Counted
  <2> QED BY <2>1, <2>4, <2>5 DEF LinesInv
<1> QED BY <1>1, RunLineKeeps, RunEndsKeeps, OthersKeep DEF LinesNext

(* The invariant the two results below are read off from. *)
THEOREM StackIsIndentation == LinesSpec => []LinesInv
<1> QED BY LinesStart, LinesKeep, PTL DEF LinesSpec

(* LipiVirtualSilicon.run: for every text, the braces it writes are         *)
(* balanced when it ends, never close more than they opened, and the stack  *)
(* of levels is what is open, rising from the bottom.                       *)
THEOREM BracesStayBalanced == LinesSpec => []BracesBalanced
<1>1. LinesInv => BracesBalanced
  BY DEF LinesInv, Counted, Rising, BracesBalanced
<1> QED BY <1>1, StackIsIndentation, PTL

(* LipiVirtualSilicon.run: in every text, each line of code runs inside     *)
(* exactly the blocks it is indented under by a block's width or more.      *)
THEOREM LinesRunWhereIndented == LinesSpec => []RunsWhereIndented
<1>1. LinesInv => RunsWhereIndented
  BY DEF LinesInv, LinesPlaced
<1> QED BY <1>1, StackIsIndentation, PTL

-----------------------------------------------------------------------------
(* The linter and the formatter: how many directives are open.              *)

Lines(text, kind, i, j) == {k \in i .. j : text[k].kind = kind}
Balance(text, i, j) ==
    Cardinality(Lines(text, "open", i, j)) - Cardinality(Lines(text, "end", i, j))

LEMMA LinesStep ==
    ASSUME NEW text, NEW kind, NEW i \in Nat, NEW j \in Nat, i <= j + 1
    PROVE  /\ IsFiniteSet(Lines(text, kind, i, j))
           /\ Cardinality(Lines(text, kind, i, j)) \in Nat
           /\ Cardinality(Lines(text, kind, i, j + 1)) =
                 Cardinality(Lines(text, kind, i, j)) + (IF text[j + 1].kind = kind THEN 1 ELSE 0)
<1> DEFINE S == Lines(text, kind, i, j)
<1>1. IsFiniteSet(S)
  <2>1. IsFiniteSet(i .. j)
    BY FS_Interval
  <2>2. S \subseteq i .. j
    BY DEF Lines
  <2> QED BY <2>1, <2>2, FS_Subset
<1>2. Cardinality(S) \in Nat
  BY <1>1, FS_CardinalityType
<1>3. j + 1 \notin S /\ \A k : k \in i .. j + 1 <=> k \in i .. j \/ k = j + 1
  BY DEF Lines
<1>4. CASE text[j + 1].kind = kind
  <2>1. Lines(text, kind, i, j + 1) = S \cup {j + 1}
    BY <1>3, <1>4 DEF Lines
  <2>2. Cardinality(S \cup {j + 1}) = Cardinality(S) + 1
    BY <1>1, <1>3, FS_AddElement
  <2> QED BY <1>1, <1>2, <1>4, <2>1, <2>2
<1>5. CASE text[j + 1].kind # kind
  <2>1. Lines(text, kind, i, j + 1) = S
    BY <1>3, <1>5 DEF Lines
  <2> QED BY <1>1, <1>2, <1>5, <2>1
<1> QED BY <1>4, <1>5

(* A line changes the balance by what it opens or closes. *)
LEMMA BalanceStep ==
    ASSUME NEW text, NEW i \in Nat, NEW j \in Nat, i <= j + 1
    PROVE  /\ Balance(text, i, j) \in Int
           /\ Balance(text, i, j + 1) = Balance(text, i, j)
                 + (IF text[j + 1].kind = "open" THEN 1 ELSE IF text[j + 1].kind = "end" THEN -1 ELSE 0)
BY LinesStep DEF Balance

LEMMA PrefixStep ==
    ASSUME NEW text, NEW j \in Nat
    PROVE  /\ Balance(text, 1, j) \in Int
           /\ Balance(text, 1, j + 1) = Balance(text, 1, j)
                 + (IF text[j + 1].kind = "open" THEN 1 ELSE IF text[j + 1].kind = "end" THEN -1 ELSE 0)
<1>1. 1 \in Nat /\ 1 <= j + 1
  OBVIOUS
<1> QED BY <1>1, BalanceStep

LEMMA BalanceNone ==
    ASSUME NEW text, NEW i \in Nat \ {0}
    PROVE  Balance(text, i, i - 1) = 0
<1>1. \A kind : Lines(text, kind, i, i - 1) = {}
  BY DEF Lines
<1> QED BY <1>1, FS_EmptySet DEF Balance

(* Line i opens a directive that line j closes, of the text alone. *)
Matches(text, j, i) ==
    /\ text[i].kind = "open" /\ text[j].kind = "end" /\ i < j
    /\ Balance(text, i, j) = 0
    /\ \A k \in i .. j - 1 : Balance(text, i, k) > 0

LEMMA ClosesIsMatches ==
    ASSUME NEW i \in Nat \ {0}, NEW j \in Nat \ {0}
    PROVE  Closes(j, i) <=> Matches(source, j, i)
<1>1. ASSUME NEW k \in Nat, i <= k
      PROVE  /\ Count("open", i, k) \in Nat /\ Count("end", i, k) \in Nat
             /\ Balance(source, i, k) = Count("open", i, k) - Count("end", i, k)
  <2>1. /\ Count("open", i, k) = Cardinality(Lines(source, "open", i, k))
        /\ Count("end", i, k) = Cardinality(Lines(source, "end", i, k))
    BY DEF Count, Lines
  <2>2. \A kind : Cardinality(Lines(source, kind, i, k)) \in Nat
    BY <1>1, LinesStep
  <2> QED BY <2>1, <2>2 DEF Balance
<1>2. i < j => /\ j \in Nat /\ i <= j
               /\ \A k \in i .. j - 1 : k \in Nat /\ i <= k
  OBVIOUS
<1>3. ASSUME i < j PROVE Count("open", i, j) = Count("end", i, j) <=> Balance(source, i, j) = 0
  BY <1>1, <1>2, <1>3
<1>4. ASSUME i < j, NEW k \in i .. j - 1
      PROVE  Count("open", i, k) > Count("end", i, k) <=> Balance(source, i, k) > 0
  BY <1>1, <1>2, <1>4
<1> QED BY <1>3, <1>4 DEF Closes, Matches

-----------------------------------------------------------------------------
(* What the linter's stack is, when the next line is a: the directives open *)
(* there, each with those above it in between; every other one is closed.   *)
Blocks(text, a, stack) ==
    /\ stack \in Seq(Nat \ {0})
    /\ \A n \in 1 .. Len(stack) :
          /\ stack[n] < a /\ text[stack[n]].kind = "open"
          /\ Balance(text, stack[n], a - 1) = Len(stack) - n + 1
          /\ \A k \in stack[n] .. a - 1 : Balance(text, stack[n], k) > 0
    /\ \A i \in 1 .. a - 1 : text[i].kind = "open" =>
          (\E n \in 1 .. Len(stack) : stack[n] = i) \/ (\E j \in 1 .. a - 1 : Matches(text, j, i))

(* The lines reported so far close nothing. *)
Reported(text, a, lines) ==
    lines = {j \in 1 .. a - 1 : text[j].kind = "end" /\ \A i \in 1 .. j : ~Matches(text, j, i)}

(* Without a report, the balance of the text is the height of the stack and *)
(* was never below zero.                                                    *)
Clean(text, a, stack, lines) ==
    lines = {} => /\ Balance(text, 1, a - 1) = Len(stack)
                  /\ \A k \in 0 .. a - 1 : Balance(text, 1, k) >= 0

Linted(text, a, stack, lines) ==
    Blocks(text, a, stack) /\ Reported(text, a, lines) /\ Clean(text, a, stack, lines)

LEMMA LintStarts == ASSUME NEW text PROVE Linted(text, 1, <<>>, {})
<1>1. <<>> \in Seq(Nat \ {0}) /\ Len(<<>>) = 0
  OBVIOUS
<1>2. Balance(text, 1, 0) = 0
  BY BalanceNone
<1>3. Blocks(text, 1, <<>>)
  BY <1>1 DEF Blocks
<1>4. Reported(text, 1, {})
  BY DEF Reported
<1>5. Clean(text, 1, <<>>, {})
  BY <1>1, <1>2 DEF Clean
<1> QED BY <1>3, <1>4, <1>5 DEF Linted

(* A line that opens and closes nothing. *)
LEMMA LintOther ==
    ASSUME NEW text, NEW a \in Nat \ {0}, NEW stack, NEW lines, Linted(text, a, stack, lines),
           text[a].kind \notin {"open", "end"}
    PROVE  Linted(text, a + 1, stack, lines)
<1>1. \A i \in 1 .. a : Balance(text, i, a) = Balance(text, i, a - 1)
  <2> SUFFICES ASSUME NEW i \in 1 .. a PROVE Balance(text, i, a) = Balance(text, i, a - 1)
    OBVIOUS
  <2>1. i \in Nat /\ a - 1 \in Nat /\ i <= (a - 1) + 1 /\ (a - 1) + 1 = a
    OBVIOUS
  <2> QED BY <2>1, BalanceStep
<1>2. stack \in Seq(Nat \ {0}) /\ Len(stack) \in Nat
      /\ \A n \in 1 .. Len(stack) : stack[n] \in 1 .. a
  BY DEF Linted, Blocks
<1>3. \A i : i \in 1 .. a <=> i \in 1 .. a - 1 \/ i = a
  OBVIOUS
<1>4. Blocks(text, a + 1, stack)
  <2>1. ASSUME NEW n \in 1 .. Len(stack)
        PROVE  /\ stack[n] < a + 1 /\ text[stack[n]].kind = "open"
               /\ Balance(text, stack[n], a) = Len(stack) - n + 1
               /\ \A k \in stack[n] .. a : Balance(text, stack[n], k) > 0
    <3>1. /\ stack[n] < a /\ text[stack[n]].kind = "open"
          /\ Balance(text, stack[n], a - 1) = Len(stack) - n + 1
          /\ \A k \in stack[n] .. a - 1 : Balance(text, stack[n], k) > 0
      BY DEF Linted, Blocks
    <3>2. Balance(text, stack[n], a) = Len(stack) - n + 1 /\ Len(stack) - n + 1 > 0
      BY <1>1, <1>2, <3>1
    <3>3. \A k \in stack[n] .. a : k \in stack[n] .. a - 1 \/ k = a
      BY <1>2
    <3> QED BY <1>2, <3>1, <3>2, <3>3
  <2>2. \A i \in 1 .. a : text[i].kind = "open" =>
          (\E n \in 1 .. Len(stack) : stack[n] = i) \/ (\E j \in 1 .. a : Matches(text, j, i))
    BY <1>3 DEF Linted, Blocks
  <2>3. (a + 1) - 1 = a
    OBVIOUS
  <2> QED BY <1>2, <2>1, <2>2, <2>3 DEF Blocks
<1>5. Reported(text, a + 1, lines)
  <2>1. (a + 1) - 1 = a
    OBVIOUS
  <2> QED BY <1>3, <2>1 DEF Linted, Reported
<1>6. Clean(text, a + 1, stack, lines)
  <2>1. \A k \in 0 .. a : k \in 0 .. a - 1 \/ k = a
    OBVIOUS
  <2>2. (a + 1) - 1 = a /\ 1 \in 1 .. a
    OBVIOUS
  <2> QED BY <1>1, <1>2, <2>1, <2>2 DEF Linted, Clean
<1> QED BY <1>4, <1>5, <1>6 DEF Linted

(* @fn, @if, @while, @struct: the line goes on the stack. *)
LEMMA LintOpens ==
    ASSUME NEW text, NEW a \in Nat \ {0}, NEW stack, NEW lines, Linted(text, a, stack, lines),
           text[a].kind = "open", NEW after, after = Append(stack, a)
    PROVE  Linted(text, a + 1, after, lines)
<1>1. \A i \in 1 .. a : Balance(text, i, a) = Balance(text, i, a - 1) + 1
                        /\ Balance(text, i, a - 1) \in Int
  <2> SUFFICES ASSUME NEW i \in 1 .. a
               PROVE  Balance(text, i, a) = Balance(text, i, a - 1) + 1
                      /\ Balance(text, i, a - 1) \in Int
    OBVIOUS
  <2>1. i \in Nat /\ a - 1 \in Nat /\ i <= (a - 1) + 1 /\ (a - 1) + 1 = a
    OBVIOUS
  <2> QED BY <2>1, BalanceStep
<1>2. PICK N \in Nat : N = Len(stack) /\ stack \in Seq(Nat \ {0})
  BY DEF Linted, Blocks
<1>3. /\ after \in Seq(Nat \ {0}) /\ Len(after) = N + 1 /\ after[N + 1] = a
      /\ \A n \in 1 .. N : after[n] = stack[n]
  BY <1>2, AppendResult
<1>4. \A i : i \in 1 .. a <=> i \in 1 .. a - 1 \/ i = a
  OBVIOUS
<1>5. (a + 1) - 1 = a
  OBVIOUS
<1>6. Balance(text, a, a) = 1
  BY <1>1, BalanceNone
<1>7. Blocks(text, a + 1, after)
  <2>1. ASSUME NEW n \in 1 .. N + 1
        PROVE  /\ after[n] < a + 1 /\ text[after[n]].kind = "open"
               /\ Balance(text, after[n], a) = (N + 1) - n + 1
               /\ \A k \in after[n] .. a : Balance(text, after[n], k) > 0
    <3>1. CASE n = N + 1
      <4>1. \A k \in a .. a : k = a
        OBVIOUS
      <4> QED BY <1>2, <1>3, <1>6, <3>1, <4>1
    <3>2. CASE n # N + 1
      <4>1. n \in 1 .. N /\ after[n] = stack[n]
        BY <1>2, <1>3, <3>2
      <4>2. /\ stack[n] < a /\ text[stack[n]].kind = "open"
            /\ Balance(text, stack[n], a - 1) = N - n + 1
            /\ \A k \in stack[n] .. a - 1 : Balance(text, stack[n], k) > 0
        BY <1>2, <4>1 DEF Linted, Blocks
      <4>3. stack[n] \in 1 .. a
        BY <1>2, <4>1, <4>2
      <4>4. Balance(text, stack[n], a) = (N + 1) - n + 1 /\ (N + 1) - n + 1 > 0
        <5>1. Balance(text, stack[n], a) = Balance(text, stack[n], a - 1) + 1
          BY <1>1, <4>3
        <5>2. Balance(text, stack[n], a) = (N - n + 1) + 1
          BY <4>2, <5>1
        <5> QED BY <1>2, <4>1, <5>2
      <4>5. \A k \in stack[n] .. a : k \in stack[n] .. a - 1 \/ k = a
        BY <4>3
      <4> QED BY <4>1, <4>2, <4>3, <4>4, <4>5
    <3> QED BY <3>1, <3>2
  <2>2. ASSUME NEW i \in 1 .. a, text[i].kind = "open"
        PROVE  (\E n \in 1 .. N + 1 : after[n] = i) \/ (\E j \in 1 .. a : Matches(text, j, i))
    <3>1. CASE i = a
      BY <1>2, <1>3, <3>1
    <3>2. CASE i # a
      <4>1. (\E n \in 1 .. N : stack[n] = i) \/ (\E j \in 1 .. a - 1 : Matches(text, j, i))
        BY <1>2, <1>4, <2>2, <3>2 DEF Linted, Blocks
      <4> QED BY <1>2, <1>3, <1>4, <4>1
    <3> QED BY <3>1, <3>2
  <2> QED BY <1>2, <1>3, <1>5, <2>1, <2>2 DEF Blocks
<1>8. Reported(text, a + 1, lines)
  BY <1>4, <1>5 DEF Linted, Reported
<1>9. Clean(text, a + 1, after, lines)
  <2>1. \A k \in 0 .. a : k \in 0 .. a - 1 \/ k = a
    OBVIOUS
  <2>2. 1 \in 1 .. a /\ N + 1 >= 0
    BY <1>2
  <2> QED BY <1>1, <1>2, <1>3, <1>5, <2>1, <2>2 DEF Linted, Clean
<1> QED BY <1>7, <1>8, <1>9 DEF Linted

(* @end with a directive open: it closes the one on top of the stack. *)
LEMMA LintCloses ==
    ASSUME NEW text, NEW a \in Nat \ {0}, NEW stack, NEW lines, Linted(text, a, stack, lines),
           text[a].kind = "end", stack # <<>>, NEW after,
           after = SubSeq(stack, 1, Len(stack) - 1)
    PROVE  Linted(text, a + 1, after, lines)
<1>1. \A i \in 1 .. a : Balance(text, i, a) = Balance(text, i, a - 1) - 1
                        /\ Balance(text, i, a - 1) \in Int
  <2> SUFFICES ASSUME NEW i \in 1 .. a
               PROVE  Balance(text, i, a) = Balance(text, i, a - 1) - 1
                      /\ Balance(text, i, a - 1) \in Int
    OBVIOUS
  <2>1. i \in Nat /\ a - 1 \in Nat /\ i <= (a - 1) + 1 /\ (a - 1) + 1 = a
    OBVIOUS
  <2> QED BY <2>1, BalanceStep
<1>2. PICK N \in Nat \ {0} : N = Len(stack) /\ stack \in Seq(Nat \ {0})
  <2>1. stack \in Seq(Nat \ {0})
    BY DEF Linted, Blocks
  <2> QED BY <2>1
<1>3. /\ after \in Seq(Nat \ {0}) /\ Len(after) = N - 1
      /\ \A n \in 1 .. N - 1 : after[n] = stack[n]
  BY <1>2
<1>4. \A i : i \in 1 .. a <=> i \in 1 .. a - 1 \/ i = a
  OBVIOUS
<1>5. (a + 1) - 1 = a
  OBVIOUS
<1>6. /\ stack[N] \in 1 .. a - 1 /\ text[stack[N]].kind = "open"
      /\ Balance(text, stack[N], a - 1) = 1
      /\ \A k \in stack[N] .. a - 1 : Balance(text, stack[N], k) > 0
  BY <1>2 DEF Linted, Blocks
<1>7. Matches(text, a, stack[N])
  <2>1. Balance(text, stack[N], a) = 0 /\ stack[N] < a
    BY <1>1, <1>4, <1>6
  <2> QED BY <1>6, <2>1 DEF Matches
<1>8. Blocks(text, a + 1, after)
  <2>1. ASSUME NEW n \in 1 .. N - 1
        PROVE  /\ after[n] < a + 1 /\ text[after[n]].kind = "open"
               /\ Balance(text, after[n], a) = (N - 1) - n + 1
               /\ \A k \in after[n] .. a : Balance(text, after[n], k) > 0
    <3>1. n \in 1 .. N /\ after[n] = stack[n]
      BY <1>2, <1>3
    <3>2. /\ stack[n] < a /\ text[stack[n]].kind = "open"
          /\ Balance(text, stack[n], a - 1) = N - n + 1
          /\ \A k \in stack[n] .. a - 1 : Balance(text, stack[n], k) > 0
      BY <1>2, <3>1 DEF Linted, Blocks
    <3>3. stack[n] \in 1 .. a
      BY <1>2, <3>1, <3>2
    <3>4. Balance(text, stack[n], a) = (N - 1) - n + 1 /\ Balance(text, stack[n], a) > 0
      <4>1. Balance(text, stack[n], a) = (N - n + 1) - 1
        BY <1>1, <3>2, <3>3
      <4>2. N \in Nat /\ n \in Nat /\ n <= N - 1
        BY <1>2
      <4> QED BY <4>1, <4>2
    <3>5. \A k \in stack[n] .. a : k \in stack[n] .. a - 1 \/ k = a
      BY <3>3
    <3>6. \A k \in stack[n] .. a : Balance(text, stack[n], k) > 0
      BY <3>2, <3>4, <3>5
    <3>7. stack[n] < a + 1
      BY <3>3
    <3> QED BY <3>1, <3>2, <3>4, <3>6, <3>7, Zenon
  <2>2. ASSUME NEW i \in 1 .. a, text[i].kind = "open"
        PROVE  (\E n \in 1 .. N - 1 : after[n] = i) \/ (\E j \in 1 .. a : Matches(text, j, i))
    <3>1. i \in 1 .. a - 1
      BY <1>4, <2>2
    <3>2. (\E n \in 1 .. N : stack[n] = i) \/ (\E j \in 1 .. a - 1 : Matches(text, j, i))
      BY <1>2, <2>2, <3>1 DEF Linted, Blocks
    <3>3. CASE stack[N] = i
      BY <1>4, <1>7, <3>3
    <3>4. ASSUME NEW n \in 1 .. N, stack[n] = i, stack[N] # i
          PROVE  \E h \in 1 .. N - 1 : after[h] = i
      BY <1>2, <1>3, <3>4
    <3> QED BY <1>4, <3>2, <3>3, <3>4
  <2> QED BY <1>2, <1>3, <1>5, <2>1, <2>2 DEF Blocks
<1>9. Reported(text, a + 1, lines)
  <2>1. \E i \in 1 .. a : Matches(text, a, i)
    BY <1>4, <1>6, <1>7
  <2> QED BY <1>4, <1>5, <2>1 DEF Linted, Reported
<1>10. Clean(text, a + 1, after, lines)
  <2>1. \A k \in 0 .. a : k \in 0 .. a - 1 \/ k = a
    OBVIOUS
  <2>2. 1 \in 1 .. a /\ N - 1 >= 0
    BY <1>2
  <2> QED BY <1>1, <1>2, <1>3, <1>5, <2>1, <2>2 DEF Linted, Clean
<1> QED BY <1>8, <1>9, <1>10 DEF Linted

(* @end with none open: every directive above is closed already, so this    *)
(* line closes nothing and is reported.                                     *)
LEMMA LintReports ==
    ASSUME NEW text, NEW a \in Nat \ {0}, NEW lines, Linted(text, a, <<>>, lines),
           text[a].kind = "end"
    PROVE  Linted(text, a + 1, <<>>, lines \cup {a})
<1>1. \A i : i \in 1 .. a <=> i \in 1 .. a - 1 \/ i = a
  OBVIOUS
<1>2. (a + 1) - 1 = a
  OBVIOUS
<1>3. Len(<<>>) = 0 /\ <<>> \in Seq(Nat \ {0}) /\ \A n : n \notin 1 .. Len(<<>>)
  OBVIOUS
<1>4. \A i \in 1 .. a - 1 : text[i].kind = "open" => \E j \in 1 .. a - 1 : Matches(text, j, i)
  BY <1>3 DEF Linted, Blocks
<1>5. ASSUME NEW i \in 1 .. a PROVE ~Matches(text, a, i)
  <2>1. SUFFICES ASSUME Matches(text, a, i) PROVE FALSE
    OBVIOUS
  <2>2. i \in 1 .. a - 1 /\ text[i].kind = "open"
    BY <1>1, <2>1 DEF Matches
  <2>3. PICK j \in 1 .. a - 1 : Matches(text, j, i)
    BY <1>4, <2>2
  <2>4. Balance(text, i, j) = 0 /\ j \in i .. a - 1
    BY <2>2, <2>3 DEF Matches
  <2> QED BY <2>1, <2>4 DEF Matches
<1>6. Blocks(text, a + 1, <<>>)
  <2>1. \A i \in 1 .. a : text[i].kind = "open" => \E j \in 1 .. a : Matches(text, j, i)
    BY <1>1, <1>4
  <2> QED BY <1>2, <1>3, <2>1 DEF Blocks
<1>7. Reported(text, a + 1, lines \cup {a})
  BY <1>1, <1>2, <1>5 DEF Linted, Reported
<1>8. Clean(text, a + 1, <<>>, lines \cup {a})
  BY DEF Clean
<1> QED BY <1>6, <1>7, <1>8 DEF Linted

Unclosed(text, L) ==
    {i \in 1 .. L : \/ text[i].kind = "open" /\ \A j \in 1 .. L : ~Matches(text, j, i)
                    \/ text[i].kind = "end" /\ \A j \in 1 .. L : ~Matches(text, i, j)}

(* The directives of a text are closed in order, and none is left open. *)
WellNested(text, L) ==
    /\ Balance(text, 1, L) = 0
    /\ \A k \in 0 .. L : Balance(text, 1, k) >= 0

OnStack(stack) == {stack[n] : n \in DOMAIN stack}

(* At the end: what was reported and what is left on the stack. *)
LEMMA LintedAll ==
    ASSUME NEW text, NEW L \in Nat, NEW stack, NEW lines, Linted(text, L + 1, stack, lines),
           NEW all, all = lines \cup OnStack(stack)
    PROVE  all = Unclosed(text, L) /\ (all = {} => WellNested(text, L))
<1> DEFINE Open(i) == text[i].kind = "open" /\ \A j \in 1 .. L : ~Matches(text, j, i)
           End(i) == text[i].kind = "end" /\ \A j \in 1 .. L : ~Matches(text, i, j)
<1>1. (L + 1) - 1 = L
  OBVIOUS
<1>2. PICK N \in Nat : N = Len(stack) /\ DOMAIN stack = 1 .. N /\ \A n \in 1 .. N : stack[n] \in Nat \ {0}
  <2>1. stack \in Seq(Nat \ {0})
    BY DEF Linted, Blocks
  <2> QED BY <2>1
<1>3. ASSUME NEW n \in 1 .. N PROVE stack[n] \in 1 .. L /\ Open(stack[n])
  <2>1. /\ stack[n] < L + 1 /\ text[stack[n]].kind = "open"
        /\ \A k \in stack[n] .. L : Balance(text, stack[n], k) > 0
    BY <1>1, <1>2 DEF Linted, Blocks
  <2>2. ASSUME NEW j \in 1 .. L, Matches(text, j, stack[n]) PROVE FALSE
    <3>1. j \in stack[n] .. L /\ Balance(text, stack[n], j) = 0
      BY <1>2, <2>2 DEF Matches
    <3> QED BY <2>1, <3>1
  <2> QED BY <1>2, <2>1, <2>2
<1>4. ASSUME NEW i \in 1 .. L, Open(i) PROVE \E n \in 1 .. N : stack[n] = i
  BY <1>1, <1>2, <1>4 DEF Linted, Blocks
<1>5. lines = {i \in 1 .. L : End(i)}
  <2>1. \A i \in 1 .. L, j \in 1 .. L : Matches(text, i, j) => j \in 1 .. i
    BY DEF Matches
  <2>2. \A i \in 1 .. L : \A j \in 1 .. i : j \in 1 .. L
    OBVIOUS
  <2> QED BY <1>1, <2>1, <2>2 DEF Linted, Reported
<1>6. all = {i \in 1 .. L : Open(i) \/ End(i)}
  <2> HIDE DEF Open, End
  <2> QED BY <1>2, <1>3, <1>4, <1>5 DEF OnStack
<1>7. ASSUME all = {}
      PROVE  Balance(text, 1, L) = 0 /\ \A k \in 0 .. L : Balance(text, 1, k) >= 0
  <2>1. N = 0
    <3>1. ~ (1 \in 1 .. N)
      BY <1>2, <1>7 DEF OnStack
    <3> QED BY <3>1
  <2> QED BY <1>1, <1>2, <1>7, <2>1 DEF Linted, Clean
<1>8. all = Unclosed(text, L)
  BY <1>6 DEF Unclosed
<1> QED BY <1>7, <1>8 DEF WellNested

-----------------------------------------------------------------------------
(* The invariant of the linter and the formatter. *)


(* The level after the lines before a, and the level each was written at. *)
Written(text, a, level, levels) ==
    /\ level = Balance(text, 1, a - 1)
    /\ \A i \in 1 .. a - 1 : text[i].kind # "blank" =>
          levels[i] = Balance(text, 1, i - 1) - (IF text[i].kind = "end" THEN 1 ELSE 0)

Formats == diagnostics = {} /\ Directives(source)

LintInv ==
    /\ source \in Seq(TextLine) /\ at \in 1 .. Len(source) + 1
    /\ pass \in {"run", "lint", "format", "done"}
    /\ DOMAIN formatted = DOMAIN source
    /\ pass \in {"run", "lint"} => indentLevel = 0
    /\ pass = "run" => directiveStack = <<>> /\ diagnostics = {}
    /\ pass = "lint" => Linted(source, at, directiveStack, diagnostics)
    /\ LintsExactly
    /\ pass \in {"format", "done"} /\ diagnostics = {} => WellNested(source, Len(source))
    /\ pass = "format" /\ Formats => Written(source, at, indentLevel, formatted)
    /\ pass = "done" /\ Formats => Written(source, Len(source) + 1, indentLevel, formatted)

LEMMA UnmatchedIs ==
    ASSUME NEW L \in Nat, DOMAIN source = 1 .. L
    PROVE  Unmatched = Unclosed(source, L)
<1>1. \A i \in 1 .. L : \A j \in 1 .. L : Closes(i, j) <=> Matches(source, i, j)
  <2> SUFFICES ASSUME NEW i \in 1 .. L, NEW j \in 1 .. L PROVE Closes(i, j) <=> Matches(source, i, j)
    OBVIOUS
  <2>1. i \in Nat \ {0} /\ j \in Nat \ {0}
    OBVIOUS
  <2> QED BY <2>1, ClosesIsMatches
<1> QED BY <1>1 DEF Unmatched, Unclosed

LEMMA SourceLength ==
    ASSUME LintInv
    PROVE  Len(source) \in Nat /\ DOMAIN source = 1 .. Len(source)
BY DEF LintInv

LEMMA LintInit == LinesInit => LintInv
<1> SUFFICES ASSUME LinesInit PROVE LintInv
  OBVIOUS
<1>1. source \in Seq(TextLine) /\ at = 1 /\ pass = "run"
  BY SourceAssumption DEF LinesInit, TextLine
<1>2. at \in 1 .. Len(source) + 1
  BY <1>1
<1> QED BY <1>1, <1>2 DEF LinesInit, LintInv, LintsExactly

(* While the text and the reports stay, so does what was found. *)
LEMMA FindingsStay ==
    ASSUME UNCHANGED <<source, diagnostics>>
    PROVE  /\ Unmatched' = Unmatched /\ (Formats' <=> Formats)
           /\ Len(source') = Len(source) /\ DOMAIN source' = DOMAIN source
BY DEF Unmatched, Closes, Count, Formats, Directives

LEMMA RunKeepsLint == LintInv /\ (RunLine \/ RunEnds) => LintInv'
<1> SUFFICES ASSUME LintInv, RunLine \/ RunEnds PROVE LintInv'
  OBVIOUS
<1>1. /\ pass = "run" /\ UNCHANGED <<source, directiveStack, diagnostics, indentLevel, formatted>>
      /\ \/ pass' = "run" /\ at <= Len(source) /\ at' = at + 1
         \/ pass' = "lint" /\ at' = 1
  BY DEF RunLine, RunEnds, NextLine, NextPass, linting, formatting
<1>2. at' \in 1 .. Len(source) + 1
  BY <1>1, SourceLength DEF LintInv
<1>3. pass' = "lint" => Linted(source, at', directiveStack, diagnostics)
  BY <1>1, LintStarts DEF LintInv
<1> QED BY <1>1, <1>2, <1>3 DEF LintInv, LintsExactly

LEMMA LintLineKeepsLint == LintInv /\ LintLine => LintInv'
<1> SUFFICES ASSUME LintInv, LintLine PROVE LintInv'
  OBVIOUS
<1>1. /\ pass = "lint" /\ pass' = "lint" /\ UNCHANGED <<source, indentLevel, formatted>>
      /\ at <= Len(source) /\ at' = at + 1
  BY DEF LintLine, NextLine, formatting
<1>2. at' \in 1 .. Len(source) + 1 /\ at \in Nat \ {0}
  BY <1>1, SourceLength DEF LintInv
<1>3. Linted(source, at, directiveStack, diagnostics)
  BY <1>1 DEF LintInv
<1>4. Linted(source, at + 1, directiveStack', diagnostics')
  <2>1. CASE Line.kind \notin {"open", "end"} /\ UNCHANGED linting
    BY <1>2, <1>3, <2>1, LintOther DEF Line, linting
  <2>2. CASE LintOpen
    BY <1>2, <1>3, <2>2, LintOpens DEF Line, LintOpen
  <2>3. CASE LintEnd /\ directiveStack = <<>>
    <3>1. source[at].kind = "end" /\ directiveStack' = <<>> /\ diagnostics' = diagnostics \cup {at}
      BY <2>3 DEF LintEnd, Line
    <3> QED BY <1>2, <1>3, <2>3, <3>1, LintReports
  <2>4. CASE LintEnd /\ directiveStack # <<>>
    <3>1. /\ source[at].kind = "end" /\ diagnostics' = diagnostics
          /\ directiveStack' = SubSeq(directiveStack, 1, Len(directiveStack) - 1)
      BY <2>4 DEF LintEnd, Line
    <3> QED BY <1>2, <1>3, <2>4, <3>1, LintCloses
  <2> QED BY <2>1, <2>2, <2>3, <2>4 DEF LintLine
<1> QED BY <1>1, <1>2, <1>4 DEF LintInv, LintsExactly

LEMMA LintEndsKeepsLint == LintInv /\ LintEnds => LintInv'
<1> SUFFICES ASSUME LintInv, LintEnds PROVE LintInv'
  OBVIOUS
<1>1. /\ pass = "lint" /\ pass' = "format" /\ UNCHANGED <<source, indentLevel, formatted>>
      /\ at > Len(source) /\ at' = 1
      /\ diagnostics' = diagnostics \cup {directiveStack[n] : n \in DOMAIN directiveStack}
  BY DEF LintEnds, NextPass, formatting
<1>2. PICK L \in Nat : L = Len(source) /\ DOMAIN source = 1 .. L
  BY SourceLength
<1>3. at = L + 1 /\ indentLevel = 0 /\ Linted(source, L + 1, directiveStack, diagnostics)
  <2>1. at = L + 1
    BY <1>1, <1>2 DEF LintInv
  <2> QED BY <1>1, <2>1 DEF LintInv
<1>4. diagnostics' = Unclosed(source, L) /\ (diagnostics' = {} => WellNested(source, L))
  <2>1. PICK all : all = diagnostics' /\ all = diagnostics \cup OnStack(directiveStack)
    BY <1>1 DEF OnStack
  <2>2. Linted(source, L + 1, directiveStack, diagnostics)
    BY <1>3
  <2>3. all = Unclosed(source, L) /\ (all = {} => WellNested(source, L))
    BY <2>1, <2>2, LintedAll
  <2> QED BY <2>1, <2>3
<1>5. Unmatched' = Unmatched
  BY <1>1 DEF Unmatched, Closes, Count
<1>6. LintsExactly'
  BY <1>2, <1>4, <1>5, UnmatchedIs DEF LintsExactly
<1>7. Written(source, 1, 0, formatted)
  BY BalanceNone DEF Written
<1>8. 1 \in 1 .. L + 1
  BY <1>2
<1> QED BY <1>1, <1>2, <1>3, <1>4, <1>6, <1>7, <1>8 DEF LintInv

(* One line of the formatter in a well-nested text: an @end finds a level   *)
(* above zero.                                                              *)
LEMMA LineWritten ==
    ASSUME NEW text, NEW L \in Nat, NEW a \in 1 .. L, WellNested(text, L),
           text[a].closes <=> text[a].kind = "end", text[a].rises <=> text[a].kind = "open",
           NEW level, NEW levels, Written(text, a, level, levels), DOMAIN levels = 1 .. L,
           NEW now, now = Dedent(level, text[a]), NEW after, NEW writes,
           IF text[a].kind = "blank" THEN after = level /\ writes = levels
           ELSE /\ writes = [levels EXCEPT ![a] = now]
                /\ after = IF text[a].rises THEN now + 1 ELSE now
    PROVE  Written(text, a + 1, after, writes)
<1>1. level = Balance(text, 1, a - 1) /\ Balance(text, 1, a - 1) \in Int
      /\ Balance(text, 1, a) = Balance(text, 1, a - 1)
            + (IF text[a].kind = "open" THEN 1 ELSE IF text[a].kind = "end" THEN -1 ELSE 0)
  <2>1. PICK b \in Nat : b = a - 1 /\ b + 1 = a
    OBVIOUS
  <2>2. /\ Balance(text, 1, b) \in Int
        /\ Balance(text, 1, b + 1) = Balance(text, 1, b)
              + (IF text[b + 1].kind = "open" THEN 1 ELSE IF text[b + 1].kind = "end" THEN -1 ELSE 0)
    BY PrefixStep
  <2>3. level = Balance(text, 1, b)
    BY <2>1 DEF Written
  <2> QED BY <2>1, <2>2, <2>3
<1>2. Balance(text, 1, a) >= 0
  <2>1. a \in 0 .. L
    OBVIOUS
  <2> QED BY <2>1 DEF WellNested
<1>3. now = level - (IF text[a].kind = "end" THEN 1 ELSE 0)
  BY <1>1, <1>2 DEF Dedent
<1>4. after = Balance(text, 1, a)
  BY <1>1, <1>3
<1>5. ASSUME NEW i \in 1 .. a, text[i].kind # "blank"
      PROVE  writes[i] = Balance(text, 1, i - 1) - (IF text[i].kind = "end" THEN 1 ELSE 0)
  <2>1. CASE i = a
    BY <1>1, <1>3, <1>5, <2>1
  <2>2. CASE i # a
    <3>1. i \in 1 .. a - 1 /\ writes[i] = levels[i]
      BY <2>2
    <3> QED BY <1>5, <3>1 DEF Written
  <2> QED BY <2>1, <2>2
<1>6. (a + 1) - 1 = a
  OBVIOUS
<1> QED BY <1>4, <1>5, <1>6 DEF Written

LEMMA FormatKeepsLint == LintInv /\ (FormatLine \/ FormatEnds) => LintInv'
<1> SUFFICES ASSUME LintInv, FormatLine \/ FormatEnds PROVE LintInv'
  OBVIOUS
<1>1. pass = "format" /\ UNCHANGED <<source, directiveStack, diagnostics>>
  BY DEF FormatLine, FormatEnds, NextLine, NextPass, linting
<1>2. PICK L \in Nat : L = Len(source) /\ DOMAIN source = 1 .. L /\ at \in 1 .. L + 1
  BY SourceLength DEF LintInv
<1>3. LintsExactly' /\ (Formats' <=> Formats) /\ (diagnostics = {} => WellNested(source, Len(source)))
  BY <1>1, FindingsStay DEF LintInv, LintsExactly
<1>4. CASE FormatLine
  <2>1. pass' = "format" /\ at \in 1 .. L /\ at' = at + 1 /\ at' \in 1 .. L + 1
    BY <1>1, <1>2, <1>4 DEF FormatLine, NextLine
  <2>2. /\ DOMAIN formatted' = DOMAIN source
        /\ Formats => Written(source, at + 1, indentLevel', formatted')
    <3> DEFINE now == Dedent(indentLevel, source[at])
    <3>1. IF source[at].kind = "blank" THEN indentLevel' = indentLevel /\ formatted' = formatted
          ELSE /\ formatted' = [formatted EXCEPT ![at] = now]
               /\ indentLevel' = IF source[at].rises
                                 THEN now + 1 ELSE now
      BY <1>4 DEF FormatLine, Line, formatting
    <3>2. DOMAIN formatted = DOMAIN source
      BY DEF LintInv
    <3>3. DOMAIN formatted' = DOMAIN source
      BY <3>1, <3>2
    <3>4. ASSUME Formats PROVE Written(source, at + 1, indentLevel', formatted')
      <4>1. /\ WellNested(source, Len(source)) /\ Written(source, at, indentLevel, formatted)
            /\ source[at].closes <=> source[at].kind = "end"
            /\ source[at].rises <=> source[at].kind = "open"
        BY <1>1, <1>2, <1>3, <2>1, <3>4 DEF LintInv, Formats, Directives
      <4>2. DOMAIN formatted = 1 .. L
        BY <1>2, <3>2
      <4> HIDE DEF now
      <4>3. now = Dedent(indentLevel, source[at])
        BY DEF now
      <4> QED BY <1>2, <2>1, <3>1, <4>1, <4>2, <4>3, LineWritten
    <3> QED BY <3>3, <3>4
  <2> QED BY <1>1, <1>2, <1>3, <2>1, <2>2 DEF LintInv
<1>5. CASE FormatEnds
  <2>1. pass' = "done" /\ at' = 1 /\ at = L + 1 /\ UNCHANGED <<indentLevel, formatted>>
    BY <1>1, <1>2, <1>5 DEF FormatEnds, NextPass, formatting
  <2>2. 1 \in 1 .. L + 1
    BY <1>2
  <2> QED BY <1>1, <1>2, <1>3, <2>1, <2>2 DEF LintInv
<1> QED BY <1>4, <1>5

LEMMA LintStep == LintInv /\ [LinesNext]_lineVars => LintInv'
<1> SUFFICES ASSUME LintInv, [LinesNext]_lineVars PROVE LintInv'
  OBVIOUS
<1>1. CASE UNCHANGED lineVars
  <2>1. UNCHANGED <<source, at, pass, directiveStack, diagnostics, indentLevel, formatted>>
    BY <1>1 DEF lineVars, linting, formatting
  <2> QED BY <2>1, FindingsStay DEF LintInv, LintsExactly
<1> QED BY <1>1, RunKeepsLint, LintLineKeepsLint, LintEndsKeepsLint, FormatKeepsLint DEF LinesNext

(* The invariant the two results below are read off from. *)
THEOREM StackIsOpen == LinesSpec => []LintInv
BY LintInit, LintStep, PTL DEF LinesSpec

(* validateDocument: in every text, its pass reports exactly the directives *)
(* that no @end closes and the @ends that close none.                       *)
THEOREM ReportsAreExact == LinesSpec => []LintsExactly
<1>1. LintInv => LintsExactly
  BY DEF LintInv
<1> QED BY <1>1, StackIsOpen, PTL

(* provideDocumentFormattingEdits and validateDocument agree on every text  *)
(* of directives whose other lines neither begin with a word that closes or *)
(* opens a block nor end with a colon: if the linter accepts it, each line  *)
(* is written at the number of directives open around it, and the text ends *)
(* at level 0.                                                              *)
THEOREM FormatAgrees == LinesSpec => []FormatFollowsLint
<1>1. LintInv => FormatFollowsLint
  <2> SUFFICES ASSUME LintInv, pass = "done", Formats
               PROVE  /\ indentLevel = 0
                      /\ \A i \in DOMAIN source : source[i].kind # "blank" => formatted[i] = Depth(i)
    BY SMTT(30) DEF FormatFollowsLint, Formats, Directives
  <2>1. PICK L \in Nat : L = Len(source) /\ DOMAIN source = 1 .. L
    BY SourceLength
  <2>2. WellNested(source, Len(source)) /\ Written(source, L + 1, indentLevel, formatted) /\ (L + 1) - 1 = L
    BY <2>1 DEF LintInv, Formats
  <2>3. indentLevel = 0
    BY <2>1, <2>2 DEF WellNested, Written
  <2>4. ASSUME NEW i \in 1 .. L, source[i].kind # "blank" PROVE formatted[i] = Depth(i)
    <3>1. formatted[i] = Balance(source, 1, i - 1) - (IF source[i].kind = "end" THEN 1 ELSE 0)
      BY <2>2, <2>4 DEF Written
    <3>2. i - 1 \in Nat /\ 1 <= (i - 1) + 1 /\ (i - 1) + 1 = i
      OBVIOUS
    <3>3. /\ \A kind : Cardinality(Lines(source, kind, 1, i - 1)) \in Nat
          /\ Cardinality(Lines(source, "end", 1, i)) =
                Cardinality(Lines(source, "end", 1, i - 1)) + (IF source[i].kind = "end" THEN 1 ELSE 0)
      BY <3>2, LinesStep
    <3>4. /\ Count("open", 1, i - 1) = Cardinality(Lines(source, "open", 1, i - 1))
          /\ Count("end", 1, i) = Cardinality(Lines(source, "end", 1, i))
      BY DEF Count, Lines
    <3> QED BY <3>1, <3>3, <3>4 DEF Depth, Balance
  <2> QED BY <2>1, <2>3, <2>4
<1> QED BY <1>1, StackIsOpen, PTL

=============================================================================
