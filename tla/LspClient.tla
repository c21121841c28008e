----------------------------- MODULE LspClient -----------------------------
(* The language client of the editor extension, editors/vscode/extension.js *)
(* and the server it talks to over two pipes (src/tools/lipilsp.lp).  The   *)
(* extension is one thread: a handler runs to its end, and what happens     *)
(* between two handlers is what the modelled actions interleave: the user's *)
(* questions, chunks of the server's output, timers, the death of a server, *)
(* a restart that makes a new client object beside the old one.             *)
(*                                                                          *)
(* The byte stream is a sequence of units.  A frame is a length, the blank  *)
(* line that ends its header and a body.  The length counts bytes, the      *)
(* client counts characters: the announced number exceeds the body by what  *)
(* the non-ASCII characters of the body take beyond one byte.               *)
EXTENDS Integers, Sequences, FiniteSets

CONSTANTS Queries,      \* the hovers and completions the user asks for
          Init0,        \* the initialize request of a client
          None,         \* the initialized notification
          MaxClients,   \* bound: client objects, one more per restart
          Excess        \* bytes beyond characters in the server's answers

ASSUME LspAssumption ==
    /\ MaxClients \in Nat \ {0}
    /\ Excess \subseteq Nat
    /\ Init0 \notin Queries
    /\ None \notin Queries \cup {Init0}

Clients == 1 .. MaxClients
Askers == Queries \cup {Init0}
Requests == [id : Nat, by : Askers]
Notice == [id |-> 0, by |-> None]

VARIABLES
    host,       \* the extension: "new", "active" or "done"
    current,    \* lspClient: the client object in use, 0 for null
    process,    \* client -> is this.process set
    isReady,    \* client -> this.isReady
    nextId,     \* client -> this.nextId
    pending,    \* client -> this.pendingRequests, as the requests awaited
    timers,     \* client -> the requests whose 3 s timer is armed
    buffer,     \* client -> this.buffer
    server,     \* client -> its server: "none", "failed", "up", "gone", "closed"
    stdin,      \* client -> messages the server has not read
    stdout,     \* client -> units the client has not read
    call        \* query -> "idle", "open", "own", "other" or "spare"

(* History: the clients whose server has sent a body that is not ASCII, and *)
(* those whose initialize request was given up.                             *)
VARIABLES garbled, gaveUp

pipes == <<buffer, stdin, stdout, garbled>>
vars == <<host, current, process, isReady, nextId, pending, timers, pipes,
          server, call, gaveUp>>

Length(n) == [k |-> "length", n |-> n]
Blank == [k |-> "blank"]
Body(m) == [k |-> "body", of |-> m]
Units == [k : {"length"}, n : Nat] \cup {Blank} \cup [k : {"body"}, of : Requests]

Frame(m, x) == <<Length(1 + x), Blank, Body(m)>>

Init ==
    /\ host = "new" /\ current = 0
    /\ process = [c \in Clients |-> FALSE]
    /\ isReady = [c \in Clients |-> FALSE]
    /\ nextId = [c \in Clients |-> 1]
    /\ pending = [c \in Clients |-> {}]
    /\ timers = [c \in Clients |-> {}]
    /\ buffer = [c \in Clients |-> <<>>]
    /\ stdin = [c \in Clients |-> <<>>]
    /\ stdout = [c \in Clients |-> <<>>]
    /\ server = [c \in Clients |-> "none"]
    /\ call = [q \in Queries |-> "idle"]
    /\ garbled = {} /\ gaveUp = {}

-----------------------------------------------------------------------------
(* Mutant: the id is not advanced. *)
SendSameId(c, by) ==
    LET m == [id |-> nextId[c], by |-> by]
    IN /\ pending' = [pending EXCEPT ![c] = {p \in @ : p.id # m.id} \cup {m}]
       /\ timers' = [timers EXCEPT ![c] = @ \cup {m}]
       /\ stdin' = [stdin EXCEPT ![c] = Append(@, m)]
       /\ UNCHANGED nextId

(* sendRequest: the caller has seen this.process set. *)
SendRequest(c, by) ==
    LET m == [id |-> nextId[c], by |-> by]
    IN /\ nextId' = [nextId EXCEPT ![c] = @ + 1]
       /\ pending' = [pending EXCEPT ![c] = @ \cup {m}]
       /\ timers' = [timers EXCEPT ![c] = @ \cup {m}]
       /\ stdin' = [stdin EXCEPT ![c] = Append(@, m)]

(* A missing binary leaves the new client without a process; one that       *)
(* cannot be started is found out later, by the 'error' event.              *)
Start(c) ==
    \/ UNCHANGED <<server, nextId, pending, timers, stdin>>
    \/ /\ \E s \in {"up", "failed"} : server' = [server EXCEPT ![c] = s]
       /\ SendRequest(c, Init0)

Started(c, live) ==
    /\ current' = c
    /\ Start(c)
    /\ process' = [live EXCEPT ![c] = (server'[c] # "none")]

Activate ==
    /\ host = "new"
    /\ host' = "active"
    /\ Started(1, process)
    /\ UNCHANGED <<isReady, buffer, stdout, garbled, call, gaveUp>>

(* stop: kill() is a signal; the server ends in its own time (ServerEnds). *)
Stop(c) ==
    /\ process' = [process EXCEPT ![c] = FALSE]
    /\ isReady' = [isReady EXCEPT ![c] = @ /\ ~process[c]]

(* The old object keeps its pipe, its timers and its event handlers. *)
RestartLsp ==
    /\ host = "active" /\ current < MaxClients
    /\ isReady' = [isReady EXCEPT ![current] = @ /\ ~process[current]]
    /\ Started(current + 1, [process EXCEPT ![current] = FALSE])
    /\ UNCHANGED <<host, buffer, stdout, garbled, call, gaveUp>>

Deactivate ==
    /\ host = "active"
    /\ host' = "done"
    /\ Stop(current)
    /\ UNCHANGED <<current, nextId, pending, timers, pipes, server, call, gaveUp>>

-----------------------------------------------------------------------------
(* provideHover and provideCompletionItems: without a ready client, or when *)
(* sendRequest refuses, the built-in texts answer at once.  A process that  *)
(* is dead but not yet reported closed may still look writable.             *)
Ask(q) ==
    /\ host = "active" /\ call[q] = "idle"
    /\ current # 0 /\ isReady[current] /\ process[current]
    /\ SendRequest(current, q)
    /\ call' = [call EXCEPT ![q] = "open"]
    /\ UNCHANGED <<host, current, process, isReady, buffer, stdout, server, garbled, gaveUp>>

AnswerBuiltIn(q) ==
    /\ host = "active" /\ call[q] = "idle"
    /\ IF current = 0 THEN TRUE
       ELSE isReady[current] => ~process[current] \/ server[current] # "up"
    /\ call' = [call EXCEPT ![q] = "spare"]
    /\ UNCHANGED <<host, current, process, isReady, nextId, pending, timers, pipes,
                   server, gaveUp>>

At(s, kind) == {i \in DOMAIN s : s[i].k = kind}
Least(S) == CHOOSE i \in S : \A j \in S : i <= j
Drop(s, n) == SubSeq(s, n + 1, Len(s))

(* Mutant: one frame per chunk. *)
OneFrame[b \in Seq(Units)] ==
    LET blanks == At(b, "blank")
        blank == Least(blanks)
        lengths == {i \in At(b, "length") : i < blank}
        n == b[Least(lengths)].n
    IN IF blanks = {} THEN [rest |-> b, bodies |-> {}]
       ELSE IF lengths = {} THEN OneFrame[Drop(b, blank)]
       ELSE IF Len(b) < blank + n THEN [rest |-> b, bodies |-> {}]
       ELSE [rest |-> Drop(b, blank + n), bodies |-> {SubSeq(b, blank + 1, blank + n)}]

(* The loop of _onData: what stays in the buffer and the bodies cut off.    *)
(* The length is looked for anywhere before the first blank line; text      *)
(* without one is skipped up to and with the blank line.                    *)
Frames[b \in Seq(Units)] ==
    LET blanks == At(b, "blank")
        blank == Least(blanks)
        lengths == {i \in At(b, "length") : i < blank}
        n == b[Least(lengths)].n
        more == Frames[Drop(b, blank + n)]
    IN IF blanks = {} THEN [rest |-> b, bodies |-> {}]
       ELSE IF lengths = {} THEN Frames[Drop(b, blank)]
       ELSE IF Len(b) < blank + n THEN [rest |-> b, bodies |-> {}]
       ELSE [more EXCEPT !.bodies = @ \cup {SubSeq(b, blank + 1, blank + n)}]

(* Mutant: as OneFrame. *)
CutOne(b) == OneFrame[b]

Cut(b) == Frames[b]

(* JSON.parse accepts the text of exactly one message. *)
Parsed(bodies) == {b[1].of : b \in {x \in bodies : Len(x) = 1 /\ x[1].k = "body"}}

(* The entries of pendingRequests that an answer finds are taken out. *)
Forget(P, got) == {p \in P : \A m \in got : m.id # p.id}

OnData(c, n) ==
    LET cut == Cut(buffer[c] \o SubSeq(stdout[c], 1, n))
        got == Parsed(cut.bodies)
        Answers(q) == {m \in got : \E p \in pending[c] : p.by = q /\ p.id = m.id}
    IN /\ buffer' = [buffer EXCEPT ![c] = cut.rest]
       /\ stdout' = [stdout EXCEPT ![c] = Drop(@, n)]
       /\ pending' = [pending EXCEPT ![c] = Forget(@, got)]
       /\ call' = [q \in Queries |-> IF Answers(q) = {} THEN call[q]
                      ELSE IF \A m \in Answers(q) : m.by = q THEN "own" ELSE "other"]
       /\ isReady' = [isReady EXCEPT ![c] = @ \/ Answers(Init0) # {}]
       /\ stdin' = [stdin EXCEPT ![c] =
                       IF Answers(Init0) # {} /\ process[c] THEN Append(@, Notice) ELSE @]
       /\ UNCHANGED <<host, current, process, nextId, timers, server, garbled, gaveUp>>

(* A chunk of the pipe reaches the client, in whatever size. *)
Receive(c) == \E n \in 1 .. Len(stdout[c]) : OnData(c, n)

(* Mutant: the timer leaves the request waiting. *)
TimerForgets(c, m) ==
    /\ m \in timers[c]
    /\ timers' = [timers EXCEPT ![c] = @ \ {m}]
    /\ UNCHANGED <<host, current, process, isReady, nextId, pending, pipes, server, call, gaveUp>>

(* The timer is never cleared: it rejects only what is still pending. *)
TimerFires(c, m) ==
    /\ m \in timers[c]
    /\ timers' = [timers EXCEPT ![c] = @ \ {m}]
    /\ pending' = [pending EXCEPT ![c] = @ \ {m}]
    /\ call' = [q \in Queries |-> IF m \in pending[c] /\ m.by = q THEN "spare" ELSE call[q]]
    /\ gaveUp' = IF m \in pending[c] /\ m.by = Init0 THEN gaveUp \cup {c} ELSE gaveUp
    /\ UNCHANGED <<host, current, process, isReady, nextId, pipes, server>>

Timeout(c) == \E m \in timers[c] : TimerFires(c, m)

(* The 'error' event of a process that could not be started. *)
StartFails(c) ==
    /\ server[c] = "failed"
    /\ server' = [server EXCEPT ![c] = "gone"]
    /\ process' = [process EXCEPT ![c] = FALSE]
    /\ UNCHANGED <<host, current, isReady, nextId, pending, timers, pipes, call, gaveUp>>

(* Mutant: the handler clears the client in use. *)
CloseCurrent(c) ==
    /\ server[c] = "gone" /\ stdout[c] = <<>>
    /\ server' = [server EXCEPT ![c] = "closed"]
    /\ process' = [process EXCEPT ![current] = FALSE]
    /\ isReady' = [isReady EXCEPT ![current] = FALSE]
    /\ UNCHANGED <<host, current, nextId, pending, timers, pipes, call, gaveUp>>

(* The 'close' event comes after the pipes are drained; requests that wait  *)
(* for an answer are left to their timers.                                  *)
Close(c) ==
    /\ server[c] = "gone" /\ stdout[c] = <<>>
    /\ server' = [server EXCEPT ![c] = "closed"]
    /\ process' = [process EXCEPT ![c] = FALSE]
    /\ isReady' = [isReady EXCEPT ![c] = FALSE]
    /\ UNCHANGED <<host, current, nextId, pending, timers, pipes, call, gaveUp>>

-----------------------------------------------------------------------------
(* One turn of lsp_main_loop: the initialize answer is ASCII, the texts of  *)
(* hovers and completions need not be; a notification has no answer.        *)
ServerAnswers(c) ==
    /\ server[c] = "up" /\ stdin[c] # <<>>
    /\ stdin' = [stdin EXCEPT ![c] = Tail(@)]
    /\ LET m == Head(stdin[c])
       IN \/ /\ m = Notice
             /\ UNCHANGED <<stdout, garbled>>
          \/ /\ m # Notice
             /\ \E x \in IF m.by = Init0 THEN {0} ELSE Excess :
                   /\ stdout' = [stdout EXCEPT ![c] = @ \o Frame(m, x)]
                   /\ garbled' = IF x = 0 THEN garbled ELSE garbled \cup {c}
    /\ UNCHANGED <<host, current, process, isReady, nextId, pending, timers, buffer,
                   server, call, gaveUp>>

(* The server is killed or crashes; the answer it was writing may be cut    *)
(* between the two writes of lsp_send_raw, after the header.                *)
ServerEnds(c) ==
    /\ server[c] = "up"
    /\ server' = [server EXCEPT ![c] = "gone"]
    /\ \/ UNCHANGED stdout
       \/ /\ stdin[c] # <<>> /\ Head(stdin[c]) # Notice
          /\ stdout' = [stdout EXCEPT ![c] = @ \o <<Length(1), Blank>>]
    /\ UNCHANGED <<host, current, process, isReady, nextId, pending, timers, buffer,
                   stdin, garbled, call, gaveUp>>

-----------------------------------------------------------------------------
User == Activate \/ RestartLsp \/ Deactivate \/ \E q \in Queries : Ask(q) \/ AnswerBuiltIn(q)

Machine(c) == \/ Receive(c) \/ Timeout(c) \/ StartFails(c) \/ Close(c)
              \/ ServerAnswers(c) \/ ServerEnds(c)

Next == User \/ \E c \in Clients : Machine(c)

(* The event loop gets to every expired timer.  Nothing else is promised:   *)
(* not that the server answers, nor that its output arrives.                *)
Spec == Init /\ [][Next]_vars /\ \A c \in Clients : WF_vars(Timeout(c))

-----------------------------------------------------------------------------

(* Types of every field of the client objects and of the pipes; ids of the  *)
(* requests awaited are below nextId and used once per client.              *)
TypeOK ==
    /\ host \in {"new", "active", "done"}
    /\ current \in {0} \cup Clients
    /\ process \in [Clients -> BOOLEAN] /\ isReady \in [Clients -> BOOLEAN]
    /\ nextId \in [Clients -> Nat]
    /\ pending \in [Clients -> SUBSET Requests]
    /\ timers \in [Clients -> SUBSET Requests]
    /\ buffer \in [Clients -> Seq(Units)] /\ stdout \in [Clients -> Seq(Units)]
    /\ stdin \in [Clients -> Seq(Requests \cup {Notice})]
    /\ server \in [Clients -> {"none", "failed", "up", "gone", "closed"}]
    /\ call \in [Queries -> {"idle", "open", "own", "other", "spare"}]
    /\ garbled \subseteq Clients /\ gaveUp \subseteq Clients
    /\ \A c \in Clients : \A m, n \in pending[c] \cup timers[c] :
           m.id < nextId[c] /\ (m.id = n.id => m = n)

(* sendRequest (:155): whatever happens to the server, the pipe or the      *)
(* client object, a question still open waits for an answer that a timer of *)
(* the same client will end; so no promise is left without an end.          *)
OpenHasTimer ==
    \A q \in Queries : call[q] = "open" =>
        \E c \in Clients : \E m \in pending[c] \cap timers[c] : m.by = q

(* _onData: as long as every answer was ASCII, no chunk boundary, no death  *)
(* between chunks and no late answer loses one: each request awaited from a *)
(* live server is before it, or whole in the pipe; and the buffer never     *)
(* holds a whole frame until the next chunk.                                *)
Stream(c) == buffer[c] \o stdout[c]
AnswersInPlace ==
    \A c \in Clients : c \notin garbled =>
        /\ Len(buffer[c]) < Len(Frame(Notice, 0))
        /\ server[c] = "up" => \A m \in pending[c] :
              \/ \E i \in DOMAIN stdin[c] : stdin[c][i] = m
              \/ \E i \in DOMAIN Stream(c) : SubSeq(Stream(c), i, i + 2) = Frame(m, 0)

(* start, stop and the event handlers: what an old client hears after a     *)
(* restart never disconnects the new one: while its server lives, the       *)
(* client in use holds its process, and is ready unless its initialize      *)
(* request is still open or was given up.                                   *)
LiveServerIsUsed ==
    host = "active" /\ current # 0 /\ server[current] = "up" =>
        /\ process[current]
        /\ \/ isReady[current] \/ current \in gaveUp
           \/ \E m \in pending[current] : m.by = Init0

(* LipiLspClient as a whole: a hover or a completion is settled once, with  *)
(* the answer to that question or with the built-in text, across restarts,  *)
(* late answers and garbled frames.                                         *)
C == INSTANCE Calls WITH Callers <- Queries
EachSettledOnce == C!Spec

(* sendRequest's timer: every question asked gets an answer. *)
QueriesReturn == \A q \in Queries : (call[q] = "open") ~> (call[q] \in {"own", "spare"})

=============================================================================
