----------------------------- MODULE WasmWorker -----------------------------
(* The background worker (apps/website/public/lipi_worker.js) and the       *)
(* WebAssembly runner it loads (wasm_runner.js).  The worker is one thread: *)
(* a handler of a message runs to its end, except that running a binary     *)
(* waits for its compilation, and comes back to its caller later; so        *)
(* several binaries are under way together and finish in any order.         *)
EXTENDS Integers, Sequences, FiniteSets

CONSTANTS Messages,     \* bound: the messages the parent may post, each once
          MaxPrints     \* bound: texts a program prints

ASSUME WorkerAssumption == MaxPrints \in Nat

(* What a RUN message carries: no bytes, bytes of a wrong type, a header    *)
(* that is not WebAssembly's, a module that does not compile, one without a *)
(* function, and programs that return, trap, call abort or never end.       *)
Binaries == {"none", "type", "header", "invalid", "empty", "returns", "traps", "aborts",
             "endless"}
Sources == {"blank", "returns", "fails", "endless"}
Requests == [type : {"RUN"}, what : Binaries] \cup [type : {"RUN_SOURCE"}, what : Sources]
            \cup [type : {"PING", "RESET", "UNKNOWN", "NOT_OBJECT"}, what : {"none"}]

VARIABLES
    engine,             \* has ensureRunnerLoaded found the runner
    posted,             \* message -> what it is, or None before it is posted
    inbox,              \* messages not yet handled
    task,               \* message -> its handler: "new", "compiling", "running" for
                        \* ever, "ran" with its await over, "done"
    report,             \* message -> what runLipiWasm returned
    capturedOutput,     \* message -> texts captured by its run
    stuck,              \* a program that does not end holds the thread
    outbox              \* what the parent got

run == <<task, report, capturedOutput>>
vars == <<engine, posted, inbox, run, stuck, outbox>>

None == [type |-> "none", what |-> "none"]

Init ==
    /\ engine = FALSE
    /\ posted = [m \in Messages |-> None]
    /\ inbox = <<>>
    /\ task = [m \in Messages |-> "new"]
    /\ report = [m \in Messages |-> "none"]
    /\ capturedOutput = [m \in Messages |-> 0]
    /\ stuck = FALSE
    /\ outbox = <<[type |-> "READY"]>>

Post(m) ==
    /\ posted[m] = None
    /\ \E q \in Requests : posted' = [posted EXCEPT ![m] = q]
    /\ inbox' = Append(inbox, m)
    /\ UNCHANGED <<engine, run, stuck, outbox>>

-----------------------------------------------------------------------------
(* A handler whose await is over goes on (a microtask) before the thread    *)
(* takes another message or another compiled module.                        *)
Free == ~stuck /\ \A m \in Messages : task[m] # "ran"

(* ensureRunnerLoaded: every message that runs something tries to load the  *)
(* runner again; once it is loaded it stays.                                *)
EnsureRunnerLoaded(type) ==
    engine' \in {engine} \cup (IF type \in {"RUN", "RUN_SOURCE"} THEN {TRUE} ELSE {})

(* The next message is m, and it asks for this. *)
Take(m, type) ==
    /\ Free /\ inbox # <<>> /\ m = Head(inbox)
    /\ posted[m].type = type
    /\ EnsureRunnerLoaded(type)
    /\ inbox' = Tail(inbox)
    /\ UNCHANGED posted

Reply(m, type) == [type |-> type, id |-> m]
Output(m) == [type |-> "OUTPUT", id |-> m]
Outputs(m, n) == [i \in 1 .. n |-> Output(m)]

Answer(m, type) ==
    /\ outbox' = Append(outbox, Reply(m, type))
    /\ task' = [task EXCEPT ![m] = "done"]
    /\ UNCHANGED <<report, capturedOutput, stuck>>

Ping(m) == Take(m, "PING") /\ Answer(m, "PONG")

Reset(m) == Take(m, "RESET") /\ Answer(m, "RESET_OK")

Unknown(m) == Take(m, "UNKNOWN") /\ Answer(m, "ERROR")

(* A message that is not an object has no id to answer to. *)
Invalid(m) ==
    /\ Take(m, "NOT_OBJECT")
    /\ outbox' = Append(outbox, [type |-> "ERROR"])
    /\ task' = [task EXCEPT ![m] = "done"]
    /\ UNCHANGED <<report, capturedOutput, stuck>>

-----------------------------------------------------------------------------
(* Mutant: what the earlier runs captured is still there. *)
CaptureShared(m, n) ==
    LET before == Cardinality({k \in Messages : capturedOutput[k] > 0})
    IN capturedOutput' = [capturedOutput EXCEPT ![m] = n + before]

(* logCallback: every text is captured by its own run and sent at once. *)
Capture(m, n) == capturedOutput' = [capturedOutput EXCEPT ![m] = n]

SendTexts(m, n) ==
    /\ Capture(m, n)
    /\ outbox' = outbox \o Outputs(m, n)

(* Mutant: a refusal without its return goes on to the unknown-action trap. *)
RunRefusedTwice(m) ==
    /\ Take(m, "RUN")
    /\ ~engine' \/ posted[m].what \in {"none", "type"}
    /\ outbox' = outbox \o <<Reply(m, "ERROR"), Reply(m, "ERROR")>>
    /\ task' = [task EXCEPT ![m] = "done"]
    /\ UNCHANGED <<report, capturedOutput, stuck>>

(* RUN, up to the call of WebAssembly.instantiate: the refusals of the      *)
(* handler, then those of runLipiWasm, which log a line before they return  *)
(* their report.                                                            *)
RunRefused(m) ==
    /\ Take(m, "RUN")
    /\ ~engine' \/ posted[m].what \in {"none", "type"}
    /\ Answer(m, "ERROR")

RunBadHeader(m) ==
    /\ Take(m, "RUN")
    /\ engine' /\ posted[m].what = "header"
    /\ SendTexts(m, 1)
    /\ report' = [report EXCEPT ![m] = "error"]
    /\ task' = [task EXCEPT ![m] = "ran"]
    /\ UNCHANGED stuck

RunStarts(m) ==
    /\ Take(m, "RUN")
    /\ engine' /\ posted[m].what \notin {"none", "type", "header"}
    /\ task' = [task EXCEPT ![m] = "compiling"]
    /\ UNCHANGED <<report, capturedOutput, stuck, outbox>>

(* The module is compiled: it runs at once, to its end or for ever.  A trap *)
(* is logged after what was printed; abort prints its own line before; a    *)
(* module without a function to call is a success that logs one line.       *)
Lines(what, n) ==
    CASE what = "invalid" -> 1
      [] what = "empty"   -> 1
      [] what = "returns" -> n
      [] what = "traps"   -> n + 1
      [] what = "aborts"  -> n + 2
      [] what = "endless" -> n

RunEnds(m) ==
    /\ task[m] = "compiling" /\ Free
    /\ \E n \in 0 .. MaxPrints : SendTexts(m, Lines(posted[m].what, n))
    /\ \/ /\ posted[m].what = "endless"
          /\ stuck' = TRUE
          /\ task' = [task EXCEPT ![m] = "running"]
          /\ UNCHANGED report
       \/ /\ posted[m].what # "endless"
          /\ task' = [task EXCEPT ![m] = "ran"]
          /\ report' = [report EXCEPT ![m] =
                          IF posted[m].what \in {"empty", "returns"} THEN "ok" ELSE "error"]
          /\ UNCHANGED stuck
    /\ UNCHANGED <<engine, posted, inbox>>

(* Mutant: an error report is taken for an exception and not answered. *)
RunReportsOk(m) ==
    /\ task[m] = "ran" /\ ~stuck /\ report[m] = "ok"
    /\ task' = [task EXCEPT ![m] = "done"]
    /\ outbox' = Append(outbox, [type |-> "DONE", id |-> m, outputCount |-> capturedOutput[m]])
    /\ UNCHANGED <<engine, posted, inbox, report, capturedOutput, stuck>>

(* The handler goes on after its await and answers with the report. *)
RunReports(m) ==
    /\ task[m] = "ran" /\ ~stuck /\ report[m] # "source"
    /\ task' = [task EXCEPT ![m] = "done"]
    /\ outbox' = Append(outbox,
                   IF report[m] = "ok"
                   THEN [type |-> "DONE", id |-> m, outputCount |-> capturedOutput[m]]
                   ELSE Reply(m, "ERROR"))
    /\ UNCHANGED <<engine, posted, inbox, report, capturedOutput, stuck>>

-----------------------------------------------------------------------------
(* RUN_SOURCE: runSourceCode has nothing to wait for, and catches what the  *)
(* program throws; its result goes out when the handler's await ends.       *)
SourceRefused(m) ==
    /\ Take(m, "RUN_SOURCE") /\ ~engine'
    /\ Answer(m, "ERROR")

SourceRuns(m) ==
    /\ Take(m, "RUN_SOURCE") /\ engine'
    /\ stuck' = (posted[m].what = "endless")
    /\ task' = [task EXCEPT ![m] = IF stuck' THEN "running" ELSE "ran"]
    /\ report' = [report EXCEPT ![m] = IF stuck' THEN @ ELSE "source"]
    /\ UNCHANGED <<capturedOutput, outbox>>

SourceReports(m) ==
    /\ task[m] = "ran" /\ ~stuck /\ report[m] = "source"
    /\ outbox' = Append(outbox, Reply(m, "WASM_RESULT"))
    /\ task' = [task EXCEPT ![m] = "done"]
    /\ UNCHANGED <<engine, posted, inbox, report, capturedOutput, stuck>>

-----------------------------------------------------------------------------
Handle(m) == Ping(m) \/ Reset(m) \/ Unknown(m) \/ Invalid(m) \/ RunRefused(m)
             \/ RunBadHeader(m) \/ RunStarts(m) \/ SourceRefused(m) \/ SourceRuns(m)

Resume(m) == RunEnds(m) \/ RunReports(m) \/ SourceReports(m)

Next == \E m \in Messages : Post(m) \/ Handle(m) \/ Resume(m)

(* The event loop takes the next message, and a compilation ends, as long   *)
(* as the thread is free; the parent need not post anything.                *)
Fairness == /\ WF_vars(\E m \in Messages : Handle(m))
            /\ \A m \in Messages : WF_vars(Resume(m))

Spec == Init /\ [][Next]_vars /\ Fairness

-----------------------------------------------------------------------------
Finals == {"PONG", "RESET_OK", "ERROR", "DONE", "WASM_RESULT"}
Replies == [type : {"READY", "ERROR"}]
           \cup [type : (Finals \ {"DONE"}) \cup {"OUTPUT"}, id : Messages]
           \cup [type : {"DONE"}, id : Messages, outputCount : Nat]

(* The states, and that the continuation of an await runs before anything   *)
(* else does: at most one report waits to be sent.                          *)
TypeOK ==
    /\ engine \in BOOLEAN /\ stuck \in BOOLEAN
    /\ posted \in [Messages -> Requests \cup {None}]
    /\ inbox \in Seq({m \in Messages : posted[m] # None /\ task[m] = "new"})
    /\ task \in [Messages -> {"new", "compiling", "running", "ran", "done"}]
    /\ report \in [Messages -> {"none", "ok", "error", "source"}]
    /\ capturedOutput \in [Messages -> 0 .. MaxPrints + 2]
    /\ outbox \in Seq(Replies)
    /\ Cardinality({m \in Messages : task[m] \in {"running", "ran"}}) <= 1

(* Positions of the outbox that carry the id of m. *)
About(m) == {i \in DOMAIN outbox : "id" \in DOMAIN outbox[i] /\ outbox[i].id = m}
Final(m) == {i \in About(m) : outbox[i].type \in Finals}

(* The answers a message may end with. *)
Expected(q) == CASE q.type = "PING" -> {"PONG"}
                 [] q.type = "RESET" -> {"RESET_OK"}
                 [] q.type = "UNKNOWN" -> {"ERROR"}
                 [] q.type = "RUN" -> IF q.what \in {"empty", "returns"} THEN {"DONE", "ERROR"}
                                      ELSE {"ERROR"}
                 [] q.type = "RUN_SOURCE" -> {"WASM_RESULT", "ERROR"}
                 [] OTHER -> {}

(* However the runs interleave, what the parent got for a message is the    *)
(* texts of its own run and then at most one answer, of the kind the        *)
(* message calls for; nothing with its id follows the answer; and the       *)
(* outputCount of DONE is the number of texts sent under that id.           *)
AnsweredOnce ==
    \A m \in Messages : \A i \in Final(m) :
        /\ \A j \in About(m) : j <= i
        /\ \A j \in About(m) \ {i} : outbox[j].type = "OUTPUT"
        /\ outbox[i].type \in Expected(posted[m])
        /\ outbox[i].type = "DONE" => outbox[i].outputCount = Cardinality(About(m)) - 1

(* A message with an id is answered, even when a run before it failed, was  *)
(* refused, or is still compiling: only a program that does not end keeps   *)
(* the answers of all the others back.                                      *)
AllAnswered ==
    \A m \in Messages :
        posted[m].type \notin {"none", "NOT_OBJECT"} ~> (Final(m) # {} \/ stuck)

=============================================================================
