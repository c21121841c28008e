----------------------------- MODULE Playground -----------------------------
(* The code playground of the website (apps/website/public/app.js) with the *)
(* background worker, its 3 s timers and the server's /api/run.  The page   *)
(* is one thread: code that does not end and runs on it freezes the page.   *)
(* The worker is another thread: it takes messages in order, and code that  *)
(* does not end occupies it for ever.                                       *)
EXTENDS Integers, Sequences, FiniteSets

CONSTANTS MaxRuns,      \* bound: invocations of runCode
          Keys          \* the snippets; currentKey is one of them

ASSUME PlaygroundAssumption == MaxRuns \in Nat \ {0}

Runs == 1 .. MaxRuns
Kinds == {"fast", "faulty", "endless"}      \* what the source text does
Workers == {"ok", "mute", "absent"}         \* mute: its runner or script did not load

VARIABLES
    text, key, engine,          \* the editor, currentKey, currentEngine
    disabled,                   \* btnRun.disabled
    screen, badge,              \* terminalScreen, statusBadge
    frozen,                     \* the page thread is in code that does not end
    worker, runner,             \* is there a worker; has the page its own runner
    run, code,                  \* run -> its state; run -> the text it took
    lastId, callbacks, timers,  \* workerPendingId, workerCallbacks, armed timers
    inbox, busy, outbox         \* the worker: messages, stuck or not, results

(* History: a run was started by the keyboard shortcut. *)
VARIABLE keyed

editor == <<text, key, engine>>
display == <<screen, badge>>
waits == <<callbacks, timers>>
channel == <<inbox, busy, outbox>>
setting == <<worker, runner>>
vars == <<editor, disabled, display, frozen, setting, run, code, lastId, waits,
          channel, keyed>>

Init ==
    /\ key \in Keys /\ text = "fast" /\ engine = "server"
    /\ disabled = FALSE
    /\ screen = <<[what |-> "snippet", of |-> key]>> /\ badge = "ready"
    /\ frozen = FALSE
    /\ worker \in Workers /\ runner \in BOOLEAN
    /\ run = [r \in Runs |-> "idle"]
    /\ code = [r \in Runs |-> "none"]
    /\ lastId = 0 /\ callbacks = {} /\ timers = {}
    /\ inbox = <<>> /\ busy = FALSE /\ outbox = <<>>
    /\ keyed = FALSE

Open == {r \in Runs : run[r] \in {"worker", "server"}}

-----------------------------------------------------------------------------
(* The editor.  Typing changes the text only; a snippet also takes the      *)
(* terminal and the badge, whatever is running.                             *)
Type(k) ==
    /\ ~frozen /\ text # k
    /\ text' = k
    /\ UNCHANGED <<key, engine, disabled, display, frozen, setting, run, code, lastId,
                   waits, channel, keyed>>

LoadSnippet(k) ==
    /\ ~frozen
    /\ key' = k /\ text' = "fast"
    /\ screen' = <<[what |-> "snippet", of |-> k]>>
    /\ badge' = "ready"
    /\ UNCHANGED <<engine, disabled, frozen, setting, run, code, lastId, waits,
                   channel, keyed>>

ResetCode == LoadSnippet(key)

ClearTerminal ==
    /\ ~frozen
    /\ screen' = <<>> /\ badge' = "ready"
    /\ UNCHANGED <<editor, disabled, frozen, setting, run, code, lastId, waits,
                   channel, keyed>>

SetEngine(e) ==
    /\ ~frozen /\ engine # e
    /\ engine' = e
    /\ UNCHANGED <<text, key, disabled, display, frozen, setting, run, code, lastId,
                   waits, channel, keyed>>

-----------------------------------------------------------------------------
(* Mutant: an error leaves before the finally block. *)
FinishEarly(r, state, item) ==
    /\ run' = [run EXCEPT ![r] = state]
    /\ screen' = Append(screen, item)
    /\ badge' = IF item.what = "error" THEN "error" ELSE "ready"
    /\ disabled' = (item.what = "error" /\ disabled)
    /\ UNCHANGED <<editor, frozen, setting, code, keyed>>

(* The end of runCode: the result is appended to whatever the terminal      *)
(* shows, and the finally block enables the button.                         *)
Finish(r, state, item) ==
    /\ run' = [run EXCEPT ![r] = state]
    /\ screen' = Append(screen, item)
    /\ badge' = IF item.what = "error" THEN "error" ELSE "ready"
    /\ disabled' = FALSE
    /\ UNCHANGED <<editor, frozen, setting, code, keyed>>

Result(r, by) == [what |-> IF code[r] = "fast" THEN "output" ELSE "error", of |-> by]

(* LipiWasmRunner.run on the page's own thread. *)
RunOnPage(r) ==
    \/ /\ code[r] = "endless"
       /\ frozen' = TRUE
       /\ UNCHANGED <<editor, disabled, display, setting, run, code, keyed>>
    \/ /\ code[r] # "endless"
       /\ Finish(r, "own", Result(r, r))

(* runCode from its start to its first await.  Empty text ends it at once;  *)
(* runWasmCode without a worker runs or fails before anything else does.    *)
Begin(r, state) ==
    /\ run' = [run EXCEPT ![r] = state]
    /\ code' = [code EXCEPT ![r] = text]
    /\ disabled' = TRUE
    /\ screen' = <<[what |-> "banner", of |-> r]>>
    /\ badge' = "running"

RunEmpty ==
    /\ text = "empty"
    /\ screen' = <<[what |-> "no code", of |-> 0]>>
    /\ UNCHANGED <<disabled, badge, frozen, run, code, lastId, waits, channel>>

(* Mutant: every message has the same id. *)
SendSameId(r) ==
    /\ Begin(r, "worker")
    /\ lastId' = 1
    /\ callbacks' = callbacks \cup {[id |-> 1, run |-> r]}
    /\ timers' = timers \cup {[id |-> 1, run |-> r]}
    /\ inbox' = Append(inbox, [id |-> 1, run |-> r])
    /\ UNCHANGED <<frozen, busy, outbox>>

SendToWorker(r) ==
    /\ Begin(r, "worker")
    /\ lastId' = lastId + 1
    /\ callbacks' = callbacks \cup {[id |-> lastId + 1, run |-> r]}
    /\ timers' = timers \cup {[id |-> lastId + 1, run |-> r]}
    /\ inbox' = Append(inbox, [id |-> lastId + 1, run |-> r])
    /\ UNCHANGED <<frozen, busy, outbox>>

RunWithoutWorker(r) ==
    /\ code' = [code EXCEPT ![r] = text]
    /\ LET hangs == runner /\ text = "endless"
           item == [what |-> IF runner /\ text = "fast" THEN "output" ELSE "error", of |-> r]
       IN /\ frozen' = hangs
          /\ disabled' = hangs
          /\ run' = [run EXCEPT ![r] = IF hangs THEN "worker"
                                       ELSE IF runner THEN "own" ELSE "spare"]
          /\ screen' = <<[what |-> "banner", of |-> r]>> \o IF hangs THEN <<>> ELSE <<item>>
          /\ badge' = IF hangs THEN "running"
                      ELSE IF item.what = "error" THEN "error" ELSE "ready"
    /\ UNCHANGED <<lastId, waits, channel>>

RunCode(r) ==
    /\ r = Cardinality({s \in Runs : run[s] # "idle"}) + 1
    /\ \/ RunEmpty
       \/ /\ text # "empty" /\ engine = "wasm" /\ worker # "absent"
          /\ SendToWorker(r)
       \/ /\ text # "empty" /\ engine = "wasm" /\ worker = "absent"
          /\ RunWithoutWorker(r)
       \/ /\ text # "empty" /\ engine = "server"
          /\ Begin(r, "server")
          /\ UNCHANGED <<frozen, lastId, waits, channel>>
    /\ UNCHANGED <<editor, setting>>

(* A disabled button has no click event; the shortcut asks nobody. *)
Click(r) == ~frozen /\ ~disabled /\ RunCode(r) /\ UNCHANGED keyed

CtrlEnter(r) == ~frozen /\ RunCode(r) /\ keyed' = TRUE

-----------------------------------------------------------------------------
(* The worker.  One whose runner is missing answers with an ERROR message,  *)
(* one whose script is missing does not answer: the page ignores both.      *)
WorkerTakes ==
    /\ inbox # <<>> /\ ~busy
    /\ inbox' = Tail(inbox)
    /\ LET m == Head(inbox)
       IN /\ busy' = (worker = "ok" /\ code[m.run] = "endless")
          /\ outbox' = IF worker = "ok" /\ code[m.run] # "endless" THEN Append(outbox, m)
                       ELSE outbox
    /\ UNCHANGED <<editor, disabled, display, frozen, setting, run, code, lastId,
                   waits, keyed>>

(* Mutant: the timer of an answered message stays armed. *)
LeaveTimer(c) == timers

ClearTimeout(c) == timers \ {c}

(* workerInstance.onmessage: the callback of a late result is gone. *)
Message ==
    /\ ~frozen /\ outbox # <<>>
    /\ outbox' = Tail(outbox)
    /\ LET m == Head(outbox)
           called == {c \in callbacks : c.id = m.id}
       IN \/ /\ called = {}
             /\ UNCHANGED <<editor, disabled, display, frozen, setting, run, code, waits,
                            keyed>>
          \/ \E c \in called :
                /\ callbacks' = callbacks \ {c}
                /\ timers' = ClearTimeout(c)
                /\ Finish(c.run, IF c.run = m.run THEN "own" ELSE "other", Result(m.run, m.run))
    /\ UNCHANGED <<lastId, inbox, busy>>

(* Mutant: the timer only says that the worker is slow. *)
TimerWarns(c) ==
    /\ ~frozen /\ c \in timers
    /\ timers' = timers \ {c}
    /\ UNCHANGED <<editor, disabled, display, frozen, setting, run, code, lastId, callbacks,
                   channel, keyed>>

(* Three seconds are over: the code is run again, on the page, when the     *)
(* page has the runner.                                                     *)
TimerFires(c) ==
    /\ ~frozen /\ c \in timers
    /\ timers' = timers \ {c}
    /\ callbacks' = callbacks \ {c}
    /\ \/ /\ c \notin callbacks
          /\ UNCHANGED <<editor, disabled, display, frozen, setting, run, code, keyed>>
       \/ /\ c \in callbacks /\ runner
          /\ RunOnPage(c.run)
       \/ /\ c \in callbacks /\ ~runner
          /\ Finish(c.run, "spare", [what |-> "error", of |-> c.run])
    /\ UNCHANGED <<lastId, channel>>

-----------------------------------------------------------------------------
(* /api/run answers with the output or with an error of the code (endless   *)
(* code is killed after 2 s), or the request fails: the preview shown then  *)
(* is the one of the snippet selected now.                                  *)
ServerAnswers(r) ==
    /\ ~frozen /\ run[r] = "server"
    /\ Finish(r, "own", Result(r, r))
    /\ UNCHANGED <<lastId, waits, channel>>

RequestFails(r) ==
    /\ ~frozen /\ run[r] = "server"
    /\ Finish(r, "spare", [what |-> "preview", of |-> key])
    /\ UNCHANGED <<lastId, waits, channel>>

-----------------------------------------------------------------------------
User ==
    \/ \E k \in Kinds \cup {"empty"} : Type(k)
    \/ \E k \in Keys : LoadSnippet(k)
    \/ ResetCode \/ ClearTerminal
    \/ \E e \in {"server", "wasm"} : SetEngine(e)
    \/ \E r \in Runs : Click(r) \/ CtrlEnter(r)

Timeout == \E c \in timers : TimerFires(c)
Network(r) == ServerAnswers(r) \/ RequestFails(r)

Next == User \/ WorkerTakes \/ Message \/ Timeout \/ \E r \in Runs : Network(r)

(* The event loop gets to expired timers; the browser ends every request    *)
(* with an answer or a failure.  The worker is promised nothing.            *)
Spec == /\ Init /\ [][Next]_vars
        /\ WF_vars(Timeout)
        /\ \A r \in Runs : WF_vars(Network(r))

-----------------------------------------------------------------------------

(* Types of the page's and the worker's state; a frozen page has a run that *)
(* never came to its finally block.                                         *)
TypeOK ==
    /\ text \in Kinds \cup {"empty"} /\ key \in Keys /\ engine \in {"server", "wasm"}
    /\ disabled \in BOOLEAN /\ frozen \in BOOLEAN /\ keyed \in BOOLEAN /\ busy \in BOOLEAN
    /\ worker \in Workers /\ runner \in BOOLEAN
    /\ run \in [Runs -> {"idle", "worker", "server", "own", "other", "spare"}]
    /\ code \in [Runs -> Kinds \cup {"none"}]
    /\ badge \in {"ready", "running", "error"}
    /\ lastId \in 0 .. MaxRuns
    /\ callbacks \subseteq [id : 1 .. lastId, run : Runs] /\ timers \subseteq callbacks
    /\ Len(inbox) + Len(outbox) <= lastId
    /\ frozen => \E r \in Open : code[r] = "endless"

(* runCode's disabled flag: the button is never left disabled with no run   *)
(* under way to enable it, whatever ends first; and as long as nobody used  *)
(* the shortcut, it keeps a second run from starting and the terminal from  *)
(* showing two runs.                                                        *)
ButtonExcludes ==
    /\ disabled => Open # {}
    /\ ~keyed => /\ Cardinality(Open) <= 1
                 /\ \A i, j \in DOMAIN screen :
                       {screen[i].what, screen[j].what} \subseteq {"banner", "output", "error"}
                           => screen[i].of = screen[j].of

(* runCode and runWasmCode: a run ends once, with the result of the text it *)
(* took, or with the page's substitute; a result that comes after the       *)
(* timeout, or for another run, never ends it.                              *)
State(r) == CASE run[r] \in {"worker", "server"} -> "open" [] OTHER -> run[r]
C == INSTANCE Calls WITH Callers <- Runs, call <- [r \in Runs |-> State(r)]
EachRunOnce == C!Spec

(* The timeout in runWasmCode: every run ends, or its page is frozen by     *)
(* code that does not end: a stuck or mute worker holds up nobody.          *)
RunsEnd == \A r \in Runs : (r \in Open) ~> (r \notin Open \/ frozen)

=============================================================================
