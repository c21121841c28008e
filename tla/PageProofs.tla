----------------------------- MODULE PageProofs -----------------------------
(* Proofs about app.js.  The playground, for any number of runs: the button *)
(* excludes a second run, and every run ends once, with its own result or   *)
(* the page's substitute, which is the refinement of Calls: a run in the    *)
(* worker or at the server is an open call.  The database panel, for any    *)
(* number of clicks: what the user was told about the file stays true, and  *)
(* without overlap the table shows the file.                                *)
EXTENDS Playground, DbPanel, FiniteSetTheorems, SequenceTheorems, WellFoundedInduction,
        NaturalsInduction, TLAPS

Item == [what : {"snippet", "no code", "banner", "output", "error", "preview"},
         of : Runs \cup Keys \cup {0}]
Mail == [id : Nat, run : Runs]

Shape ==
    /\ screen \in Seq(Item)
    /\ inbox \in Seq(Mail) /\ outbox \in Seq(Mail)

(* Runs start in order, and an id is used up only by a run that starts. *)
StartedInOrder ==
    \E k \in lastId .. MaxRuns : \A r \in Runs : run[r] # "idle" <=> r <= k

(* A callback belongs to a run that waits for the worker, one to each. *)
CallbackOfOpen ==
    /\ \A c \in callbacks : run[c.run] = "worker"
    /\ \A c, d \in callbacks : c.run = d.run => c = d

(* What carries an id on the page, on its way to the worker or back: an id  *)
(* was given to one run.                                                    *)
Carried == callbacks \cup {inbox[i] : i \in DOMAIN inbox} \cup {outbox[i] : i \in DOMAIN outbox}
IdOfOneRun ==
    /\ \A a \in Carried : a.id <= lastId
    /\ \A a, b \in Carried : a.id = b.id => a.run = b.run

(* Without the shortcut: a run under way keeps the button disabled and is   *)
(* the only one, and the terminal shows it alone.                           *)
OfRun(i) == screen[i].what \in {"banner", "output", "error"}
OneAtATime ==
    ~keyed =>
        /\ Open # {} => disabled
        /\ \A r, s \in Open : r = s
        /\ \A r \in Open, i \in DOMAIN screen : OfRun(i) => screen[i].of = r
        /\ \A i, j \in DOMAIN screen : OfRun(i) /\ OfRun(j) => screen[i].of = screen[j].of

(* A step of the runs: from idle to open or ended, from open to ended, with  *)
(* the run's own result or the page's substitute.                           *)
Moved ==
    \A r \in Runs :
        \/ run'[r] = run[r]
        \/ run[r] = "idle" /\ run'[r] \in {"worker", "server", "own", "spare"}
        \/ r \in Open /\ run'[r] \in {"own", "spare"}

IInv == /\ TypeOK /\ Shape /\ StartedInOrder /\ CallbackOfOpen /\ IdOfOneRun
        /\ disabled => Open # {}
        /\ OneAtATime

-----------------------------------------------------------------------------
(* What a queue holds after one message is taken or put. *)
LEMMA TailHolds ==
    ASSUME NEW s \in Seq(Mail), s # <<>>
    PROVE  /\ Tail(s) \in Seq(Mail) /\ Len(Tail(s)) = Len(s) - 1
           /\ Head(s) \in Mail /\ Head(s) \in {s[i] : i \in DOMAIN s}
           /\ {Tail(s)[i] : i \in DOMAIN Tail(s)} \subseteq {s[i] : i \in DOMAIN s}
OBVIOUS

LEMMA AppendHolds ==
    ASSUME NEW s \in Seq(Mail), NEW m \in Mail
    PROVE  /\ Append(s, m) \in Seq(Mail) /\ Len(Append(s, m)) = Len(s) + 1
           /\ {Append(s, m)[i] : i \in DOMAIN Append(s, m)} \subseteq {s[i] : i \in DOMAIN s} \cup {m}
<1> DEFINE t == Append(s, m)
<1>1. /\ t \in Seq(Mail) /\ Len(t) = Len(s) + 1
      /\ \A i \in DOMAIN t : (i \in DOMAIN s /\ t[i] = s[i]) \/ t[i] = m
  OBVIOUS
<1> QED BY <1>1

LEMMA Starts == Init => IInv
<1> SUFFICES ASSUME Init PROVE IInv
  OBVIOUS
<1>1. TypeOK
  <2>1. lastId \in 0 .. MaxRuns /\ Len(inbox) + Len(outbox) <= lastId
    BY PlaygroundAssumption DEF Init
  <2> QED BY <2>1 DEF Init, TypeOK, Kinds, Workers
<1>5. Shape
  <2>1. [what |-> "snippet", of |-> key] \in Item
    BY DEF Init, Item
  <2> QED BY <2>1 DEF Init, Shape
<1>2. StartedInOrder
  BY PlaygroundAssumption DEF Init, StartedInOrder, Runs
<1>3. CallbackOfOpen /\ IdOfOneRun
  BY DEF Init, CallbackOfOpen, IdOfOneRun, Carried
<1>4. ~disabled /\ OneAtATime
  BY DEF Init, OneAtATime, Open, OfRun
<1> QED BY <1>1, <1>2, <1>3, <1>4, <1>5 DEF IInv

(* A step that starts and ends no run keeps everything, whatever it does to *)
(* the editor, and whichever waiting callbacks and messages it drops.       *)
LEMMA QuietKeeps ==
    ASSUME IInv, TypeOK', Shape',
           UNCHANGED <<run, disabled, lastId>>, keyed => keyed',
           callbacks' \subseteq callbacks, Carried' \subseteq Carried,
           \/ screen' = screen
           \/ \A i \in DOMAIN screen' : ~OfRun(i)'
    PROVE  IInv' /\ Moved
<1>1. StartedInOrder'
  BY DEF IInv, StartedInOrder
<1>2. CallbackOfOpen' /\ IdOfOneRun'
  BY DEF IInv, CallbackOfOpen, IdOfOneRun
<1>3. Open' = Open
  BY DEF Open
<1>4. OneAtATime'
  <2>1. CASE screen' = screen
    BY <1>3, <2>1 DEF IInv, OneAtATime, OfRun
  <2>2. CASE \A i \in DOMAIN screen' : ~OfRun(i)'
    BY <1>3, <2>2 DEF IInv, OneAtATime
  <2> QED BY <2>1, <2>2
<1> QED BY <1>1, <1>2, <1>3, <1>4 DEF IInv, Moved

(* The end of runCode for an open run r, which has no callback any more. *)
LEMMA FinishKeeps ==
    ASSUME IInv, NEW r \in Open, NEW state \in {"own", "spare"},
           NEW item \in Item, item.what = "preview" \/ item.of = r,
           ~frozen, Finish(r, state, item), lastId' = lastId,
           inbox' \in Seq(Mail), outbox' \in Seq(Mail),
           Len(inbox') + Len(outbox') <= lastId, busy' \in BOOLEAN,
           callbacks' \subseteq callbacks, timers' \subseteq callbacks',
           \A c \in callbacks' : c.run # r,
           Carried' \subseteq Carried
    PROVE  IInv' /\ Moved
<1>1. /\ run' = [run EXCEPT ![r] = state]
      /\ screen' = Append(screen, item)
      /\ badge' = IF item.what = "error" THEN "error" ELSE "ready"
      /\ disabled' = FALSE
      /\ UNCHANGED <<text, key, engine, frozen, worker, runner, code, keyed>>
  BY DEF Finish, editor, setting
<1>2. r \in Runs /\ run[r] \in {"worker", "server"} /\ run[r] # "idle"
  BY DEF Open
<1>3. run \in [Runs -> {"idle", "worker", "server", "own", "other", "spare"}]
  BY DEF IInv, TypeOK
<1>4. run' \in [Runs -> {"idle", "worker", "server", "own", "other", "spare"}]
  BY <1>1, <1>3
<1>5. Open' = Open \ {r}
  BY <1>1, <1>2, <1>3 DEF Open
<1>6. TypeOK'
  BY <1>1, <1>4 DEF IInv, TypeOK
<1>7. Shape'
  BY <1>1 DEF IInv, Shape
<1>8. StartedInOrder'
  BY <1>1, <1>2, <1>3 DEF IInv, StartedInOrder
<1>9. CallbackOfOpen' /\ IdOfOneRun'
  <2>1. \A c \in callbacks : c.run \in Runs
    BY DEF IInv, TypeOK
  <2> QED BY <1>1, <1>3, <2>1 DEF IInv, CallbackOfOpen, IdOfOneRun
<1>10. OneAtATime'
  <2> SUFFICES ASSUME ~keyed
               PROVE  /\ Open' = {}
                      /\ \A i, j \in DOMAIN screen' : OfRun(i)' /\ OfRun(j)'
                            => screen'[i].of = screen'[j].of
    BY <1>1 DEF OneAtATime
  <2>1. /\ \A s \in Open : s = r
        /\ \A i \in DOMAIN screen : OfRun(i) => screen[i].of = r
    BY <1>1 DEF IInv, OneAtATime
  <2>2. Open' = {}
    BY <1>5, <2>1
  <2>3. \A i \in DOMAIN screen' : \/ i \in DOMAIN screen /\ screen'[i] = screen[i]
                                 \/ screen'[i] = item
    BY <1>1 DEF IInv, Shape
  <2>4. \A i \in DOMAIN screen' : OfRun(i)' => screen'[i].of = r
    BY <2>1, <2>3 DEF OfRun
  <2> QED BY <2>2, <2>4
<1>11. Moved
  BY <1>1, <1>3 DEF Moved
<1> QED BY <1>1, <1>6, <1>7, <1>8, <1>9, <1>10, <1>11 DEF IInv

(* The two ways runCode ends its first part in a worker or a request: run r *)
(* is open, and a callback of it may wait under a new id.                   *)
LEMMA BeginKeeps ==
    ASSUME IInv, NEW r \in Runs, run[r] = "idle", NEW state \in {"worker", "server"},
           text # "empty", Begin(r, state), ~frozen, UNCHANGED <<editor, setting, frozen, busy, outbox>>,
           \A s \in Runs : run[s] # "idle" <=> s < r, lastId < r,
           \/ UNCHANGED <<lastId, waits, inbox>>
           \/ /\ state = "worker"
              /\ lastId' = lastId + 1
              /\ callbacks' = callbacks \cup {[id |-> lastId + 1, run |-> r]}
              /\ timers' = timers \cup {[id |-> lastId + 1, run |-> r]}
              /\ inbox' = Append(inbox, [id |-> lastId + 1, run |-> r]),
           keyed' \/ (~disabled /\ keyed' = keyed), keyed' \in BOOLEAN
    PROVE  IInv' /\ Moved
<1> DEFINE m == [id |-> lastId + 1, run |-> r]
<1>1. /\ run' = [run EXCEPT ![r] = state]
      /\ code' = [code EXCEPT ![r] = text]
      /\ disabled' = TRUE /\ badge' = "running"
      /\ screen' = <<[what |-> "banner", of |-> r]>>
      /\ UNCHANGED <<text, key, engine, worker, runner, frozen, busy, outbox>>
  BY DEF Begin, editor, setting
<1>2. run \in [Runs -> {"idle", "worker", "server", "own", "other", "spare"}] /\ lastId \in Nat
  BY PlaygroundAssumption DEF IInv, TypeOK
<1>3. Open' = Open \cup {r}
  BY <1>1, <1>2 DEF Open
<1>4. \/ UNCHANGED <<lastId, callbacks, timers, inbox>>
      \/ /\ state = "worker" /\ lastId' = lastId + 1
         /\ callbacks' = callbacks \cup {m} /\ timers' = timers \cup {m}
         /\ inbox' = Append(inbox, m)
  BY DEF waits
<1>5. m \in Mail /\ m.id = lastId + 1 /\ m.run = r
  BY <1>2 DEF Mail
<1> HIDE DEF m
<1>6. inbox \in Seq(Mail) /\ outbox \in Seq(Mail) /\ Len(inbox) + Len(outbox) <= lastId
  BY DEF IInv, Shape, TypeOK
<1>7. /\ inbox' \in Seq(Mail)
      /\ Len(inbox') + Len(outbox') <= lastId'
      /\ Carried' \subseteq Carried \/ (Carried' \subseteq Carried \cup {m} /\ lastId' = lastId + 1)
  <2>1. CASE UNCHANGED <<lastId, callbacks, timers, inbox>>
    BY <1>1, <1>6, <2>1 DEF Carried
  <2>2. CASE lastId' = lastId + 1 /\ callbacks' = callbacks \cup {m} /\ inbox' = Append(inbox, m)
    <3>1. /\ Append(inbox, m) \in Seq(Mail) /\ Len(Append(inbox, m)) = Len(inbox) + 1
          /\ {Append(inbox, m)[i] : i \in DOMAIN Append(inbox, m)}
                \subseteq {inbox[i] : i \in DOMAIN inbox} \cup {m}
      BY <1>5, <1>6, AppendHolds
    <3>2. Carried' \subseteq Carried \cup {m}
      BY <1>1, <2>2, <3>1 DEF Carried
    <3> QED BY <1>1, <1>2, <1>6, <2>2, <3>1, <3>2
  <2> QED BY <1>4, <2>1, <2>2
<1>8. TypeOK'
  <2>1. run' \in [Runs -> {"idle", "worker", "server", "own", "other", "spare"}]
    BY <1>1, <1>2
  <2>2. code' \in [Runs -> Kinds \cup {"none"}]
    BY <1>1 DEF IInv, TypeOK
  <2>3. lastId' \in 0 .. MaxRuns
    BY <1>2, <1>4, PlaygroundAssumption DEF Runs
  <2>4. callbacks' \subseteq [id : 1 .. lastId', run : Runs] /\ timers' \subseteq callbacks'
    <3>1. m \in [id : 1 .. lastId + 1, run : Runs]
      BY <1>2 DEF m
    <3>2. \A c \in callbacks : c \in [id : 1 .. lastId + 1, run : Runs]
      BY <1>2 DEF IInv, TypeOK
    <3> QED BY <1>4, <3>1, <3>2 DEF IInv, TypeOK
  <2> QED BY <1>1, <1>7, <2>1, <2>2, <2>3, <2>4 DEF IInv, TypeOK
<1>9. Shape'
  <2>1. [what |-> "banner", of |-> r] \in Item
    BY DEF Item
  <2> QED BY <1>1, <1>6, <1>7, <2>1 DEF Shape
<1>10. StartedInOrder'
  <2>1. r \in lastId' .. MaxRuns
    BY <1>2, <1>4, PlaygroundAssumption DEF Runs
  <2>2. \A s \in Runs : run'[s] # "idle" <=> s <= r
    BY <1>1, <1>2 DEF Runs
  <2> QED BY <2>1, <2>2 DEF StartedInOrder
<1>11. CallbackOfOpen'
  <2>1. \A c \in callbacks : c.run \in Runs /\ c.run # r /\ run[c.run] = "worker"
    BY DEF IInv, TypeOK, CallbackOfOpen
  <2> QED BY <1>1, <1>2, <1>4, <1>5, <2>1 DEF IInv, CallbackOfOpen
<1>12. IdOfOneRun'
  <2>1. /\ \A a \in Carried : a.id <= lastId /\ a.id # lastId + 1 /\ a.id <= lastId + 1
        /\ \A a, b \in Carried : a.id = b.id => a.run = b.run
    <3>1. \A a \in Carried : a \in Mail
      <4>1. \A c \in callbacks : c \in Mail
        BY <1>2 DEF IInv, TypeOK, Mail
      <4> QED BY <1>6, <4>1 DEF Carried
    <3> QED BY <1>2, <3>1 DEF IInv, IdOfOneRun, Mail
  <2> QED BY <1>2, <1>4, <1>5, <1>7, <2>1 DEF IdOfOneRun
<1>13. OneAtATime'
  <2>1. ~keyed' => Open = {}
    BY DEF IInv, OneAtATime
  <2> QED BY <1>1, <1>3, <2>1 DEF OneAtATime, OfRun
<1>14. Moved
  BY <1>1, <1>2 DEF Moved
<1> QED BY <1>1, <1>3, <1>8, <1>9, <1>10, <1>11, <1>12, <1>13, <1>14 DEF IInv

(* The run that starts is the first one that has not. *)
LEMMA NextRun ==
    ASSUME IInv, NEW r \in Runs, r = Cardinality({s \in Runs : run[s] # "idle"}) + 1
    PROVE  run[r] = "idle" /\ lastId < r /\ \A s \in Runs : run[s] # "idle" <=> s < r
<1>1. PICK k \in lastId .. MaxRuns : \A s \in Runs : run[s] # "idle" <=> s <= k
  BY DEF IInv, StartedInOrder
<1>2. lastId \in Nat /\ k \in Nat /\ k <= MaxRuns /\ lastId <= k
  BY PlaygroundAssumption DEF IInv, TypeOK
<1>3. {s \in Runs : run[s] # "idle"} = 1 .. k
  BY <1>1, <1>2, PlaygroundAssumption DEF Runs
<1>4. Cardinality(1 .. k) = k
  BY <1>2, FS_Interval
<1>5. r = k + 1
  BY <1>3, <1>4
<1> QED BY <1>1, <1>2, <1>5 DEF Runs

(* A page without a worker: the run ends within the call, or freezes it. *)
LEMMA RunWithoutWorkerKeeps ==
    ASSUME IInv, NEW r \in Runs, run[r] = "idle", lastId < r,
           \A s \in Runs : run[s] # "idle" <=> s < r,
           ~frozen, text # "empty", RunWithoutWorker(r), UNCHANGED <<editor, setting>>,
           keyed' \/ (~disabled /\ keyed' = keyed), keyed' \in BOOLEAN
    PROVE  IInv' /\ Moved
<1> DEFINE hangs == runner /\ text = "endless"
           item == [what |-> IF runner /\ text = "fast" THEN "output" ELSE "error", of |-> r]
           state == IF hangs THEN "worker" ELSE IF runner THEN "own" ELSE "spare"
           banner == [what |-> "banner", of |-> r]
<1>1. /\ code' = [code EXCEPT ![r] = text]
      /\ frozen' = hangs /\ disabled' = hangs
      /\ run' = [run EXCEPT ![r] = state]
      /\ screen' = <<banner>> \o IF hangs THEN <<>> ELSE <<item>>
      /\ badge' = IF hangs THEN "running" ELSE IF item.what = "error" THEN "error" ELSE "ready"
      /\ UNCHANGED <<lastId, callbacks, timers, inbox, busy, outbox, text, key, engine,
                     worker, runner>>
  BY DEF RunWithoutWorker, waits, channel, editor, setting
<1>2. /\ run \in [Runs -> {"idle", "worker", "server", "own", "other", "spare"}]
      /\ code \in [Runs -> Kinds \cup {"none"}] /\ text \in Kinds
      /\ lastId \in 0 .. MaxRuns /\ hangs \in BOOLEAN
  BY DEF IInv, TypeOK
<1>3. /\ item \in Item /\ banner \in Item /\ item.of = r /\ banner.of = r
      /\ state \in {"worker", "own", "spare"} /\ (state = "worker" <=> hangs)
  BY DEF Item
<1>4. screen' \in Seq(Item) /\ \A i \in DOMAIN screen' : screen'[i].of = r
  <2>1. CASE hangs
    <3>1. screen' = <<banner>>
      BY <1>1, <2>1
    <3> QED BY <1>3, <3>1
  <2>2. CASE ~hangs
    <3>1. screen' = <<banner>> \o <<item>>
      BY <1>1, <2>2
    <3> HIDE DEF item, banner
    <3> QED BY <1>3, <3>1
  <2> QED BY <2>1, <2>2
<1> HIDE DEF item, state, banner
<1>5. Open' = IF hangs THEN Open \cup {r} ELSE Open
  BY <1>1, <1>2, <1>3 DEF Open
<1>6. TypeOK'
  <2>1. run' \in [Runs -> {"idle", "worker", "server", "own", "other", "spare"}]
    BY <1>1, <1>2, <1>3
  <2>2. code' \in [Runs -> Kinds \cup {"none"}]
    BY <1>1, <1>2
  <2>3. frozen' => \E s \in Open' : code'[s] = "endless"
    BY <1>1, <1>2, <1>5
  <2>4. badge' \in {"ready", "running", "error"} /\ disabled' \in BOOLEAN /\ frozen' \in BOOLEAN
    BY <1>1, <1>2
  <2> QED BY <1>1, <2>1, <2>2, <2>3, <2>4 DEF IInv, TypeOK
<1>7. Shape'
  BY <1>1, <1>4 DEF IInv, Shape
<1>8. StartedInOrder'
  <2>1. r \in lastId' .. MaxRuns
    BY <1>1, <1>2, PlaygroundAssumption DEF Runs
  <2>2. \A s \in Runs : run'[s] # "idle" <=> s <= r
    BY <1>1, <1>2, <1>3 DEF Runs
  <2> QED BY <2>1, <2>2 DEF StartedInOrder
<1>9. CallbackOfOpen' /\ IdOfOneRun'
  <2>1. \A c \in callbacks : c.run \in Runs /\ c.run # r
    BY DEF IInv, TypeOK, CallbackOfOpen
  <2> QED BY <1>1, <1>2, <2>1 DEF IInv, CallbackOfOpen, IdOfOneRun, Carried
<1>10. OneAtATime'
  <2>1. ~keyed' => Open = {}
    BY DEF IInv, OneAtATime
  <2> QED BY <1>1, <1>4, <1>5, <2>1 DEF OneAtATime
<1>11. disabled' => Open' # {}
  BY <1>1, <1>5
<1>12. Moved
  BY <1>1, <1>2, <1>3 DEF Moved
<1> QED BY <1>6, <1>7, <1>8, <1>9, <1>10, <1>11, <1>12 DEF IInv

LEMMA RunCodeKeeps ==
    ASSUME IInv, NEW r \in Runs, ~frozen, RunCode(r),
           keyed' \/ (~disabled /\ keyed' = keyed), keyed' \in BOOLEAN
    PROVE  IInv' /\ Moved
<1>1. run[r] = "idle" /\ lastId < r /\ \A s \in Runs : run[s] # "idle" <=> s < r
  BY NextRun DEF RunCode
<1>2. CASE RunEmpty
  <2> DEFINE note == [what |-> "no code", of |-> 0]
  <2>1. /\ screen' = <<note>>
        /\ UNCHANGED <<disabled, badge, frozen, run, code, lastId, callbacks, timers, inbox,
                       busy, outbox, text, key, engine, worker, runner>>
    BY <1>2 DEF RunEmpty, RunCode, waits, channel, editor, setting
  <2>2. note \in Item /\ note.what \notin {"banner", "output", "error"}
    BY DEF Item
  <2> HIDE DEF note
  <2>3. Shape'
    BY <2>1, <2>2 DEF IInv, Shape
  <2>4. Open' = Open
    BY <2>1 DEF Open
  <2>5. TypeOK'
    BY <2>1, <2>4 DEF IInv, TypeOK
  <2>6. \A i \in DOMAIN screen' : ~OfRun(i)'
    BY <2>1, <2>2 DEF OfRun
  <2>7. Carried' = Carried /\ (keyed => keyed')
    BY <2>1 DEF Carried
  <2> QED BY <2>1, <2>3, <2>5, <2>6, <2>7, QuietKeeps
<1>3. CASE text # "empty" /\ engine = "wasm" /\ worker # "absent" /\ SendToWorker(r)
  BY <1>1, <1>3, BeginKeeps DEF RunCode, SendToWorker
<1>4. CASE text # "empty" /\ engine = "wasm" /\ worker = "absent" /\ RunWithoutWorker(r)
  BY <1>1, <1>4, RunWithoutWorkerKeeps DEF RunCode
<1>5. CASE /\ text # "empty" /\ engine = "server" /\ Begin(r, "server")
           /\ UNCHANGED <<frozen, lastId, waits, channel>>
  BY <1>1, <1>5, BeginKeeps DEF RunCode, channel
<1> QED BY <1>2, <1>3, <1>4, <1>5 DEF RunCode

LEMMA UserKeeps == IInv /\ User => IInv' /\ Moved
<1> SUFFICES ASSUME IInv, User PROVE IInv' /\ Moved
  OBVIOUS
<1>1. ASSUME NEW k \in Kinds \cup {"empty"}, Type(k) PROVE IInv' /\ Moved
  <2>1. /\ text' = k
        /\ UNCHANGED <<key, engine, disabled, screen, badge, frozen, worker, runner, run, code,
                       lastId, callbacks, timers, inbox, busy, outbox, keyed>>
    BY <1>1 DEF Type, display, setting, waits, channel
  <2>2. TypeOK' /\ Shape' /\ Carried' = Carried
    BY <2>1 DEF IInv, TypeOK, Shape, Carried, Open
  <2> QED BY <2>1, <2>2, QuietKeeps
<1>2. ASSUME NEW k \in Keys, LoadSnippet(k) PROVE IInv' /\ Moved
  <2> DEFINE item == [what |-> "snippet", of |-> k]
  <2>1. /\ key' = k /\ text' = "fast" /\ screen' = <<item>> /\ badge' = "ready"
        /\ UNCHANGED <<engine, disabled, frozen, worker, runner, run, code, lastId,
                       callbacks, timers, inbox, busy, outbox, keyed>>
    BY <1>2 DEF LoadSnippet, setting, waits, channel
  <2>2. item \in Item /\ item.what = "snippet"
    BY DEF Item
  <2> HIDE DEF item
  <2>3. TypeOK' /\ Carried' = Carried
    BY <2>1 DEF IInv, TypeOK, Carried, Open, Kinds
  <2>4. Shape' /\ \A i \in DOMAIN screen' : ~OfRun(i)'
    BY <2>1, <2>2 DEF IInv, Shape, OfRun
  <2> QED BY <2>1, <2>3, <2>4, QuietKeeps
<1>3. CASE ResetCode
  BY <1>2, <1>3 DEF ResetCode, IInv, TypeOK
<1>4. CASE ClearTerminal
  <2>1. /\ screen' = <<>> /\ badge' = "ready"
        /\ UNCHANGED <<text, key, engine, disabled, frozen, worker, runner, run, code, lastId,
                       callbacks, timers, inbox, busy, outbox, keyed>>
    BY <1>4 DEF ClearTerminal, editor, setting, waits, channel
  <2>2. TypeOK' /\ Carried' = Carried
    BY <2>1 DEF IInv, TypeOK, Carried, Open
  <2>3. Shape' /\ \A i \in DOMAIN screen' : ~OfRun(i)'
    BY <2>1 DEF IInv, Shape, OfRun
  <2> QED BY <2>1, <2>2, <2>3, QuietKeeps
<1>5. ASSUME NEW e \in {"server", "wasm"}, SetEngine(e) PROVE IInv' /\ Moved
  <2>1. /\ engine' = e
        /\ UNCHANGED <<text, key, disabled, screen, badge, frozen, worker, runner, run, code,
                       lastId, callbacks, timers, inbox, busy, outbox, keyed>>
    BY <1>5 DEF SetEngine, display, setting, waits, channel
  <2>2. TypeOK' /\ Shape' /\ Carried' = Carried
    BY <2>1 DEF IInv, TypeOK, Shape, Carried, Open
  <2> QED BY <2>1, <2>2, QuietKeeps
<1>6. ASSUME NEW r \in Runs, Click(r) \/ CtrlEnter(r) PROVE IInv' /\ Moved
  <2>1. keyed' \/ (~disabled /\ keyed' = keyed)
    BY <1>6 DEF Click, CtrlEnter
  <2>2. keyed' \in BOOLEAN /\ ~frozen /\ RunCode(r)
    BY <1>6 DEF Click, CtrlEnter, IInv, TypeOK
  <2> QED BY <2>1, <2>2, RunCodeKeeps
<1> QED BY <1>1, <1>2, <1>3, <1>4, <1>5, <1>6 DEF User

(* The worker moves a message from one queue to the other, or drops it. *)
LEMMA WorkerTakesKeeps == IInv /\ WorkerTakes => IInv' /\ Moved
<1> SUFFICES ASSUME IInv, WorkerTakes PROVE IInv' /\ Moved
  OBVIOUS
<1> DEFINE m == Head(inbox)
<1>1. /\ inbox # <<>> /\ inbox' = Tail(inbox)
      /\ busy' = (worker = "ok" /\ code[m.run] = "endless")
      /\ outbox' = Append(outbox, m) \/ outbox' = outbox
      /\ UNCHANGED <<text, key, engine, disabled, screen, badge, frozen, worker, runner, run,
                     code, lastId, callbacks, timers, keyed>>
  BY DEF WorkerTakes, editor, display, setting, waits
<1>2. inbox \in Seq(Mail) /\ outbox \in Seq(Mail) /\ Len(inbox) + Len(outbox) <= lastId
  BY DEF IInv, Shape, TypeOK
<1>3. /\ inbox' \in Seq(Mail) /\ Len(inbox') = Len(inbox) - 1
      /\ m \in Mail /\ m \in {inbox[i] : i \in DOMAIN inbox}
      /\ {inbox'[i] : i \in DOMAIN inbox'} \subseteq {inbox[i] : i \in DOMAIN inbox}
  BY <1>1, <1>2, TailHolds
<1> HIDE DEF m
<1>4. /\ outbox' \in Seq(Mail) /\ Len(outbox') <= Len(outbox) + 1
      /\ {outbox'[i] : i \in DOMAIN outbox'} \subseteq {outbox[i] : i \in DOMAIN outbox} \cup {m}
  <2>1. CASE outbox' = outbox
    BY <1>2, <2>1
  <2>2. CASE outbox' = Append(outbox, m)
    BY <1>2, <1>3, <2>2, AppendHolds
  <2> QED BY <1>1, <2>1, <2>2
<1>5. Carried' \subseteq Carried
  BY <1>1, <1>3, <1>4 DEF Carried
<1>6. Len(inbox') + Len(outbox') <= lastId /\ busy' \in BOOLEAN
  <2>1. lastId \in Nat
    BY PlaygroundAssumption DEF IInv, TypeOK
  <2>2. Len(inbox') + Len(outbox') <= lastId
    BY <1>2, <1>3, <1>4, <2>1
  <2> QED BY <1>1, <2>2
<1>7. TypeOK' /\ Shape'
  <2>1. Open' = Open
    BY <1>1 DEF Open
  <2> QED BY <1>1, <1>3, <1>4, <1>6, <2>1 DEF IInv, TypeOK, Shape
<1> QED BY <1>1, <1>5, <1>7, QuietKeeps

(* A callback that ends a run is the only one the run has. *)
LEMMA WithoutCallback ==
    ASSUME IInv, NEW c \in callbacks, callbacks' = callbacks \ {c}
    PROVE  /\ c.run \in Open /\ \A d \in callbacks' : d.run # c.run
           /\ timers \ {c} \subseteq callbacks'
BY DEF IInv, TypeOK, CallbackOfOpen, Open

(* What the page shows of run r is about run r. *)
LEMMA ResultIsItem ==
    ASSUME NEW r \in Runs
    PROVE  /\ Result(r, r) \in Item /\ Result(r, r).of = r
           /\ [what |-> "error", of |-> r] \in Item
           /\ \A k \in Keys : [what |-> "preview", of |-> k] \in Item
BY DEF Result, Item

(* A message that finds a callback finds the one of its own run, because no *)
(* id was given to two runs.                                                *)
LEMMA MessageKeeps == IInv /\ Message => IInv' /\ Moved
<1> SUFFICES ASSUME IInv, Message PROVE IInv' /\ Moved
  OBVIOUS
<1> DEFINE m == Head(outbox)
<1>1. /\ ~frozen /\ outbox # <<>> /\ outbox' = Tail(outbox)
      /\ UNCHANGED <<lastId, inbox, busy>>
  BY DEF Message
<1>2. inbox \in Seq(Mail) /\ outbox \in Seq(Mail) /\ Len(inbox) + Len(outbox) <= lastId
  BY DEF IInv, Shape, TypeOK
<1>3. /\ outbox' \in Seq(Mail) /\ Len(outbox') = Len(outbox) - 1
      /\ m \in Mail /\ m \in {outbox[i] : i \in DOMAIN outbox}
      /\ {outbox'[i] : i \in DOMAIN outbox'} \subseteq {outbox[i] : i \in DOMAIN outbox}
  BY <1>1, <1>2, TailHolds
<1>4. Len(inbox') + Len(outbox') <= lastId
  <2>1. lastId \in Nat
    BY PlaygroundAssumption DEF IInv, TypeOK
  <2> QED BY <1>1, <1>2, <1>3, <2>1
<1>5. callbacks' \subseteq callbacks => Carried' \subseteq Carried
  BY <1>1, <1>3 DEF Carried
<1>6. CASE UNCHANGED <<editor, disabled, display, frozen, setting, run, code, waits, keyed>>
  <2>1. UNCHANGED <<text, key, engine, disabled, screen, badge, frozen, worker, runner, run,
                    code, callbacks, timers, keyed>>
    BY <1>6 DEF editor, display, setting, waits
  <2>2. TypeOK' /\ Shape'
    <3>1. Open' = Open
      BY <2>1 DEF Open
    <3> QED BY <1>1, <1>2, <1>3, <1>4, <2>1, <3>1 DEF IInv, TypeOK, Shape
  <2> QED BY <1>1, <1>5, <2>1, <2>2, QuietKeeps
<1>7. ASSUME NEW c \in callbacks, c.id = m.id,
             callbacks' = callbacks \ {c}, timers' = ClearTimeout(c),
             Finish(c.run, IF c.run = m.run THEN "own" ELSE "other", Result(m.run, m.run))
      PROVE  IInv' /\ Moved
  <2>1. c \in Carried /\ m \in Carried
    BY <1>3 DEF Carried
  <2>2. c.run = m.run
    BY <1>7, <2>1 DEF IInv, IdOfOneRun
  <2>3. c.run \in Open /\ (\A d \in callbacks' : d.run # c.run) /\ timers' \subseteq callbacks'
    BY <1>7, WithoutCallback DEF ClearTimeout
  <2>4. c.run \in Runs /\ Result(c.run, c.run) \in Item /\ Result(c.run, c.run).of = c.run
    BY <2>3, ResultIsItem DEF Open
  <2>5. Finish(c.run, "own", Result(c.run, c.run))
    BY <1>7, <2>2
  <2>6. busy' \in BOOLEAN
    BY <1>1 DEF IInv, TypeOK
  <2> HIDE DEF m
  <2> QED BY <1>1, <1>2, <1>3, <1>4, <1>5, <1>7, <2>3, <2>4, <2>5, <2>6, FinishKeeps
<1> QED BY <1>6, <1>7 DEF Message

LEMMA TimeoutKeeps == IInv /\ Timeout => IInv' /\ Moved
<1> SUFFICES ASSUME IInv, NEW c \in timers, TimerFires(c) PROVE IInv' /\ Moved
  BY DEF Timeout
<1>1. /\ ~frozen /\ timers' = timers \ {c} /\ callbacks' = callbacks \ {c}
      /\ UNCHANGED <<lastId, inbox, busy, outbox>>
  BY DEF TimerFires, channel
<1>2. c \in callbacks
  BY DEF IInv, TypeOK
<1>3. c.run \in Open /\ (\A d \in callbacks' : d.run # c.run) /\ timers' \subseteq callbacks'
  BY <1>1, <1>2, WithoutCallback
<1>4. /\ inbox' \in Seq(Mail) /\ outbox' \in Seq(Mail) /\ Len(inbox') + Len(outbox') <= lastId
      /\ busy' \in BOOLEAN /\ callbacks' \subseteq callbacks /\ Carried' \subseteq Carried
  BY <1>1 DEF IInv, Shape, TypeOK, Carried
<1>5. c.run \in Runs
  BY <1>3 DEF Open
<1>6. ASSUME NEW state \in {"own", "spare"}, NEW item \in Item, item.of = c.run,
             Finish(c.run, state, item)
      PROVE  IInv' /\ Moved
  BY <1>1, <1>3, <1>4, <1>6, FinishKeeps
<1>7. CASE runner /\ RunOnPage(c.run)
  <2>1. CASE /\ code[c.run] = "endless" /\ frozen' = TRUE
             /\ UNCHANGED <<editor, disabled, display, setting, run, code, keyed>>
    <3>1. UNCHANGED <<text, key, engine, disabled, screen, badge, worker, runner, run, code, keyed>>
      BY <2>1 DEF editor, display, setting
    <3>2. TypeOK'
      <4>1. Open' = Open
        BY <3>1 DEF Open
      <4> QED BY <1>1, <1>3, <1>4, <2>1, <3>1, <4>1 DEF IInv, TypeOK
    <3>3. Shape'
      BY <1>4, <3>1 DEF IInv, Shape
    <3> QED BY <1>1, <1>4, <3>1, <3>2, <3>3, QuietKeeps
  <2>2. CASE code[c.run] # "endless" /\ Finish(c.run, "own", Result(c.run, c.run))
    BY <1>5, <1>6, <2>2, ResultIsItem
  <2> QED BY <1>7, <2>1, <2>2 DEF RunOnPage
<1>8. CASE ~runner /\ Finish(c.run, "spare", [what |-> "error", of |-> c.run])
  BY <1>5, <1>6, <1>8, ResultIsItem
<1> QED BY <1>2, <1>7, <1>8 DEF TimerFires

LEMMA NetworkKeeps == ASSUME IInv, NEW r \in Runs, Network(r) PROVE IInv' /\ Moved
<1>1. ~frozen /\ run[r] = "server" /\ UNCHANGED <<lastId, callbacks, timers, inbox, busy, outbox>>
  BY DEF Network, ServerAnswers, RequestFails, waits, channel
<1>2. r \in Open /\ \A c \in callbacks' : c.run # r
  BY <1>1 DEF IInv, CallbackOfOpen, Open
<1>3. /\ inbox' \in Seq(Mail) /\ outbox' \in Seq(Mail) /\ Len(inbox') + Len(outbox') <= lastId
      /\ busy' \in BOOLEAN /\ callbacks' \subseteq callbacks /\ Carried' \subseteq Carried
      /\ timers' \subseteq callbacks'
  BY <1>1 DEF IInv, Shape, TypeOK, Carried
<1>4. ASSUME NEW state \in {"own", "spare"}, NEW item \in Item,
             item.what = "preview" \/ item.of = r, Finish(r, state, item)
      PROVE  IInv' /\ Moved
  BY <1>1, <1>2, <1>3, <1>4, FinishKeeps
<1>5. CASE ServerAnswers(r)
  BY <1>4, <1>5, ResultIsItem DEF ServerAnswers
<1>6. CASE RequestFails(r)
  <2>1. [what |-> "preview", of |-> key] \in Item
    BY DEF IInv, TypeOK, Item
  <2> QED BY <1>4, <1>6, <2>1 DEF RequestFails
<1> QED BY <1>5, <1>6 DEF Network

LEMMA StepKeeps == IInv /\ [Next]_vars => IInv' /\ Moved
<1> SUFFICES ASSUME IInv, [Next]_vars PROVE IInv' /\ Moved
  OBVIOUS
<1>1. CASE UNCHANGED vars
  <2>1. UNCHANGED <<text, key, engine, disabled, screen, badge, frozen, worker, runner, run,
                    code, lastId, callbacks, timers, inbox, busy, outbox, keyed>>
    BY <1>1 DEF vars, editor, display, setting, waits, channel
  <2>2. TypeOK' /\ Shape' /\ Carried' = Carried
    BY <2>1 DEF IInv, TypeOK, Shape, Carried, Open
  <2> QED BY <2>1, <2>2, QuietKeeps
<1> QED BY <1>1, UserKeeps, WorkerTakesKeeps, MessageKeeps, TimeoutKeeps, NetworkKeeps DEF Next

-----------------------------------------------------------------------------
(* The invariant the results below are read off from. *)
THEOREM PageStaysSound == Spec => []IInv
BY Starts, StepKeeps, PTL DEF Spec

(* Types of the page's and the worker's state, for any number of runs; a    *)
(* frozen page has a run that never came to its finally block.              *)
THEOREM TypeCorrect == Spec => []TypeOK
<1>1. IInv => TypeOK
  BY DEF IInv
<1> QED BY <1>1, PageStaysSound, PTL

(* runCode's disabled flag, for any number of runs: the button is never     *)
(* left disabled with no run under way; and without the shortcut one run at *)
(* a time is under way and on the terminal.                                 *)
THEOREM ButtonAlwaysExcludes == Spec => []ButtonExcludes
<1>1. IInv => ButtonExcludes
  <2> SUFFICES ASSUME IInv PROVE ButtonExcludes
    OBVIOUS
  <2>1. ASSUME \A r, s \in Open : r = s PROVE Cardinality(Open) <= 1
    <3>1. CASE Open = {}
      BY <3>1, FS_EmptySet
    <3>2. CASE Open # {}
      <4>1. PICK r \in Open : TRUE
        BY <3>2
      <4>2. Open = {r}
        BY <2>1, <4>1
      <4>3. Cardinality({r}) = 1
        BY FS_Singleton
      <4> QED BY <4>2, <4>3
    <3> QED BY <3>1, <3>2
  <2>2. ~keyed => Cardinality(Open) <= 1
    BY <2>1 DEF IInv, OneAtATime
  <2>3. ~keyed => \A i, j \in DOMAIN screen :
                    {screen[i].what, screen[j].what} \subseteq {"banner", "output", "error"}
                        => screen[i].of = screen[j].of
    BY DEF IInv, OneAtATime, OfRun
  <2> QED BY <2>2, <2>3 DEF ButtonExcludes, IInv
<1> QED BY <1>1, PageStaysSound, PTL

(* runCode and runWasmCode implement Calls, for any number of runs: a run   *)
(* ends once, with the result of the text it took or with the page's        *)
(* substitute, however late results, timers and refusals interleave.        *)
THEOREM RunsAreCalls == Spec => EachRunOnce
<1>1. Init => C!Init
  BY DEF Init, C!Init, State
<1>2. IInv /\ Moved => C!Next
  <2> SUFFICES ASSUME IInv, Moved, NEW r \in Runs
               PROVE  \/ State(r)' = State(r)
                      \/ <<State(r), State(r)'>> \in C!Moves
    BY DEF C!Next
  <2>1. run[r] \in {"idle", "worker", "server", "own", "other", "spare"}
    BY DEF IInv, TypeOK
  <2> QED BY <2>1 DEF Moved, Open, State, C!Moves
<1>3. IInv /\ [Next]_vars => C!Next
  BY <1>2, StepKeeps
<1> QED BY <1>1, <1>3, PageStaysSound, PTL DEF Spec, EachRunOnce, C!Spec

-----------------------------------------------------------------------------
(* The database panel, for any number of clicks and of records. *)
Row == [id : Nat, value : Nat]
Asked == [do : {"load", "refresh"}] \cup [do : {"add"}, value : Values]
         \cup [do : {"delete"}, id : Nat]

Bounded(R) == \E n \in Nat : \A r \in R : r.id <= n

PanelShape ==
    /\ file \in Seq(Nat)
    /\ fallbackRecords \subseteq [id : Nat \ {0}, value : Nat]
    /\ Bounded(fallbackRecords)
    /\ shown \subseteq Row /\ source \in {"none", "server", "preview"}
    /\ op \in [Ops -> Asked]
    /\ pc \in [Ops -> {"idle", "sent", "answered", "stats", "loading"}]
    /\ answer \in [Ops -> Nat]
    /\ stats \in [Ops -> {"none", "sent", "done"}]
    /\ list \in [Ops -> [state : {"none", "sent", "answered", "done"}, got : SUBSET Row]]
    /\ overlapped \in BOOLEAN /\ stray \in BOOLEAN
    /\ \A p \in Ops : /\ pc[p] = "idle" => op[p].do = "load" /\ stats[p] = "none"
                      /\ pc[p] \in {"sent", "answered"} => op[p].do \in {"add", "delete"}

(* As long as no delete went beyond the end: whole records, numbered from 1. *)
WholeRecords(f, n) ==
    /\ f \in Seq(Nat) /\ Len(f) = 4 * n
    /\ \A i \in 0 .. n - 1 : f[4 * i + 1] = i + 1 /\ f[4 * i + 3] \in {0, 1}
Whole == ~stray => \E n \in Nat : WholeRecords(file, n)

(* What the user was told, and what the answers on their way will tell. *)
Kept(s) == s \in Items(file)
           \/ \E p \in Ops : op[p] = [do |-> "delete", id |-> s.id]
Gone(i) == i \in 0 .. Records(file) /\ \A r \in Items(file) : r.id # i
Told ==
    ~stray =>
        /\ \A s \in saved : Kept(s)
        /\ \A i \in removed : Gone(i)
        /\ \A p \in Ops : pc[p] = "answered" =>
              /\ op[p].do = "add" => Kept([id |-> answer[p], value |-> op[p].value])
              /\ op[p].do = "delete" => Gone(op[p].id)

(* Without overlap one operation is under way, the file changes before its  *)
(* records are asked for, and they stay as they are until they are shown.   *)
Current ==
    ~overlapped =>
        /\ \A p, q \in Active : p = q
        /\ \A p \in Ops : list[p].state = "none" <=> pc[p] # "loading"
        /\ \A p \in Ops : list[p].state = "answered" => list[p].got = Items(file)
        /\ (\A p \in Active : list[p].state = "done") /\ source = "server"
              => shown = Items(file)

PanelInv == PanelShape /\ Whole /\ Told /\ Current

LEMMA RecordsFit ==
    ASSUME NEW f \in Seq(Nat)
    PROVE  Records(f) \in Nat /\ 4 * Records(f) <= Len(f)
BY DEF Records, PerRecord

LEMMA RecordsOf ==
    ASSUME NEW f, NEW n \in Nat, WholeRecords(f, n)
    PROVE  Records(f) = n
BY DEF WholeRecords, Records, PerRecord

LEMMA ItemsOf ==
    ASSUME NEW f, NEW n \in Nat, WholeRecords(f, n)
    PROVE  /\ Items(f) = {[id |-> i + 1, value |-> f[4 * i + 4]] :
                                  i \in {j \in 0 .. n - 1 : f[4 * j + 3] = 1}}
           /\ \A r \in Items(f) : r.id \in 1 .. n
<1>1. Records(f) = n
  BY RecordsOf
<1>2. \A i \in 0 .. n - 1 : /\ Word(f, i, 1) = i + 1
                            /\ Word(f, i, 3) = f[4 * i + 3] /\ Word(f, i, 4) = f[4 * i + 4]
  BY DEF WholeRecords, Word, PerRecord
<1>3. {j \in 0 .. Records(f) - 1 : Word(f, j, 3) = 1} = {j \in 0 .. n - 1 : f[4 * j + 3] = 1}
  BY <1>1, <1>2
<1>4. Items(f) = {[id |-> i + 1, value |-> f[4 * i + 4]] :
                                  i \in {j \in 0 .. n - 1 : f[4 * j + 3] = 1}}
  BY <1>2, <1>3 DEF Items
<1> QED BY <1>4

(* db_serve_items, whatever the file holds. *)
LEMMA ItemsAreRows ==
    ASSUME NEW f \in Seq(Nat)
    PROVE  Items(f) \subseteq Row
<1> DEFINE R == Records(f)
<1>1. R \in Nat /\ 4 * R <= Len(f)
  BY RecordsFit
<1>2. \A i \in 0 .. R - 1 : Word(f, i, 1) \in Nat /\ Word(f, i, 4) \in Nat
  BY <1>1 DEF Word, PerRecord
<1> QED BY <1>2 DEF Items, Row

LEMMA InsertResult ==
    ASSUME NEW f, NEW n \in Nat, WholeRecords(f, n), NEW v \in Nat
    PROVE  /\ WholeRecords(InsertRecord(f, v), n + 1)
           /\ Items(InsertRecord(f, v))
                = Items(f) \cup {[id |-> n + 1, value |-> v]}
<1> DEFINE g == InsertRecord(f, v)
<1>1. f \in Seq(Nat) /\ Len(f) = 4 * n /\ Records(f) = n
  BY RecordsOf DEF WholeRecords
<1>2. /\ g = f \o <<n + 1, 9, 1, v>> /\ g \in Seq(Nat)
  BY <1>1 DEF InsertRecord, Clock
<1>3. Len(g) = 4 * (n + 1)
  <2>1. Len(<<n + 1, 9, 1, v>>) = 4 /\ <<n + 1, 9, 1, v>> \in Seq(Nat)
    OBVIOUS
  <2> HIDE DEF g
  <2>2. Len(g) = Len(f) + Len(<<n + 1, 9, 1, v>>)
    BY <1>1, <1>2, <2>1, ConcatProperties, Zenon
  <2> QED BY <1>1, <2>1, <2>2
<1>4. /\ \A i \in 1 .. 4 * n : g[i] = f[i]
      /\ g[4 * n + 1] = n + 1 /\ g[4 * n + 3] = 1 /\ g[4 * n + 4] = v
  BY <1>1, <1>2
<1>5. \A i \in 0 .. n : g[4 * i + 1] = i + 1 /\ g[4 * i + 3] \in {0, 1}
  BY <1>4 DEF WholeRecords
<1> HIDE DEF g
<1>6. WholeRecords(g, n + 1)
  <2>1. 0 .. (n + 1) - 1 = 0 .. n
    OBVIOUS
  <2> QED BY <1>2, <1>3, <1>5, <2>1 DEF WholeRecords
<1>7. /\ Items(g) = {[id |-> i + 1, value |-> g[4 * i + 4]] :
                                  i \in {j \in 0 .. (n + 1) - 1 : g[4 * j + 3] = 1}}
      /\ Items(f) = {[id |-> i + 1, value |-> f[4 * i + 4]] :
                                  i \in {j \in 0 .. n - 1 : f[4 * j + 3] = 1}}
  <2>1. n + 1 \in Nat
    OBVIOUS
  <2> QED BY <1>6, <2>1, ItemsOf
<1>8. {j \in 0 .. (n + 1) - 1 : g[4 * j + 3] = 1} = {j \in 0 .. n - 1 : f[4 * j + 3] = 1} \cup {n}
  BY <1>4
<1>9. \A i \in 0 .. n - 1 : g[4 * i + 4] = f[4 * i + 4]
  BY <1>4
<1>10. Items(g) = Items(f) \cup {[id |-> n + 1, value |-> v]}
  <2> DEFINE A == {j \in 0 .. n - 1 : f[4 * j + 3] = 1}
  <2>1. \A i \in A : g[4 * i + 4] = f[4 * i + 4]
    BY <1>9
  <2>2. {[id |-> i + 1, value |-> g[4 * i + 4]] : i \in A \cup {n}}
          = {[id |-> i + 1, value |-> g[4 * i + 4]] : i \in A} \cup {[id |-> n + 1, value |-> g[4 * n + 4]]}
    OBVIOUS
  <2>3. {[id |-> i + 1, value |-> g[4 * i + 4]] : i \in A} = {[id |-> i + 1, value |-> f[4 * i + 4]] : i \in A}
    BY <2>1
  <2> QED BY <1>4, <1>7, <1>8, <2>2, <2>3
<1> QED BY <1>6, <1>10 DEF g

LEMMA DeleteKeepsWords ==
    ASSUME NEW f \in Seq(Nat), NEW i \in Nat
    PROVE  DeleteRecord(f, i) \in Seq(Nat)
<1> DEFINE at == 4 * (i - 1) + 3
           L == IF at > Len(f) THEN at ELSE Len(f)
<1>1. L \in Nat
  OBVIOUS
<1>2. DeleteRecord(f, i) = [k \in 1 .. L |-> IF k = at \/ k > Len(f) THEN 0 ELSE f[k]]
  BY DEF DeleteRecord, PerRecord
<1> HIDE DEF L, at
<1> QED BY <1>1, <1>2

LEMMA DeleteResult ==
    ASSUME NEW f, NEW n \in Nat, WholeRecords(f, n), NEW d \in 0 .. n
    PROVE  /\ WholeRecords(DeleteRecord(f, d), n)
           /\ Items(DeleteRecord(f, d)) = {r \in Items(f) : r.id # d}
<1> DEFINE g == DeleteRecord(f, d)
           at == 4 * (d - 1) + 3
<1>1. f \in Seq(Nat) /\ Len(f) = 4 * n
  BY DEF WholeRecords
<1>2. g \in Seq(Nat)
  BY <1>1, DeleteKeepsWords
<1>3. g = [k \in 1 .. 4 * n |-> IF k = at THEN 0 ELSE f[k]]
  <2>1. ~ (at > Len(f)) /\ at \in Int
    BY <1>1
  <2>2. \A k \in 1 .. 4 * n : ~ (k > Len(f))
    BY <1>1
  <2> QED BY <1>1, <2>1, <2>2 DEF DeleteRecord, PerRecord
<1>4. Len(g) = 4 * n
  BY <1>2, <1>3
<1>5. \A k \in 1 .. 4 * n : g[k] = IF k = at THEN 0 ELSE f[k]
  BY <1>3
<1> HIDE DEF g
<1>6. \A i \in 0 .. n - 1 : /\ g[4 * i + 1] = f[4 * i + 1] /\ g[4 * i + 4] = f[4 * i + 4]
                            /\ g[4 * i + 3] = IF i + 1 = d THEN 0 ELSE f[4 * i + 3]
  <2> TAKE i \in 0 .. n - 1
  <2>1. 4 * i + 1 # at /\ 4 * i + 4 # at /\ (4 * i + 3 = at <=> i + 1 = d)
    OBVIOUS
  <2>2. {4 * i + 1, 4 * i + 3, 4 * i + 4} \subseteq 1 .. 4 * n
    OBVIOUS
  <2> QED BY <1>5, <2>1, <2>2
<1>7. WholeRecords(g, n)
  BY <1>2, <1>4, <1>6 DEF WholeRecords
<1>8. /\ Items(g) = {[id |-> i + 1, value |-> g[4 * i + 4]] :
                                  i \in {j \in 0 .. n - 1 : g[4 * j + 3] = 1}}
      /\ Items(f) = {[id |-> i + 1, value |-> f[4 * i + 4]] :
                                  i \in {j \in 0 .. n - 1 : f[4 * j + 3] = 1}}
  BY <1>7, ItemsOf
<1>9. {j \in 0 .. n - 1 : g[4 * j + 3] = 1} = {j \in 0 .. n - 1 : f[4 * j + 3] = 1 /\ j + 1 # d}
  BY <1>6
<1>10. Items(g) = {r \in Items(f) : r.id # d}
  BY <1>6, <1>8, <1>9
<1> QED BY <1>7, <1>10 DEF g

-----------------------------------------------------------------------------
LEMMA BoundedHasMax ==
    ASSUME NEW R, R # {}, NEW n \in Nat, \A r \in R : r.id \in Nat /\ r.id <= n
    PROVE  NextId(R) \in Nat \ {0} /\ \A r \in R : r.id <= NextId(R)
<1> DEFINE B == {m \in Nat : \A r \in R : r.id <= m}
           Below == {ss \in Nat \X Nat : ss[1] < ss[2]}
           IsMax(i) == i \in {r.id : r \in R} /\ \A r \in R : r.id <= i
<1>1. IsWellFoundedOn(Below, Nat)
  BY NatLessThanWellFounded DEF OpToRel
<1>2. PICK m \in B : \A k \in B : ~ (<<k, m>> \in Below)
  BY <1>1, WFMin, Zenon
<1>3. m \in Nat /\ \A r \in R : r.id <= m
  OBVIOUS
<1>4. \E r \in R : r.id = m
  <2>1. CASE \A r \in R : r.id # m
    <3>1. PICK r \in R : TRUE
      OBVIOUS
    <3>2. m - 1 \in Nat /\ \A x \in R : x.id <= m - 1
      BY <1>3, <2>1, <3>1
    <3>3. m - 1 \in B /\ <<m - 1, m>> \in Below
      BY <1>3, <3>2
    <3> QED BY <1>2, <3>3
  <2> QED BY <2>1
<1>5. IsMax(m)
  BY <1>3, <1>4
<1> DEFINE top == CHOOSE i \in {r.id : r \in R} : \A r \in R : r.id <= i
<1>6. top \in {r.id : r \in R} /\ \A r \in R : r.id <= top
  BY <1>5
<1>7. NextId(R) = 1 + top
  BY DEF NextId
<1> HIDE DEF top
<1>8. top \in Nat
  BY <1>6
<1> QED BY <1>6, <1>7, <1>8

LEMMA PanelStarts ==
    ASSUME PanelInit
    PROVE  PanelInv
<1> USE DbPanelAssumption
<1>1. PICK v \in Values : file \in {<<>>, InsertRecord(<<>>, v)}
  BY DEF PanelInit
<1>2. WholeRecords(<<>>, 0)
  BY DEF WholeRecords
<1>3. \E n \in Nat : WholeRecords(file, n)
  <2>1. v \in Nat /\ 0 \in Nat /\ 0 + 1 \in Nat
    OBVIOUS
  <2> QED BY <1>1, <1>2, <2>1, InsertResult
<1>4. file \in Seq(Nat)
  BY <1>3 DEF WholeRecords
<1>5. PanelShape
  <2>1. \A p \in Ops : [do |-> "load"] \in Asked
    BY DEF Asked
  <2>2. /\ fallbackRecords \subseteq [id : Nat \ {0}, value : Nat]
        /\ Bounded(fallbackRecords)
    <3>1. \A r \in fallbackRecords : r.id <= Preview
      BY DEF PanelInit
    <3> QED BY <3>1, DbPanelAssumption DEF PanelInit, Bounded
  <2>3. list \in [Ops -> [state : {"none", "sent", "answered", "done"}, got : SUBSET Row]]
    BY DEF PanelInit, Nothing, Waiting
  <2>4. /\ op \in [Ops -> Asked] /\ \A p \in Ops : op[p].do = "load"
        /\ pc \in [Ops -> {"idle", "loading"}]
        /\ stats \in [Ops -> {"none", "sent"}] /\ answer \in [Ops -> Nat]
    BY <2>1 DEF PanelInit
  <2>5. shown \subseteq Row /\ source \in {"none", "server", "preview"}
        /\ overlapped \in BOOLEAN /\ stray \in BOOLEAN
    BY DEF PanelInit
  <2>6. \A p \in Ops : pc[p] \notin {"sent", "answered"} /\ (pc[p] = "idle" => stats[p] = "none")
    BY <2>4 DEF PanelInit
  <2> QED BY <1>4, <2>2, <2>3, <2>4, <2>5, <2>6 DEF PanelShape
<1>6. Told
  BY DEF Told, PanelInit
<1>7. Current
  <2>1. Active = {0}
    BY DEF Active, PanelInit, Ops, Nothing, Waiting
  <2> QED BY <2>1 DEF Current, PanelInit, Nothing, Waiting
<1> QED BY <1>3, <1>5, <1>6, <1>7 DEF PanelInv, Whole

LEMMA ShapeKept ==
    ASSUME PanelShape, [PanelNext]_panelVars
    PROVE  PanelShape'
<1> USE DEF PanelShape, view, loads, told
<1>1. CASE UNCHANGED panelVars
  BY <1>1 DEF panelVars, Ops
<1>2. ASSUME NEW p \in Ops, NEW v \in Values, Insert(p, v) PROVE PanelShape'
  <2>1. [do |-> "add", value |-> v] \in Asked
    BY DEF Asked
  <2> QED BY <1>2, <2>1 DEF Insert, StartClick, Ops
<1>3. ASSUME NEW p \in Ops, NEW r \in shown, Delete(p, r.id) PROVE PanelShape'
  <2>1. [do |-> "delete", id |-> r.id] \in Asked
    BY DEF Asked, Row
  <2> QED BY <1>3, <2>1 DEF Delete, StartClick, Ops
<1>4. ASSUME NEW p \in Ops, Refresh(p) PROVE PanelShape'
  <2>1. [do |-> "refresh"] \in Asked
    BY DEF Asked
  <2> QED BY <1>4, <2>1 DEF Refresh, StartClick, Ops
<1>5. ASSUME NEW p \in Ops, ServeAdd(p) PROVE PanelShape'
  <2>1. op[p].value \in Nat /\ Records(file) \in Nat
    BY <1>5, RecordsFit, DbPanelAssumption DEF ServeAdd, Asked
  <2>2. file' \in Seq(Nat)
    BY <1>5, <2>1 DEF ServeAdd, InsertRecord, Clock
  <2> HIDE DEF PanelShape
  <2>3. /\ pc' \in [Ops -> {"idle", "sent", "answered", "stats", "loading"}]
        /\ answer' \in [Ops -> Nat]
        /\ \A q \in Ops : pc'[q] = IF q = p THEN "answered" ELSE pc[q]
    BY <1>5, <2>1 DEF PanelShape, ServeAdd
  <2> QED BY <1>5, <2>2, <2>3 DEF PanelShape, ServeAdd, Ops
<1>6. ASSUME NEW p \in Ops, ServeDelete(p) PROVE PanelShape'
  <2>1. op[p].id \in Nat
    BY <1>6 DEF ServeDelete, Asked
  <2>2. file' \in Seq(Nat) /\ stray' \in BOOLEAN
    BY <1>6, <2>1, DeleteKeepsWords DEF ServeDelete
  <2> QED BY <1>6, <2>2 DEF ServeDelete, Ops
<1>7. ASSUME NEW p \in Ops, ServeItems(p) PROVE PanelShape'
  BY <1>7, ItemsAreRows DEF ServeItems, Ops
<1>8. ASSUME NEW p \in Ops, Succeeds(p) PROVE PanelShape'
  BY <1>8 DEF Succeeds, Ops
<1>9. ASSUME NEW p \in Ops, Fails(p) PROVE PanelShape'
  <2>1. /\ fallbackRecords' \subseteq [id : Nat \ {0}, value : Nat]
        /\ Bounded(fallbackRecords')
    <3>1. CASE op[p].do = "add"
      <4>1. op[p].value \in Nat
        BY <3>1, DbPanelAssumption DEF Asked
      <4>2. NextId(fallbackRecords) \in Nat \ {0}
            /\ \A r \in fallbackRecords : r.id <= NextId(fallbackRecords)
        <5>1. CASE fallbackRecords = {}
          BY <5>1 DEF NextId
        <5>2. CASE fallbackRecords # {}
          BY <5>2, BoundedHasMax DEF Bounded
        <5> QED BY <5>1, <5>2
      <4> DEFINE new == [id |-> NextId(fallbackRecords), value |-> op[p].value]
      <4>3. fallbackRecords' = fallbackRecords \cup {new} /\ new \in [id : Nat \ {0}, value : Nat]
        BY <1>9, <3>1, <4>1, <4>2 DEF Fails
      <4>4. \A r \in fallbackRecords' : r.id <= NextId(fallbackRecords)
        BY <4>2, <4>3
      <4> QED BY <4>2, <4>3, <4>4 DEF Bounded
    <3>2. CASE op[p].do # "add"
      BY <1>9, <3>2 DEF Fails, Bounded
    <3> QED BY <3>1, <3>2
  <2> HIDE DEF PanelShape
  <2>2. /\ pc' \in [Ops -> {"idle", "sent", "answered", "stats", "loading"}]
        /\ stats' \in [Ops -> {"none", "sent", "done"}]
        /\ list' \in [Ops -> [state : {"none", "sent", "answered", "done"}, got : SUBSET Row]]
        /\ \A q \in Ops : pc'[q] = IF q = p THEN "loading" ELSE pc[q]
    BY <1>9 DEF PanelShape, Fails, Waiting
  <2> QED BY <1>9, <2>1, <2>2 DEF PanelShape, Fails, Ops
<1>10. ASSUME NEW p \in Ops, ShowStats(p) PROVE PanelShape'
  <2> HIDE DEF PanelShape
  <2>1. /\ pc' \in [Ops -> {"idle", "sent", "answered", "stats", "loading"}]
        /\ stats' \in [Ops -> {"none", "sent", "done"}]
        /\ list' \in [Ops -> [state : {"none", "sent", "answered", "done"}, got : SUBSET Row]]
        /\ \A q \in Ops : pc'[q] \in {pc[q], "loading"}
    <3>1. CASE pc[p] = "stats"
      <4>1. /\ pc' = [pc EXCEPT ![p] = "loading"] /\ stats' = [stats EXCEPT ![p] = "done"]
            /\ list' = [list EXCEPT ![p] = Waiting]
        BY <1>10, <3>1 DEF ShowStats, AfterStats
      <4>2. Waiting \in [state : {"none", "sent", "answered", "done"}, got : SUBSET Row]
        BY DEF Waiting
      <4> QED BY <4>1, <4>2 DEF PanelShape
    <3>2. CASE pc[p] # "stats"
      <4>1. UNCHANGED <<pc, list>> /\ stats' = [stats EXCEPT ![p] = "done"]
        BY <1>10, <3>2 DEF ShowStats, AfterStats
      <4> QED BY <4>1 DEF PanelShape
    <3> QED BY <3>1, <3>2
  <2>2. stats[p] = "sent" /\ \A q \in Ops \ {p} : stats'[q] = stats[q]
    BY <1>10 DEF PanelShape, ShowStats
  <2>3. UNCHANGED <<file, fallbackRecords, shown, source, op, answer, overlapped, stray>>
    BY <1>10 DEF ShowStats
  <2>4. \A q \in Ops : /\ pc'[q] = "idle" => op'[q].do = "load" /\ stats'[q] = "none"
                       /\ pc'[q] \in {"sent", "answered"} => op'[q].do \in {"add", "delete"}
    BY <2>1, <2>2, <2>3 DEF PanelShape
  <2> QED BY <2>1, <2>3, <2>4 DEF PanelShape, Ops
<1>11. ASSUME NEW p \in Ops, ShowRecords(p) PROVE PanelShape'
  <2>1. shown' \subseteq Row /\ source' \in {"none", "server", "preview"}
    BY <1>11 DEF ShowRecords, Row
  <2> HIDE DEF PanelShape
  <2>2. list' \in [Ops -> [state : {"none", "sent", "answered", "done"}, got : SUBSET Row]]
    BY <1>11 DEF PanelShape, ShowRecords
  <2>3. UNCHANGED <<file, fallbackRecords, op, pc, answer, stats, overlapped, stray>>
    BY <1>11 DEF ShowRecords
  <2> QED BY <2>1, <2>2, <2>3 DEF PanelShape, Ops
<1> HIDE DEF PanelShape, view, loads, told
<1> QED BY <1>1, <1>2, <1>3, <1>4, <1>5, <1>6, <1>7, <1>8, <1>9, <1>10, <1>11 DEF PanelNext

-----------------------------------------------------------------------------
(* What an operation asks for. *)
LEMMA AskedIs ==
    ASSUME PanelShape, NEW p \in Ops
    PROVE  /\ op[p].do = "add" => op[p].value \in Nat
           /\ op[p].do = "delete" => op[p].id \in Nat /\ op[p] = [do |-> "delete", id |-> op[p].id]
<1>1. op[p] \in Asked
  BY DEF PanelShape
<1>2. CASE op[p] \in [do : {"load", "refresh"}]
  BY <1>2
<1>3. CASE op[p] \in [do : {"add"}, value : Values]
  BY <1>3, DbPanelAssumption
<1>4. CASE op[p] \in [do : {"delete"}, id : Nat]
  BY <1>4
<1> QED BY <1>1, <1>2, <1>3, <1>4 DEF Asked

(* The three writes of the file, and every other step. *)
LEMMA ToldKept ==
    ASSUME PanelShape, Whole, Told, [PanelNext]_panelVars
    PROVE  Whole' /\ Told'
<1> USE DEF view, loads, told
<1>1. ASSUME UNCHANGED <<file, stray>> PROVE Whole'
  BY <1>1 DEF Whole
<1>2. ASSUME UNCHANGED <<file, stray>>,
             \A p \in Ops : op'[p] = op[p] \/ op[p].do = "load"
      PROVE  /\ \A s : Kept(s) => Kept(s)'
             /\ \A i : Gone(i) => Gone(i)'
  BY <1>2 DEF Kept, Gone, Ops, Items, Records, Word, PerRecord
<1>3. CASE UNCHANGED panelVars
  <2>1. UNCHANGED <<file, stray, saved, removed, op, pc, answer>>
    BY <1>3 DEF panelVars
  <2> QED BY <1>1, <1>2, <2>1 DEF Told, Ops
<1>4. ASSUME NEW p \in Ops, NEW o, StartClick(p, o), pc' = [pc EXCEPT ![p] = "sent"] \/ pc' = [pc EXCEPT ![p] = "stats"]
      PROVE Whole' /\ Told'
  <2>1. UNCHANGED <<file, stray, saved, removed, answer>> /\ op' = [op EXCEPT ![p] = o] /\ op[p].do = "load"
    BY <1>4 DEF StartClick, PanelShape
  <2>2. \A q \in Ops : pc'[q] = "answered" => pc[q] = "answered" /\ op'[q] = op[q]
    BY <1>4, <2>1 DEF PanelShape
  <2>3. \A q \in Ops : op'[q] = op[q] \/ op[q].do = "load"
    BY <2>1 DEF PanelShape
  <2> QED BY <1>1, <1>2, <2>1, <2>2, <2>3 DEF Told, Ops
<1>5. ASSUME NEW p \in Ops, ServeAdd(p) PROVE Whole' /\ Told'
  <2> SUFFICES ASSUME ~stray PROVE Whole' /\ Told'
    BY <1>5 DEF ServeAdd, Whole, Told
  <2>1. PICK n \in Nat : WholeRecords(file, n)
    BY DEF Whole
  <2>2. op[p].value \in Nat /\ n + 1 \in Nat
    <3>1. op[p].do = "add"
      BY <1>5 DEF ServeAdd
    <3>2. op[p].value \in Nat
      BY <3>1, AskedIs, Zenon
    <3> QED BY <3>2
  <2> DEFINE new == [id |-> n + 1, value |-> op[p].value]
  <2>3. /\ WholeRecords(file', n + 1) /\ Items(file') = Items(file) \cup {new}
        /\ Records(file) = n /\ Records(file') = n + 1
    BY <1>5, <2>1, <2>2, InsertResult, RecordsOf DEF ServeAdd
  <2>4. answer' = [answer EXCEPT ![p] = n + 1] /\ UNCHANGED <<op, saved, removed, stray>>
        /\ pc' = [pc EXCEPT ![p] = "answered"] /\ op[p].do = "add"
    BY <1>5, <2>3 DEF ServeAdd
  <2>5. \A s : Kept(s) => Kept(s)'
    BY <2>3, <2>4 DEF Kept, Ops
  <2>6. \A i : Gone(i) => Gone(i)'
    BY <2>3 DEF Gone
  <2>7. Kept(new)'
    <3>1. new' = new
      BY <2>4
    <3> QED BY <2>3, <3>1 DEF Kept
  <2>8. \A q \in Ops : q # p => pc'[q] = pc[q] /\ answer'[q] = answer[q]
    BY <2>4 DEF PanelShape
  <2>9. answer'[p] = n + 1
    BY <2>4 DEF PanelShape
  <2>10. Whole'
    BY <2>2, <2>3 DEF Whole
  <2>11. \A q \in Ops : pc'[q] = "answered" =>
              /\ op[q].do = "add" => Kept([id |-> answer[q], value |-> op[q].value])'
              /\ op[q].do = "delete" => Gone(op[q].id)'
    <3> SUFFICES ASSUME NEW q \in Ops, pc'[q] = "answered"
                 PROVE  /\ op[q].do = "add" => Kept([id |-> answer[q], value |-> op[q].value])'
                        /\ op[q].do = "delete" => Gone(op[q].id)'
      OBVIOUS
    <3>1. CASE q = p
      <4>1. new = [id |-> n + 1, value |-> op[p].value]
        OBVIOUS
      <4> HIDE DEF new
      <4>2. [id |-> answer'[p], value |-> op'[p].value] = new /\ op[p].do = "add"
        BY <2>4, <2>9, <4>1
      <4>3. new' = new
        BY <2>4 DEF new
      <4>4. Kept([id |-> answer[q], value |-> op[q].value])'
        BY <2>7, <3>1, <4>2, <4>3 DEF Kept, Ops
      <4> QED BY <2>4, <3>1, <4>2, <4>4
    <3>2. CASE q # p
      <4>1. PICK s : s = [id |-> answer[q], value |-> op[q].value]
        OBVIOUS
      <4>2. pc[q] = "answered" /\ answer'[q] = answer[q] /\ op' = op
        BY <2>4, <2>8, <3>2
      <4>3. /\ op[q].do = "add" => Kept(s)
            /\ op[q].do = "delete" => Gone(op[q].id)
        BY <4>1, <4>2 DEF Told
      <4>4. /\ op[q].do = "add" => Kept(s)'
            /\ op[q].do = "delete" => Gone(op[q].id)'
        BY <2>5, <2>6, <4>2, <4>3 DEF Gone
      <4> QED BY <4>1, <4>2, <4>4 DEF Kept, Ops
    <3> QED BY <3>1, <3>2
  <2> QED BY <2>4, <2>5, <2>6, <2>10, <2>11 DEF Told, Ops
<1>6. ASSUME NEW p \in Ops, ServeDelete(p) PROVE Whole' /\ Told'
  <2> SUFFICES ASSUME ~stray' PROVE Whole' /\ Told'
    BY DEF Whole, Told
  <2>1. ~stray /\ op[p].id \in 0 .. Records(file) /\ op[p] = [do |-> "delete", id |-> op[p].id]
    <3>1. op[p].id \in Nat /\ op[p] = [do |-> "delete", id |-> op[p].id]
      BY <1>6, AskedIs DEF ServeDelete
    <3>2. ~stray /\ ~ (op[p].id > Records(file)) /\ Records(file) \in Nat
      BY <1>6, RecordsFit DEF ServeDelete, PanelShape
    <3> QED BY <3>1, <3>2
  <2>2. PICK n \in Nat : WholeRecords(file, n)
    BY <2>1 DEF Whole
  <2> DEFINE d == op[p].id
  <2>3. /\ WholeRecords(file', n) /\ Items(file') = {r \in Items(file) : r.id # d}
        /\ Records(file) = n /\ Records(file') = n
    BY <1>6, <2>1, <2>2, DeleteResult, RecordsOf DEF ServeDelete
  <2>4. UNCHANGED <<op, saved, removed, answer>> /\ pc' = [pc EXCEPT ![p] = "answered"]
    BY <1>6 DEF ServeDelete
  <2>5. \A s : Kept(s) => Kept(s)'
    BY <2>1, <2>3, <2>4 DEF Kept, Ops
  <2>6. \A i : Gone(i) => Gone(i)'
    BY <2>3 DEF Gone
  <2>7. Gone(d)'
    BY <2>1, <2>3, <2>4 DEF Gone
  <2> QED BY <2>1, <2>3, <2>4, <2>5, <2>6, <2>7 DEF Whole, Told, PanelShape
<1>7. ASSUME NEW p \in Ops, Succeeds(p) PROVE Whole' /\ Told'
  <2>1. UNCHANGED <<file, stray, op, answer>> /\ pc' = [pc EXCEPT ![p] = "stats"] /\ pc[p] = "answered"
        /\ op[p].do \in {"add", "delete"}
    BY <1>7 DEF Succeeds, PanelShape
  <2>2. \A q \in Ops : pc'[q] = "answered" => pc[q] = "answered"
    BY <2>1 DEF PanelShape
  <2>3. \A s \in saved' : s \in saved \/ (op[p].do = "add" /\ s = [id |-> answer[p], value |-> op[p].value])
    BY <1>7 DEF Succeeds
  <2>4. \A i \in removed' : i \in removed \/ (op[p].do = "delete" /\ i = op[p].id)
    BY <1>7 DEF Succeeds
  <2>5. /\ \A s : Kept(s) => Kept(s)'
        /\ \A i : Gone(i) => Gone(i)'
    BY <1>2, <2>1
  <2> QED BY <1>1, <2>1, <2>2, <2>3, <2>4, <2>5 DEF Told, Ops
<1>8. ASSUME NEW p \in Ops,
             Fails(p) \/ ServeItems(p) \/ ShowStats(p) \/ ShowRecords(p)
      PROVE  Whole' /\ Told'
  <2>1. UNCHANGED <<file, stray, op, answer, saved, removed>>
    BY <1>8 DEF Fails, ServeItems, ShowStats, ShowRecords
  <2>2. \A q \in Ops : pc'[q] = "answered" => pc[q] = "answered"
    BY <1>8 DEF Fails, ServeItems, ShowStats, AfterStats, ShowRecords, PanelShape
  <2> QED BY <1>1, <1>2, <2>1, <2>2 DEF Told, Ops
<1> QED BY <1>3, <1>4, <1>5, <1>6, <1>7, <1>8 DEF PanelNext, Insert, Delete, Refresh

(* Loads of one operation, if no other is under way. *)
LEMMA CurrentKept ==
    ASSUME PanelShape, PanelShape', Current, [PanelNext]_panelVars
    PROVE  Current'
<1> USE DEF view, loads, told
<1> DEFINE Busy(q) == \/ pc[q] \notin {"idle", "loading"} \/ stats[q] = "sent"
                      \/ list[q].state \in {"sent", "answered"}
<1>1. \A q \in Ops : q \in Active <=> Busy(q)
  BY DEF Active
<1>2. \A q \in Ops : q \in Active' <=> Busy(q)'
  BY DEF Active, Ops
<1>3. Active \subseteq Ops /\ Active' \subseteq Ops
  BY DEF Active, Ops
<1>4. CASE UNCHANGED panelVars
  BY <1>4 DEF panelVars, Current, Active, Ops, Items, Records, Word, PerRecord
<1>5. ASSUME NEW p \in Ops, NEW o, StartClick(p, o),
             \/ pc' = [pc EXCEPT ![p] = "sent"] /\ stats' = stats
             \/ pc' = [pc EXCEPT ![p] = "stats"] /\ stats' = [stats EXCEPT ![p] = "sent"]
      PROVE  Current'
  <2> SUFFICES ASSUME ~overlapped' PROVE Current'
    BY DEF Current
  <2>1. ~overlapped /\ Active = {}
    BY <1>5 DEF StartClick, PanelShape
  <2>2. UNCHANGED <<file, shown, source, list>> /\ pc[p] = "idle"
    BY <1>5 DEF StartClick
  <2>3. \A q \in Ops : IF q = p THEN pc'[q] \in {"sent", "stats"}
                             ELSE pc'[q] = pc[q] /\ stats'[q] = stats[q]
    BY <1>5 DEF PanelShape
  <2>4. Active' \subseteq {p}
    BY <1>1, <1>2, <1>3, <2>1, <2>2, <2>3
  <2>5. Items(file') = Items(file)
    BY <2>2
  <2>6. \A q \in Ops : list'[q].state = "none" <=> pc'[q] # "loading"
    BY <2>1, <2>2, <2>3 DEF Current
  <2> QED BY <1>3, <2>1, <2>2, <2>3, <2>4, <2>5, <2>6 DEF Current, Ops
<1>6. ASSUME NEW p \in Ops, ServeAdd(p) \/ ServeDelete(p) \/ Succeeds(p)
      PROVE  Current'
  <2> SUFFICES ASSUME ~overlapped' PROVE Current'
    BY DEF Current
  <2>1. ~overlapped /\ UNCHANGED <<shown, source, list>> /\ pc[p] \in {"sent", "answered"}
    BY <1>6 DEF ServeAdd, ServeDelete, Succeeds
  <2>2. \A q \in Ops : IF q = p THEN pc'[q] \in {"answered", "stats"}
                             ELSE pc'[q] = pc[q] /\ stats'[q] = stats[q]
    BY <1>6 DEF ServeAdd, ServeDelete, Succeeds, PanelShape
  <2>3. p \in Active /\ Active = {p} /\ list[p].state = "none"
    BY <1>1, <1>3, <2>1 DEF Current
  <2>4. Active' = {p} /\ list'[p].state = "none"
    BY <1>1, <1>2, <1>3, <2>1, <2>2, <2>3
  <2>5. \A q \in Ops : list'[q].state # "answered"
    BY <1>1, <2>1, <2>3
  <2>6. \A q \in Ops : list'[q].state = "none" <=> pc'[q] # "loading"
    BY <2>1, <2>2 DEF Current
  <2> QED BY <2>4, <2>5, <2>6 DEF Current, Ops
<1>7. ASSUME NEW p \in Ops,
             Fails(p) \/ ShowStats(p) \/ ServeItems(p) \/ ShowRecords(p)
      PROVE  Current'
  <2> SUFFICES ASSUME ~overlapped' PROVE Current'
    BY DEF Current
  <2>1. ~overlapped /\ UNCHANGED file /\ Items(file') = Items(file)
    BY <1>7 DEF Fails, ShowStats, ServeItems, ShowRecords
  <2>2. p \in Active /\ Active = {p}
    BY <1>1, <1>3, <1>7, <2>1 DEF Current, Fails, ShowStats, ServeItems, ShowRecords
  <2>3. \A q \in Ops \ {p} : UNCHANGED <<pc[q], stats[q], list[q]>>
    BY <1>7 DEF Fails, ShowStats, AfterStats, ServeItems, ShowRecords, PanelShape
  <2>4. Active' \subseteq {p}
    BY <1>1, <1>2, <1>3, <2>2, <2>3
  <2>5. /\ list'[p].state = "none" <=> pc'[p] # "loading"
        /\ list'[p].state = "answered" => list'[p].got = Items(file)
        /\ list'[p].state = "done" /\ source' = "server" => shown' = Items(file)
    <3>1. CASE Fails(p)
      BY <2>1, <3>1 DEF Fails, Waiting, PanelShape
    <3>2. CASE ShowStats(p)
      BY <2>1, <2>2, <3>2 DEF Current, ShowStats, AfterStats, Waiting, PanelShape
    <3>3. CASE ServeItems(p)
      BY <2>1, <3>3 DEF Current, ServeItems, PanelShape
    <3>4. CASE ShowRecords(p)
      BY <2>1, <3>4 DEF Current, ShowRecords, PanelShape
    <3> QED BY <1>7, <3>1, <3>2, <3>3, <3>4
  <2>6. \A q \in Ops : /\ list'[q].state = "none" <=> pc'[q] # "loading"
                       /\ list'[q].state = "answered" => list'[q].got = Items(file)
    BY <2>1, <2>3, <2>5 DEF Current
  <2>7. CASE p \in Active'
    BY <2>1, <2>4, <2>5, <2>6, <2>7 DEF Current, Ops
  <2>8. CASE p \notin Active'
    <3>1. Active' = {} /\ pc'[p] \in {"idle", "loading"} /\ list'[p].state \notin {"sent", "answered"}
      BY <1>2, <2>4, <2>8
    <3>2. pc[p] # "idle"
      BY <1>7, <2>1 DEF Current, Fails, ShowStats, ServeItems, ShowRecords, PanelShape
    <3>3. pc'[p] # "idle"
      BY <1>7, <3>2 DEF Fails, ShowStats, AfterStats, ServeItems, ShowRecords, PanelShape
    <3>4. list'[p].state = "done"
      BY <2>5, <3>1, <3>3 DEF PanelShape, Ops
    <3>5. source' = "server" => shown' = Items(file')
      BY <2>1, <2>5, <3>4
    <3>6. \A q \in Ops : /\ list'[q].state = "none" <=> pc'[q] # "loading"
                         /\ list'[q].state = "answered" => list'[q].got = Items(file')
      BY <2>1, <2>6
    <3>7. \A q, x \in Active' : q = x
      BY <3>1
    <3>8. \A q \in Ops : list'[q].state = "none" <=> pc'[q] # "loading"
      BY <3>6
    <3>9. \A q \in Ops : list'[q].state = "answered" => list'[q].got = Items(file')
      BY <3>6
    <3> QED BY <3>5, <3>8, <3>9, <3>7 DEF Current, Ops
  <2> QED BY <2>7, <2>8
<1> QED BY <1>4, <1>5, <1>6, <1>7 DEF PanelNext, Insert, Delete, Refresh

THEOREM PanelStaysSound == PanelSpec => []PanelInv
<1>1. PanelInit => PanelInv
  BY PanelStarts
<1>2. PanelInv /\ [PanelNext]_panelVars => PanelInv'
  BY ShapeKept, ToldKept, CurrentKept DEF PanelInv
<1> QED BY <1>1, <1>2, PTL DEF PanelSpec

THEOREM PanelTypeCorrect == PanelSpec => []PanelTypeOK
<1>1. PanelInv => PanelTypeOK
  <2> SUFFICES ASSUME PanelInv PROVE PanelTypeOK
    OBVIOUS
  <2>1. ASSUME ~stray
        PROVE  /\ Len(file) % PerRecord = 0
               /\ \A i \in 0 .. Records(file) - 1 : /\ Word(file, i, 1) = i + 1
                                                    /\ Word(file, i, 3) \in {0, 1}
    <3>1. PICK n \in Nat : WholeRecords(file, n)
      BY <2>1 DEF PanelInv, Whole
    <3>2. Records(file) = n
      BY <3>1, RecordsOf
    <3> QED BY <3>1, <3>2 DEF WholeRecords, PerRecord, Word
  <2>2. \A i \in DOMAIN file : file[i] \in Nat
    BY DEF PanelInv, PanelShape
  <2> QED BY <2>1, <2>2 DEF PanelInv, PanelShape, PanelTypeOK
<1> QED BY <1>1, PanelStaysSound, PTL

THEOREM ToldStaysTrue == PanelSpec => []ToldIsTrue
<1>1. PanelInv => ToldIsTrue
  BY DEF PanelInv, Told, Kept, Gone, ToldIsTrue
<1> QED BY <1>1, PanelStaysSound, PTL

THEOREM TableStaysCurrent == PanelSpec => []TableCurrent
<1>1. PanelInv => TableCurrent
  BY DEF PanelInv, Current, TableCurrent
<1> QED BY <1>1, PanelStaysSound, PTL

=============================================================================
