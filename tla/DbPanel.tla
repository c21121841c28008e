------------------------------ MODULE DbPanel ------------------------------
(* The database panel of the website (apps/website/public/app.js), the      *)
(* server that answers it one request at a time (server.lp) and the file of *)
(* 32-byte records below (db_engine.lp), as a sequence of 8-byte words.     *)
(* Requests and answers may be lost; the panel then works on its own        *)
(* preview records and says so.  Operations of the panel overlap: each one  *)
(* continues when its own answers come.                                     *)
EXTENDS Integers, Sequences, FiniteSets

CONSTANTS MaxOps,       \* bound: clicks of the user
          Values,       \* what the user inserts (anything else is refused at once)
          Preview       \* bound: preview records at the start (3 in the code)

ASSUME DbPanelAssumption ==
    MaxOps \in Nat \ {0} /\ Values \subseteq Nat \ {0} /\ Preview \in Nat

Ops == 0 .. MaxOps      \* 0 is the load of the page
PerRecord == 4          \* words: id, clock, status, value
Clock == 9              \* any clock reading

VARIABLES
    file,               \* the words of the file
    fallbackRecords,    \* the preview records
    shown, source,      \* the table's records, and whose they are
    op,                 \* operation -> what was asked
    pc,                 \* operation -> where it is
    answer,             \* operation -> the id the server gave
    stats, list         \* operation -> its loads; of the counters only the waiting

(* History: what the user was told is stored or removed, whether two        *)
(* operations were under way together, and whether a delete went beyond the *)
(* records of the file.                                                     *)
VARIABLES saved, removed, overlapped, stray

view == <<shown, source>>
loads == <<stats, list>>
told == <<saved, removed>>
panelVars == <<file, fallbackRecords, view, op, pc, answer, loads, told, overlapped, stray>>

Nothing == [state |-> "none", got |-> {}]
Waiting == [state |-> "sent", got |-> {}]

Records(f) == Len(f) \div PerRecord
Word(f, i, k) == f[PerRecord * i + k]

(* db_serve_items: every whole record whose status word is 1. *)
Items(f) == {[id |-> Word(f, i, 1), value |-> Word(f, i, 4)] :
               i \in {j \in 0 .. Records(f) - 1 : Word(f, j, 3) = 1}}

(* Mutant: the id is the number of records before the insert. *)
InsertOffByOne(f, v) == f \o <<Records(f), Clock, 1, v>>

(* db_insert_record: at the end of the file, whatever its length. *)
InsertRecord(f, v) == f \o <<Records(f) + 1, Clock, 1, v>>

(* Mutant: the write is at the start of the record. *)
DeleteFirstWord(f, id) ==
    LET at == PerRecord * (id - 1) + 1
    IN [i \in 1 .. (IF at > Len(f) THEN at ELSE Len(f)) |->
          IF i = at \/ i > Len(f) THEN 0 ELSE f[i]]

(* db_delete_record: the status word of the record, without a look at the   *)
(* length: a write beyond the end fills the gap with zeros.                 *)
DeleteRecord(f, id) ==
    LET at == PerRecord * (id - 1) + 3
    IN [i \in 1 .. (IF at > Len(f) THEN at ELSE Len(f)) |->
          IF i = at \/ i > Len(f) THEN 0 ELSE f[i]]

PanelInit ==
    /\ \E v \in Values : file \in {<<>>, InsertRecord(<<>>, v)}
    /\ fallbackRecords = [id : 1 .. Preview, value : {1024}]
    /\ shown = {} /\ source = "none"
    /\ op = [p \in Ops |-> [do |-> "load"]]
    /\ pc = [p \in Ops |-> IF p = 0 THEN "loading" ELSE "idle"]
    /\ answer = [p \in Ops |-> 0]
    /\ stats = [p \in Ops |-> IF p = 0 THEN "sent" ELSE "none"]
    /\ list = [p \in Ops |-> IF p = 0 THEN Waiting ELSE Nothing]
    /\ saved = {} /\ removed = {} /\ overlapped = FALSE /\ stray = FALSE

(* An operation is under way until its loads are done. *)
Active == {p \in Ops : \/ pc[p] \notin {"idle", "loading"}
                       \/ stats[p] = "sent"
                       \/ list[p].state \in {"sent", "answered"}}

-----------------------------------------------------------------------------
(* Clicks.  A delete button belongs to a row of the table. *)
StartClick(p, o) ==
    /\ pc[p] = "idle" /\ p = Cardinality({q \in Ops : pc[q] # "idle"})
    /\ op' = [op EXCEPT ![p] = o]
    /\ overlapped' = (overlapped \/ Active # {})
    /\ UNCHANGED <<file, fallbackRecords, view, answer, list, told, stray>>

Insert(p, v) ==
    /\ StartClick(p, [do |-> "add", value |-> v])
    /\ pc' = [pc EXCEPT ![p] = "sent"]
    /\ UNCHANGED stats

Delete(p, id) ==
    /\ StartClick(p, [do |-> "delete", id |-> id])
    /\ pc' = [pc EXCEPT ![p] = "sent"]
    /\ UNCHANGED stats

Refresh(p) ==
    /\ StartClick(p, [do |-> "refresh"])
    /\ pc' = [pc EXCEPT ![p] = "stats"]
    /\ stats' = [stats EXCEPT ![p] = "sent"]

-----------------------------------------------------------------------------
(* The server: one request from its first call to its answer. *)
ServeAdd(p) ==
    /\ pc[p] = "sent" /\ op[p].do = "add"
    /\ file' = InsertRecord(file, op[p].value)
    /\ answer' = [answer EXCEPT ![p] = Records(file) + 1]
    /\ pc' = [pc EXCEPT ![p] = "answered"]
    /\ UNCHANGED <<fallbackRecords, view, op, loads, told, overlapped, stray>>

ServeDelete(p) ==
    /\ pc[p] = "sent" /\ op[p].do = "delete"
    /\ file' = DeleteRecord(file, op[p].id)
    /\ stray' = (stray \/ op[p].id > Records(file))
    /\ pc' = [pc EXCEPT ![p] = "answered"]
    /\ UNCHANGED <<fallbackRecords, view, op, answer, loads, told, overlapped>>

ServeItems(p) ==
    /\ list[p].state = "sent"
    /\ list' = [list EXCEPT ![p] = [state |-> "answered", got |-> Items(file)]]
    /\ UNCHANGED <<file, fallbackRecords, view, op, pc, answer, stats, told, overlapped, stray>>

-----------------------------------------------------------------------------
(* The server's answer: the user is told, then stats and records are loaded *)
(* one after the other.                                                     *)
Succeeds(p) ==
    /\ pc[p] = "answered"
    /\ saved' = IF op[p].do = "add" THEN saved \cup {[id |-> answer[p], value |-> op[p].value]}
                ELSE saved
    /\ removed' = IF op[p].do = "delete" THEN removed \cup {op[p].id} ELSE removed
    /\ pc' = [pc EXCEPT ![p] = "stats"]
    /\ stats' = [stats EXCEPT ![p] = "sent"]
    /\ UNCHANGED <<file, fallbackRecords, view, op, answer, list, overlapped, stray>>

NextId(R) == IF R = {} THEN 1 ELSE 1 + CHOOSE i \in {r.id : r \in R} : \A r \in R : r.id <= i

(* The request or its answer is lost: the panel changes its preview and     *)
(* starts both loads.                                                       *)
Fails(p) ==
    /\ pc[p] \in {"sent", "answered"}
    /\ fallbackRecords' =
          IF op[p].do = "add"
          THEN fallbackRecords \cup {[id |-> NextId(fallbackRecords), value |-> op[p].value]}
          ELSE {r \in fallbackRecords : r.id # op[p].id}
    /\ pc' = [pc EXCEPT ![p] = "loading"]
    /\ stats' = [stats EXCEPT ![p] = "sent"]
    /\ list' = [list EXCEPT ![p] = Waiting]
    /\ UNCHANGED <<file, view, op, answer, told, overlapped, stray>>

(* Mutant: the records are not loaded again. *)
SkipRecords(p) ==
    IF pc[p] = "stats" THEN pc' = [pc EXCEPT ![p] = "loading"] /\ UNCHANGED list
    ELSE UNCHANGED <<pc, list>>

(* After stats an awaited load goes on with the records. *)
AfterStats(p) ==
    IF pc[p] = "stats"
    THEN pc' = [pc EXCEPT ![p] = "loading"] /\ list' = [list EXCEPT ![p] = Waiting]
    ELSE UNCHANGED <<pc, list>>

(* loadStats shows the server's counters or the preview's. *)
ShowStats(p) ==
    /\ stats[p] = "sent"
    /\ stats' = [stats EXCEPT ![p] = "done"]
    /\ AfterStats(p)
    /\ UNCHANGED <<file, fallbackRecords, view, op, answer, told, overlapped, stray>>

ShowRecords(p) ==
    /\ \/ /\ list[p].state = "answered"
          /\ shown' = list[p].got /\ source' = "server"
       \/ /\ list[p].state \in {"sent", "answered"}
          /\ shown' = fallbackRecords /\ source' = "preview"
    /\ list' = [list EXCEPT ![p] = [state |-> "done", got |-> {}]]
    /\ UNCHANGED <<file, fallbackRecords, op, pc, answer, stats, told, overlapped, stray>>

-----------------------------------------------------------------------------
PanelNext == \E p \in Ops :
    \/ \E v \in Values : Insert(p, v)
    \/ \E r \in shown : Delete(p, r.id)
    \/ Refresh(p)
    \/ ServeAdd(p) \/ ServeDelete(p) \/ ServeItems(p)
    \/ Succeeds(p) \/ Fails(p) \/ ShowStats(p) \/ ShowRecords(p)

PanelSpec == PanelInit /\ [][PanelNext]_panelVars

-----------------------------------------------------------------------------

(* Types; and db_engine.lp's layout: as long as no delete went beyond the   *)
(* end, the file is made of whole records numbered from 1.                  *)
PanelTypeOK ==
    /\ \A i \in DOMAIN file : file[i] \in Nat
    /\ ~stray => /\ Len(file) % PerRecord = 0
                 /\ \A i \in 0 .. Records(file) - 1 : /\ Word(file, i, 1) = i + 1
                                                      /\ Word(file, i, 3) \in {0, 1}
    /\ fallbackRecords \subseteq [id : Nat \ {0}, value : Nat]
    /\ source \in {"none", "server", "preview"}
    /\ pc \in [Ops -> {"idle", "sent", "answered", "stats", "loading"}]
    /\ answer \in [Ops -> Nat]

(* insertRecord and deleteRecord: what the panel reports as stored on disk  *)
(* stays readable under its id with its value until its own delete, and     *)
(* what it reports as removed is never listed again, whatever is lost or    *)
(* overlaps; as long as no delete went beyond the records.                  *)
ToldIsTrue ==
    ~stray => /\ \A s \in saved : \/ s \in Items(file)
                                  \/ \E p \in Ops : op[p] = [do |-> "delete", id |-> s.id]
              /\ \A i \in removed : \A r \in Items(file) : r.id # i

(* loadRecords: when operations did not overlap and none is under way, a    *)
(* table that shows the server's records shows all of them as they are now. *)
TableCurrent ==
    ~overlapped /\ Active = {} /\ source = "server" => shown = Items(file)

=============================================================================
