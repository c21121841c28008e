------------------------------- MODULE DbEngine -------------------------------
(***************************************************************************)
(* The transactional engine of universe/db: engine.lp, tx.lp, wal.lp and   *)
(* recovery.lp over the buffer pool.                                       *)
(*                                                                         *)
(* The engine runs on one thread, so one call is in progress at a time; it *)
(* is split at every system call, because the process or the machine may   *)
(* stop between any two of them.  A log record is either complete or Torn: *)
(* the bytes recovery_scan_wal stops at.                                   *)
(*                                                                         *)
(* Of the tree in the data file only what it answers is kept, a value per  *)
(* key: the shape is the subject of BTree.  The pool writes single pages,  *)
(* at any time, and the header page with the id of the root at once        *)
(* (btree_insert_parent, buffer_pool_allocate_page).  A change of one leaf *)
(* is in the file or not; a split changes several pages, and from then to  *)
(* the next flush the file may hold some of them only: a process that      *)
(* stops there leaves a tree that has lost keys, which the log may hold no *)
(* longer.  The variable image remembers that, and whether a fault struck  *)
(* that the code does not handle.                                          *)
(***************************************************************************)
EXTENDS Integers, Sequences, FiniteSets

CONSTANTS
    Key, Val,
    NoVal,          \* the value of an absent key
    MaxTx,          \* bound: transaction ids handed out
    MaxOps,         \* bound: staged operations of one transaction
    MaxLog,         \* bound: records in the log file
    AutoCheckpoint, \* auto_checkpoint_ops (500 in the code)
    Worlds          \* the sets of faults that behaviours are checked under

\* "lost_key": a split loses keys of the tree it works on (module BTree).
FaultKinds == {"process_crash", "power_cut", "torn_write", "write_error", "closed_handle",
               "lost_key"}

ASSUME NoValAssumption == NoVal \notin Val
ASSUME BoundsAssumption == {MaxTx, MaxOps, MaxLog} \subseteq Nat /\ AutoCheckpoint \in Nat \ {0}
ASSUME WorldsAssumption == Worlds \subseteq SUBSET FaultKinds

TxId == 1 .. MaxTx
Store == [Key -> Val \cup {NoVal}]
Empty == [k \in Key |-> NoVal]

\* A staged operation or a record with val = NoVal is a delete.
Op == [key : Key, val : Val \cup {NoVal}]
Write == [type : {"write"}, tx : TxId, key : Key, val : Val \cup {NoVal}]
Mark(type, t) == [type |-> type, tx |-> t]
Torn == Mark("torn", 0)
Transaction == [state : {"NONE", "ACTIVE", "COMMITTED", "ABORTED"}, ops : Seq(Op)]
Call == [tx : TxId \cup {0}, ops : Seq(Op), auto : BOOLEAN]
Record == Write \cup [type : {"commit"}, tx : TxId] \cup {Mark("checkpoint", 0), Torn}

VARIABLES
    log,        \* the WAL file, as the operating system holds it
    synced,     \* how many of its records are on stable storage
    page,       \* the data file on stable storage
    file,       \* the data file, as the operating system holds it
    mem,        \* the pages in the buffer pool
    pc,         \* where the call in progress stands; "idle" between calls
    pos,        \* its loop index
    call,       \* the write set being committed
    tx,         \* transaction handles of this process
    nextTx,     \* next_tx_id
    since,      \* ops_since_checkpoint
    isOpen,     \* is_open, and wal.fd >= 0
    closing,    \* the checkpoint in progress is db_close's
    image,      \* the tree in the file: "whole", "split" when pages were split since the
                \* last flush, "spoiled" for good once it may not be what the calls made it
    faults      \* what may go wrong in this behaviour

disk == <<log, synced, page, file>>
handle == <<nextTx, since, isOpen, closing>>
vars == <<disk, mem, pc, pos, call, tx, handle, image, faults>>

NoCall == [tx |-> 0, ops |-> << >>, auto |-> FALSE]
NoTx == [t \in TxId |-> [state |-> "NONE", ops |-> << >>]]

Init ==
    /\ log = << >> /\ synced = 0
    /\ page = Empty /\ file = Empty /\ mem = Empty
    /\ pc = "down" /\ pos = 1 /\ call = NoCall
    /\ tx = NoTx
    /\ nextTx = 1 /\ since = 0 /\ isOpen = FALSE /\ closing = FALSE
    /\ image = "whole" /\ faults \in Worlds

-------------------------------------------------------------------------------
\* Reading the log

\* recovery_scan_wal stops at the first record with a bad magic, length or CRC.
Readable(l) ==
    LET bad == {i \in DOMAIN l : l[i] = Torn}
    IN  IF bad = {} THEN l
        ELSE SubSeq(l, 1, (CHOOSE i \in bad : \A j \in bad : i <= j) - 1)

\* committed_txs
Committed(l) == {l[i].tx : i \in {j \in DOMAIN Readable(l) : l[j].type = "commit"}}

\* The records recovery_apply_redo applies.
Replayed(l) ==
    LET txs == Committed(l)
    IN  {i \in DOMAIN Readable(l) : l[i].type = "write" /\ l[i].tx \in txs}

Greatest(S) == CHOOSE i \in S : \A j \in S : j <= i

\* The store s after the writes of seq at the indices I: the last one decides.
After(s, seq, I) ==
    [k \in Key |-> LET hits == {i \in I : seq[i].key = k}
                   IN  IF hits = {} THEN s[k] ELSE seq[Greatest(hits)].val]

\* db_open: last_tx_id + 1, over every readable record.
TxAfter(l) == 1 + Greatest({0} \cup {l[i].tx : i \in DOMAIN Readable(l)})

-------------------------------------------------------------------------------
\* Transactions

\* tx_begin and the staging calls do not look at is_open.
Usable == pc = "idle" /\ (isOpen \/ "closed_handle" \in faults)

Begin ==
    /\ Usable /\ nextTx <= MaxTx
    /\ tx' = [tx EXCEPT ![nextTx].state = "ACTIVE"]
    /\ nextTx' = nextTx + 1
    /\ UNCHANGED <<disk, mem, pc, pos, call, since, isOpen, closing, image, faults>>

\* tx_put, and tx_delete for v = NoVal.
Stage(t, k, v) ==
    /\ Usable /\ tx[t].state = "ACTIVE" /\ Len(tx[t].ops) < MaxOps
    /\ tx' = [tx EXCEPT ![t].ops = Append(@, [key |-> k, val |-> v])]
    /\ UNCHANGED <<disk, mem, pc, pos, call, handle, image, faults>>

\* Mutant of TxGet: the write set is searched from its first entry.
TxGetFirst(t, k) ==
    LET hits == {i \in DOMAIN tx[t].ops : tx[t].ops[i].key = k}
    IN  IF hits = {} THEN mem[k]
        ELSE tx[t].ops[CHOOSE i \in hits : \A j \in hits : i <= j].val

\* tx_get: the last staged operation on the key, else the tree.
TxGet(t, k) == After(mem, tx[t].ops, DOMAIN tx[t].ops)[k]

Rollback(t) ==
    /\ Usable /\ tx[t].state = "ACTIVE"
    /\ tx' = [tx EXCEPT ![t] = [state |-> "ABORTED", ops |-> << >>]]
    /\ UNCHANGED <<disk, mem, pc, pos, call, handle, image, faults>>

\* tx_commit with an empty write set touches neither the log nor the tree.
CommitNothing(t) ==
    /\ Usable /\ tx[t].state = "ACTIVE" /\ tx[t].ops = << >>
    /\ tx' = [tx EXCEPT ![t].state = "COMMITTED"]
    /\ UNCHANGED <<disk, mem, pc, pos, call, handle, image, faults>>

\* On a closed handle the writes will go to the tree and not to the log.
Commit(t) ==
    /\ Usable /\ tx[t].state = "ACTIVE" /\ tx[t].ops # << >>
    /\ Len(log) + Len(tx[t].ops) < MaxLog
    /\ call' = [tx |-> t, ops |-> tx[t].ops, auto |-> FALSE]
    /\ pc' = "append" /\ pos' = 1
    /\ image' = IF isOpen THEN image ELSE "spoiled"
    /\ UNCHANGED <<disk, mem, tx, handle, faults>>

\* db_put, and db_delete for v = NoVal.
AutoCommit(k, v) ==
    /\ pc = "idle" /\ isOpen /\ nextTx <= MaxTx /\ Len(log) + 1 < MaxLog
    /\ call' = [tx |-> nextTx, ops |-> <<[key |-> k, val |-> v]>>, auto |-> TRUE]
    /\ nextTx' = nextTx + 1
    /\ pc' = "append" /\ pos' = 1
    /\ UNCHANGED <<disk, mem, tx, since, isOpen, closing, image, faults>>

-------------------------------------------------------------------------------
\* The steps of a commit

\* wal_append_record: nothing without a descriptor; the result of the write is
\* not looked at, so on an error part of the record or nothing is written.
AppendRecord(r) ==
    IF ~isOpen THEN UNCHANGED <<log, image>>
    ELSE \/ log' = Append(log, r) /\ UNCHANGED image
         \/ /\ "write_error" \in faults
            /\ log' \in {log, Append(log, Torn)} /\ image' = "spoiled"

AppendOps ==
    /\ pc = "append" /\ pos <= Len(call.ops)
    /\ AppendRecord([type |-> "write", tx |-> call.tx,
                     key |-> call.ops[pos].key, val |-> call.ops[pos].val])
    /\ pos' = pos + 1
    /\ UNCHANGED <<synced, page, file, mem, pc, call, tx, handle, faults>>

AppendCommit ==
    /\ pc = "append" /\ pos > Len(call.ops)
    /\ AppendRecord(Mark("commit", call.tx))
    /\ pc' = "sync"
    /\ UNCHANGED <<synced, page, file, mem, pos, call, tx, handle, faults>>

\* Mutant of Sync: the fsync is forgotten.
SyncNothing ==
    /\ pc = "sync"
    /\ pc' = "apply" /\ pos' = 1
    /\ UNCHANGED <<disk, mem, call, tx, handle, image, faults>>

Sync ==
    /\ pc = "sync"
    /\ synced' = IF isOpen THEN Len(log) ELSE synced
    /\ pc' = "apply" /\ pos' = 1
    /\ UNCHANGED <<log, page, file, mem, call, tx, handle, image, faults>>

\* The store s without some of its keys.
Parts(s) == {[k \in Key |-> IF k \in kept THEN s[k] ELSE NoVal] : kept \in SUBSET Key}

\* btree_insert, and btree_delete for v = NoVal, which splits no page.
ChangeTree(k, v) ==
    \/ /\ mem' = [mem EXCEPT ![k] = v]
       /\ \/ UNCHANGED image
          \/ v # NoVal /\ image = "whole" /\ image' = "split"
    \/ /\ "lost_key" \in faults /\ v # NoVal
       /\ mem' \in Parts([mem EXCEPT ![k] = v]) /\ image' = "spoiled"

Apply ==
    /\ pc = "apply" /\ pos <= Len(call.ops)
    /\ ChangeTree(call.ops[pos].key, call.ops[pos].val)
    /\ pos' = pos + 1
    /\ UNCHANGED <<disk, pc, call, tx, handle, faults>>

\* The end of tx_commit.
FinishTx ==
    /\ pc = "apply" /\ pos > Len(call.ops) /\ ~call.auto
    /\ tx' = [tx EXCEPT ![call.tx].state = "COMMITTED"]
    /\ pc' = "idle" /\ call' = NoCall
    /\ UNCHANGED <<disk, mem, pos, handle, image, faults>>

\* The end of db_put and db_delete.
FinishAuto ==
    /\ pc = "apply" /\ pos > Len(call.ops) /\ call.auto
    /\ since' = since + 1
    /\ IF since + 1 >= AutoCheckpoint
       THEN pc' = "flush" /\ UNCHANGED call
       ELSE pc' = "idle" /\ call' = NoCall
    /\ UNCHANGED <<disk, mem, pos, tx, nextTx, isOpen, closing, image, faults>>

-------------------------------------------------------------------------------
\* Checkpoint and close

\* db_checkpoint, or db_close, which begins with one.
StartCheckpoint(close) ==
    /\ pc = "idle" /\ isOpen
    /\ pc' = "flush" /\ closing' = close
    /\ UNCHANGED <<disk, mem, pos, call, tx, nextTx, since, isOpen, image, faults>>

\* After a flush the file holds all pages of a split.
Mended == IF image = "split" THEN "whole" ELSE image

\* Mutant of Flush: the dirty pages are written but not synced.
FlushUnsynced ==
    /\ pc = "flush"
    /\ file' = mem /\ image' = Mended
    /\ pc' = "truncate"
    /\ UNCHANGED <<log, synced, page, mem, pos, call, tx, handle, faults>>

\* buffer_pool_flush_all; the pages it wrote before a crash are Evict steps.
Flush ==
    /\ pc = "flush"
    /\ file' = mem /\ page' = mem /\ image' = Mended
    /\ pc' = "truncate"
    /\ UNCHANGED <<log, synced, mem, pos, call, tx, handle, faults>>

Truncate ==
    /\ pc = "truncate"
    /\ log' = << >> /\ synced' = 0
    /\ pc' = "mark"
    /\ UNCHANGED <<page, file, mem, pos, call, tx, handle, image, faults>>

AppendCheckpoint ==
    /\ pc = "mark"
    /\ AppendRecord(Mark("checkpoint", 0))
    /\ pc' = "marksync"
    /\ UNCHANGED <<synced, page, file, mem, pos, call, tx, handle, faults>>

SyncCheckpoint ==
    /\ pc = "marksync"
    /\ synced' = Len(log)
    /\ since' = 0
    /\ pc' = IF closing THEN "close" ELSE "idle"
    /\ call' = NoCall
    /\ UNCHANGED <<log, page, file, mem, pos, tx, nextTx, isOpen, closing, image, faults>>

\* wal_close and buffer_pool_close sync what is left.
Close ==
    /\ pc = "close"
    /\ synced' = Len(log) /\ file' = mem /\ page' = mem /\ image' = Mended
    /\ isOpen' = FALSE /\ closing' = FALSE
    /\ pc' = "idle"
    /\ UNCHANGED <<log, mem, pos, call, tx, nextTx, since, faults>>

-------------------------------------------------------------------------------
\* Open and recovery

\* buffer_pool_open reads no page before it is needed; nothing but the pool
\* writes the file, so its pages are those of the file from the start.
Open ==
    /\ pc = "down" \/ (pc = "idle" /\ ~isOpen)
    /\ mem' = file
    /\ tx' = NoTx /\ nextTx' = 1 /\ since' = 0 /\ closing' = FALSE
    /\ IF Readable(log) = << >>
       THEN pc' = "idle" /\ isOpen' = TRUE
       ELSE pc' = "redo" /\ isOpen' = FALSE
    /\ pos' = 1
    /\ UNCHANGED <<disk, call, image, faults>>

\* Mutant of Redo: a committed delete is not replayed.
RedoPutsOnly ==
    /\ pc = "redo" /\ pos <= Len(Readable(log))
    /\ IF pos \in Replayed(log) /\ log[pos].val # NoVal
       THEN ChangeTree(log[pos].key, log[pos].val) ELSE UNCHANGED <<mem, image>>
    /\ pos' = pos + 1
    /\ UNCHANGED <<disk, pc, call, tx, handle, faults>>

\* One iteration of recovery_apply_redo.
Redo ==
    /\ pc = "redo" /\ pos <= Len(Readable(log))
    /\ IF pos \in Replayed(log)
       THEN ChangeTree(log[pos].key, log[pos].val) ELSE UNCHANGED <<mem, image>>
    /\ pos' = pos + 1
    /\ UNCHANGED <<disk, pc, call, tx, handle, faults>>

\* The log is neither repaired nor synced nor truncated.
FinishRecovery ==
    /\ pc = "redo" /\ pos > Len(Readable(log))
    /\ IF Replayed(log) # {}
       THEN file' = mem /\ page' = mem /\ image' = Mended
       ELSE UNCHANGED <<file, page, image>>
    /\ nextTx' = TxAfter(log)
    /\ isOpen' = TRUE
    /\ pc' = "idle"
    /\ UNCHANGED <<log, synced, mem, pos, call, tx, since, closing, faults>>

-------------------------------------------------------------------------------
\* The buffer pool and the operating system

\* The pool writes a dirty page back when it needs the frame, or in the middle
\* of a flush; that happens in calls that touch the tree.  The keys of a page
\* reach the file one by one, and those of a split as image says.
Evict(k) ==
    /\ pc \in {"apply", "flush", "redo"} \/ pc = "idle"
    /\ isOpen \/ pc = "redo"
    /\ file[k] # mem[k]
    /\ file' = [file EXCEPT ![k] = mem[k]]
    /\ UNCHANGED <<log, synced, page, mem, pc, pos, call, tx, handle, image, faults>>

\* The operating system makes a written page, or the log's next record, stable.
\* Stable storage matters only to runs in which the power may fail.
WriteBackPage(k) ==
    /\ "power_cut" \in faults
    /\ page[k] # file[k]
    /\ page' = [page EXCEPT ![k] = file[k]]
    /\ UNCHANGED <<log, synced, file, mem, pc, pos, call, tx, handle, image, faults>>

WriteBackLog ==
    /\ "power_cut" \in faults
    /\ synced < Len(log)
    /\ synced' = synced + 1
    /\ UNCHANGED <<log, page, file, mem, pc, pos, call, tx, handle, image, faults>>

MemoryLost ==
    /\ mem' = Empty /\ pc' = "down" /\ pos' = 1 /\ call' = NoCall
    /\ tx' = NoTx /\ nextTx' = 1 /\ since' = 0 /\ isOpen' = FALSE /\ closing' = FALSE

\* The tree found in a file of pages p after the process died.
Found(p) == IF image = "whole" THEN {p} ELSE Parts(p)

\* The process dies; the operating system keeps what was written.  Log records
\* that recovery reads and applies are not stable if the power can fail later.
ProcessCrash ==
    /\ "process_crash" \in faults
    /\ pc # "down"
    /\ MemoryLost
    /\ file' \in Found(file)
    /\ image' = IF image = "whole" /\ ~("power_cut" \in faults /\ synced < Len(log))
                THEN "whole" ELSE "spoiled"
    /\ UNCHANGED <<log, synced, page, faults>>

\* The machine dies: what was not stable is gone, and the record that was being
\* written may leave some of its bytes behind, which hide all later records.
PowerCut ==
    /\ "power_cut" \in faults
    /\ pc # "down" \/ synced < Len(log) \/ page # file
    /\ MemoryLost
    /\ \/ log' = SubSeq(log, 1, synced)
          /\ image' = IF image = "whole" THEN "whole" ELSE "spoiled"
       \/ "torn_write" \in faults /\ synced < Len(log)
          /\ log' = Append(SubSeq(log, 1, synced), Torn) /\ image' = "spoiled"
    /\ synced' = Len(log')
    /\ page' \in Found(page) /\ file' = page'
    /\ UNCHANGED faults

Next ==
    \/ Begin
    \/ \E t \in TxId :
        \/ \E k \in Key, v \in Val \cup {NoVal} : Stage(t, k, v)
        \/ Rollback(t) \/ CommitNothing(t) \/ Commit(t)
    \/ \E k \in Key, v \in Val \cup {NoVal} : AutoCommit(k, v)
    \/ AppendOps \/ AppendCommit \/ Sync \/ Apply \/ FinishTx \/ FinishAuto
    \/ \E close \in BOOLEAN : StartCheckpoint(close)
    \/ Flush \/ Truncate \/ AppendCheckpoint \/ SyncCheckpoint \/ Close
    \/ Open \/ Redo \/ FinishRecovery
    \/ \E k \in Key : Evict(k) \/ WriteBackPage(k)
    \/ WriteBackLog \/ ProcessCrash \/ PowerCut

Spec == Init /\ [][Next]_vars

-------------------------------------------------------------------------------
\* Properties

\* Every variable has its type; the stable part of the log is a prefix of it.
TypeOK ==
    /\ log \in Seq(Record) /\ synced \in 0 .. Len(log)
    /\ page \in Store /\ file \in Store /\ mem \in Store
    /\ pc \in {"down", "idle", "append", "sync", "apply", "flush", "truncate", "mark",
               "marksync", "close", "redo"}
    /\ pos \in Nat \ {0}
    /\ call \in Call
    /\ tx \in [TxId -> Transaction]
    /\ nextTx \in 1 .. MaxTx + 1 /\ since \in Nat
    /\ isOpen \in BOOLEAN /\ closing \in BOOLEAN
    /\ image \in {"whole", "split", "spoiled"}
    /\ faults \in Worlds

\* What the next recovery finds and makes of the disk if the worst fault of the
\* run strikes now.
SurvivingLog == IF "power_cut" \in faults THEN SubSeq(log, 1, synced) ELSE log
Recovered ==
    After(IF "power_cut" \in faults THEN page ELSE file, SurvivingLog, Replayed(SurvivingLog))

\* No process died between a split and the next flush, no split lost a key, no
\* write of the log failed or was torn, no handle was used after db_close, and no
\* process died before a power cut could take what it had not synced.
Intact == image # "spoiled"

\* Between calls, clients read exactly what a recovery would restore: no
\* answered write is lost, no other write is visible.  This holds until one of
\* the faults strikes that the code does not handle (Intact).
ReadsAreDurable == pc = "idle" /\ isOpen /\ Intact => mem = Recovered

\* tx.lp:5, "Write-Ahead Invariant (WAL fsync before in-memory tree mutation)":
\* while a call changes the tree its commit record is where recovery finds it,
\* unless a write of the log failed or the handle was closed.
AppliedIsLogged ==
    pc = "apply" /\ Intact => call.tx \in Committed(SurvivingLog)

\* Between the system calls of the engine the log leads: its state is typed, the
\* synced part of the log is a prefix, and no change of the tree is ahead of it.
LogLeads == TypeOK /\ AppliedIsLogged

\* What tx_get answered just before tx_commit is what the tree holds after it.
CommitKeepsReads ==
    [][\A t \in TxId : tx[t].state = "ACTIVE" /\ tx'[t].state = "COMMITTED" /\ Intact'
            => \A k \in Key : TxGet(t, k) = mem'[k]]_vars

-------------------------------------------------------------------------------
\* Refinement

\* A call's writes take effect when its commit record becomes one that recovery
\* would find; they are in progress until the call returns.
Effective ==
    /\ call # NoCall
    /\ pc \notin {"append", "sync"} \/ call.tx \in Committed(SurvivingLog)

Up == pc # "down"

\* More may go wrong than crashes of the process, or than cuts of the power.
Exposed == ~ (faults \subseteq {"process_crash"}) /\ ~ (faults \subseteq {"power_cut"})

\* A call that writes nothing changes nothing, so no writes are no call.
Durable ==
    INSTANCE DurableStore WITH
        store <- Recovered,
        writes <- call.ops,
        effective <- Effective,
        running <- Up,
        risky <- image = "split" \/ Exposed,
        broken <- ~Intact,
        NoCall <- << >>

\* Every behaviour is one of a store whose calls are atomic and durable, and
\* which breaks only if it dies in the middle of a split or meets other faults
\* than one kind of crash.
ImplementsDurableStore == Durable!Spec
===============================================================================
