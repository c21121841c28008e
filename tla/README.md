# Lipi: formal models

TLA+ models of the parts of Lipi (`src/`) whose correctness depends on the order
in which things happen: the database under `universe/db`, the threads and
channels of `universe/os/thread.lp`, the VS Code extension, and the website's
playground, background worker and database panel.  TLC checks them on small
instances; TLAPS proves the safety invariants and the refinements the runs check,
for every value of the constants.

Paths below are relative to the repository, definitions of the modules are in
`code` style.  `PROJECT.json` maps every definition to the lines it models.

| module | models | checked by | proved in |
|---|---|---|---|
| `Mvcc` | `universe/db/mvcc.lp` | `MCMvcc` | `MvccProofs` |
| `SnapshotStore` | the abstract store `Mvcc` implements | `MCMvcc` | `MvccProofs` |
| `DbEngine` | `engine.lp`, `tx.lp`, `wal.lp`, `recovery.lp` of `universe/db` | `MCDbEngine` | `StorageProofs` |
| `DurableStore` | the abstract store `DbEngine` implements | `MCDbEngine` | `StorageProofs` |
| `BufferPool` | `universe/db/buffer.lp` | `MCBufferPool` | `StorageProofs` |
| `BTree` | `universe/db/btree.lp`, `page.lp` | `MCBTree` | `BTreeProofs` |
| `RaftNet` | `universe/db/distributed/raft_cluster_net.lp` | `MCRaftNet` | `RaftNetProofs` |
| `Channel` | `universe/os/thread.lp` | `MCChannel` | `ChannelProofs` |
| `LspClient` | the language client of `editors/vscode/extension.js` and the loop of `src/tools/lipilsp.lp` | `MCLspClient` | `EditorProofs` |
| `Playground` | `initPlayground` of `apps/website/public/app.js` with its worker, timers and requests | `MCPlayground` | `PageProofs` |
| `Calls` | what a caller of a slower partner is promised; `LspClient` and `Playground` implement it | both | `EditorProofs`, `PageProofs` |
| `SourceLines` | the transformer of `wasm_runner.js`, the linter and the formatter of `extension.js` | `MCSourceLines` | `EditorProofs` |
| `WasmWorker` | `lipi_worker.js` and the runner of `wasm_runner.js` | `MCWasmWorker` | `WasmWorkerProofs` |
| `DbPanel` | `initDbManager` of `app.js`, `db_engine.lp` and its routes in `server.lp` | `MCDbPanel` | `PageProofs` |

To run: `tlc -config MCMvcc.cfg MCMvcc`, `tlapm MvccProofs.tla`, and so on for
the other configurations (one per run; `MCLspClient` has two) and proof modules.

## 1. Inventory

Lipi is a self-hosting language: a compiler (`src/compiler`), its run time
(`src/runtime`), command line tools (`src/tools`) and a standard library
(`universe/`) from databases to a kernel, with an editor extension
(`editors/vscode`) and a website (`apps/website`) in JavaScript around it.
Nearly all of the Lipi code is sequential, over lists and records.  A record is a
reference; reading a list out of range gives 0, writing out of range does
nothing.  The JavaScript code is asynchronous: one thread per page, worker or
extension host, whose handlers run to their end and whose awaits, timers,
messages and pipes interleave.  The models follow these rules where they matter.

### Modelled

**MVCC version store** (`universe/db/mvcc.lp`).  State: a chain of versions per
key, newest first, each with the id of its creator and of the transaction that
expired it; the transaction table; the lists of active and of committed ids.
Operations: begin (freezes the list of active ids), get, put, delete, commit,
rollback, vacuum.  Calls are atomic, transactions interleave between calls.
Hard: visibility depends on what other transactions do to the versions after the
snapshot was taken; rollback must undo several writes under other readers;
vacuum must not cut what a snapshot still needs.  Correct when reads are those
of the snapshot, writers of a key exclude each other, and a transaction works on
a copy that it publishes as a whole.  (`mvcc.lp:9` promises snapshot isolation,
which is more than the code keeps: section 5, *Lost updates*.)

**Engine, log, recovery** (`engine.lp`, `tx.lp`, `wal.lp`, `recovery.lp`).
State: the log file and the data file, each as the operating system holds it and
as stable storage does; the pages in memory; the handles; counters.  Operations:
open with recovery, staged transactions, auto-committed put and delete,
checkpoint, close.  Talks to the disk through the buffer pool.  One thread, but
the process or the machine may stop between any two system calls, and the pool
and the operating system write back whenever they like.  Correct when an
answered call survives, a call takes effect as a whole or not at all, and no
other write becomes visible.

**Buffer pool** (`buffer.lp`).  State: frames, page table, free stack, LRU list.
Operations: fetch, allocate, unpin, mark dirty, flush, close, open.  Called by
the B+tree, which holds several buffers at a time and changes them in place.
Correct when list and table agree with the frames, a pinned page stays in its
frame, and an evicted page was written.

**B+tree and slotted pages** (`btree.lp`, `page.lp`).  State: the pages, the
root, the height.  Operations: get, insert with splits, delete, scan.  Hard:
splits through several levels of pages with cells of different sizes, at half
the cells and without a look at what the inserts into the halves answer; the leaf
chain is a second path to the same data and must agree with the first.

**Raft cluster** (`db/distributed/raft_cluster_net.lp`).  State per node: role,
term, vote, log, commit index, key-value map, isolation flag.  Operations:
trigger an election, client write, isolate, heal, get.  The cluster object calls
its nodes one after the other, so an operation is atomic, but operations meet
nodes in any combination of terms and logs.  Correct when a term has one leader
and an acknowledged write is not lost.

**Threads, spinlock, channel** (`os/thread.lp`).  State: seven words of shared
memory and the ring behind them.  Operations: lock, unlock, send, receive, close,
by kernel threads.  Every load and store interleaves.

**Language client** (`editors/vscode/extension.js:64-331`, `:421-466`).  State:
the client object in use; per client the process, the ready flag, the next id,
the map of pending requests, their timers and the receive buffer.  Operations:
activate, restart, deactivate, hover, completion; the events of the server
process (data, error, close) and of the timers.  Talks to `lipilsp` over two
pipes.  Hard: a restart makes a new client while the process, the pipe, the
timers and the handlers of the old one are still there; chunks of output end
anywhere; timers are never cleared; the server may be dead before anybody knows.
Correct when each question is settled once, with its own answer or the built-in
text, always in the end, and a live server is used.

**Linter, formatter, transformer** (`extension.js:335-410`,
`wasm_runner.js:397-507`).  Three loops over the lines of a text, each with a
stack or a level of its own.  Hard: they read the same syntax by three different
rules.  Correct when the transformer's braces say what the indentation says, the
linter reports exactly the unmatched directives and the formatter agrees with it.

**Playground** (`app.js:347-832`).  State: the editor, the selected snippet and
engine, the button, the terminal and the badge; the worker with its pending ids,
callbacks and timers.  Operations: typing, snippets, reset, clear, engine, run by
button or shortcut; worker messages, timeouts, answers of `/api/run`.  Hard: runs
overlap, results come late, the worker may be mute or occupied for ever, and the
fallback runs the code on the page's own thread.  Correct when each run ends
once, with its own result or a substitute, and the button comes back.

**Worker and runner** (`lipi_worker.js`, `wasm_runner.js`).  State: the
inbox, the captured texts per run, the outbox.  Operations: `RUN`, `RUN_SOURCE`,
`PING`, `RESET`, and messages it does not know.  Hard: the handler awaits a
compilation, so several runs are under way in one worker.  Correct when each
message gets the texts of its own run and then one answer.

**Database panel** (`app.js:885-1100`, `server.lp`, `db_engine.lp`).  State: the
file of 32-byte records, the panel's preview records, the table.  Operations:
insert, delete, refresh, each followed by two loads; the server's handlers.
Hard: a lost answer is taken for a lost request, operations overlap, preview ids
and record ids are the same numbers.  Correct when what the user was told is so.

### Not modelled

`PROJECT.json` lists every component with its reason.  In short:

* *Not done*: `os/scheduler.lp` with `os/kernel.lp`; the swarm
  (`swarm/discovery.lp`, `actor.lp`, `node.lp`, the work-stealing queue of
  `liprpc.lp`); `src/runtime/async/fiber.lp`; the rings and the worker pool of
  `web/frontend/concurrency`; `net/io_uring_ring.lp`; `os/ipc.lp`; the allocators
  `os/memory.lp` and `src/runtime/lipi_gc.lp`; `db/lru.lp`.  What is hard in them
  was read and is written down in section 6.
* *Degenerate*: `db/distributed/raft.lp` with `kv_node.lp` and the Raft of
  `db/object_graph.lp` call all nodes synchronously; no node is ever cut off,
  late or behind, so nothing consensus is for can happen.
* *Out of reach*: the compiler, 39,000 lines from text to machine code; its
  stages are functions over unbounded trees.
* *Pure I/O or pure computation*: hardware, boot and system call layers, wire
  formats, cryptography, numeric and drawing libraries, tools, applications.
* *Library code*: `editors/vscode/src/extension.ts` hands everything to
  `vscode-languageclient`; the tables and colours of `app.js`, the benchmark,
  telemetry, package and API pages keep no state beyond one handler.

## 2. The modules

### Mvcc

Ids start at 100 as in the code, `MaxTx` bounds them.  `chain[k]` is the version
list of a key, `tx[t]` the transaction record (state, frozen ids, number of
writes per key), `active` and `committed` the two lists, `keys` the keys that
have a chain.  One action per call: `Begin`, `Put`, `Delete`, `Commit`,
`Rollback`, `Vacuum`.  `Get` is the read operator; reads change nothing that
other calls see.  `mvcc_vacuum` takes the minimum id from its caller and has none
in the repository; `Horizons` are the ids its comment allows (`:351`): any up to the
oldest active transaction.  That horizon may pass a transaction some snapshot has
frozen, and the versions it expired; `VacuumTakes` names these cases, in which
`RepeatableRead` lets a key go missing (and lets nothing else happen).

`ImplementsSnapshotStore` maps the chains to `SnapshotStore`: the store has each
key's newest committed version, a running transaction's snapshot and buffer are
read off the chains.  The abstract module knows no chains and no expiry, so the
mapping says that these are invisible.  It is deliberately not called snapshot
isolation: of first-committer-wins `Write` has the half the code tests (the writer
of a key that runs, and one that began later and has published), and `Forget` is what
a vacuum may do to snapshots in use, confined to keys that a transaction published
which ran when the snapshot was taken.

### DbEngine

Every call is split at its system calls; `pc` and `pos` say where the call in
progress stands.  A log record is complete or `Torn`.  The disk has two layers:
`file` and `log` are what the operating system holds, `page` and the first
`synced` records are what survives a power cut.  `Evict` is a write-back of one
page by the pool, which may come at any moment of a call that touches the tree
and in the middle of a flush; `WriteBackPage` and `WriteBackLog` are the
operating system's.

Of the tree only what it answers is kept, a value per key.  A change of one leaf is
in the file or not, and `Evict` and `WriteBackPage` move single keys.  A split
changes several pages, and the header with the new root's id is written at once
(`btree.lp:134`): from the split to the next flush the file may hold a part of it.
`image` says so (`"split"`), and a crash then finds the file without any set of its
keys (`Found`, `Parts`), which is more than any choice of pages can lose.  From there
on `image` is `"spoiled"`, as it is after the other faults the code does not handle.

`faults`, one member of `Worlds`, is chosen at the start and says what may go
wrong in a behaviour: `"process_crash"` (memory is lost), `"power_cut"` (what was
not stable is lost too), `"torn_write"`, `"write_error"`, `"closed_handle"` (a
transaction used after `db_close`), `"lost_key"` (a split drops keys, as `BTree`
shows it may).  `Intact` holds until one of these ends what the code promises: a
process that dies in the middle of a split, a torn record, a failed write of the log,
a commit through a closed handle, a lost key, and a process crash with unsynced
records in a world where the power may fail too.

`ImplementsDurableStore` maps the engine to `DurableStore`, whose calls are
atomic and durable: the store is what a recovery would restore from the disk at
this moment (`Recovered`), and a call takes effect when its commit record reaches
the part of the log a recovery reads (`Effective`).  The abstract store runs or
does not: a call is submitted to a store that runs, answered only after it took
effect, and may end without an answer only when the store stops.  It is at risk
(`risky`) between a split and the next flush, and all the time in a behaviour that may
meet more than one kind of crash (`Exposed`); only then may it break, and a
broken store promises nothing.  A call that writes nothing is not a call of the
abstract store.

### BufferPool

`frames`, `table`, `free` and `lru` are the pool's structures, the hash buckets
of the table seen as one function.  A client stands for one buffer the tree
holds.  `latest` is what was last written to each page through a buffer; `stray`
records that some client was given a buffer of no frame, by a fetch or an
allocation, because every frame was pinned.

### BTree

Calls are atomic.  A page is its sequence of cells; a cell takes the bytes of its
key and value with its slot (`LeafCell`, `InternalCell`), and a page has
`Room` = 4096 - 32 of them.  `Path` is the descent of
`btree_insert` and `btree_search`, `Climb` the
promotion of separators along it.  `content` is what the callers stored, `joined`
that a leaf was emptied and taken out of the chain.

The code splits at half the cells, does not look at their bytes, and ignores what
the inserts into the halves answer.  The model does the same and remembers what
that loses: `dropped` are the keys whose pair found no room in its half, `orphaned`
that a page found no room in its parent's half, or stands there behind an equal
separator (`Hidden`).  `Held` is what a lookup should then answer.  `PairAssumption` is
the one bound on lengths: a pair and a separator fit on a page of their own.

### RaftNet

One action per operation of the cluster: `Elect`, `Write`, `Isolate`, `Heal`;
`Get` and `Reader` are the reads.  History variables record who won each term
(`won`), what was acknowledged (`acked`), what reads answered (`answers`) and
whether an election was started while a leader could be reached (`disturbed`).
`ReadsLatest` is stated while at most one election was won.

### Channel

One action per load or store: `TestLock` and `SetLock` are the two instructions
of `spinlock_lock`; `ReadCount` to `WriteCount` the body of send and receive;
`Return`, `Quit` and `Retry` the three ways out of the critical section.  `raced`
records that two threads saw the lock free together.  Memory is sequentially
consistent; the store buffers of the processor only widen the window the model
shows, and keep the order of the stores that end a critical section.

### LspClient

`current` is the client object in use, the other variables have one entry per
client: a restart takes the next number and leaves the old entries behind with
their pipes, timers and handlers.  The pipe is a sequence of units, a frame being
a length, the blank line after the header and a body; `Frames` is the loop of
`_onData` with what it leaves in the buffer, and `Receive` hands it a chunk of any
size.  The length a server announces exceeds the characters of the body by a
member of `Excess`, the bytes beyond the first of each character.  `Start`,
`Stop`, `SendRequest` are the methods of the same names (`MCLspClient` counts one
restart); `TimerFires`, `StartFails`, `Close` the callbacks; `ServerAnswers` and
`ServerEnds` the server, in-order and mortal.  `garbled` and `gaveUp` are history.

### Calls

The interface both asynchronous clients promise: a call is idle, open, or settled
by its own answer or by the caller's substitute, for good.  `EachSettledOnce` maps
the client's questions to it, `EachRunOnce` the playground's runs; the state
"other" (settled with another call's answer) has no counterpart in it.

### Playground

`run[r]` and `code[r]` are an invocation of `runCode` and the text it took;
`screen` is what the terminal shows, as a list of what was written by whom.  The
text is one of what it does: `fast`, `faulty`, `endless`.  `worker` says whether
there is a worker that works, one that never answers (its runner failed to load)
or none.  `RunCode` goes from the call to its first await; `Message`,
`TimerFires`, `ServerAnswers` and `RequestFails` go on after it; `Finish` is what
they share, down to the finally block.  `frozen` is a page in code that never
ends.

### WasmWorker

`posted[m]` is what a message carries, `task[m]` where its handler stands:
compiling (the await), ran (the continuation is queued as a microtask, hence
`Free`), running for ever.  A text is only counted.  `engine` is FALSE until
`ensureRunnerLoaded`, which each message that runs something calls again, has found
the runner.

### DbPanel

`file` is the sequence of the file's 8-byte words, so that a write beyond its end
or an unaligned append is what it is on the disk.  Operation `p` is a click with
its request, its answer and its two loads (`stats`, `list`); `Fails` is a request
or an answer that was lost.  `saved` and `removed` record what the user was told.

### SourceLines

A line is its indentation, the kind the transformer's and the linter's tests tell
it by, and the two tests of the formatter, which are wider: `closes`, it begins with
one of the words at `extension.js:354`, a statement like `endpoint = 1` included, and
`rises`, it begins with a word that opens a block or ends with a colon.  One behaviour
runs the three passes over one text.  `Indent` is what a line pops or
pushes before it is written; `RunLine` one turn of the loop; `Around`, `Closes`
and `Depth` say over the text alone what the passes should find.

## 3. The runs

| run | instance | shows |
|---|---|---|
| `mvcc` | 2 keys, 1 value, 3 transactions, 2 writes each; 694,000 states | list and chain shape, exclusive writers, clean rollback, reads of the snapshot, repeatable reads but for a vacuum, refinement of `SnapshotStore` |
| `engine` | 2 keys, 1 value, 2 ids, 2 operations each, log of 5, checkpoint after 2; three worlds: process crashes, power cuts, all six faults; 1.07 million states | until a fault strikes the code does not handle: nothing is applied before it is logged, reads are durable, commits keep reads; refinement of `DurableStore` |
| `pool` | 2 buffer holders, pools of 1 and of 3 frames, 5 pages; 760,000 states | list and table, pins, no lost write |
| `btree` | 5 keys of 500 or 2100 bytes, values of 400 or 1900 bytes, 7 pages; 325,000 states | height and chain, lookups, scans, up to what the code drops |
| `raft` | 3 nodes, 3 terms, 2 entries; 3.6 million states | one leader and one winner per term, acknowledged writes on a majority, latest reads |
| `channel` | 2 senders, 2 receivers, 1 closer, 2 words; 670,000 states | order, drain before the end, release of receivers |
| `lsp` | 2 questions, 2 clients, answers with 0 or 1 byte beyond their characters; 496,000 states | ids, a timer for each open question, no answer lost in the stream, a live server is used, refinement of `Calls`, every question returns |
| `lsp_frames` | 1 client, every answer with a byte beyond its characters | **expected violation**: answers framed by their length are lost |
| `playground` | 2 runs, 2 snippets; 339,000 states | the button, one end per run (refinement of `Calls`), every run ends |
| `db_panel` | 2 clicks, 2 values, 2 preview records, a file of 0 or 1 records; 276,000 states | file layout, what was told is true, the table is current |
| `source` | all texts of up to 4 indented lines, of up to 6 directive lines, of up to 4 with statements that begin or end like a block; 1.47 million states | braces, blocks, diagnostics, levels |
| `worker` | 3 messages, up to 1 text per program, a runner loaded early, late or never; 495,000 states | one task at a time, own texts and one answer, all answered |

Some invariants are conjunctions of named parts: `VersionsSound` of `ListsAgree`,
`ChainLinked`, `OneWriterOnTop` and `AbortedUnlinked`; `LogLeads` of the types and
`AppliedIsLogged`; `PoolSound` of the types, `LruLinked` and `TableAgrees`;
`TreeSound` of the types, `Balanced` and `ChainIsDouble`; `ScanAgrees` of
`ScanSound` and `ScanComplete`; `ElectionsSafe` of `OneLeader` and
`ElectionSafety`; `Delivers` of `KeepsOrder` and `DrainedBeforeOver`.

**Why the bounds are enough.**  `mvcc`: three transactions give a reader, a
writer it overlaps and a third that vacuums, commits or rolls back between them;
two keys make rollback undo more than one chain, two writes make a transaction
expire its own version.  `engine`: two ids and a log of five records let a
transaction follow a recovery, reuse ids after a truncation and crash inside a
checkpoint; the third record of a transaction adds nothing, as no step looks at
more than one record and the ids.  Process crashes and power cuts have worlds of
their own, in which either may strike any number of times; the third world has
every fault, in any order.  The configuration stops at states that are not `Intact`
(`CONSTRAINT`): `image` stays `"spoiled"` for good and every property is conditional on
`Intact`, or lets the broken store do anything, so nothing is left to check there.  `pool`: one frame makes every pool all-pinned, three
frames give the list a head, a middle and a tail, and with two held buffers an
eviction still finds a victim.  `btree`: with these lengths a leaf holds one to
three pairs and an internal page one long separator or several short ones, so that
five keys reach height 3 with leaf and internal splits and root growth at
different positions, pairs without room in their half, children without room in
theirs, and leaves with a single cell.  `raft`: three terms give a leader, a rival and a return.  `channel`:
three messages through two words wrap the indices and fill and empty the ring;
the budgets are two senders and one receiver, one and one with the ring full,
two receivers who race for the end, and two receivers with no sender at all, whom
only the close can release.

`lsp`: two questions give an answer that comes late while another is awaited, and
three frames (with the initialize answer) in one pipe, cut anywhere; one restart
gives an old client with a live process, timers and pipe beside the new one; a
second restart would only repeat what the first does to a third object.
`playground`: the second run is the one that finds the worker occupied, the
button disabled or the terminal taken.  `db_panel`: two clicks overlap in every
order, each with its own loads; an empty file and a file of one record against
two preview records give preview ids inside and beyond the file.  `source`: four
lines are the shortest text in which a dedent leaves two blocks and a line
follows, with indents below, on and beyond the width of a block; six directive
lines nest three deep.  The theorems of `EditorProofs` remove the bound.
`worker`: three messages give two runs that compile together and a third message
behind them.

**Fairness.**  `Mvcc`, `DbEngine`, `BufferPool`, `BTree`, `RaftNet`, `DbPanel` and
`SourceLines` state safety only: their calls are made by callers that owe nothing.

* `Channel` assumes weak fairness of every thread's next step, which the kernel's
  scheduler gives to runnable threads.  It does not assume that a thread which
  polls the lock ever finds it free while others keep taking it: `thread_yield`
  promises no such thing, and `CloseReleases` needs it only when there are no
  others.
* `LspClient` assumes weak fairness of each client's timers, and nothing else: an
  armed `setTimeout` fires as long as the extension host's loop runs, and no
  modelled handler blocks it.  The server may never answer, the pipe may never
  deliver, and `QueriesReturn` still holds.
* `Playground` assumes the same of the page's timers, and that `fetch` settles
  with an answer or a failure.  Both need a page that is not frozen, which is
  part of their guards.  The worker owes nothing.
* `WasmWorker` assumes that the event loop hands over the next message and that a
  compilation ends, while the thread is free.  A program that does not end is not
  fairly scheduled away; `AllAnswered` names it as the exception.

`CHECK_DEADLOCK FALSE` everywhere: the bounds end every behaviour, and a client
may stop calling.

## 4. What is proved

All proof modules follow the same argument: a strengthening (`IInv` unless named
otherwise) holds initially, is preserved by every action and implies the properties; a refinement
adds that every step under `IInv` maps to a step of the abstract module or leaves
its variables alone.  The assumptions are those of the modelled modules on their
constants, and one named hypothesis: `MarkerIsNoValue` (`ChainsImplementStore`), that
the value by which the abstract buffer marks an unwritten key is no value of a
client.  It is about the abstract module only.  What the code does not keep is not
assumed away but part of the properties (`VacuumTakes`, `Intact`, `dropped` and
`orphaned`), and the theorems hold for any vacuum, any set of faults and any lengths.

**MvccProofs.**  `IInv` consists of the type invariant, the agreement of the lists
with the transaction table (`ListsAgree`), the shape of the chains
(`ChainLinked`), `OneWriterOnTop`, `CreatorsLive` (the creator of every version
is running or has committed) and `FrozenCoversActive` (a running transaction has
frozen every running one that began before it).  A rollback takes exactly its
own versions because they are the top of the chain; they are the top because a
write over another running transaction's head is refused; and no version of an
aborted creator stays behind, so the three facts hold only together.
`FrozenCoversActive` is needed because visibility asks the *current* lists about
ids that were frozen earlier: only if every older id that is still active is in
the frozen list does a commit between snapshot and read stay invisible.  `WriteInv`,
`RollbackInv` and `VacuumInv` rest on what prepending, popping and cutting do to
a chain (`PrependResult`, `UnlinkResult`, `CutResult`).  Theorems, for all keys,
values and numbers of transactions: `TypeCorrect`, `ChainsStayLinked`,
`WriterOnTop`, `RollbackIsClean`, `VersionsStaySound`, `ReadsAreSnapshotReads`.

`ReadsRepeat` and `ChainsImplementStore` compare two states.  What a snapshot sees of
a chain is its first version with a creator outside the frozen list, so the argument
is about where that version stands: a write puts one on top that no other
snapshot sees, a rollback takes off only such, a commit changes the lists
but no frozen one.  A cut may come before the version a snapshot stops at, and then
the key is missing: the version cut away was expired by a transaction below the
horizon, which is older than every active one, so it has committed; the snapshot
did not see its write, so it had frozen it.  That this transaction *wrote* the key, by
its own count, is `CreatorsWrote`; `PublishersCovered` says the same of the
`overlap` and `published` of the abstract store.  Both follow the invariant (`Wrote`).
For the refinement the same is said of the committed store: only a commit moves
it, to exactly the transaction's own writes, because those are the top of their
chains (`CommitIsolated`).

**RaftNetProofs.** For clusters of every size.  `IInv` consists of the type
invariant, `Isolation` (an isolated node is a follower), `OneLeader`,
`ElectionSafety` and the key invariant `WonIsKnown`: every won term is known to a
majority of the nodes, and no leader is older than a won term.  A new winner needs
a majority that did not know its term, two majorities meet (`QuorumsMeet`), hence
no second winner; that a write may *lower* a peer's term is harmless because the
writer is the leader and no leader is older than a won term.  Theorems:
`TypeCorrect`, `LeaderIsUnique`, `TermsHaveOneWinner`, `ElectionsStaySafe`,
`AcknowledgedIsReplicated`.

`FirstLeaderReadsLatest` needs an invariant of its own (`FirstTerm`): as long as one
node has won (`Single`), only that node leads, its committed entries answer the last
acknowledged write of each key or one tried since, and so would the rest of its log
if it were committed (`Serves`).  A write that reaches no majority stays in the
leader's log and is committed with a later one, which is why the property speaks
of a set.

**EditorProofs**, `LspClient`.  For any number of questions and restarts, whatever the
server writes and however the pipe cuts it.  `IInv` consists of the shape of the
variables, `Unborn` (a client not created yet has no server, so that a missing
binary leaves none), `OpenHasTimer` and `LiveServerIsUsed`.  A request is made
pending, timed and sent in one step (`SendAdds`); it leaves `pendingRequests` only
with an answer, which settles the question or makes the client ready
(`ReceiveKeeps`), or with its timer, which settles it or records that initialize
was given up (`TimeoutKeeps`); every other event touches its own client object
only (`StartedKeeps`, `QuietKeeps`).  For these two results the framing stays
unexpanded.

The others need what the receive loop returns.  `Frames` is a recursive function, and
its recursion is derived here rather than assumed: approximations for buffers of
bounded length exist and agree (`LoopExists`, `LoopsAgree`, by a least
counterexample), so their union satisfies the loop's equation (`FramesUnfold`).  From
it, again by a least counterexample on the length, `FramesRight`: what the loop
returns is made of the buffer's units, and of a buffer of whole frames, possibly cut
at the end, it takes every whole frame and keeps less than one.  `PipesSound`
is then inductive beside `IInv`:

* `IdsOnce`: among all that a client still has of its requests, pending, timed,
  on the way to the server or as an answer on the way back, an id stands for one
  request.  `TypeOK` alone is not inductive, because a late answer could carry an
  id in use; with `IdsOnce` a late answer finds its own question or none.
* `OpenWaits` and `OneWait`: who is awaited is open, and awaited once, so a question
  is settled once.
* `Placed`: the stream of a client that got only ASCII answers is whole frames (cut
  at the end only after its server died), and an awaited request is before the
  server or in the stream.

Theorems: `OpenAlwaysHasTimer`, `LiveServerStaysUsed`, `TypeCorrect`,
`AnswersStayInPlace`, and `QuestionsAreCalls`, the refinement of `Calls`.

**EditorProofs**, `SourceLines`.  For every text of every length.  (The module extends
both specifications, so `SourceLines` calls its own `LinesInit`, `LinesNext` and
`LinesSpec`.)  `LinesInv` says of the stack of levels that it rises from the bottom
(`Rising`), that each level a header opened is the header's indent and a block's
width (`Grounded`), and that the headers on
the stack are those above the current line that all code since is inside of
(`Lines0(indentStack) = Opened(...)`); beside it the brace counts and what was
already placed.  `IndentResult` is the heart: a line leaves on the stack exactly
the levels not deeper than itself, because the stack rises; hence the headers
left are those it is inside of (`HeadersLeft`), a header adds itself
(`HeadPushed`), and a blank line changes nothing because it is not code.
`BracesBalanced` alone is not inductive: that a pop never empties the stack
needs the bottom at level 0, and that closing braces match needs the stack's
length.

The linter and the formatter have an invariant of their own (`LintInv`).  The
reference, `Unmatched`, counts openings and ends; the linter pushes and pops.  `Blocks`
ties the two: from a directive on the stack to the current line there are as many
more openings than ends as there are entries from it to the top, and never fewer than
one on the way, so an `@end` closes the top entry and the entry's balance says so
first there; one that finds the stack empty closes none.  A text without reports is
therefore balanced and no prefix of it is negative (`WellNested`), which makes the
formatter's `max(0, ...)` idle and its level the balance.  Theorems:
`BracesStayBalanced`, `LinesRunWhereIndented`, `ReportsAreExact`, `FormatAgrees`.

**PageProofs.**  The playground, for any number of runs.  Ids, callbacks, timers and the two
queues between page and worker each carry a run; the heart of `IInv` is
`IdOfOneRun`: whatever carries an id carries the same run, so that a message or a
timer that comes late finds either the callback of its own run or none.  Beside it:
runs start in order (`StartedInOrder`), a callback's run waits for the worker
(`CallbackOfOpen`), a disabled button has an open run, and without the shortcut at
most one run is open and the terminal shows no other (`OneAtATime`).
`ButtonExcludes` alone is not inductive: that `Finish` may enable the button needs
that the run which ends is the only one.  Theorems: `TypeCorrect`,
`ButtonAlwaysExcludes`, and `RunsAreCalls`, the refinement of `Calls`.

The database panel, for any number of clicks and values. (The module extends both
specifications of `app.js`, so `DbPanel` calls its own `PanelInit`, `PanelNext`,
`PanelSpec` and `PanelTypeOK`.) `Whole` says that until a delete goes beyond the
end the file is whole records numbered from 1; then an insert adds one row
(`InsertResult`) and a delete takes one off (`DeleteResult`).  `Told` extends
`ToldIsTrue` to answers the page has not handled: what they are about to tell is
already so.  `Current`: without overlap one operation is under way, it changes the
file before it asks for the records, and nobody changes it until they are shown.
Theorems: `PanelTypeCorrect`, `ToldStaysTrue`, `TableStaysCurrent`.

**WasmWorkerProofs.**  For any number of messages and texts.  `IInv` says of the inbox
that it holds each unhandled message once (`Queue`), of the thread that one
handler continues at a time (`OneOnThread`), and of each message that the replies
about it are what its handler has posted so far (`Course`) and that nothing comes
after its answer (`Settled`).  A compilation leaves the thread to other handlers;
what ties a text to its run is `capturedOutput[m]`, the number of replies about `m`
so far.  Theorems: `TypeCorrect`, `AnswersComeOnce`.

**ChannelProofs.**  For any threads and any capacity.  `Types` and `Roles` hold
always; as long as the lock excluded, `Exclusive` (one thread inside, and the
lock word taken while it is), `Agrees` (the registers of that thread are the words
it read), `Ring` (the slots from `head` to `tail` are what was sent and not received)
and `Drained`.  `Ring` is broken between the two stores of an index and the
count; there `Agrees` says which of the two the ring already follows.  Theorems:
`TypeCorrect`, `ChannelDelivers`.

**StorageProofs**, `DbEngine`.  For any keys, values, transactions, writes per
transaction and length of the log.  `IInv` consists of the types, what each value
of `pc` implies (`Phases`), a log without bad records (`Clean`), ids that no open
transaction shares with the log (`IdsFresh`), the records of the call in progress
at the log's end (`CallAtEnd`), what is stable at each phase (`Stable`), and two
equations: `MemoryAgrees`, the tree is the file with the committed writes up to a
point of the log (all of it between calls, up to `pos` while a call applies or a
recovery redoes), and `PagesAgree`, a page on stable storage differs from the file
only where a recovery writes it again.  An eviction may write a page with any
prefix of the changes: replaying the log over it gives the same, because the last
write to a key decides (`ReplayIs`).  A checkpoint may cut the log because every
page was synced before.  `IdsFresh` is needed because ids start at 1 again whenever
the log is empty: were one in use again while the log holds its commit record, the
records of the new transaction would be replayed before it commits.

All of this holds as long as the tree in the file is `Intact`, in any world: the
invariant of the specification is `Sound`, `Intact => IInv`.  The tree is spoiled for
good (`Intactly`), so a step that leaves it intact began with `IInv`, and no step needs
an assumption about the world.  `Breaking` says when `Intact` may end: in a split, or
in a behaviour with more faults than one kind of crash, exactly where `DurableStore`
may break; `Reorganizing` that a split, and the flush after it, changes nothing a caller
sees.  Theorems, for any set of worlds: `TypeCorrect`, `CommitsAreLogged`,
`ReadersSeeDurable`, `CommitsKeepReads` and `CallsAreDurable`, the refinement of
`DurableStore`.

**StorageProofs**, `BufferPool`.  For any finite sets of clients and of capacities,
any contents and any number of pages.  `PoolInv` consists of the types, `Listed`,
`Tables`, `Ahead`, `Buffers`, `PinsHold` and `NoLostWrite`.  `Listed` says that
there is a sequence of frames, from the tail to the head, that the links follow in
both directions and that names the used frames, each once: `RemoveLists` and
`PushFrontLists` show that `lru_remove` and `lru_push_front` take such a list to
such a list, wherever the frame is in it or when it is not, and `WalkIs` that the
loop of `lru_find_victim` visits the frames of the sequence in turn.  `TargetIs`
follows: the frame taken is the top of the free stack, which is in no use, or a
used frame without a pin.  While no buffer is stray an unpinned frame has no
holder, so nothing is evicted under one, and a clean frame without a holder equals
the file, so an eviction that writes nothing loses nothing (`TakeKeeps`, for a miss
and an allocation alike).  `Ahead` is needed because an allocation assumes that its
page was never written; `Buffers` because an unpin finds its frame through the
page's number.  `PinsHold` is not inductive without `Tables`: an unpin decrements
the frame the table names, which is the holder's only if the page is in one frame.
Theorems: `PoolStaysLinked` (`PoolSound`, without a condition), `PinsStayHeld`,
`WritesStay` (both up to the first stray buffer, as the properties say).  The
module gives some definitions the prefix `Pool` so that it can be extended together
with `DbEngine`.

**BTreeProofs.**  For any number of keys and pages and any lengths of keys and values
within `PairAssumption`.  The recursions over the tree are recursive functions; that
each of them exists is derived (`DownIs`, `UpFunIs`, `WalkIs`, `LeftwardIs`), and what
they compute follows a level at a step.

*Shape.*  `Shape` gives every page a level `lev`, 1 for leaves, and the children of a
page the next lower one.  A search thus ends in a leaf after `height` pages
(`PathIs`).  `InsertParent` is followed by `Rising`: until it ends the tree is well
shaped without the new half, and the stack leads from the root to the level above
it; the three cases of a level keep that or end the climb (`UpRises`), and with the
stack empty it ends at the new root (`ClimbEnds`).  A child left out of its parent
leaves no hole: nothing points to it.  Levels and not heights of
subtrees are what makes this local: a split gives the new half the level of the
old, and no other page has to be looked at.  `Chain` adds the leaves' links, which a
climb leaves alone (`Rechain`).  Theorem: `TreeStaysSound`, without a condition.

*Keys.*  `Spans` and `Divided` give every page the keys from `lo` up to `hi`: its
children divide them at the separators, and pages of a level share none.  So a
search stays in the pages that have its key (`ChildHas`, `LeafHas`), and no other leaf
has it.  During a climb the parent of the page that was split still gives it the keys
of both halves; `Ordered` says that this one page is the only exception (`Ends`),
and `InsertSpread` and `HalvesSpread` that hanging in the new half, or splitting the
page above, removes it there or hands it one level up (`TakeOrders`, `PopOrders`,
`GrowOrders`).  A child left out or hidden breaks the division, so `SearchInv` claims it
only until then; that an orphan is never forgotten, by a level, a climb or an insert
(`UpForgetsNoOrphan`, `ClimbForgetsNoOrphan`, `SplitForgetsNoOrphan`), lets the proof of
a step assume that there was none at any level before it.
A leaf holds exactly what should be stored of its keys (`Holds`, `HeldMap`), before and
after an overwrite, a new cell, a deletion and a split: the half that takes the new
pair, or has no room for it, holds its part with the pair or without (`SplitHolds`,
`Rest`), and the map changes alike.  `GetAgrees` alone is not
inductive, since it sees neither a key in a leaf no search for it reaches nor what
separators will say after the next split.  Theorem: `LookupsAgree`.

*Scans.*  `LeavesLinked` says that the leaf behind a leaf has no smaller keys, and until
a leaf is taken out of the chain exactly the next ones.  This needs no order of the
whole chain and holds of unlinked leaves too, whose stale neighbours a later delete
writes to (`UnlinkKeeps`).  What a scan has collected after any number of leaves is
therefore in order, without repetitions and stored, and, until then, complete up to
the leaf it stands before (`WalkGoesOn`).  That it ends is said apart, because a leaf
may have no keys of its own, when a pair was dropped from a half without cells:
the leaves have ranks below the number of pages that rise along the links (`Queued`).
Theorem: `ScansAgree`.

**Only model-checked.**  Liveness (`CloseReleases`, `QueriesReturn`, `RunsEnd`,
`AllAnswered`), which is out of the prover's reach.  Of every other property of a
passing run a theorem says that it holds for all constants; only
`ImplementsSnapshotStore` needs a hypothesis, the one named above.

## 5. Known divergences

Places where the code does not do what its comments, its tests or the rest of
the code say.  The first is a run; the others show up by changing one constant,
one condition or the checked property.

**Editor and website**

* **Bytes and characters** (run `lsp_frames`).  `_onData` compares the announced
  number of bytes with `this.buffer.length`, which counts UTF-16 units
  (`extension.js:188`).  After an answer with a non-ASCII character it waits into
  the next frame, cuts its head off and loses both.  The hover and completion
  texts of the repository's own server are not ASCII.  `Excess = {0}` is the case
  of a server whose texts are; `resolveLspBinary` starts any binary it finds.
* **Chunks are decoded one by one** (`extension.js:174`): a character split between
  two chunks becomes replacement characters.  Not modelled beyond `Excess`.
* **A server that dies rejects nothing** (`extension.js:99`): open questions wait for
  their timers (`QueriesReturn` holds through the timers alone).
* **Initialize has the same 3 s timer** (`extension.js:156`).  An answer after that is
  ignored and the client is never ready although its server lives; `gaveUp` is
  the exception `LiveServerIsUsed` makes.
* **Ctrl+Enter asks nobody** (`app.js:562`): a second run starts beside the first, clears
  its terminal, and the first to end enables the button.  `ButtonExcludes` holds
  only while nobody uses the shortcut (`keyed`).
* **ERROR messages of the worker are not read** (`app.js:392`): the page waits for the
  3 s timer and then runs the code itself.
* **The fallback freezes the page** (`app.js:604`).  A program that does not end
  occupies the worker, is then run on the page and stops it, which
  `lipi_worker.js:6-11` says the worker is there to prevent.  `RunsEnd` has `frozen`
  as its exception.
* **Another snippet's preview** (`app.js:806`): when a request fails, the terminal shows
  the preview of the snippet selected by then.
* **A delete beyond the file** (`db_engine.lp:50`, also reached by deleting a preview
  record whose id the server takes for one of its own) writes behind the end;
  later records are no longer aligned.  `PanelTypeOK` and `ToldIsTrue` are
  stated until then (`stray`).  A preview id that does exist on the server deletes
  the server's record.
* **A lost answer is a lost request** (`app.js:1006`): the record is stored and also added
  to the preview.  The user is not told that it is on disk, so `ToldIsTrue` holds.
* **Overlapping loads** (`app.js:944`): the older list may be rendered last.
  `TableCurrent` is stated without overlap.
* **Three widths.**  A body indented by two columns, as `extension.js:358` formats it, is
  not inside its header's block in `wasm_runner.js:459`, which adds four.
* **The formatter** raises the level after any line that ends with a colon, a comment
  included, lowers it for any line that begins with `end`, `elif` or `নাহলে`, and never
  closes a keyword block (`extension.js:354-366`): between `@fn` and `@end` it writes the
  statement `endpoint = 1`, about which the linter reports nothing, at level 0.  The
  model does the same; `FormatFollowsLint` is stated for texts whose only such lines
  are directives, and fails without that condition.

**Database and threads**

* **Lost updates.**  `mvcc.lp:15` says "Write-Conflict Detection
  (First-Committer-Wins) prevents lost updates"; `mvcc_put` (`:208`) does not refuse a
  head whose creator was active when the writer began and has committed since.
  Checking `FirstCommitterWins` as an invariant of `MCMvcc` shows it.  `SnapshotStore`
  admits such writes, so the refinement does not say that `mvcc.lp` is snapshot
  isolation.
* **Vacuum horizon.**  `mvcc.lp:351` speaks of the oldest active transaction.  A
  snapshot also needs versions expired by a transaction that was active when it
  was taken, so a vacuum up to that horizon may take a key from under a running
  reader.  It is the exception `VacuumTakes` of `RepeatableRead` and `Forget` of
  `SnapshotStore`; without it TLC finds the read that changes.
* **A split over a crash.**  A split changes a leaf, the new leaf, its neighbour and
  parents in the pool, and the header with the new root's id in the file
  (`btree.lp:131-134`, `buffer.lp:192-206`); single pages are written back when their
  frames are needed (`buffer.lp:364-367`).  A process that dies before the next flush
  leaves a file with a part of it.  Recovery replays the log over that tree, but
  after a checkpoint the log no longer holds the keys of the pages that are missing:
  a single plain process crash loses answered writes.  `engine.lp:5`
  promises "Redo Crash Recovery, Auto-Commit Durability".  It is `Break` of `DurableStore` while `image`
  is `"split"`; with `risky <- Exposed` alone, TLC finds `ImplementsDurableStore`
  violated by a process crash in eight states.
* **Torn records.**  `recovery.lp:6` speaks of torn writes; the scan stops at the first
  bad record (`:149`), nothing cuts it off, and later commits go behind it.
* **Handle after close.**  `tx.lp` does not look at `is_open`: `tx_commit` appends to a
  log without a descriptor, applies the writes in memory and answers 1.
* **Write errors.**  `wal_append_record` does not look at the result of the write, so
  a commit goes on without its record.
* **Two kinds of crash.**  Recovery reads records that were written but not
  synced, answers reads from them and does not sync the log; a power cut after such a
  recovery takes back what was read.

  These four end `Intact` in the run's third world.  With the `CONSTRAINT` removed from
  `MCDbEngine.cfg` and `Intact` from a property, TLC finds each alone: `ReadsAreDurable`
  fails in the worlds `{"power_cut", "torn_write"}` and
  `{"process_crash", "power_cut"}`, `LogLeads` in `{"power_cut", "closed_handle"}` and
  `{"power_cut", "write_error"}`.
* **Unlinked leaves.**  `btree_delete` takes an emptied leaf out of the chain and leaves
  it in its parent (`btree.lp:352`), against `:329` "maintains sibling linked list
  continuity": a later insert goes into it and no scan sees it.  `ScanFindsAll`
  fails in `MCBTree`; `ScanComplete` and `ChainIsDouble` are stated
  up to the first emptied leaf.  A delete of an absent key from such a leaf
  relinks its stale neighbours.
* **Overfull halves.**  A full leaf is split at half its cells, whatever their bytes
  (`page.lp:659`); when the half of the key has no room the pair is dropped and the
  call succeeds (`btree.lp:243` and `:245` do not look at the result), against `:183`
  "Inserts or updates a (key, value) entry".  The same holds one level up
  (`btree.lp:172` and `:174`): a page that finds no room in its parent's half is in no
  parent, and all its keys are out of reach.  And a leaf with a single large cell is
  split before it: the separator that goes up is the one its parent already has,
  and of two equal ones a search sees the last, so the keys behind the other are
  hidden.  `GetAgrees` and `ScanAgrees` name these cases (`dropped`, `orphaned`);
  without the exceptions `GetAgrees` fails at once.
* **Failover.**  A vote compares terms and not logs (`raft_cluster_net.lp:161`), so an
  acknowledged write may be missing from the next leader.  `CommittedReadable`
  fails in `MCRaftNet`; `ReadsLatest` is stated while one election was won.
* **The lock race.**  `spinlock_lock` tests and sets by two instructions
  (`thread.lp:45`), although `:66` and `docs/STANDARD_LIBRARY.md:204` call it atomic: two
  senders store into one slot.  `Exchange` fails in `MCChannel`; `Delivers` is stated
  until two threads have seen the lock free together.
* **All frames pinned.**  The pool then hands out a buffer of no frame
  (`buffer.lp:360`), and an allocation one of page -1 (`:422`), which `btree.lp:123`,
  `:163` and `:227` write to unchecked.  What is written to it is lost and its unpin is
  another frame's or nobody's.  `PinsHold` and `NoLostWrite` are stated up to the first
  such buffer, `PoolSound` without a condition.
* **Elections against a live leader.**  A leader that votes keeps its role, so
  two reachable leaders appear when an election is triggered while one can be
  reached (`raft_cluster_net.lp:162`).  `ElectionsSafe` is stated for clusters whose
  elections start when no leader can be reached.  The comment at `:160` speaks of
  "<=" where the code has "<"; the code's is the one that lets a node vote once
  per term.

## 6. Plan

1. *Composition*: `DbEngine` knows of a split only that the file may hold a part of it
   (`image`, `Parts`).  `BTree`'s pages over `BufferPool` and the two-layer disk would
   say which parts (`btree.lp:226`), and which of them a different order of the writes
   would avoid.
2. *Modules not written*, with what is hard in each:
   * `os/scheduler.lp`: at each level the first ready task in creation order runs,
     only the boost every 100 ticks helps the others (`:163`); with no ready task
     nobody wakes a sleeper (`:236`); `unblock` leaves the wake-up tick behind (`:334`).
   * `swarm`: gossip overwrites a peer with older news (`discovery.lp:205`); nodes that
     ask each other wait for each other (`actor.lp:233`); the stealing queue overwrites
     a task when full (`liprpc.lp:194`).
   * `fiber.lp:166`: a spawn into a full queue is listed and never run.
   * `ring_buffer.lp`: the compare-and-swap is three steps (`:274`); a full completion
     queue drops completions (`:353`).
   * `io_uring_ring.lp:249`: 32-bit indices compared as 64-bit integers.
   * `ipc.lp`, `memory.lp`, `lipi_gc.lp`, `lru.lp`: sequential structures.
