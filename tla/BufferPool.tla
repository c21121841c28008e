------------------------------ MODULE BufferPool ------------------------------
(***************************************************************************)
(* The page cache of universe/db/buffer.lp: a fixed number of frames, a    *)
(* page table, a stack of free frames and a doubly linked list of the used *)
(* ones, most recently used first.                                         *)
(*                                                                         *)
(* A client stands for one buffer the B+tree holds: it fetches or          *)
(* allocates a page, changes the buffer in place and unpins the page.      *)
(* Calls are atomic; up to Cardinality(Client) buffers are held at a time. *)
(***************************************************************************)
EXTENDS Integers, Sequences, FiniteSets

CONSTANTS
    Client,     \* holders of buffers
    Content,    \* what clients write
    Zero,       \* the content of a page nobody wrote
    Capacities, \* the capacities a pool is opened with
    MaxPages    \* bound: pages ever allocated, page 0 included

ASSUME ZeroAssumption == Zero \notin Content
ASSUME CapacityAssumption == Capacities \subseteq Nat \ {0}
ASSUME FiniteAssumption == IsFiniteSet(Client) /\ IsFiniteSet(Capacities)
ASSUME BoundAssumption == MaxPages \in Nat /\ MaxPages >= 2

Nil == -1
Frame == UNION {0 .. n - 1 : n \in Capacities}
Page == 1 .. MaxPages - 1
Data == Content \cup {Zero}

VARIABLES
    capacity,   \* pool.capacity: the pool has the frames below it
    total,      \* pool.total_pages
    frames,     \* pool.frames without their list links
    table,      \* the page table: the frame of a page, or Nil
    free,       \* pool.free_frames, taken from the end
    lru,        \* prev_lru, next_lru, lru_head and lru_tail
    stored,     \* the database file
    held,       \* the buffer each client holds
    latest,     \* history: what was last written to each page
    stray       \* history: since the pool was opened, a fetch or an allocation
                \* found every frame pinned and gave out a buffer of no frame

poolVars == <<capacity, total, frames, table, free, lru, stored, held, latest, stray>>

EmptyFrame == [page |-> Nil, dirty |-> FALSE, pin |-> 0, data |-> Zero]

\* A client holds the buffer of a frame, or, with frame = Nil, a buffer of its
\* own that no frame knows.
NoBuffer == [page |-> Nil, frame |-> Nil, changed |-> FALSE]

EmptyTable == [p \in Page |-> Nil]
AllFree(n) == [i \in 1 .. n |-> i - 1]
EmptyList == [prev |-> [f \in Frame |-> Nil], next |-> [f \in Frame |-> Nil],
              head |-> Nil, tail |-> Nil]

\* buffer_pool_open on a new file: page 0 is the header, page 1 the first leaf.
PoolInit ==
    /\ capacity \in Capacities /\ total = 2
    /\ frames = [f \in Frame |-> EmptyFrame]
    /\ table = EmptyTable /\ free = AllFree(capacity) /\ lru = EmptyList
    /\ stored = [p \in Page |-> Zero]
    /\ held = [c \in Client |-> NoBuffer]
    /\ latest = [p \in Page |-> Zero] /\ stray = FALSE

-------------------------------------------------------------------------------
\* The list of used frames

\* Mutant of Remove: lru_tail is not moved when the last frame leaves.
RemoveKeepsTail(l, f) ==
    IF l.prev[f] = Nil /\ l.next[f] = Nil /\ f \notin {l.head, l.tail} THEN l
    ELSE [prev |-> [g \in Frame |-> IF g = f THEN Nil
                                    ELSE IF g = l.next[f] THEN l.prev[f] ELSE l.prev[g]],
          next |-> [g \in Frame |-> IF g = f THEN Nil
                                    ELSE IF g = l.prev[f] THEN l.next[f] ELSE l.next[g]],
          head |-> IF l.prev[f] = Nil THEN l.next[f] ELSE l.head,
          tail |-> l.tail]

\* lru_remove
Remove(l, f) ==
    IF l.prev[f] = Nil /\ l.next[f] = Nil /\ f \notin {l.head, l.tail} THEN l
    ELSE [prev |-> [g \in Frame |-> IF g = f THEN Nil
                                    ELSE IF g = l.next[f] THEN l.prev[f] ELSE l.prev[g]],
          next |-> [g \in Frame |-> IF g = f THEN Nil
                                    ELSE IF g = l.prev[f] THEN l.next[f] ELSE l.next[g]],
          head |-> IF l.prev[f] = Nil THEN l.next[f] ELSE l.head,
          tail |-> IF l.next[f] = Nil THEN l.prev[f] ELSE l.tail]

\* lru_push_front
PushFront(l, f) ==
    LET r == Remove(l, f)
    IN  [prev |-> [g \in Frame |-> IF g = f THEN Nil
                                   ELSE IF g = r.head THEN f ELSE r.prev[g]],
         next |-> [r.next EXCEPT ![f] = r.head],
         head |-> f,
         tail |-> IF r.tail = Nil THEN f ELSE r.tail]

\* The n-th frame from the tail of the list, or Nil behind its head.
FromTail(l) ==
    LET walk[n \in 0 .. Cardinality(Frame)] ==
            IF n = 0 THEN l.tail
            ELSE IF walk[n - 1] = Nil THEN Nil ELSE l.prev[walk[n - 1]]
    IN  walk

\* Mutant of Victim: the pin counts are not looked at.
VictimPinned == lru.tail

\* lru_find_victim: the unpinned frame nearest the tail, or Nil.
Victim ==
    LET walk == FromTail(lru)
        unpinned == {n \in DOMAIN walk : walk[n] # Nil /\ frames[walk[n]].pin = 0}
    IN  IF unpinned = {} THEN Nil
        ELSE walk[CHOOSE n \in unpinned : \A m \in unpinned : n <= m]

-------------------------------------------------------------------------------
\* Taking a frame for a page that has none

\* The frame a miss or an allocation takes, or Nil when all are pinned.
Target == IF free # << >> THEN free[Len(free)] ELSE Victim

FreeRest == IF free # << >> THEN SubSeq(free, 1, Len(free) - 1) ELSE free

\* Mutant of Written: a victim's changes are dropped.
WrittenNothing(f) == stored

\* The file after the victim was written back.
Written(f) ==
    IF free = << >> /\ frames[f].dirty THEN [stored EXCEPT ![frames[f].page] = frames[f].data]
    ELSE stored

\* The page table after the victim's entry made room for p's.
Moved(f, p) ==
    [q \in Page |-> IF q = p THEN f
                    ELSE IF free = << >> /\ q = frames[f].page THEN Nil ELSE table[q]]

Hold(c, p, f) == held' = [held EXCEPT ![c] = [page |-> p, frame |-> f, changed |-> FALSE]]

-------------------------------------------------------------------------------
\* The calls

FetchHit(c, p) ==
    /\ held[c] = NoBuffer /\ p < total /\ table[p] # Nil
    /\ frames' = [frames EXCEPT ![table[p]].pin = @ + 1]
    /\ lru' = PushFront(lru, table[p])
    /\ Hold(c, p, table[p])
    /\ UNCHANGED <<capacity, total, table, free, stored, latest, stray>>

FetchMiss(c, p) ==
    /\ held[c] = NoBuffer /\ p < total /\ table[p] = Nil /\ Target # Nil
    /\ stored' = Written(Target)
    /\ frames' = [frames EXCEPT ![Target] =
                    [page |-> p, dirty |-> FALSE, pin |-> 1, data |-> stored'[p]]]
    /\ table' = Moved(Target, p)
    /\ free' = FreeRest
    /\ lru' = PushFront(lru, Target)
    /\ Hold(c, p, Target)
    /\ UNCHANGED <<capacity, total, latest, stray>>

\* All frames pinned: the caller gets an empty buffer of its own.
FetchNoFrame(c, p) ==
    /\ held[c] = NoBuffer /\ p < total /\ table[p] = Nil /\ Target = Nil
    /\ Hold(c, p, Nil)
    /\ stray' = TRUE
    /\ UNCHANGED <<capacity, total, frames, table, free, lru, stored, latest>>

Allocate(c) ==
    /\ held[c] = NoBuffer /\ total < MaxPages /\ Target # Nil
    /\ total' = total + 1
    /\ stored' = Written(Target)
    /\ frames' = [frames EXCEPT ![Target] =
                    [page |-> total, dirty |-> TRUE, pin |-> 1, data |-> Zero]]
    /\ table' = Moved(Target, total)
    /\ free' = FreeRest
    /\ lru' = PushFront(lru, Target)
    /\ Hold(c, total, Target)
    /\ UNCHANGED <<capacity, latest, stray>>

\* All frames pinned: the caller gets page -1 with an empty buffer of its own, and
\* the page number is used up all the same.  No table knows page -1, so what the
\* caller writes there and its unpin change nothing here: nobody is shown holding it.
AllocateNoFrame ==
    /\ total < MaxPages /\ Target = Nil
    /\ total' = total + 1
    /\ stray' = TRUE
    /\ UNCHANGED <<capacity, frames, table, free, lru, stored, held, latest>>

\* A client changes the buffer it holds; the pool does not see it.
Change(c, v) ==
    /\ held[c] # NoBuffer
    /\ frames' = IF held[c].frame = Nil THEN frames
                 ELSE [frames EXCEPT ![held[c].frame].data = v]
    /\ held' = [held EXCEPT ![c].changed = TRUE]
    /\ latest' = [latest EXCEPT ![held[c].page] = v]
    /\ UNCHANGED <<capacity, total, table, free, lru, stored, stray>>

\* buffer_pool_unpin_page; the B+tree passes is_dirty = 1 after a change.
Unpin(c, dirty) ==
    /\ held[c] # NoBuffer /\ (held[c].changed => dirty)
    /\ held' = [held EXCEPT ![c] = NoBuffer]
    /\ LET f == table[held[c].page]
       IN  IF f = Nil THEN UNCHANGED <<frames, lru>>
           ELSE /\ frames' = [frames EXCEPT ![f].dirty = @ \/ dirty,
                                            ![f].pin = IF @ > 0 THEN @ - 1 ELSE @]
                /\ lru' = PushFront(lru, f)
    /\ UNCHANGED <<capacity, total, table, free, stored, latest, stray>>

MarkDirty(p) ==
    /\ table[p] # Nil
    /\ frames' = [frames EXCEPT ![table[p]].dirty = TRUE]
    /\ UNCHANGED <<capacity, total, table, free, lru, stored, held, latest, stray>>

FlushPage(p) ==
    /\ table[p] # Nil /\ frames[table[p]].dirty
    /\ stored' = [stored EXCEPT ![p] = frames[table[p]].data]
    /\ frames' = [frames EXCEPT ![table[p]].dirty = FALSE]
    /\ UNCHANGED <<capacity, total, table, free, lru, held, latest, stray>>

\* What buffer_pool_flush_all leaves in the file.
Flushed ==
    [p \in Page |->
        LET dirty == {f \in Frame : frames[f].page = p /\ frames[f].dirty}
        IN  IF dirty = {} THEN stored[p] ELSE frames[CHOOSE f \in dirty : TRUE].data]

FlushAll ==
    /\ stored' = Flushed
    /\ frames' = [f \in Frame |-> [frames[f] EXCEPT !.dirty = FALSE]]
    /\ UNCHANGED <<capacity, total, table, free, lru, held, latest, stray>>

\* buffer_pool_close, which flushes, and buffer_pool_open on the same file;
\* total_pages is read back from the header that the flush wrote.
Reopen(n) ==
    /\ \A c \in Client : held[c] = NoBuffer
    /\ stored' = Flushed
    /\ frames' = [f \in Frame |-> EmptyFrame]
    /\ capacity' = n /\ table' = EmptyTable /\ free' = AllFree(n) /\ lru' = EmptyList
    /\ latest' = IF stray THEN stored' ELSE latest
    /\ stray' = FALSE
    /\ UNCHANGED <<total, held>>

PoolNext ==
    \/ \E c \in Client :
        \/ \E p \in Page : FetchHit(c, p) \/ FetchMiss(c, p) \/ FetchNoFrame(c, p)
        \/ Allocate(c)
        \/ \E v \in Content : Change(c, v)
        \/ \E dirty \in BOOLEAN : Unpin(c, dirty)
    \/ AllocateNoFrame
    \/ \E p \in Page : MarkDirty(p) \/ FlushPage(p)
    \/ FlushAll
    \/ \E n \in Capacities : Reopen(n)

PoolSpec == PoolInit /\ [][PoolNext]_poolVars

-------------------------------------------------------------------------------
\* Properties

\* Every variable has its type; pin counts never go below zero.
PoolTypeOK ==
    /\ capacity \in Capacities /\ total \in 2 .. MaxPages
    /\ frames \in [Frame -> [page : Page \cup {Nil}, dirty : BOOLEAN, pin : Nat, data : Data]]
    /\ table \in [Page -> Frame \cup {Nil}]
    /\ free \in Seq(Frame)
    /\ lru \in [prev : [Frame -> Frame \cup {Nil}], next : [Frame -> Frame \cup {Nil}],
                head : Frame \cup {Nil}, tail : Frame \cup {Nil}]
    /\ stored \in [Page -> Data]
    /\ held \in [Client -> [page : Page \cup {Nil}, frame : Frame \cup {Nil}, changed : BOOLEAN]]
    /\ latest \in [Page -> Data] /\ stray \in BOOLEAN

Used == {f \in Frame : frames[f].page # Nil}

\* The links lru_remove and lru_push_front patch form one list, the same in
\* both directions, of exactly the frames in use.
LruLinked ==
    LET walk == FromTail(lru)
        n == Cardinality(Used)
    IN  /\ {walk[i] : i \in 0 .. n - 1} = Used
        /\ walk[n] = Nil
        /\ lru.head = IF n = 0 THEN Nil ELSE walk[n - 1]
        /\ \A f \in Used : lru.next[f] = IF f = lru.tail THEN Nil
                                         ELSE CHOOSE g \in Used : lru.prev[g] = f
        /\ \A f \in Frame \ Used : lru.prev[f] = Nil /\ lru.next[f] = Nil

\* The page table and the frames agree, and a frame is free exactly when no
\* page is in it: no page is cached twice, none is lost after an eviction.
TableAgrees ==
    /\ \A p \in Page, f \in Frame : table[p] = f <=> frames[f].page = p
    /\ {free[i] : i \in DOMAIN free} = (0 .. capacity - 1) \ Used
    /\ \A i, j \in DOMAIN free : free[i] = free[j] => i = j

\* buffer_pool's list, page table, free stack and counters, kept by hand in every
\* call, are one consistent structure after each of them, an allocation or a
\* fetch that finds every frame pinned included.
PoolSound == PoolTypeOK /\ LruLinked /\ TableAgrees

Holders(f) == {c \in Client : held[c] # NoBuffer /\ held[c].frame = f}

\* As long as some frame could be evicted for every fetch: while a client holds
\* a buffer, the frame behind it keeps its page, and the pin count is the number
\* of holders, so that no page is evicted under a reader or a writer.
PinsHold ==
    ~stray =>
        /\ \A f \in Frame : frames[f].pin = Cardinality(Holders(f))
        /\ \A c \in Client : held[c] # NoBuffer => frames[held[c].frame].page = held[c].page

\* Until then, whatever was evicted, flushed and fetched again, a page holds what
\* was last written to it, and a clean frame nobody changes equals the file.
NoLostWrite ==
    ~stray => \A p \in Page :
        LET f == table[p]
        IN  /\ latest[p] = IF f = Nil THEN stored[p] ELSE frames[f].data
            /\ f # Nil /\ ~frames[f].dirty /\ (\A c \in Holders(f) : ~held[c].changed)
                    => stored[p] = frames[f].data
===============================================================================
