--------------------------------- MODULE BTree ---------------------------------
(***************************************************************************)
(* The B+tree of universe/db/btree.lp on the slotted pages of page.lp.     *)
(*                                                                         *)
(* Calls run one at a time on one thread, so each is one action; where the *)
(* pages live is BufferPool's subject, what a crash leaves of them         *)
(* DbEngine's.  A page is the sequence of its cells in slot order; the     *)
(* offsets of cells in the page only matter through the free space, and    *)
(* every check of it is made after page_defrag had its chance.             *)
(***************************************************************************)
EXTENDS Integers, Sequences, FiniteSets

CONSTANTS
    MaxKey,         \* keys are 1 .. MaxKey, in the order of page_str_cmp
    KeyLen,         \* their lengths in bytes
    Val,
    ValLen,         \* their lengths in bytes
    NoVal,          \* what a lookup answers for an absent key
    MaxPages        \* bound: pages ever allocated, page 0 included

Key == 1 .. MaxKey
Page == 1 .. MaxPages - 1
NoPage == 0

\* The bytes a page has for cells and slots, and those of one cell with its slot.
Room == 4096 - 32
LeafCell(k, v) == 6 + KeyLen[k] + ValLen[v] + 2
InternalCell(k) == 10 + KeyLen[k] + 2

ASSUME NoValAssumption == NoVal \notin Val
ASSUME PagesAssumption == MaxPages \in Nat \ {0, 1}        \* page 0 and the first root
ASSUME LengthAssumption ==
    MaxKey \in Nat \ {0} /\ KeyLen \in [Key -> Nat] /\ ValLen \in [Val -> Nat]

\* Bound: a pair and a separator fit on a page of their own.  The code does not
\* check it; a larger pair makes it split an empty leaf.
ASSUME PairAssumption ==
    \A k \in Key : InternalCell(k) <= Room /\ \A v \in Val : LeafCell(k, v) <= Room

VARIABLES
    root,       \* root_page_id
    height,
    total,      \* total_pages: the next page to be allocated
    node,       \* the content of each page
    content,    \* history: what the callers stored
    dropped,    \* history: the keys whose pair the last insert left out
    orphaned,   \* history: a page was left out of its parent, or hidden there
    joined      \* history: a leaf was taken out of the chain

vars == <<root, height, total, node, content, dropped, orphaned, joined>>

\* Bytes 16 .. 23 of a page hold the next leaf or the first child.
Leaf(cells, prev, next) == [leaf |-> TRUE, cells |-> cells, prev |-> prev, link |-> next]
Internal(first, cells) == [leaf |-> FALSE, cells |-> cells, prev |-> NoPage, link |-> first]
Blank == Leaf(<< >>, NoPage, NoPage)

Init ==
    /\ root = 1 /\ height = 1 /\ total = 2
    /\ node = [p \in Page |-> Blank]
    /\ content = [k \in Key |-> NoVal] /\ dropped = {}
    /\ orphaned = FALSE /\ joined = FALSE

-------------------------------------------------------------------------------
\* Cells of one page

\* Cells whose key is below k come first: the slot binary search finds.  Equal keys
\* only meet as separators of an internal page: the code's search may stop at any
\* of them, and before that one it inserts; the last one, which Child takes, stays.
Below(cells, k) == Cardinality({i \in DOMAIN cells : cells[i].key < k})
At(cells, k) == {i \in DOMAIN cells : cells[i].key = k}

InsertAt(cells, i, c) == SubSeq(cells, 1, i) \o <<c>> \o SubSeq(cells, i + 1, Len(cells))
Cut(cells, i) == SubSeq(cells, 1, i - 1) \o SubSeq(cells, i + 1, Len(cells))

\* page_delete_leaf_cell: the slots behind the one of k move up.
Without(cells, k) ==
    IF At(cells, k) = {} THEN cells ELSE Cut(cells, CHOOSE i \in At(cells, k) : TRUE)

CellSize(leaf, c) == IF leaf THEN LeafCell(c.key, c.ref) ELSE InternalCell(c.key)

\* page_free_space after page_defrag is Room less what the cells use.
Used(leaf, cells) ==
    LET sum[i \in 0 .. Len(cells)] ==
            IF i = 0 THEN 0 ELSE sum[i - 1] + CellSize(leaf, cells[i])
    IN  sum[Len(cells)]

Fits(leaf, cells, c) == Used(leaf, cells) + CellSize(leaf, c) <= Room

\* page_insert_leaf_cell: the cells afterwards, and whether the cell is there.
\* A value of another length is not overwritten: the old cell is deleted first.
InsertLeafCell(cells, k, v) ==
    LET hit == At(cells, k)
        rest == Without(cells, k)
        pair == [key |-> k, ref |-> v]
    IN  IF \E i \in hit : ValLen[cells[i].ref] = ValLen[v]
        THEN [ok |-> TRUE, cells |-> [i \in DOMAIN cells |-> IF i \in hit THEN pair ELSE cells[i]]]
        ELSE IF Fits(TRUE, rest, pair)
        THEN [ok |-> TRUE, cells |-> InsertAt(rest, Below(rest, k), pair)]
        ELSE [ok |-> FALSE, cells |-> rest]

InsertChild(cells, k, p) == InsertAt(cells, Below(cells, k), [key |-> k, ref |-> p])

FitsChild(cells, k) == Fits(FALSE, cells, [key |-> k, ref |-> NoPage])

\* page_insert_internal_cell: without room the cell is left out, and the callers
\* do not look at the answer.
InsertInternalCell(cells, k, p) == IF FitsChild(cells, k) THEN InsertChild(cells, k, p) ELSE cells

\* No search finds the child p under the separator k: it is left out, or an older
\* cell with the same separator is behind it.
Hidden(cells, k) == ~FitsChild(cells, k) \/ At(cells, k) # {}

\* Mutant of Child: a key equal to the separator goes left.
ChildLeft(n, k) ==
    LET i == Below(n.cells, k) IN IF i = 0 THEN n.link ELSE n.cells[i].ref

\* page_find_internal_child: the child behind the last separator not above k.
Child(n, k) ==
    LET i == Below(n.cells, k + 1) IN IF i = 0 THEN n.link ELSE n.cells[i].ref

\* The pages from the root down to the leaf for k, which is the last one.
Path(k) ==
    LET down[d \in 1 .. MaxPages] ==
            IF d = 1 THEN <<root>>
            ELSE LET above == down[d - 1]
                     n == node[above[Len(above)]]
                 IN  IF n.leaf THEN above ELSE Append(above, Child(n, k))
    IN  down[MaxPages]

LeafOf(k) == Path(k)[Len(Path(k))]

\* btree_get
Get(k) ==
    LET cells == node[LeafOf(k)].cells
    IN  IF At(cells, k) = {} THEN NoVal
        ELSE cells[CHOOSE i \in At(cells, k) : TRUE].ref

-------------------------------------------------------------------------------
\* btree_insert

\* The tree while btree_insert_parent walks up: the pages left on its stack and
\* the separator k with the page right of it that the next level must take.
Climb(path, nodes, k) ==
    [stack |-> SubSeq(path, 1, Len(path) - 1), nodes |-> nodes, next |-> total + 1,
     root |-> root, height |-> height,
     key |-> k, left |-> path[Len(path)], right |-> total, done |-> FALSE,
     orphan |-> orphaned]

\* Mutant of GrowRoot: the root's height is not counted.
GrowRootOnly(c) ==
    [c EXCEPT !.nodes[c.next] = Internal(c.left, <<[key |-> c.key, ref |-> c.right]>>),
              !.next = c.next + 1, !.root = c.next, !.done = TRUE]

\* The root was split: a new root over its halves.
GrowRoot(c) ==
    [c EXCEPT !.nodes[c.next] = Internal(c.left, <<[key |-> c.key, ref |-> c.right]>>),
              !.next = c.next + 1, !.root = c.next, !.height = c.height + 1, !.done = TRUE]

\* page_split_internal, the new cell into the proper half if it has room there,
\* the middle one up.
SplitInternal(c, p) ==
    LET cells == c.nodes[p].cells
        mid == Len(cells) \div 2
        up == cells[mid + 1]
        low == SubSeq(cells, 1, mid)
        high == SubSeq(cells, mid + 2, Len(cells))
    IN  [c EXCEPT
            !.nodes[p].cells = IF c.key < up.key THEN InsertInternalCell(low, c.key, c.right) ELSE low,
            !.nodes[c.next] = Internal(up.ref,
                IF c.key < up.key THEN high ELSE InsertInternalCell(high, c.key, c.right)),
            !.orphan = @ \/ Hidden(IF c.key < up.key THEN low ELSE high, c.key),
            !.next = c.next + 1, !.key = up.key, !.left = p, !.right = c.next]

\* One level of btree_insert_parent.
Up(c) ==
    IF c.done THEN c
    ELSE IF c.stack = << >> THEN GrowRoot(c)
    ELSE LET p == c.stack[Len(c.stack)]
             rest == SubSeq(c.stack, 1, Len(c.stack) - 1)
             cells == c.nodes[p].cells
         IN  IF FitsChild(cells, c.key)
             THEN [c EXCEPT !.nodes[p].cells = InsertChild(cells, c.key, c.right),
                            !.orphan = @ \/ Hidden(cells, c.key), !.done = TRUE]
             ELSE [SplitInternal(c, p) EXCEPT !.stack = rest]

InsertParent(c) ==
    LET up[d \in 0 .. MaxPages] == IF d = 0 THEN c ELSE Up(up[d - 1])
    IN  up[Len(c.stack) + 1]

\* Mutant of Relinked: the new leaf becomes the last of the chain.
RelinkedLast(nodes, l, left, new, right, old) ==
    [nodes EXCEPT ![l] = Leaf(left, nodes[l].prev, new), ![new] = Leaf(right, l, NoPage)]

\* The leaf l split into l and new, both in the chain before old.
Relinked(nodes, l, left, new, right, old) ==
    [p \in Page |->
        CASE p = l -> Leaf(left, nodes[l].prev, new)
          [] p = new -> Leaf(right, l, old)
          [] p = old /\ p # l -> [nodes[p] EXCEPT !.prev = new]
          [] OTHER -> nodes[p]]

\* The halves of a full leaf, and the first key of the upper one.
Low(cells) == SubSeq(cells, 1, Len(cells) \div 2)
High(cells) == SubSeq(cells, Len(cells) \div 2 + 1, Len(cells))
Promoted(cells) == cells[Len(cells) \div 2 + 1].key

\* page_split_leaf, then the cell into its half if it has room there; the answer
\* of page_insert_leaf_cell is not looked at.
SplitLeaf(path, cells, k, v) ==
    LET l == path[Len(path)]
        up == Promoted(cells)
        left == IF k < up THEN InsertLeafCell(Low(cells), k, v).cells ELSE Low(cells)
        right == IF k < up THEN High(cells) ELSE InsertLeafCell(High(cells), k, v).cells
    IN  InsertParent(Climb(path, Relinked(node, l, left, total, right, node[l].link), up))

LeftOut(cells, k, v) ==
    ~InsertLeafCell(IF k < Promoted(cells) THEN Low(cells) ELSE High(cells), k, v).ok

\* A leaf without room for the new or the changed cell is split.  Every level
\* of the tree may need a page.
Insert(k, v) ==
    LET path == Path(k)
        l == path[Len(path)]
        r == InsertLeafCell(node[l].cells, k, v)
    IN  /\ total + Len(path) < MaxPages
        /\ content' = [content EXCEPT ![k] = v]
        /\ UNCHANGED joined
        /\ \/ /\ r.ok
              /\ node' = [node EXCEPT ![l].cells = r.cells]
              /\ dropped' = dropped \ {k}
              /\ UNCHANGED <<root, height, total, orphaned>>
           \/ /\ ~r.ok
              /\ LET c == SplitLeaf(path, r.cells, k, v)
                 IN  /\ node' = c.nodes /\ root' = c.root
                     /\ height' = c.height /\ total' = c.next /\ orphaned' = c.orphan
              /\ dropped' = IF LeftOut(r.cells, k, v) THEN dropped \cup {k} ELSE dropped \ {k}

-------------------------------------------------------------------------------
\* btree_delete

\* The neighbours the leaf remembers are joined over it; the leaf stays in its
\* parent.
Unlinked(nodes, l) ==
    [p \in Page |->
        [nodes[p] EXCEPT
            !.link = IF p = nodes[l].prev THEN nodes[l].link ELSE @,
            !.prev = IF p = nodes[l].link THEN nodes[l].prev ELSE @]]

\* page_delete_leaf_cell answers a record, never 0, so the early return for an
\* absent key is not taken: an empty leaf is unlinked again.
Delete(k) ==
    LET l == LeafOf(k)
        nodes == [node EXCEPT ![l].cells = Without(@, k)]
        unlink == nodes[l].cells = << >> /\ l # root
    IN  /\ content' = [content EXCEPT ![k] = NoVal] /\ dropped' = dropped \ {k}
        /\ node' = IF unlink THEN Unlinked(nodes, l) ELSE nodes
        /\ joined' = (joined \/ unlink)
        /\ UNCHANGED <<root, height, total, orphaned>>

Next ==
    \E k \in Key :
        \/ \E v \in Val : Insert(k, v)
        \/ Delete(k)

Spec == Init /\ [][Next]_vars

-------------------------------------------------------------------------------
\* Reading the chain

\* The leaf btree_scan starts from without a start key.
Leftmost ==
    LET down[d \in 1 .. MaxPages] ==
            IF d = 1 THEN root
            ELSE IF node[down[d - 1]].leaf THEN down[d - 1] ELSE node[down[d - 1]].link
    IN  down[MaxPages]

\* The cells btree_scan collects from the slot it starts at, over the next
\* pointers; no chain is longer than the number of pages.
ScanFrom(l, slot) ==
    LET walk[d \in 1 .. MaxPages] ==
            IF d = 1 THEN [at |-> node[l].link,
                           cells |-> SubSeq(node[l].cells, slot, Len(node[l].cells))]
            ELSE LET w == walk[d - 1]
                 IN  IF w.at = NoPage THEN w
                     ELSE [at |-> node[w.at].link, cells |-> w.cells \o node[w.at].cells]
    IN  walk[MaxPages]

ScanAll == ScanFrom(Leftmost, 1).cells

\* btree_scan with the start key k.
Scan(k) == ScanFrom(LeafOf(k), Below(node[LeafOf(k)].cells, k) + 1).cells

-------------------------------------------------------------------------------
\* Properties

InTree == {p \in Page : p < total}
Cell(S) == [key : Key, ref : S]

\* Every page is a leaf of values or an internal page with existing children.
TypeOK ==
    /\ root \in InTree /\ height \in Nat /\ total \in 2 .. MaxPages
    /\ \A p \in Page :
        /\ node[p].cells \in Seq(Cell(IF node[p].leaf THEN Val ELSE InTree))
        /\ node[p].prev \in InTree \cup {NoPage}
        /\ node[p].link \in InTree \cup (IF node[p].leaf THEN {NoPage} ELSE {})
    /\ content \in [Key -> Val \cup {NoVal}] /\ dropped \subseteq Key
    /\ orphaned \in BOOLEAN /\ joined \in BOOLEAN

\* What the tree should hold: the last pair stored, unless the insert left it out.
Held(k) == IF k \in dropped THEN NoVal ELSE content[k]

\* A lookup answers what was stored last, whatever splits and overwrites there
\* were in between (btree.lp:183, "Inserts or updates a (key, value) entry"), but
\* for what the code loses: the pair for which the half of a split leaf had no
\* room is missing until it is stored again (btree.lp:243 and :245 ignore ok = 0),
\* and nothing is promised once a page was left out of its parent (btree.lp:172
\* and :174 ignore it too) or hidden behind an equal separator.
GetAgrees == ~orphaned => \A k \in Key : Get(k) = Held(k)

\* Wherever a key is looked for, the search is as deep as the tree is high.
Balanced == \A k \in Key : Len(Path(k)) = height

\* What a scan returns is in key order, without repetitions, and stored.
ScanSound ==
    \A k \in Key :
        LET s == Scan(k)
        IN  /\ \A i \in 1 .. Len(s) - 1 : s[i].key < s[i + 1].key
            /\ \A i \in DOMAIN s : s[i].key >= k /\ Held(s[i].key) = s[i].ref

\* btree.lp:329, "maintains sibling linked list continuity": a full scan returns
\* every key the tree should hold.
ScanFindsAll == {ScanAll[i].key : i \in DOMAIN ScanAll} = {k \in Key : Held(k) # NoVal}

\* Splits and deletes lose no key to scans as long as no leaf was emptied.
ScanComplete == ~joined => ScanFindsAll

\* While no leaf was emptied, the chain of leaves reads the same in both directions.
ChainIsDouble ==
    ~joined => \A p \in InTree :
        node[p].leaf =>
            /\ node[p].link # NoPage => node[node[p].link].prev = p
            /\ node[p].prev # NoPage => node[node[p].prev].link = p

\* The shape that searches and scans walk, after every split and delete: typed
\* cells, leaves all at the height of the tree, a chain that is double.
TreeSound == TypeOK /\ Balanced /\ ChainIsDouble

\* db_scan agrees with the lookups: nothing out of order, repeated or not stored
\* and, while no leaf was emptied, nothing missed that a lookup finds; as for the
\* lookups, until a page was left out of its parent or hidden there.
ScanAgrees == ~orphaned => ScanSound /\ ScanComplete
===============================================================================
