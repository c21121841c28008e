------------------------------ MODULE BTreeProofs ------------------------------
(***************************************************************************)
(* Proofs about the B+tree, for any number of keys and pages and any       *)
(* lengths of keys and values of which a pair goes into a page.            *)
(*                                                                         *)
(* A page has a level, one more than its children; a search goes down one  *)
(* level at a step (PathIs), and the climb of btree_insert_parent up one   *)
(* (UpRises), so it ends with a page that takes the separator (ClimbEnds). *)
(* A page also has keys, which its children divide; a search stays with    *)
(* its key (LeafHas) and a climb keeps the division but for the half it    *)
(* carries (UpOrders) as long as every page is found in its parent; a page *)
(* that was lost stays lost (ClimbForgetsNoOrphan).  Leaves hold what is   *)
(* stored of their keys but for the pairs left out (HeldMap), and the      *)
(* chain goes from smaller keys to greater ones (WalkGoesOn).              *)
(***************************************************************************)
EXTENDS BTree, FiniteSetTheorems, SequenceTheorems, NaturalsInduction,
        WellFoundedInduction, TLAPS

-------------------------------------------------------------------------------
\* Numbers

\* A bounded recursion is followed from its first value to its last.
LEMMA Steps ==
    ASSUME NEW lo \in Nat, NEW hi \in Nat, NEW S, lo \in S,
           \A n \in lo .. hi - 1 : n \in S => n + 1 \in S
    PROVE  \A n \in lo .. hi : n \in S
<1> DEFINE Off == {n \in lo .. hi : n \notin S}
           R == {ss \in Nat \X Nat : ss[1] < ss[2]}
<1>1. CASE Off = {}
  BY <1>1
<1>2. CASE Off # {}
  <2>1. IsWellFoundedOn(R, Nat)
    BY NatLessThanWellFounded DEF OpToRel
  <2>2. Off \subseteq Nat
    OBVIOUS
  <2>3. PICK n \in Off : \A m \in Off : ~ (<<m, n>> \in R)
    BY <1>2, <2>1, <2>2, WFMin, Zenon
  <2>4. n # lo
    BY <2>3
  <2>5. n - 1 \in lo .. hi - 1 /\ (n - 1) + 1 = n
    BY <2>3, <2>4
  <2>6. <<n - 1, n>> \in R
    BY <2>5
  <2>7. n - 1 \in S
    BY <2>3, <2>5, <2>6
  <2>8. n \in S
    BY <2>5, <2>7
  <2> QED BY <2>3, <2>8
<1> QED BY <1>1, <1>2

\* A nonempty set of numbers has a least one.
LEMMA LeastNumber ==
    ASSUME NEW S \in SUBSET Nat, S # {}
    PROVE  \E i \in S : \A j \in S : i <= j
<1> DEFINE R == {ss \in Nat \X Nat : ss[1] < ss[2]}
<1>1. IsWellFoundedOn(R, Nat)
  BY NatLessThanWellFounded DEF OpToRel
<1>2. PICK i \in S : \A j \in S : ~ (<<j, i>> \in R)
  BY <1>1, WFMin, Zenon
<1>3. ASSUME NEW j \in S PROVE i <= j
  <2>1. i \in Nat /\ j \in Nat /\ (j < i => <<j, i>> \in R)
    OBVIOUS
  <2> QED BY <1>2, <2>1
<1> QED BY <1>3

-------------------------------------------------------------------------------
\* Cells in order

Sorted(s) == \A i, j \in DOMAIN s : i < j => s[i].key < s[j].key
Cells == Seq([key : Key, ref : Val \cup Page])
AnyCell == [key : Key, ref : Val \cup Page]

\* t is s with the cell c behind the first i ones, or without its i-th cell.
PutIn(s, i, c, t) ==
    /\ Len(t) = Len(s) + 1
    /\ \A j \in 1 .. Len(s) + 1 : t[j] = IF j <= i THEN s[j] ELSE IF j = i + 1 THEN c ELSE s[j - 1]

TakenOut(s, i, t) ==
    /\ Len(t) = Len(s) - 1
    /\ \A j \in 1 .. Len(s) - 1 : t[j] = IF j < i THEN s[j] ELSE s[j + 1]

\* A cell put behind the first i ones.
LEMMA InsertAtPuts ==
    ASSUME NEW S, NEW s \in Seq(S), NEW i \in 0 .. Len(s), NEW c \in S
    PROVE  InsertAt(s, i, c) \in Seq(S) /\ PutIn(s, i, c, InsertAt(s, i, c))
<1> DEFINE a == SubSeq(s, 1, i)
           b == SubSeq(s, i + 1, Len(s))
<1>1. a \in Seq(S) /\ Len(a) = i /\ \A j \in 1 .. i : a[j] = s[j]
  OBVIOUS
<1>2. b \in Seq(S) /\ Len(b) = Len(s) - i /\ \A j \in 1 .. Len(s) - i : b[j] = s[i + j]
  OBVIOUS
<1> HIDE DEF a, b
<1>3. a \o <<c>> \in Seq(S) /\ Len(a \o <<c>>) = i + 1
      /\ \A j \in 1 .. i + 1 : (a \o <<c>>)[j] = IF j <= i THEN s[j] ELSE c
  BY <1>1
<1> DEFINE d == a \o <<c>>
           e == d \o b
<1>4. InsertAt(s, i, c) = e
  BY DEF InsertAt, a, b
<1>5. d \in Seq(S) /\ Len(d) = i + 1
  BY <1>3
<1>6. e \in Seq(S) /\ Len(e) = Len(s) + 1
  <2>1. e \in Seq(S) /\ Len(e) = Len(d) + Len(b)
    BY <1>2, <1>5, ConcatProperties, Zenon
  <2>2. Len(s) \in Nat
    OBVIOUS
  <2> HIDE DEF e
  <2> QED BY <1>2, <1>5, <2>1, <2>2
<1>7. \A j \in 1 .. Len(s) + 1 : e[j] = IF j <= i + 1 THEN d[j] ELSE b[j - (i + 1)]
  BY <1>2, <1>5
<1> HIDE DEF d, e
<1>8. ASSUME NEW j \in 1 .. Len(s) + 1
      PROVE  e[j] = IF j <= i THEN s[j] ELSE IF j = i + 1 THEN c ELSE s[j - 1]
  <2>1. CASE j <= i + 1
    BY <1>3, <1>7, <2>1 DEF d
  <2>2. CASE j > i + 1
    <3>1. j - (i + 1) \in 1 .. Len(s) - i /\ i + (j - (i + 1)) = j - 1
      BY <2>2
    <3> QED BY <1>2, <1>7, <2>2, <3>1
  <2> QED BY <2>1, <2>2
<1> QED BY <1>4, <1>6, <1>8 DEF PutIn

\* The same, part by part.
LEMMA InsertAtIs ==
    ASSUME NEW S, NEW s \in Seq(S), NEW i \in 0 .. Len(s), NEW c \in S
    PROVE  /\ InsertAt(s, i, c) \in Seq(S) /\ Len(InsertAt(s, i, c)) = Len(s) + 1
           /\ \A j \in 1 .. Len(s) + 1 : InsertAt(s, i, c)[j] =
                 IF j <= i THEN s[j] ELSE IF j = i + 1 THEN c ELSE s[j - 1]
<1>1. InsertAt(s, i, c) \in Seq(S) /\ PutIn(s, i, c, InsertAt(s, i, c))
  BY InsertAtPuts
<1> QED BY <1>1 DEF PutIn

\* A slot taken out.
LEMMA CutIs ==
    ASSUME NEW S, NEW s \in Seq(S), NEW i \in 1 .. Len(s)
    PROVE  Cut(s, i) \in Seq(S) /\ TakenOut(s, i, Cut(s, i))
<1> DEFINE a == SubSeq(s, 1, i - 1)
           b == SubSeq(s, i + 1, Len(s))
<1>1. a \in Seq(S) /\ Len(a) = i - 1 /\ \A j \in 1 .. i - 1 : a[j] = s[j]
  OBVIOUS
<1>2. b \in Seq(S) /\ Len(b) = Len(s) - i /\ \A j \in 1 .. Len(s) - i : b[j] = s[i + j]
  OBVIOUS
<1> DEFINE e == a \o b
<1>3. Cut(s, i) = e
  BY DEF Cut
<1> HIDE DEF a, b
<1>4. e \in Seq(S) /\ Len(e) = Len(s) - 1
  <2>1. e \in Seq(S) /\ Len(e) = Len(a) + Len(b)
    BY <1>1, <1>2, ConcatProperties, Zenon
  <2>2. Len(s) \in Nat
    OBVIOUS
  <2> HIDE DEF e
  <2> QED BY <1>1, <1>2, <2>1, <2>2
<1>5. \A j \in 1 .. Len(s) - 1 : e[j] = IF j <= i - 1 THEN a[j] ELSE b[j - (i - 1)]
  BY <1>1, <1>2
<1> HIDE DEF e
<1>6. ASSUME NEW j \in 1 .. Len(s) - 1
      PROVE  e[j] = IF j < i THEN s[j] ELSE s[j + 1]
  <2>0. Len(s) \in Nat /\ i \in Int
    OBVIOUS
  <2>1. CASE j <= i - 1
    BY <1>1, <1>5, <2>0, <2>1
  <2>2. CASE j > i - 1
    <3>1. j - (i - 1) \in 1 .. Len(s) - i /\ i + (j - (i - 1)) = j + 1
      BY <2>2
    <3>2. ~ (j <= i - 1) /\ ~ (j < i)
      BY <2>0, <2>2
    <3>3. e[j] = b[j - (i - 1)]
      BY <1>5, <3>2
    <3>4. b[j - (i - 1)] = s[i + (j - (i - 1))]
      BY <1>2, <3>1
    <3> QED BY <3>1, <3>2, <3>3, <3>4
  <2> QED BY <2>1, <2>2
<1> QED BY <1>3, <1>4, <1>6 DEF TakenOut

\* The slot search counts no more cells than there are.
LEMMA BelowInRange ==
    ASSUME NEW S, NEW s \in Seq(S), NEW k
    PROVE  Below(s, k) \in 0 .. Len(s)
<1> DEFINE D == {i \in DOMAIN s : s[i].key < k}
<1>1. IsFiniteSet(1 .. Len(s)) /\ Cardinality(1 .. Len(s)) = Len(s)
  <2>1. Len(s) \in Nat
    OBVIOUS
  <2> QED BY <2>1, FS_Interval
<1>2. D \subseteq 1 .. Len(s)
  OBVIOUS
<1>3. IsFiniteSet(D) /\ Cardinality(D) <= Len(s)
  BY <1>1, <1>2, FS_Subset
<1>4. Cardinality(D) \in Nat
  BY <1>3, FS_CardinalityType
<1> QED BY <1>3, <1>4 DEF Below

\* In ordered cells it is the slot behind the last smaller key.
LEMMA BelowIs ==
    ASSUME NEW S, NEW s \in Seq([key : Key, ref : S]), Sorted(s), NEW k \in Nat
    PROVE  \A j \in 1 .. Len(s) : s[j].key < k <=> j <= Below(s, k)
<1> DEFINE D == {i \in DOMAIN s : s[i].key < k}
           Rest == {i \in 1 .. Len(s) + 1 : i \notin D}
<1>1. \A i \in 1 .. Len(s) : s[i].key \in Nat
  <2> SUFFICES ASSUME NEW i \in 1 .. Len(s) PROVE s[i].key \in Nat
    OBVIOUS
  <2>1. s[i] \in [key : Key, ref : S]
    BY ElementOfSeq
  <2>2. s[i].key \in Key
    BY <2>1
  <2> QED BY <2>2, LengthAssumption DEF Key
<1>2. Len(s) + 1 \in Rest /\ Rest \subseteq Nat
  OBVIOUS
<1>3. PICK m \in Rest : \A j \in Rest : m <= j
  BY <1>2, LeastNumber
<1>4. \A j \in 1 .. Len(s) : j < m <=> j \in D
  <2> SUFFICES ASSUME NEW j \in 1 .. Len(s) PROVE j < m <=> j \in D
    OBVIOUS
  <2>1. j < m => j \in D
    BY <1>3
  <2>2. ASSUME j \in D, ~ (j < m) PROVE FALSE
    <3>1. m # j
      BY <1>3, <2>2
    <3>2. m \in 1 .. Len(s) /\ m < j
      BY <1>3, <2>2, <3>1
    <3>3. s[m].key < s[j].key
      BY <3>2 DEF Sorted
    <3>4. s[m].key < k
      BY <1>1, <2>2, <3>2, <3>3
    <3> QED BY <1>3, <3>2, <3>4
  <2> QED BY <2>1, <2>2
<1>5. D = 1 .. m - 1
  BY <1>3, <1>4
<1>6. Cardinality(D) = m - 1
  <2>1. m \in Nat /\ m >= 1 /\ m - 1 \in Int
    BY <1>3
  <2>2. Cardinality(1 .. m - 1) = m - 1
    BY <2>1, FS_Interval
  <2> QED BY <1>5, <2>2
<1>7. Below(s, k) = m - 1
  BY <1>6 DEF Below
<1> QED BY <1>3, <1>4, <1>7
-------------------------------------------------------------------------------
\* The shape of a tree

Node == [leaf : BOOLEAN, cells : Cells, prev : Page \cup {NoPage}, link : Page \cup {NoPage}]

\* The children of an internal page.
Kids(n) == {n.link} \cup {n.cells[i].ref : i \in DOMAIN n.cells}

\* Page p is lev[p] levels above the leaves, which count as level 1; its
\* children are one level lower.
PageAt(nodes, tot, lev, p) ==
    /\ nodes[p].leaf <=> lev[p] = 1
    /\ nodes[p].leaf => \A i \in DOMAIN nodes[p].cells : nodes[p].cells[i].ref \in Val
    /\ ~ nodes[p].leaf =>
          /\ nodes[p].prev = NoPage
          /\ \A q \in Kids(nodes[p]) : q \in 1 .. tot - 1 /\ lev[q] = lev[p] - 1

Shape(nodes, tot, rt, h, lev) ==
    /\ tot \in 2 .. MaxPages /\ h \in 1 .. tot - 1 /\ rt \in 1 .. tot - 1
    /\ nodes \in [Page -> Node] /\ lev \in [Page -> Nat] /\ lev[rt] = h
    /\ \A p \in 1 .. tot - 1 : lev[p] \in 1 .. h /\ PageAt(nodes, tot, lev, p)
    /\ \A p \in Page : p >= tot => nodes[p] = Blank

\* The leaves are linked among themselves and, until one is taken out of the
\* chain, in both directions.
Chain(nodes, tot, j) ==
    \A p \in 1 .. tot - 1 : nodes[p].leaf =>
        /\ nodes[p].link # NoPage => nodes[p].link \in 1 .. tot - 1 /\ nodes[nodes[p].link].leaf
        /\ nodes[p].prev # NoPage => nodes[p].prev \in 1 .. tot - 1 /\ nodes[nodes[p].prev].leaf
        /\ ~ j => /\ nodes[p].link # p
                  /\ nodes[p].link # NoPage => nodes[nodes[p].link].prev = p
                  /\ nodes[p].prev # NoPage => nodes[nodes[p].prev].link = p

\* The parts of a page, and of its cells.
LEMMA NodeIs ==
    ASSUME NEW n \in Node
    PROVE  /\ n.leaf \in BOOLEAN /\ n.cells \in Cells
           /\ n.prev \in Page \cup {NoPage} /\ n.link \in Page \cup {NoPage}
           /\ Len(n.cells) \in Nat /\ DOMAIN n.cells = 1 .. Len(n.cells)
           /\ \A i \in 1 .. Len(n.cells) : /\ n.cells[i] \in AnyCell
                                           /\ n.cells[i].key \in Key
                                           /\ n.cells[i].ref \in Val \cup Page
<1>1. n.cells \in Seq(AnyCell)
  BY DEF Node, Cells, AnyCell
<1>2. \A i \in 1 .. Len(n.cells) : n.cells[i] \in AnyCell
  BY <1>1, ElementOfSeq
<1>3. Len(n.cells) \in Nat /\ DOMAIN n.cells = 1 .. Len(n.cells)
  BY <1>1, LenProperties
<1> QED BY <1>2, <1>3 DEF Node, AnyCell

\* The child a search goes on with is a child of the page.
LEMMA ChildIsKid ==
    ASSUME NEW n \in Node, NEW k
    PROVE  Child(n, k) \in Kids(n)
<1> DEFINE i == Below(n.cells, k + 1)
<1>1. n.cells \in Seq(AnyCell)
  BY DEF Node, Cells, AnyCell
<1>2. i \in 0 .. Len(n.cells) /\ DOMAIN n.cells = 1 .. Len(n.cells) /\ Len(n.cells) \in Nat
  BY <1>1, NodeIs, BelowInRange
<1>3. Child(n, k) = IF i = 0 THEN n.link ELSE n.cells[i].ref
  BY DEF Child
<1> HIDE DEF i
<1>4. i # 0 => i \in DOMAIN n.cells
  BY <1>2
<1> QED BY <1>3, <1>4 DEF Kids

-------------------------------------------------------------------------------
\* The descent of a search

PathStep(above, k) ==
    IF node[above[Len(above)]].leaf THEN above ELSE Append(above, Child(node[above[Len(above)]], k))

Down(k) ==
    CHOOSE down : down = [d \in 1 .. MaxPages |-> IF d = 1 THEN <<root>> ELSE PathStep(down[d - 1], k)]

\* The recursion of Path defines a function.
LEMMA DownIs ==
    ASSUME NEW k
    PROVE  /\ Path(k) = Down(k)[MaxPages] /\ Down(k)[1] = <<root>>
           /\ \A d \in 2 .. MaxPages : Down(k)[d] = PathStep(Down(k)[d - 1], k)
<1> DEFINE step(f, d) == IF d = 1 THEN <<root>> ELSE PathStep(f[d - 1], k)
           S == {n \in 1 .. MaxPages : \E f : f = [d \in 1 .. n |-> step(f, d)]}
<1> USE PagesAssumption
<1>1. 1 \in S
  <2> DEFINE g == [d \in 1 .. 1 |-> <<root>>]
  <2>1. \A d \in 1 .. 1 : g[d] = step(g, d)
    OBVIOUS
  <2>2. g = [d \in 1 .. 1 |-> step(g, d)]
    BY <2>1
  <2> HIDE DEF g
  <2> QED BY <2>2
<1>2. ASSUME NEW n \in 1 .. MaxPages - 1, n \in S PROVE n + 1 \in S
  <2>1. PICK f : f = [d \in 1 .. n |-> step(f, d)]
    BY <1>2
  <2> DEFINE g == [d \in 1 .. n + 1 |-> IF d <= n THEN f[d] ELSE PathStep(f[n], k)]
  <2>2. \A d \in 1 .. n + 1 : g[d] = step(g, d)
    <3> SUFFICES ASSUME NEW d \in 1 .. n + 1 PROVE g[d] = step(g, d)
      OBVIOUS
    <3>0. \A e \in 1 .. n : f[e] = step(f, e)
      BY <2>1
    <3>1. CASE d = 1
      BY <3>0, <3>1
    <3>2. CASE d # 1
      <4>1. d - 1 \in 1 .. n /\ g[d - 1] = f[d - 1]
        BY <3>2
      <4>2. CASE d <= n
        BY <3>0, <3>2, <4>1, <4>2
      <4>3. CASE d = n + 1
        BY <3>2, <4>1, <4>3
      <4> QED BY <4>2, <4>3
    <3> QED BY <3>1, <3>2
  <2>3. g = [d \in 1 .. n + 1 |-> step(g, d)]
    BY <2>2
  <2>4. n + 1 \in 1 .. MaxPages
    OBVIOUS
  <2> HIDE DEF g
  <2> QED BY <2>3, <2>4
<1>3. MaxPages \in S
  <2> HIDE DEF S
  <2>1. \A n \in 1 .. MaxPages : n \in S
    BY <1>1, <1>2, Steps
  <2> QED BY <2>1
<1>4. \E f : f = [d \in 1 .. MaxPages |-> step(f, d)]
  BY <1>3
<1>5. Down(k) = [d \in 1 .. MaxPages |-> step(Down(k), d)]
  BY <1>4 DEF Down
<1>6. Path(k) = Down(k)[MaxPages]
  BY DEF Path, Down, PathStep
<1> HIDE DEF step
<1>7. \A d \in 1 .. MaxPages : Down(k)[d] = step(Down(k), d)
  BY <1>5
<1> QED BY <1>6, <1>7 DEF step

\* The pages from the root to depth d of the search for k.
OnPath(s, d, k, lev) ==
    /\ s \in Seq(Page) /\ Len(s) = (IF d <= height THEN d ELSE height) /\ s[1] = root
    /\ \A i \in 1 .. Len(s) : s[i] \in 1 .. total - 1 /\ lev[s[i]] = height - i + 1
    /\ \A i \in 1 .. Len(s) - 1 : s[i + 1] = Child(node[s[i]], k)

\* Every search ends in a leaf, as deep as the tree is high.
LEMMA PathIs ==
    ASSUME NEW k, NEW lev, Shape(node, total, root, height, lev)
    PROVE  OnPath(Path(k), height, k, lev)
<1> DEFINE S == {d \in 1 .. MaxPages : OnPath(Down(k)[d], d, k, lev)}
<1> USE PagesAssumption
<1>1. /\ height \in 1 .. total - 1 /\ total \in 2 .. MaxPages /\ root \in 1 .. total - 1 /\ lev[root] = height
      /\ node \in [Page -> Node]
      /\ \A p \in 1 .. total - 1 : lev[p] \in 1 .. height /\ PageAt(node, total, lev, p)
  BY DEF Shape
<1>2. 1 .. total - 1 \subseteq Page
  BY <1>1 DEF Page
<1>3. 1 \in S
  <2>1. Down(k)[1] = <<root>>
    BY DownIs
  <2>2. PICK s : s = <<root>>
    OBVIOUS
  <2>3. s \in Seq(Page) /\ Len(s) = 1 /\ s[1] = root
    BY <1>1, <1>2, <2>2
  <2>4. Len(s) = (IF 1 <= height THEN 1 ELSE height)
    BY <1>1, <2>3
  <2>5. \A i \in 1 .. Len(s) : s[i] \in 1 .. total - 1 /\ lev[s[i]] = height - i + 1
    BY <1>1, <2>3
  <2>6. \A i \in 1 .. Len(s) - 1 : s[i + 1] = Child(node[s[i]], k)
    BY <2>3
  <2>7. OnPath(s, 1, k, lev)
    BY <2>3, <2>4, <2>5, <2>6 DEF OnPath
  <2> QED BY <2>1, <2>2, <2>7
<1>4. ASSUME NEW d \in 1 .. MaxPages - 1, d \in S PROVE d + 1 \in S
  <2>1. PICK s : s = Down(k)[d]
    OBVIOUS
  <2>2. /\ s \in Seq(Page) /\ Len(s) = (IF d <= height THEN d ELSE height) /\ s[1] = root
        /\ \A i \in 1 .. Len(s) : s[i] \in 1 .. total - 1 /\ lev[s[i]] = height - i + 1
        /\ \A i \in 1 .. Len(s) - 1 : s[i + 1] = Child(node[s[i]], k)
    BY <1>4, <2>1 DEF OnPath
  <2>3. PICK n : n = Len(s)
    OBVIOUS
  <2>4. n \in 1 .. height /\ n \in 1 .. n
    BY <1>1, <2>2, <2>3
  <2>5. PICK last : last = s[n]
    OBVIOUS
  <2>6. last \in 1 .. total - 1 /\ lev[last] = height - n + 1 /\ last \in Page
    BY <1>2, <2>2, <2>3, <2>4, <2>5
  <2>7. Down(k)[d + 1] = IF node[last].leaf THEN s ELSE Append(s, Child(node[last], k))
    <3>1. d + 1 \in 2 .. MaxPages /\ (d + 1) - 1 = d
      OBVIOUS
    <3>2. Down(k)[d + 1] = PathStep(Down(k)[(d + 1) - 1], k)
      BY <3>1, DownIs
    <3> QED BY <2>1, <2>3, <2>5, <3>1, <3>2 DEF PathStep
  <2>8. PageAt(node, total, lev, last)
    BY <1>1, <2>6
  <2>9. CASE n = height
    <3>1. node[last].leaf
      BY <1>1, <2>6, <2>8, <2>9 DEF PageAt
    <3>2. Down(k)[d + 1] = s
      BY <2>7, <3>1
    <3>3. Len(s) = (IF d + 1 <= height THEN d + 1 ELSE height)
      BY <1>1, <2>2, <2>3, <2>9
    <3>4. OnPath(s, d + 1, k, lev)
      BY <2>2, <3>3 DEF OnPath
    <3> QED BY <3>2, <3>4
  <2>10. CASE n # height
    <3>1. ~ node[last].leaf
      BY <1>1, <2>4, <2>6, <2>8, <2>10 DEF PageAt
    <3>2. n = d /\ d + 1 <= height
      BY <1>1, <2>2, <2>3, <2>10
    <3>3. PICK q : q = Child(node[last], k)
      OBVIOUS
    <3>4. q \in 1 .. total - 1 /\ lev[q] = lev[last] - 1
      <4>1. node[last] \in Node
        BY <1>1, <2>6
      <4>2. q \in Kids(node[last])
        BY <3>3, <4>1, ChildIsKid
      <4> QED BY <2>8, <3>1, <4>2 DEF PageAt
    <3>5. PICK t : t = Append(s, q)
      OBVIOUS
    <3>6. /\ t \in Seq(Page) /\ Len(t) = n + 1 /\ t[n + 1] = q
          /\ \A i \in 1 .. n : t[i] = s[i]
      BY <1>2, <2>2, <2>3, <3>4, <3>5, AppendProperties, SMTT(30)
    <3>7. Down(k)[d + 1] = t
      BY <2>7, <3>1, <3>3, <3>5
    <3>8. \A i \in 1 .. n + 1 : t[i] \in 1 .. total - 1 /\ lev[t[i]] = height - i + 1
      <4> TAKE i \in 1 .. n + 1
      <4>1. CASE i \in 1 .. n
        BY <2>2, <2>3, <3>6, <4>1
      <4>2. CASE i = n + 1
        BY <1>1, <2>4, <2>6, <3>4, <3>6, <4>2
      <4> QED BY <2>4, <4>1, <4>2
    <3>9. \A i \in 1 .. n : t[i + 1] = Child(node[t[i]], k)
      <4> TAKE i \in 1 .. n
      <4>1. CASE i = n
        BY <2>4, <2>5, <3>3, <3>6, <4>1
      <4>2. CASE i # n
        <5>1. i \in 1 .. Len(s) - 1 /\ i + 1 \in 1 .. n
          BY <2>3, <2>4, <4>2
        <5> QED BY <2>2, <3>6, <5>1
      <4> QED BY <4>1, <4>2
    <3>10. t[1] = root
      BY <2>2, <2>4, <3>6
    <3>11. (n + 1) - 1 = n /\ Len(t) = IF d + 1 <= height THEN d + 1 ELSE height
      BY <2>4, <3>2, <3>6
    <3>12. OnPath(t, d + 1, k, lev)
      BY <3>6, <3>8, <3>9, <3>10, <3>11 DEF OnPath
    <3> QED BY <3>7, <3>12
  <2> QED BY <2>9, <2>10
<1>5. OnPath(Down(k)[MaxPages], MaxPages, k, lev)
  <2> HIDE DEF S
  <2>1. \A d \in 1 .. MaxPages : d \in S
    BY <1>3, <1>4, Steps
  <2>2. MaxPages \in S
    BY <2>1
  <2> QED BY <2>2 DEF S
<1>6. (IF MaxPages <= height THEN MaxPages ELSE height) = (IF height <= height THEN height ELSE height)
  BY <1>1
<1>7. PICK s : s = Path(k)
  OBVIOUS
<1>8. OnPath(s, MaxPages, k, lev)
  BY <1>5, <1>7, DownIs
<1>9. OnPath(s, height, k, lev)
  BY <1>6, <1>8 DEF OnPath
<1> QED BY <1>7, <1>9

-------------------------------------------------------------------------------
\* The climb of btree_insert_parent

Climbs == [stack : Seq(Page), nodes : [Page -> Node], next : Nat, root : Page, height : Nat,
           key : Key, left : Page, right : Page, done : BOOLEAN, orphan : BOOLEAN]

UpFun(c) == CHOOSE up : up = [d \in 0 .. MaxPages |-> IF d = 0 THEN c ELSE Up(up[d - 1])]

\* The recursion of InsertParent defines a function.
LEMMA UpFunIs ==
    ASSUME NEW c
    PROVE  /\ InsertParent(c) = UpFun(c)[Len(c.stack) + 1] /\ UpFun(c)[0] = c
           /\ \A d \in 1 .. MaxPages : UpFun(c)[d] = Up(UpFun(c)[d - 1])
<1> DEFINE step(f, d) == IF d = 0 THEN c ELSE Up(f[d - 1])
           S == {n \in 0 .. MaxPages : \E f : f = [d \in 0 .. n |-> step(f, d)]}
<1> USE PagesAssumption
<1>1. 0 \in S
  <2> DEFINE g == [d \in 0 .. 0 |-> c]
  <2>1. \A d \in 0 .. 0 : g[d] = step(g, d)
    OBVIOUS
  <2>2. g = [d \in 0 .. 0 |-> step(g, d)]
    BY <2>1
  <2> HIDE DEF g
  <2> QED BY <2>2
<1>2. ASSUME NEW n \in 0 .. MaxPages - 1, n \in S PROVE n + 1 \in S
  <2>1. PICK f : f = [d \in 0 .. n |-> step(f, d)]
    BY <1>2
  <2> DEFINE g == [d \in 0 .. n + 1 |-> IF d <= n THEN f[d] ELSE Up(f[n])]
  <2>2. \A d \in 0 .. n + 1 : g[d] = step(g, d)
    <3> SUFFICES ASSUME NEW d \in 0 .. n + 1 PROVE g[d] = step(g, d)
      OBVIOUS
    <3>0. \A e \in 0 .. n : f[e] = step(f, e)
      BY <2>1
    <3>1. CASE d = 0
      BY <3>0, <3>1
    <3>2. CASE d # 0
      <4>1. d - 1 \in 0 .. n /\ g[d - 1] = f[d - 1]
        BY <3>2
      <4>2. CASE d <= n
        BY <3>0, <3>2, <4>1, <4>2
      <4>3. CASE d = n + 1
        BY <3>2, <4>1, <4>3
      <4> QED BY <4>2, <4>3
    <3> QED BY <3>1, <3>2
  <2>3. g = [d \in 0 .. n + 1 |-> step(g, d)]
    BY <2>2
  <2>4. n + 1 \in 0 .. MaxPages
    OBVIOUS
  <2> HIDE DEF g
  <2> QED BY <2>3, <2>4
<1>3. MaxPages \in S
  <2> HIDE DEF S
  <2>1. \A n \in 0 .. MaxPages : n \in S
    BY <1>1, <1>2, Steps
  <2> QED BY <2>1
<1>4. \E f : f = [d \in 0 .. MaxPages |-> step(f, d)]
  BY <1>3
<1>5. UpFun(c) = [d \in 0 .. MaxPages |-> step(UpFun(c), d)]
  BY <1>4 DEF UpFun
<1>6. InsertParent(c) = UpFun(c)[Len(c.stack) + 1]
  BY DEF InsertParent, UpFun
<1> HIDE DEF step
<1>7. \A d \in 0 .. MaxPages : UpFun(c)[d] = step(UpFun(c), d)
  BY <1>5
<1> QED BY <1>6, <1>7 DEF step

\* The parts of a climb.
LEMMA ClimbsIs ==
    ASSUME NEW c \in Climbs
    PROVE  /\ c.stack \in Seq(Page) /\ c.nodes \in [Page -> Node] /\ c.next \in Nat
           /\ c.root \in Page /\ c.height \in Nat /\ c.key \in Key /\ c.left \in Page
           /\ c.right \in Page /\ c.done \in BOOLEAN /\ c.orphan \in BOOLEAN
  BY DEF Climbs

\* The pages that are new or were changed have a place in the new tree.
Redrawn(nodes, tot, h, lev, nodes2, tot2, rt2, h2, lev2) ==
    /\ nodes2 \in [Page -> Node] /\ lev2 \in [Page -> Nat] /\ tot2 \in tot .. MaxPages
    /\ h2 \in h .. tot2 - 1 /\ rt2 \in 1 .. tot2 - 1 /\ lev2[rt2] = h2
    /\ \A p \in 1 .. tot - 1 : lev2[p] = lev[p]
    /\ \A p \in 1 .. tot2 - 1 : \/ p < tot /\ nodes2[p] = nodes[p]
                                \/ lev2[p] \in 1 .. h2 /\ PageAt(nodes2, tot2, lev2, p)
    /\ \A p \in Page : p >= tot2 => nodes2[p] = nodes[p]

\* A redrawn tree is well shaped.
LEMMA Reshape ==
    ASSUME NEW nodes, NEW tot, NEW rt, NEW h, NEW lev, Shape(nodes, tot, rt, h, lev),
           NEW nodes2, NEW tot2, NEW rt2, NEW h2, NEW lev2,
           Redrawn(nodes, tot, h, lev, nodes2, tot2, rt2, h2, lev2)
    PROVE  Shape(nodes2, tot2, rt2, h2, lev2)
<1> USE PagesAssumption
<1>1. /\ tot \in 2 .. MaxPages /\ h \in 1 .. tot - 1
      /\ \A p \in 1 .. tot - 1 : lev[p] \in 1 .. h /\ PageAt(nodes, tot, lev, p)
      /\ \A p \in Page : p >= tot => nodes[p] = Blank
  BY DEF Shape
<1>0. /\ nodes2 \in [Page -> Node] /\ lev2 \in [Page -> Nat] /\ tot2 \in tot .. MaxPages
      /\ h2 \in h .. tot2 - 1 /\ rt2 \in 1 .. tot2 - 1 /\ lev2[rt2] = h2
      /\ \A p \in 1 .. tot - 1 : lev2[p] = lev[p]
      /\ \A p \in 1 .. tot2 - 1 : \/ p < tot /\ nodes2[p] = nodes[p]
                                  \/ lev2[p] \in 1 .. h2 /\ PageAt(nodes2, tot2, lev2, p)
      /\ \A p \in Page : p >= tot2 => nodes2[p] = nodes[p]
  BY DEF Redrawn
<1>2. tot2 \in 2 .. MaxPages /\ h2 \in 1 .. tot2 - 1 /\ tot <= tot2
  BY <1>0, <1>1
<1>3. ASSUME NEW p \in 1 .. tot2 - 1 PROVE lev2[p] \in 1 .. h2 /\ PageAt(nodes2, tot2, lev2, p)
  <2> SUFFICES ASSUME p < tot /\ nodes2[p] = nodes[p] PROVE lev2[p] \in 1 .. h2 /\ PageAt(nodes2, tot2, lev2, p)
    BY <1>0
  <2>1. p \in 1 .. tot - 1
    BY <1>1
  <2>2. lev2[p] = lev[p] /\ lev[p] \in 1 .. h /\ PageAt(nodes, tot, lev, p)
    BY <1>0, <1>1, <2>1
  <2>3. \A q \in 1 .. tot - 1 : q \in 1 .. tot2 - 1 /\ lev2[q] = lev[q]
    BY <1>0, <1>1, <1>2
  <2>4. PageAt(nodes2, tot2, lev2, p)
    BY <1>0, <2>2, <2>3 DEF PageAt
  <2> QED BY <1>0, <1>1, <1>2, <2>2, <2>4
<1>4. \A p \in Page : p >= tot2 => nodes2[p] = Blank
  <2> TAKE p \in Page
  <2>1. p >= tot2 => p >= tot
    BY <1>1, <1>2 DEF Page
  <2> QED BY <1>0, <1>1, <2>1
<1> QED BY <1>0, <1>2, <1>3, <1>4 DEF Shape

\* A climb leaves the leaves alone.
LEMMA Rechain ==
    ASSUME NEW nodes, NEW tot \in Nat, NEW j, Chain(nodes, tot, j),
           NEW nodes2, NEW tot2 \in Nat, tot <= tot2,
           \A p \in 1 .. tot - 1 : nodes[p].leaf => nodes2[p] = nodes[p],
           \A p \in 1 .. tot2 - 1 : nodes2[p].leaf => p \in 1 .. tot - 1 /\ nodes[p].leaf
    PROVE  Chain(nodes2, tot2, j)
<1> SUFFICES ASSUME NEW p \in 1 .. tot2 - 1, nodes2[p].leaf
             PROVE  /\ nodes2[p].link # NoPage => nodes2[p].link \in 1 .. tot2 - 1 /\ nodes2[nodes2[p].link].leaf
                    /\ nodes2[p].prev # NoPage => nodes2[p].prev \in 1 .. tot2 - 1 /\ nodes2[nodes2[p].prev].leaf
                    /\ ~ j => /\ nodes2[p].link # p
                              /\ nodes2[p].link # NoPage => nodes2[nodes2[p].link].prev = p
                              /\ nodes2[p].prev # NoPage => nodes2[nodes2[p].prev].link = p
  BY DEF Chain
<1>1. p \in 1 .. tot - 1 /\ nodes[p].leaf /\ nodes2[p] = nodes[p]
  OBVIOUS
<1>2. /\ nodes[p].link # NoPage => nodes[p].link \in 1 .. tot - 1 /\ nodes[nodes[p].link].leaf
      /\ nodes[p].prev # NoPage => nodes[p].prev \in 1 .. tot - 1 /\ nodes[nodes[p].prev].leaf
      /\ ~ j => /\ nodes[p].link # p
                /\ nodes[p].link # NoPage => nodes[nodes[p].link].prev = p
                /\ nodes[p].prev # NoPage => nodes[nodes[p].prev].link = p
  BY <1>1 DEF Chain
<1>3. \A q \in 1 .. tot - 1 : q \in 1 .. tot2 - 1 /\ (nodes[q].leaf => nodes2[q] = nodes[q])
  OBVIOUS
<1> QED BY <1>1, <1>2, <1>3

\* Cells of a leaf are cells with values.
LEMMA LeafCells ==
    ASSUME NEW s
    PROVE  s \in Seq(Cell(Val)) <=> s \in Cells /\ \A i \in DOMAIN s : s[i].ref \in Val
<1>1. ASSUME s \in Seq(Cell(Val)) PROVE s \in Cells /\ \A i \in DOMAIN s : s[i].ref \in Val
  <2>1. Cell(Val) \subseteq AnyCell
    BY DEF Cell, AnyCell
  <2>2. s \in Seq(AnyCell)
    BY <1>1, <2>1, SeqMonotonic
  <2>3. \A i \in DOMAIN s : s[i] \in Cell(Val)
    BY <1>1, ElementOfSeq, LenProperties
  <2> QED BY <2>2, <2>3 DEF Cells, AnyCell, Cell
<1>2. ASSUME s \in Cells, \A i \in DOMAIN s : s[i].ref \in Val PROVE s \in Seq(Cell(Val))
  <2>1. s \in Seq(AnyCell)
    BY <1>2 DEF Cells, AnyCell
  <2>2. Len(s) \in Nat /\ DOMAIN s = 1 .. Len(s) /\ s = [i \in 1 .. Len(s) |-> s[i]]
    BY <2>1, LenProperties
  <2>3. \A i \in 1 .. Len(s) : s[i] \in Cell(Val)
    <3> TAKE i \in 1 .. Len(s)
    <3>1. s[i] \in AnyCell /\ s[i].ref \in Val
      BY <1>2, <2>1, <2>2, ElementOfSeq
    <3> QED BY <3>1 DEF AnyCell, Cell
  <2>4. s \in [1 .. Len(s) -> Cell(Val)]
    BY <2>2, <2>3
  <2> QED BY <2>2, <2>4, SeqDef
<1> QED BY <1>1, <1>2

Refs(s) == {s[i].ref : i \in DOMAIN s}

\* The parts of cells.
LEMMA CellsAre ==
    ASSUME NEW s \in Cells
    PROVE  /\ s \in Seq(AnyCell) /\ Len(s) \in Nat /\ DOMAIN s = 1 .. Len(s)
           /\ \A i \in 1 .. Len(s) : /\ s[i] \in AnyCell /\ s[i].key \in Key
                                     /\ s[i].ref \in Val \cup Page
                                     /\ s[i] = [key |-> s[i].key, ref |-> s[i].ref]
<1>1. s \in Seq(AnyCell)
  BY DEF Cells, AnyCell
<1>2. \A i \in 1 .. Len(s) : s[i] \in AnyCell
  BY <1>1, ElementOfSeq
<1>3. Len(s) \in Nat /\ DOMAIN s = 1 .. Len(s)
  BY <1>1, LenProperties
<1> QED BY <1>1, <1>2, <1>3 DEF AnyCell

\* An internal page and its children.
LEMMA InternalIs ==
    ASSUME NEW f \in Page, NEW s \in Cells
    PROVE  /\ Internal(f, s) \in Node /\ ~ Internal(f, s).leaf /\ Internal(f, s).cells = s
           /\ Internal(f, s).link = f /\ Internal(f, s).prev = NoPage
           /\ Kids(Internal(f, s)) = {f} \cup Refs(s)
  BY DEF Internal, Node, Kids, Refs

\* A cell put into an internal page refers to the page it was made for.
LEMMA InsertChildIs ==
    ASSUME NEW s \in Cells, NEW k \in Key, NEW p \in Page
    PROVE  /\ InsertChild(s, k, p) \in Cells /\ Refs(InsertChild(s, k, p)) \subseteq Refs(s) \cup {p}
           /\ Len(InsertChild(s, k, p)) = Len(s) + 1
<1>0. PICK c : c = [key |-> k, ref |-> p]
  OBVIOUS
<1>1. s \in Seq(AnyCell) /\ Len(s) \in Nat /\ DOMAIN s = 1 .. Len(s) /\ c \in AnyCell
  BY <1>0, CellsAre DEF AnyCell
<1>2. Below(s, k) \in 0 .. Len(s)
  BY <1>1, BelowInRange
<1>3. PICK i \in 0 .. Len(s) : i = Below(s, k)
  BY <1>2
<1>4. PICK t : t = InsertChild(s, k, p)
  OBVIOUS
<1>5. t = InsertAt(s, i, c)
  BY <1>0, <1>3, <1>4 DEF InsertChild
<1>6. c.ref = p
  BY <1>0
<1>7. /\ t \in Seq(AnyCell) /\ Len(t) = Len(s) + 1
      /\ \A j \in 1 .. Len(s) + 1 : t[j] = IF j <= i THEN s[j] ELSE IF j = i + 1 THEN c ELSE s[j - 1]
  <2>1. s \in Seq(AnyCell)
    BY <1>1
  <2>2. c \in AnyCell
    BY <1>1
  <2>3. InsertAt(s, i, c) \in Seq(AnyCell)
    BY <2>1, <2>2, InsertAtIs
  <2>4. Len(InsertAt(s, i, c)) = Len(s) + 1
    BY <2>1, <2>2, InsertAtIs
  <2>5. \A j \in 1 .. Len(s) + 1 : InsertAt(s, i, c)[j] =
              IF j <= i THEN s[j] ELSE IF j = i + 1 THEN c ELSE s[j - 1]
    BY <2>1, <2>2, InsertAtIs
  <2> QED BY <1>5, <2>3, <2>4, <2>5
<1>8. DOMAIN t = 1 .. Len(s) + 1
  BY <1>7, LenProperties
<1>9. ASSUME NEW j \in DOMAIN t PROVE t[j].ref \in Refs(s) \cup {p}
  <2>1. CASE j <= i
    <3>1. j \in DOMAIN s /\ t[j] = s[j]
      BY <1>1, <1>2, <1>3, <1>7, <1>8, <2>1
    <3> QED BY <3>1 DEF Refs
  <2>2. CASE j = i + 1
    <3>1. t[j] = c
      BY <1>1, <1>2, <1>3, <1>7, <1>8, <2>2
    <3> QED BY <1>6, <3>1
  <2>3. CASE j > i + 1
    <3>1. j - 1 \in DOMAIN s /\ t[j] = s[j - 1]
      BY <1>1, <1>2, <1>3, <1>7, <1>8, <2>3
    <3> QED BY <3>1 DEF Refs
  <2>4. j \in Int /\ i \in Int
    BY <1>1, <1>2, <1>3, <1>8
  <2> QED BY <2>1, <2>2, <2>3, <2>4
<1>10. Refs(t) \subseteq Refs(s) \cup {p}
  BY <1>9 DEF Refs
<1> QED BY <1>4, <1>7, <1>10 DEF Cells, AnyCell

\* Or the cells stay as they are.
LEMMA InsertInternalIs ==
    ASSUME NEW s \in Cells, NEW k \in Key, NEW p \in Page
    PROVE  /\ InsertInternalCell(s, k, p) \in Cells
           /\ Refs(InsertInternalCell(s, k, p)) \subseteq Refs(s) \cup {p}
<1>1. InsertChild(s, k, p) \in Cells /\ Refs(InsertChild(s, k, p)) \subseteq Refs(s) \cup {p}
  BY InsertChildIs
<1> QED BY <1>1 DEF InsertInternalCell

\* An empty page has all its room.
LEMMA EmptyUsed == ASSUME NEW leaf PROVE Used(leaf, << >>) = 0
<1> DEFINE step(f, i) == IF i = 0 THEN 0 ELSE f[i - 1] + CellSize(leaf, << >>[i])
           sum == CHOOSE f : f = [i \in 0 .. Len(<< >>) |-> step(f, i)]
<1>1. Used(leaf, << >>) = sum[Len(<< >>)]
  BY DEF Used
<1>2. Len(<< >>) = 0
  OBVIOUS
<1>3. \E f : f = [i \in 0 .. Len(<< >>) |-> step(f, i)]
  <2> DEFINE g == [i \in 0 .. 0 |-> 0]
  <2>1. \A i \in 0 .. 0 : g[i] = step(g, i)
    OBVIOUS
  <2>2. g = [i \in 0 .. 0 |-> step(g, i)]
    BY <2>1
  <2> HIDE DEF g, step
  <2> QED BY <1>2, <2>2
<1>4. sum = [i \in 0 .. Len(<< >>) |-> step(sum, i)]
  BY <1>3
<1> HIDE DEF sum
<1>5. sum[0] = 0
  BY <1>2, <1>4
<1> QED BY <1>1, <1>2, <1>5

\* A page that does not take a separator has one.
LEMMA FullHasCell ==
    ASSUME NEW s \in Cells, NEW k \in Key, ~ FitsChild(s, k)
    PROVE  Len(s) >= 1
<1>1. ASSUME Len(s) = 0 PROVE FALSE
  <2>1. s = << >>
    BY <1>1, CellsAre
  <2>2. Used(FALSE, s) = 0
    BY <2>1, EmptyUsed
  <2>3. InternalCell(k) \in Nat /\ InternalCell(k) <= Room
    BY PairAssumption, LengthAssumption DEF InternalCell
  <2>4. CellSize(FALSE, [key |-> k, ref |-> NoPage]) = InternalCell(k)
    BY DEF CellSize
  <2>5. ~ (0 + InternalCell(k) <= Room)
    BY <2>2, <2>4 DEF FitsChild, Fits
  <2> QED BY <2>3, <2>5
<1>2. Len(s) \in Nat
  BY CellsAre
<1> QED BY <1>1, <1>2

\* A part of the cells.
LEMMA PartIs ==
    ASSUME NEW s \in Cells, NEW a \in 1 .. Len(s) + 1, NEW b \in a - 1 .. Len(s)
    PROVE  /\ SubSeq(s, a, b) \in Cells /\ Refs(SubSeq(s, a, b)) \subseteq Refs(s)
           /\ Len(SubSeq(s, a, b)) = b - a + 1
           /\ \A i \in 1 .. b - a + 1 : a + i - 1 \in 1 .. Len(s) /\ SubSeq(s, a, b)[i] = s[a + i - 1]
<1>1. s \in Seq(AnyCell) /\ Len(s) \in Nat /\ DOMAIN s = 1 .. Len(s)
  BY CellsAre
<1>2. PICK t : t = SubSeq(s, a, b)
  OBVIOUS
<1>3. t \in Seq(AnyCell) /\ Len(t) = b - a + 1 /\ \A i \in 1 .. b - a + 1 : t[i] = s[a + i - 1]
  BY <1>1, <1>2
<1>4. DOMAIN t = 1 .. b - a + 1
  BY <1>3, LenProperties
<1>5. \A i \in 1 .. b - a + 1 : a + i - 1 \in 1 .. Len(s)
  BY <1>1
<1>6. Refs(t) \subseteq Refs(s)
  BY <1>1, <1>3, <1>4, <1>5 DEF Refs
<1> QED BY <1>2, <1>3, <1>5, <1>6 DEF Cells, AnyCell

-------------------------------------------------------------------------------
\* One level of the climb

TakeChild(c, p) ==
    [c EXCEPT !.nodes[p].cells = InsertChild(c.nodes[p].cells, c.key, c.right),
              !.orphan = @ \/ Hidden(c.nodes[p].cells, c.key), !.done = TRUE]

WithCells(nodes, p, s) == [nodes EXCEPT ![p].cells = s]

\* What the climb keeps while it has a page to hang in: the tree is well shaped
\* without that page, and the stack leads from the root to the level above it.
Rising(c, lev) ==
    /\ c \in Climbs
    /\ Shape(c.nodes, c.next, c.root, c.height, lev) /\ Chain(c.nodes, c.next, joined)
    /\ ~ c.done =>
          /\ c.next + Len(c.stack) < MaxPages
          /\ c.left \in 1 .. c.next - 1 /\ lev[c.left] = c.height - Len(c.stack)
          /\ c.right \in 1 .. c.next - 1 /\ lev[c.right] = c.height - Len(c.stack)
          /\ \A i \in 1 .. Len(c.stack) :
                c.stack[i] \in 1 .. c.next - 1 /\ lev[c.stack[i]] = c.height - i + 1

UpLev(c, lev) == IF c.done THEN lev ELSE [lev EXCEPT ![c.next] = lev[c.left] + 1]

\* The nodes with other cells in page p.
Recelled(nodes, p, s, r) ==
    /\ r \in [Page -> Node]
    /\ r[p].cells = s
    /\ r[p].leaf = nodes[p].leaf
    /\ r[p].link = nodes[p].link
    /\ r[p].prev = nodes[p].prev
    /\ Kids(r[p]) = {nodes[p].link} \cup Refs(s)
    /\ \A q \in Page : q # p => r[q] = nodes[q]

\* Only the cells of the page change.
LEMMA WithCellsIs ==
    ASSUME NEW nodes \in [Page -> Node], NEW p \in Page, NEW s \in Cells
    PROVE  Recelled(nodes, p, s, WithCells(nodes, p, s))
<1>1. nodes[p] \in Node
  OBVIOUS
<1>2. PICK n : n = [nodes[p] EXCEPT !.cells = s]
  OBVIOUS
<1>3. n \in Node /\ n.cells = s /\ n.leaf = nodes[p].leaf /\ n.link = nodes[p].link /\ n.prev = nodes[p].prev
  BY <1>1, <1>2 DEF Node
<1>4. WithCells(nodes, p, s) = [nodes EXCEPT ![p] = n]
  BY <1>2 DEF WithCells
<1>5. Kids(n) = {n.link} \cup Refs(s)
  BY <1>3 DEF Kids, Refs
<1>6. Recelled(nodes, p, s, [nodes EXCEPT ![p] = n])
  BY <1>3, <1>5 DEF Recelled
<1> QED BY <1>4, <1>6

\* What the climb is after a new root.
LEMMA GrowRootIs ==
    ASSUME NEW c \in Climbs, c.next \in Page
    PROVE  /\ GrowRoot(c) \in Climbs
           /\ GrowRoot(c).nodes =
                 [c.nodes EXCEPT ![c.next] = Internal(c.left, <<[key |-> c.key, ref |-> c.right]>>)]
           /\ GrowRoot(c).next = c.next + 1 /\ GrowRoot(c).root = c.next
           /\ GrowRoot(c).height = c.height + 1 /\ GrowRoot(c).done = TRUE
           /\ GrowRoot(c).orphan = c.orphan
           /\ <<[key |-> c.key, ref |-> c.right]>> \in Cells
<1>1. /\ c.nodes \in [Page -> Node] /\ c.next \in Nat /\ c.root \in Page /\ c.height \in Nat
      /\ c.key \in Key /\ c.left \in Page /\ c.right \in Page
  BY ClimbsIs
<1>2. PICK s : s = <<[key |-> c.key, ref |-> c.right]>>
  OBVIOUS
<1>3. s \in Cells
  <2>1. [key |-> c.key, ref |-> c.right] \in AnyCell
    BY <1>1 DEF AnyCell
  <2>2. s \in Seq(AnyCell)
    BY <1>2, <2>1
  <2> QED BY <2>2 DEF Cells, AnyCell
<1>4. PICK n : n = Internal(c.left, s)
  OBVIOUS
<1>5. n \in Node
  BY <1>1, <1>3, <1>4, InternalIs
<1>6. PICK nodes : nodes = [c.nodes EXCEPT ![c.next] = n]
  OBVIOUS
<1>7. nodes \in [Page -> Node]
  BY <1>1, <1>5, <1>6
<1>8. GrowRoot(c) = [c EXCEPT !.nodes = nodes, !.next = c.next + 1, !.root = c.next,
                              !.height = c.height + 1, !.done = TRUE]
  BY <1>2, <1>4, <1>6 DEF GrowRoot, Climbs
<1>9. PICK m : m = c.next + 1
  OBVIOUS
<1>10. PICK h : h = c.height + 1
  OBVIOUS
<1>11. m \in Nat /\ h \in Nat
  BY <1>1, <1>9, <1>10
<1>12. PICK g : g = GrowRoot(c)
  OBVIOUS
<1>13. g = [c EXCEPT !.nodes = nodes, !.next = m, !.root = c.next, !.height = h, !.done = TRUE]
  BY <1>8, <1>9, <1>10, <1>12
<1>14. g.nodes = nodes /\ g.next = m /\ g.root = c.next /\ g.height = h /\ g.done = TRUE /\ g.orphan = c.orphan
  BY <1>13 DEF Climbs
<1>15. g \in Climbs
  BY <1>7, <1>11, <1>13 DEF Climbs
<1>16. nodes = [c.nodes EXCEPT ![c.next] = Internal(c.left, <<[key |-> c.key, ref |-> c.right]>>)]
  BY <1>2, <1>4, <1>6
<1> QED BY <1>2, <1>3, <1>9, <1>10, <1>12, <1>14, <1>15, <1>16

\* What the climb is after a page with room took the separator.
LEMMA TakeChildIs ==
    ASSUME NEW c \in Climbs, NEW p \in Page
    PROVE  /\ TakeChild(c, p) \in Climbs
           /\ TakeChild(c, p).nodes = WithCells(c.nodes, p, InsertChild(c.nodes[p].cells, c.key, c.right))
           /\ TakeChild(c, p).next = c.next /\ TakeChild(c, p).root = c.root
           /\ TakeChild(c, p).height = c.height /\ TakeChild(c, p).done = TRUE
           /\ TakeChild(c, p).orphan = (c.orphan \/ Hidden(c.nodes[p].cells, c.key))
           /\ c.nodes[p].cells \in Cells /\ InsertChild(c.nodes[p].cells, c.key, c.right) \in Cells
<1>1. c.nodes \in [Page -> Node] /\ c.key \in Key /\ c.right \in Page
  BY ClimbsIs
<1>2. c.nodes[p] \in Node /\ c.nodes[p].cells \in Cells
  BY <1>1, NodeIs
<1>3. PICK s : s = InsertChild(c.nodes[p].cells, c.key, c.right)
  OBVIOUS
<1>4. s \in Cells
  BY <1>1, <1>2, <1>3, InsertChildIs
<1>5. PICK nodes : nodes = WithCells(c.nodes, p, s)
  OBVIOUS
<1>6. nodes \in [Page -> Node]
  BY <1>1, <1>4, <1>5, WithCellsIs DEF Recelled
<1>7. PICK o : o = (c.orphan \/ Hidden(c.nodes[p].cells, c.key))
  OBVIOUS
<1>8. o \in BOOLEAN
  BY <1>7
<1>9. TakeChild(c, p) = [c EXCEPT !.nodes = nodes, !.orphan = o, !.done = TRUE]
  BY <1>3, <1>5, <1>7 DEF TakeChild, WithCells, Climbs
<1> QED BY <1>2, <1>3, <1>4, <1>5, <1>6, <1>7, <1>8, <1>9 DEF Climbs

\* The halves of a full internal page, the new cell in its own.
Middle(cells) == Len(cells) \div 2 + 1
LowHalf(c, cells) ==
    LET up == cells[Middle(cells)]
        low == SubSeq(cells, 1, Len(cells) \div 2)
    IN  IF c.key < up.key THEN InsertInternalCell(low, c.key, c.right) ELSE low
HighHalf(c, cells) ==
    LET up == cells[Middle(cells)]
        high == SubSeq(cells, Len(cells) \div 2 + 2, Len(cells))
    IN  IF c.key < up.key THEN high ELSE InsertInternalCell(high, c.key, c.right)

\* The half that should take the new cell hides it.
HalfHides(c, cells) ==
    Hidden(IF c.key < cells[Middle(cells)].key THEN SubSeq(cells, 1, Len(cells) \div 2)
           ELSE SubSeq(cells, Len(cells) \div 2 + 2, Len(cells)), c.key)

\* The halves are made of the cells and the new one, and neither takes the middle.
LEMMA HalvesAre ==
    ASSUME NEW c \in Climbs, NEW cells \in Cells, Len(cells) >= 1
    PROVE  /\ Middle(cells) \in 1 .. Len(cells)
           /\ LowHalf(c, cells) \in Cells /\ HighHalf(c, cells) \in Cells
           /\ Refs(LowHalf(c, cells)) \subseteq Refs(cells) \cup {c.right}
           /\ Refs(HighHalf(c, cells)) \subseteq Refs(cells) \cup {c.right}
           /\ cells[Middle(cells)].key \in Key /\ cells[Middle(cells)].ref \in Refs(cells)
<1> DEFINE m == Middle(cells)
           low == SubSeq(cells, 1, m - 1)
           high == SubSeq(cells, m + 1, Len(cells))
<1>1. Len(cells) \in Nat /\ DOMAIN cells = 1 .. Len(cells) /\ Len(cells) >= 1
  BY CellsAre
<1>2. m \in 1 .. Len(cells)
  BY <1>1 DEF Middle
<1>3. cells[m].key \in Key /\ cells[m].ref \in Refs(cells)
  <2>1. m \in 1 .. Len(cells)
    BY <1>1, <1>2
  <2> HIDE DEF m
  <2> QED BY <1>1, <2>1, CellsAre DEF Refs
<1>4. c.key \in Key /\ c.right \in Page
  BY ClimbsIs
<1>5. low \in Cells /\ Refs(low) \subseteq Refs(cells)
  <2>1. 1 \in 1 .. Len(cells) + 1 /\ m - 1 \in 1 - 1 .. Len(cells)
    BY <1>1, <1>2
  <2> HIDE DEF m
  <2> QED BY <2>1, PartIs
<1>6. high \in Cells /\ Refs(high) \subseteq Refs(cells)
  <2>1. m + 1 \in 1 .. Len(cells) + 1 /\ Len(cells) \in (m + 1) - 1 .. Len(cells)
    BY <1>1, <1>2
  <2> HIDE DEF m
  <2> QED BY <2>1, PartIs
<1>a. m - 1 = Len(cells) \div 2 /\ m + 1 = Len(cells) \div 2 + 2
  BY <1>1 DEF Middle
<1>7. LowHalf(c, cells) = IF c.key < cells[m].key THEN InsertInternalCell(low, c.key, c.right) ELSE low
  BY <1>a DEF LowHalf
<1>8. HighHalf(c, cells) = IF c.key < cells[m].key THEN high ELSE InsertInternalCell(high, c.key, c.right)
  BY <1>a DEF HighHalf
<1>9. /\ InsertInternalCell(low, c.key, c.right) \in Cells
      /\ Refs(InsertInternalCell(low, c.key, c.right)) \subseteq Refs(low) \cup {c.right}
  <2> HIDE DEF low
  <2> QED BY <1>4, <1>5, InsertInternalIs
<1>10. /\ InsertInternalCell(high, c.key, c.right) \in Cells
       /\ Refs(InsertInternalCell(high, c.key, c.right)) \subseteq Refs(high) \cup {c.right}
  <2> HIDE DEF high
  <2> QED BY <1>4, <1>6, InsertInternalIs
<1> HIDE DEF low, high
<1>11. LowHalf(c, cells) \in Cells /\ Refs(LowHalf(c, cells)) \subseteq Refs(cells) \cup {c.right}
  BY <1>5, <1>7, <1>9
<1>12. HighHalf(c, cells) \in Cells /\ Refs(HighHalf(c, cells)) \subseteq Refs(cells) \cup {c.right}
  BY <1>6, <1>8, <1>10
<1> QED BY <1>2, <1>3, <1>11, <1>12

Popped(c, p) == [SplitInternal(c, p) EXCEPT !.stack = SubSeq(c.stack, 1, Len(c.stack) - 1)]

\* What the climb is after a full page was split.
LEMMA SplitInternalIs ==
    ASSUME NEW c \in Climbs, NEW p \in Page, c.next \in Page, p # c.next, Len(c.stack) >= 1,
           NEW cells, cells = c.nodes[p].cells, Len(cells) >= 1, Refs(cells) \subseteq Page
    PROVE  /\ Popped(c, p) \in Climbs
           /\ Popped(c, p).nodes =
                 [WithCells(c.nodes, p, LowHalf(c, cells)) EXCEPT
                     ![c.next] = Internal(cells[Middle(cells)].ref, HighHalf(c, cells))]
           /\ Popped(c, p).next = c.next + 1 /\ Popped(c, p).root = c.root
           /\ Popped(c, p).height = c.height /\ Popped(c, p).done = c.done
           /\ Popped(c, p).key = cells[Middle(cells)].key
           /\ Popped(c, p).left = p /\ Popped(c, p).right = c.next
           /\ Popped(c, p).stack = SubSeq(c.stack, 1, Len(c.stack) - 1)
           /\ Popped(c, p).orphan = (c.orphan \/ HalfHides(c, cells))
<1>1. /\ c.nodes \in [Page -> Node] /\ c.next \in Nat /\ c.stack \in Seq(Page)
      /\ c.nodes[p] \in Node /\ cells \in Cells
  BY ClimbsIs, NodeIs
<1>2. /\ LowHalf(c, cells) \in Cells /\ HighHalf(c, cells) \in Cells
      /\ cells[Middle(cells)].key \in Key /\ cells[Middle(cells)].ref \in Page
  BY <1>1, HalvesAre
<1>3. PICK low, high, first, key : /\ low = LowHalf(c, cells) /\ high = HighHalf(c, cells)
                                   /\ first = cells[Middle(cells)].ref /\ key = cells[Middle(cells)].key
  OBVIOUS
<1>4. PICK mid : mid = WithCells(c.nodes, p, low)
  OBVIOUS
<1>5. mid \in [Page -> Node]
  BY <1>1, <1>2, <1>3, <1>4, WithCellsIs DEF Recelled
<1>6. PICK n : n = Internal(first, high)
  OBVIOUS
<1>7. n \in Node
  BY <1>2, <1>3, <1>6, InternalIs
<1>8. PICK nodes : nodes = [mid EXCEPT ![c.next] = n]
  OBVIOUS
<1>9. nodes \in [Page -> Node]
  BY <1>5, <1>7, <1>8
<1>10. PICK next : next = c.next + 1
  OBVIOUS
<1>11. PICK rest : rest = SubSeq(c.stack, 1, Len(c.stack) - 1)
  OBVIOUS
<1>12. next \in Nat /\ rest \in Seq(Page)
  BY <1>1, <1>10, <1>11
<1>13. PICK g : g = Popped(c, p)
  OBVIOUS
<1>o. PICK o : o = (c.orphan \/ HalfHides(c, cells))
  OBVIOUS
<1>p. o \in BOOLEAN
  BY <1>o
<1>14. g = [c EXCEPT !.stack = rest, !.nodes = nodes, !.orphan = o, !.next = next, !.key = key, !.left = p,
                     !.right = c.next]
  <2>1. PICK t : t = SplitInternal(c, p)
    OBVIOUS
  <2>2. t = [c EXCEPT !.nodes = nodes, !.orphan = o, !.next = next, !.key = key, !.left = p, !.right = c.next]
    <3>1. t = [c EXCEPT !.nodes[p].cells = low, !.nodes[c.next] = n, !.orphan = o, !.next = next,
                        !.key = key, !.left = p, !.right = c.next]
      BY <1>3, <1>6, <1>10, <1>o, <2>1 DEF SplitInternal, LowHalf, HighHalf, HalfHides, Middle
    <3> QED BY <1>4, <1>8, <3>1 DEF WithCells, Climbs
  <2>3. g = [t EXCEPT !.stack = rest]
    BY <1>11, <1>13, <2>1 DEF Popped
  <2> QED BY <2>2, <2>3 DEF Climbs
<1>15. /\ g.stack = rest /\ g.nodes = nodes /\ g.next = next /\ g.root = c.root /\ g.height = c.height
       /\ g.key = key /\ g.left = p /\ g.right = c.next /\ g.done = c.done /\ g.orphan = o
  BY <1>14 DEF Climbs
<1>16. key \in Key
  BY <1>2, <1>3
<1>17. g \in Climbs
  BY <1>9, <1>12, <1>14, <1>16, <1>p DEF Climbs
<1>18. nodes = [WithCells(c.nodes, p, LowHalf(c, cells)) EXCEPT
                     ![c.next] = Internal(cells[Middle(cells)].ref, HighHalf(c, cells))]
  BY <1>3, <1>4, <1>6, <1>8
<1> QED BY <1>3, <1>10, <1>11, <1>13, <1>15, <1>17, <1>18, <1>o

Top(c) == c.stack[Len(c.stack)]

\* The three cases of a level.
LEMMA UpIs ==
    ASSUME NEW c \in Climbs
    PROVE  /\ c.done => Up(c) = c
           /\ ~ c.done /\ Len(c.stack) = 0 => Up(c) = GrowRoot(c)
           /\ ~ c.done /\ Len(c.stack) # 0 /\ FitsChild(c.nodes[Top(c)].cells, c.key) => Up(c) = TakeChild(c, Top(c))
           /\ ~ c.done /\ Len(c.stack) # 0 /\ ~ FitsChild(c.nodes[Top(c)].cells, c.key) => Up(c) = Popped(c, Top(c))
<1>1. c.stack \in Seq(Page)
  BY ClimbsIs
<1>2. c.stack = << >> <=> Len(c.stack) = 0
  BY <1>1
<1>3. c.done => Up(c) = c
  BY DEF Up
<1>4. ~ c.done /\ Len(c.stack) = 0 => Up(c) = GrowRoot(c)
  BY <1>2 DEF Up
<1>5. ~ c.done /\ Len(c.stack) # 0 /\ FitsChild(c.nodes[Top(c)].cells, c.key) => Up(c) = TakeChild(c, Top(c))
  BY <1>2 DEF Up, TakeChild, Top
<1>6. ~ c.done /\ Len(c.stack) # 0 /\ ~ FitsChild(c.nodes[Top(c)].cells, c.key) => Up(c) = Popped(c, Top(c))
  BY <1>2 DEF Up, Popped, Top
<1> QED BY <1>3, <1>4, <1>5, <1>6

\* What the levels say while the climb goes on.
LEMMA RisingIs ==
    ASSUME NEW c, NEW lev, Rising(c, lev), ~ c.done
    PROVE  /\ c \in Climbs /\ c.nodes \in [Page -> Node] /\ c.next \in 2 .. MaxPages /\ c.next \in Page
           /\ c.next \in Nat /\ c.height \in 1 .. c.next - 1 /\ c.root \in 1 .. c.next - 1
           /\ lev \in [Page -> Nat] /\ lev[c.root] = c.height /\ Len(c.stack) \in Nat
           /\ c.key \in Key /\ c.next + Len(c.stack) < MaxPages
           /\ c.left \in 1 .. c.next - 1 /\ c.right \in 1 .. c.next - 1 /\ c.left \in Page /\ c.right \in Page
           /\ lev[c.left] = c.height - Len(c.stack) /\ lev[c.right] = c.height - Len(c.stack)
           /\ lev[c.left] \in 1 .. c.height
           /\ \A p \in 1 .. c.next - 1 : p \in Page /\ lev[p] \in 1 .. c.height /\ PageAt(c.nodes, c.next, lev, p)
           /\ \A p \in Page : p >= c.next => c.nodes[p] = Blank
           /\ \A i \in 1 .. Len(c.stack) : c.stack[i] \in 1 .. c.next - 1 /\ lev[c.stack[i]] = c.height - i + 1
<1> USE PagesAssumption
<1>1. c \in Climbs /\ Shape(c.nodes, c.next, c.root, c.height, lev)
  BY DEF Rising
<1>2. c.next \in 2 .. MaxPages /\ c.height \in 1 .. c.next - 1 /\ c.root \in 1 .. c.next - 1
      /\ lev[c.root] = c.height /\ lev \in [Page -> Nat]
      /\ \A p \in 1 .. c.next - 1 : lev[p] \in 1 .. c.height /\ PageAt(c.nodes, c.next, lev, p)
      /\ \A q \in Page : q >= c.next => c.nodes[q] = Blank
  BY <1>1 DEF Shape
<1>3. Len(c.stack) \in Nat /\ c.nodes \in [Page -> Node] /\ c.key \in Key
  BY <1>1, ClimbsIs
<1>4. /\ c.next + Len(c.stack) < MaxPages
      /\ c.left \in 1 .. c.next - 1 /\ lev[c.left] = c.height - Len(c.stack)
      /\ c.right \in 1 .. c.next - 1 /\ lev[c.right] = c.height - Len(c.stack)
      /\ \A i \in 1 .. Len(c.stack) : c.stack[i] \in 1 .. c.next - 1 /\ lev[c.stack[i]] = c.height - i + 1
  BY DEF Rising
<1>5. \A p \in 1 .. c.next - 1 : p \in Page
  BY <1>2 DEF Page
<1>6. c.next \in Page /\ c.next \in Nat
  BY <1>2, <1>3, <1>4, SMTT(30) DEF Page
<1>7. lev[c.left] \in 1 .. c.height
  BY <1>2, <1>4
<1> QED BY <1>1, <1>2, <1>3, <1>4, <1>5, <1>6, <1>7

\* The page on top of the stack is an internal one, a level above the halves.
LEMMA TopIs ==
    ASSUME NEW c, NEW lev, Rising(c, lev), ~ c.done, Len(c.stack) # 0
    PROVE  /\ Top(c) \in 1 .. c.next - 1 /\ Top(c) \in Page /\ Top(c) # c.next
           /\ lev[Top(c)] = lev[c.left] + 1 /\ ~ c.nodes[Top(c)].leaf
           /\ c.nodes[Top(c)].cells \in Cells /\ c.nodes[Top(c)].link \in 1 .. c.next - 1
           /\ lev[c.nodes[Top(c)].link] = lev[c.left]
           /\ \A q \in Refs(c.nodes[Top(c)].cells) : q \in 1 .. c.next - 1 /\ lev[q] = lev[c.left]
<1>1. PICK p : p = Top(c)
  OBVIOUS
<1>2. /\ Len(c.stack) \in Nat /\ c.height \in Nat /\ c.next \in Nat /\ c.nodes \in [Page -> Node]
      /\ lev[c.left] = c.height - Len(c.stack) /\ lev[c.left] \in 1 .. c.height
      /\ \A i \in 1 .. Len(c.stack) : c.stack[i] \in 1 .. c.next - 1 /\ lev[c.stack[i]] = c.height - i + 1
  BY RisingIs
<1>3. Len(c.stack) \in 1 .. Len(c.stack)
  BY <1>2
<1>4. p \in 1 .. c.next - 1 /\ lev[p] = c.height - Len(c.stack) + 1
  BY <1>1, <1>2, <1>3 DEF Top
<1>5. p \in Page /\ PageAt(c.nodes, c.next, lev, p)
  BY <1>4, RisingIs
<1>6. lev[p] = lev[c.left] + 1 /\ p # c.next /\ lev[p] # 1
  BY <1>2, <1>4
<1>7. ~ c.nodes[p].leaf /\ \A q \in Kids(c.nodes[p]) : q \in 1 .. c.next - 1 /\ lev[q] = lev[p] - 1
  BY <1>5, <1>6 DEF PageAt
<1>8. \A q \in Kids(c.nodes[p]) : q \in 1 .. c.next - 1 /\ lev[q] = lev[c.left]
  BY <1>2, <1>6, <1>7
<1>9. c.nodes[p] \in Node
  BY <1>2, <1>5
<1>10. c.nodes[p].cells \in Cells
  BY <1>9, NodeIs
<1>11. Kids(c.nodes[p]) = {c.nodes[p].link} \cup Refs(c.nodes[p].cells)
  BY DEF Kids, Refs
<1> QED BY <1>1, <1>4, <1>5, <1>6, <1>7, <1>8, <1>10, <1>11

\* The level of a page made on the way.
LEMMA UpLevIs ==
    ASSUME NEW c, NEW lev, Rising(c, lev), ~ c.done
    PROVE  /\ UpLev(c, lev) \in [Page -> Nat] /\ UpLev(c, lev)[c.next] = lev[c.left] + 1
           /\ \A p \in 1 .. c.next - 1 : UpLev(c, lev)[p] = lev[p]
<1>1. /\ c.next \in Page /\ c.next \in Nat /\ lev \in [Page -> Nat] /\ lev[c.left] \in 1 .. c.height
      /\ \A p \in 1 .. c.next - 1 : p \in Page
  BY RisingIs
<1>2. UpLev(c, lev) = [lev EXCEPT ![c.next] = lev[c.left] + 1]
  BY DEF UpLev
<1>3. \A p \in 1 .. c.next - 1 : p # c.next
  BY <1>1
<1>4. lev[c.left] + 1 \in Nat
  BY <1>1
<1> QED BY <1>1, <1>2, <1>3, <1>4

\* A new root is one level above the old one.
LEMMA GrowRises ==
    ASSUME NEW c, NEW lev, Rising(c, lev), ~ c.done, Len(c.stack) = 0
    PROVE  Rising(GrowRoot(c), UpLev(c, lev))
<1> DEFINE g == GrowRoot(c)
           l2 == UpLev(c, lev)
           s == <<[key |-> c.key, ref |-> c.right]>>
<1>1. /\ c \in Climbs /\ c.nodes \in [Page -> Node] /\ c.next \in 2 .. MaxPages /\ c.next \in Page
      /\ c.next \in Nat /\ c.height \in 1 .. c.next - 1 /\ c.next < MaxPages
      /\ c.left \in 1 .. c.next - 1 /\ c.right \in 1 .. c.next - 1 /\ c.left \in Page /\ c.right \in Page
      /\ lev[c.left] = c.height /\ lev[c.right] = c.height
      /\ \A p \in 1 .. c.next - 1 : p \in Page /\ lev[p] \in 1 .. c.height
      /\ \A p \in Page : p >= c.next => c.nodes[p] = Blank
  BY RisingIs
<1>2. /\ l2 \in [Page -> Nat] /\ l2[c.next] = lev[c.left] + 1
      /\ \A p \in 1 .. c.next - 1 : l2[p] = lev[p]
  BY UpLevIs
<1>3. /\ g \in Climbs /\ g.nodes = [c.nodes EXCEPT ![c.next] = Internal(c.left, s)]
      /\ g.next = c.next + 1 /\ g.root = c.next /\ g.height = c.height + 1 /\ g.done = TRUE /\ s \in Cells
  BY <1>1, GrowRootIs
<1>4. Refs(s) = {c.right}
  <2>1. Len(s) = 1 /\ DOMAIN s = 1 .. 1 /\ s[1].ref = c.right
    OBVIOUS
  <2> HIDE DEF s
  <2> QED BY <2>1 DEF Refs
<1> HIDE DEF g, l2, s
<1>5. g.nodes \in [Page -> Node]
  BY <1>3, ClimbsIs
<1>6. g.nodes[c.next] = Internal(c.left, s) /\ \A p \in Page : p # c.next => g.nodes[p] = c.nodes[p]
  BY <1>1, <1>3
<1>7. /\ ~ g.nodes[c.next].leaf /\ g.nodes[c.next].prev = NoPage
      /\ Kids(g.nodes[c.next]) = {c.left, c.right}
  <2>1. c.left \in Page /\ s \in Cells
    BY <1>1, <1>3
  <2>2. PICK n : n = Internal(c.left, s)
    OBVIOUS
  <2>3. ~ n.leaf /\ n.prev = NoPage /\ Kids(n) = {c.left} \cup Refs(s)
    BY <2>1, <2>2, InternalIs
  <2> QED BY <1>4, <1>6, <2>2, <2>3
<1>8. PageAt(g.nodes, g.next, l2, c.next)
  <2>1. \A q \in {c.left, c.right} : q \in 1 .. g.next - 1 /\ l2[q] = l2[c.next] - 1
    BY <1>1, <1>2, <1>3, SMTT(30)
  <2>2. l2[c.next] # 1
    BY <1>1, <1>2
  <2> QED BY <1>7, <2>1, <2>2 DEF PageAt
<1>9. Shape(g.nodes, g.next, g.root, g.height, l2)
  <2>1. Shape(c.nodes, c.next, c.root, c.height, lev)
    BY DEF Rising
  <2>2. g.next \in c.next .. MaxPages /\ g.height \in c.height .. g.next - 1 /\ g.root \in 1 .. g.next - 1
    BY <1>1, <1>3, PagesAssumption, SMTT(30)
  <2>3. l2[g.root] = g.height
    BY <1>1, <1>2, <1>3
  <2>4. \A p \in 1 .. g.next - 1 : \/ p < c.next /\ g.nodes[p] = c.nodes[p]
                                   \/ l2[p] \in 1 .. g.height /\ PageAt(g.nodes, g.next, l2, p)
    <3> TAKE p \in 1 .. g.next - 1
    <3>1. CASE p = c.next
      <4>1. l2[p] \in 1 .. g.height
        BY <1>1, <1>2, <1>3, <3>1
      <4> QED BY <1>8, <3>1, <4>1
    <3>2. CASE p # c.next
      <4>1. p \in 1 .. c.next - 1 /\ p < c.next
        BY <1>1, <1>3, <3>2
      <4> QED BY <1>1, <1>6, <3>2, <4>1
    <3> QED BY <3>1, <3>2
  <2>5. \A p \in Page : p >= g.next => g.nodes[p] = c.nodes[p]
    BY <1>1, <1>3, <1>6
  <2>6. l2 \in [Page -> Nat] /\ \A p \in 1 .. c.next - 1 : l2[p] = lev[p]
    BY <1>2
  <2>7. Redrawn(c.nodes, c.next, c.height, lev, g.nodes, g.next, g.root, g.height, l2)
    BY <1>5, <2>2, <2>3, <2>4, <2>5, <2>6, Zenon DEF Redrawn
  <2> QED BY <2>1, <2>7, Reshape
<1>10. Chain(g.nodes, g.next, joined)
  <2>1. Chain(c.nodes, c.next, joined)
    BY DEF Rising
  <2>2. \A p \in 1 .. c.next - 1 : c.nodes[p].leaf => g.nodes[p] = c.nodes[p]
    BY <1>1, <1>6
  <2>3. \A p \in 1 .. g.next - 1 : g.nodes[p].leaf => p \in 1 .. c.next - 1 /\ c.nodes[p].leaf
    <3> SUFFICES ASSUME NEW p \in 1 .. g.next - 1, g.nodes[p].leaf PROVE p \in 1 .. c.next - 1 /\ c.nodes[p].leaf
      OBVIOUS
    <3>1. p # c.next
      BY <1>7
    <3>2. p \in 1 .. c.next - 1
      BY <1>1, <1>3, <3>1
    <3> QED BY <1>1, <1>6, <3>1, <3>2
  <2>4. g.next \in Nat /\ c.next <= g.next
    BY <1>1, <1>3
  <2> QED BY <1>1, <2>1, <2>2, <2>3, <2>4, Rechain
<1> QED BY <1>3, <1>9, <1>10 DEF Rising, g, l2

\* The separator hangs in at the level above its child.
LEMMA TakeRises ==
    ASSUME NEW c, NEW lev, Rising(c, lev), ~ c.done, Len(c.stack) # 0
    PROVE  Rising(TakeChild(c, Top(c)), UpLev(c, lev))
<1> DEFINE g == TakeChild(c, Top(c))
           l2 == UpLev(c, lev)
           p == Top(c)
           s == InsertChild(c.nodes[Top(c)].cells, c.key, c.right)
<1>1. /\ c \in Climbs /\ c.nodes \in [Page -> Node] /\ c.next \in 2 .. MaxPages
      /\ c.next \in Nat /\ c.height \in 1 .. c.next - 1 /\ c.root \in 1 .. c.next - 1
      /\ c.right \in 1 .. c.next - 1 /\ c.right \in Page /\ c.key \in Key
      /\ lev[c.right] = lev[c.left] /\ lev[c.left] \in 1 .. c.height /\ lev[c.root] = c.height
      /\ \A q \in 1 .. c.next - 1 : q \in Page /\ lev[q] \in 1 .. c.height
  BY RisingIs
<1>2. /\ p \in 1 .. c.next - 1 /\ p \in Page /\ lev[p] = lev[c.left] + 1 /\ ~ c.nodes[p].leaf
      /\ c.nodes[p].cells \in Cells /\ c.nodes[p].link \in 1 .. c.next - 1
      /\ lev[c.nodes[p].link] = lev[c.left]
      /\ \A q \in Refs(c.nodes[p].cells) : q \in 1 .. c.next - 1 /\ lev[q] = lev[c.left]
  BY TopIs
<1>3. /\ l2 \in [Page -> Nat] /\ \A q \in 1 .. c.next - 1 : l2[q] = lev[q]
  BY UpLevIs
<1>4. /\ g \in Climbs /\ g.nodes = WithCells(c.nodes, p, s) /\ g.next = c.next /\ g.root = c.root
      /\ g.height = c.height /\ g.done = TRUE /\ s \in Cells
  BY <1>1, <1>2, TakeChildIs
<1>5. Refs(s) \subseteq Refs(c.nodes[p].cells) \cup {c.right}
  BY <1>1, <1>2, InsertChildIs
<1> HIDE DEF g, l2, s, p
<1>6. /\ g.nodes \in [Page -> Node] /\ ~ g.nodes[p].leaf
      /\ g.nodes[p].prev = c.nodes[p].prev
      /\ Kids(g.nodes[p]) = {c.nodes[p].link} \cup Refs(s)
      /\ \A q \in Page : q # p => g.nodes[q] = c.nodes[q]
  <2>1. s \in Cells
    BY <1>4
  <2>2. /\ WithCells(c.nodes, p, s) \in [Page -> Node]
        /\ WithCells(c.nodes, p, s)[p].leaf = c.nodes[p].leaf
        /\ WithCells(c.nodes, p, s)[p].prev = c.nodes[p].prev
        /\ Kids(WithCells(c.nodes, p, s)[p]) = {c.nodes[p].link} \cup Refs(s)
        /\ \A q \in Page : q # p => WithCells(c.nodes, p, s)[q] = c.nodes[q]
    BY <1>1, <1>2, <2>1, WithCellsIs, SMTT(30) DEF Recelled
  <2> QED BY <1>2, <1>4, <2>2
<1>7. PageAt(g.nodes, g.next, l2, p)
  <2>1. \A q \in Kids(g.nodes[p]) : q \in 1 .. c.next - 1 /\ lev[q] = lev[c.left]
    BY <1>1, <1>2, <1>5, <1>6
  <2>2. PageAt(c.nodes, c.next, lev, p)
    BY <1>2, RisingIs
  <2>3. g.nodes[p].prev = NoPage /\ lev[p] # 1
    BY <1>2, <1>6, <2>2 DEF PageAt
  <2>4. \A q \in Kids(g.nodes[p]) : q \in 1 .. g.next - 1 /\ l2[q] = l2[p] - 1
    BY <1>1, <1>2, <1>3, <1>4, <2>1
  <2> QED BY <1>2, <1>3, <1>6, <2>3, <2>4 DEF PageAt
<1>8. Shape(g.nodes, g.next, g.root, g.height, l2)
  <2>1. Shape(c.nodes, c.next, c.root, c.height, lev)
    BY DEF Rising
  <2>2. g.next \in c.next .. MaxPages /\ g.height \in c.height .. g.next - 1 /\ g.root \in 1 .. g.next - 1
    BY <1>1, <1>4
  <2>3. l2[g.root] = g.height
    BY <1>1, <1>3, <1>4
  <2>4. \A q \in 1 .. g.next - 1 : \/ q < c.next /\ g.nodes[q] = c.nodes[q]
                                   \/ l2[q] \in 1 .. g.height /\ PageAt(g.nodes, g.next, l2, q)
    <3> TAKE q \in 1 .. g.next - 1
    <3>1. CASE q = p
      BY <1>1, <1>2, <1>3, <1>4, <1>7, <3>1
    <3>2. CASE q # p
      BY <1>1, <1>4, <1>6, <3>2
    <3> QED BY <3>1, <3>2
  <2>5. \A q \in Page : q >= g.next => g.nodes[q] = c.nodes[q]
    BY <1>1, <1>2, <1>4, <1>6
  <2>6. g.nodes \in [Page -> Node]
    BY <1>6
  <2>7. Redrawn(c.nodes, c.next, c.height, lev, g.nodes, g.next, g.root, g.height, l2)
    BY <1>3, <2>2, <2>3, <2>4, <2>5, <2>6, Zenon DEF Redrawn
  <2> QED BY <2>1, <2>7, Reshape
<1>9. Chain(g.nodes, g.next, joined)
  <2>1. Chain(c.nodes, c.next, joined)
    BY DEF Rising
  <2>2. \A q \in 1 .. c.next - 1 : c.nodes[q].leaf => g.nodes[q] = c.nodes[q]
    BY <1>1, <1>2, <1>6
  <2>3. \A q \in 1 .. g.next - 1 : g.nodes[q].leaf => q \in 1 .. c.next - 1 /\ c.nodes[q].leaf
    BY <1>1, <1>2, <1>4, <1>6
  <2>4. g.next \in Nat /\ c.next <= g.next
    BY <1>1, <1>4
  <2> QED BY <1>1, <2>1, <2>2, <2>3, <2>4, Rechain
<1> QED BY <1>4, <1>8, <1>9 DEF Rising, g, l2

\* What a split of the page p on top of the stack leaves.
SplitTo(c, p, cells, g) ==
    /\ g \in Climbs /\ g.nodes \in [Page -> Node]
    /\ g.next = c.next + 1 /\ g.root = c.root /\ g.height = c.height /\ g.done = FALSE
    /\ g.orphan = (c.orphan \/ HalfHides(c, cells))
    /\ g.key = cells[Middle(cells)].key /\ g.left = p /\ g.right = c.next
    /\ Len(g.stack) = Len(c.stack) - 1
    /\ \A i \in 1 .. Len(g.stack) : i \in 1 .. Len(c.stack) /\ g.stack[i] = c.stack[i]
    /\ g.nodes[p].cells = LowHalf(c, cells) /\ ~ g.nodes[p].leaf
    /\ g.nodes[p].prev = c.nodes[p].prev /\ g.nodes[p].link = c.nodes[p].link
    /\ Kids(g.nodes[p]) = {c.nodes[p].link} \cup Refs(LowHalf(c, cells))
    /\ g.nodes[c.next].cells = HighHalf(c, cells) /\ ~ g.nodes[c.next].leaf
    /\ g.nodes[c.next].prev = NoPage /\ g.nodes[c.next].link = cells[Middle(cells)].ref
    /\ Kids(g.nodes[c.next]) = {cells[Middle(cells)].ref} \cup Refs(HighHalf(c, cells))
    /\ \A q \in Page : q # p /\ q # c.next => g.nodes[q] = c.nodes[q]

\* Both halves of a split page, and the stack below it.
LEMMA PoppedIs ==
    ASSUME NEW c, NEW lev, Rising(c, lev), ~ c.done, Len(c.stack) # 0,
           NEW p, p = Top(c), NEW cells, cells = c.nodes[p].cells, Len(cells) >= 1,
           NEW g, g = Popped(c, p)
    PROVE  SplitTo(c, p, cells, g)
<1>1. /\ c \in Climbs /\ c.nodes \in [Page -> Node] /\ c.next \in Page
      /\ Len(c.stack) \in Nat /\ c.key \in Key /\ c.right \in Page
      /\ \A q \in 1 .. c.next - 1 : q \in Page
  BY RisingIs
<1>2. /\ p \in Page /\ p # c.next /\ ~ c.nodes[p].leaf /\ cells \in Cells
      /\ \A q \in Refs(cells) : q \in 1 .. c.next - 1
  BY TopIs
<1>3. Refs(cells) \subseteq Page /\ Len(c.stack) >= 1
  BY <1>1, <1>2
<1>4. PICK low, high, first : /\ low = LowHalf(c, cells) /\ high = HighHalf(c, cells)
                              /\ first = cells[Middle(cells)].ref
  OBVIOUS
<1>5. low \in Cells /\ high \in Cells /\ first \in Page
  <2>1. LowHalf(c, cells) \in Cells /\ HighHalf(c, cells) \in Cells /\ cells[Middle(cells)].ref \in Refs(cells)
    BY <1>1, <1>2, HalvesAre
  <2> QED BY <1>3, <1>4, <2>1
<1>6. /\ g \in Climbs /\ g.nodes = [WithCells(c.nodes, p, low) EXCEPT ![c.next] = Internal(first, high)]
      /\ g.next = c.next + 1 /\ g.root = c.root /\ g.height = c.height /\ g.done = c.done
      /\ g.key = cells[Middle(cells)].key /\ g.left = p /\ g.right = c.next
      /\ g.orphan = (c.orphan \/ HalfHides(c, cells))
      /\ g.stack = SubSeq(c.stack, 1, Len(c.stack) - 1)
  BY <1>1, <1>2, <1>3, <1>4, SplitInternalIs
<1>7. g.done = FALSE
  BY <1>1, <1>6, ClimbsIs
<1>8. Len(g.stack) = Len(c.stack) - 1 /\ \A i \in 1 .. Len(g.stack) : i \in 1 .. Len(c.stack) /\ g.stack[i] = c.stack[i]
  <2>1. c.stack \in Seq(Page)
    BY <1>1, ClimbsIs
  <2> QED BY <1>1, <1>3, <1>6, <2>1
<1>9. PICK mid : mid = WithCells(c.nodes, p, low)
  OBVIOUS
<1>10. /\ mid \in [Page -> Node] /\ mid[p].cells = low /\ mid[p].leaf = c.nodes[p].leaf
       /\ mid[p].link = c.nodes[p].link /\ mid[p].prev = c.nodes[p].prev
       /\ Kids(mid[p]) = {c.nodes[p].link} \cup Refs(low)
       /\ \A q \in Page : q # p => mid[q] = c.nodes[q]
  <2>1. /\ WithCells(c.nodes, p, low) \in [Page -> Node]
        /\ WithCells(c.nodes, p, low)[p].cells = low
        /\ WithCells(c.nodes, p, low)[p].leaf = c.nodes[p].leaf
        /\ WithCells(c.nodes, p, low)[p].link = c.nodes[p].link
        /\ WithCells(c.nodes, p, low)[p].prev = c.nodes[p].prev
        /\ Kids(WithCells(c.nodes, p, low)[p]) = {c.nodes[p].link} \cup Refs(low)
        /\ \A q \in Page : q # p => WithCells(c.nodes, p, low)[q] = c.nodes[q]
    <3>1. c.nodes \in [Page -> Node] /\ p \in Page
      BY <1>1, <1>2
    <3>2. low \in Cells
      BY <1>5
    <3> QED BY <3>1, <3>2, WithCellsIs DEF Recelled
  <2> QED BY <1>9, <2>1
<1>11. PICK n : n = Internal(first, high)
  OBVIOUS
<1>12. n \in Node /\ ~ n.leaf /\ n.cells = high /\ n.link = first /\ n.prev = NoPage /\ Kids(n) = {first} \cup Refs(high)
  BY <1>5, <1>11, InternalIs
<1>13. g.nodes = [mid EXCEPT ![c.next] = n]
  BY <1>6, <1>9, <1>11
<1>14. g.nodes[p] = mid[p] /\ g.nodes[c.next] = n /\ \A q \in Page : q # p /\ q # c.next => g.nodes[q] = c.nodes[q]
  BY <1>1, <1>2, <1>10, <1>13
<1>15. g.nodes \in [Page -> Node]
  BY <1>6, ClimbsIs
<1> QED BY <1>2, <1>4, <1>6, <1>7, <1>8, <1>10, <1>12, <1>14, <1>15 DEF SplitTo

\* A split page and its new half stand on the same level.
LEMMA PoppedRises ==
    ASSUME NEW c, NEW lev, Rising(c, lev), ~ c.done, Len(c.stack) # 0,
           Len(c.nodes[Top(c)].cells) >= 1
    PROVE  Rising(Popped(c, Top(c)), UpLev(c, lev))
<1>a. PICK g : g = Popped(c, Top(c))
  OBVIOUS
<1>b. PICK l2 : l2 = UpLev(c, lev)
  OBVIOUS
<1>c. PICK p : p = Top(c)
  OBVIOUS
<1>d. PICK cells : cells = c.nodes[Top(c)].cells
  OBVIOUS
<1>1. /\ c \in Climbs /\ c.nodes \in [Page -> Node] /\ c.next \in 2 .. MaxPages /\ c.next \in Page
      /\ c.next \in Nat /\ c.height \in 1 .. c.next - 1 /\ c.root \in 1 .. c.next - 1
      /\ c.right \in 1 .. c.next - 1 /\ c.right \in Page /\ c.key \in Key
      /\ lev[c.right] = lev[c.left] /\ lev[c.left] \in 1 .. c.height /\ lev[c.root] = c.height
      /\ \A q \in 1 .. c.next - 1 : q \in Page /\ lev[q] \in 1 .. c.height
  BY RisingIs
<1>2. /\ p \in 1 .. c.next - 1 /\ p \in Page /\ p # c.next /\ lev[p] = lev[c.left] + 1 /\ ~ c.nodes[p].leaf
      /\ cells \in Cells /\ c.nodes[p].link \in 1 .. c.next - 1
      /\ lev[c.nodes[p].link] = lev[c.left]
      /\ \A q \in Refs(cells) : q \in 1 .. c.next - 1 /\ lev[q] = lev[c.left]
  BY <1>c, <1>d, TopIs
<1>3. /\ l2 \in [Page -> Nat] /\ l2[c.next] = lev[c.left] + 1 /\ \A q \in 1 .. c.next - 1 : l2[q] = lev[q]
  BY <1>b, UpLevIs
<1>4. /\ g \in Climbs /\ g.nodes \in [Page -> Node]
      /\ g.next = c.next + 1 /\ g.root = c.root /\ g.height = c.height /\ g.done = FALSE
      /\ g.left = p /\ g.right = c.next /\ Len(g.stack) = Len(c.stack) - 1
      /\ \A i \in 1 .. Len(g.stack) : i \in 1 .. Len(c.stack) /\ g.stack[i] = c.stack[i]
      /\ ~ g.nodes[p].leaf /\ g.nodes[p].prev = c.nodes[p].prev
      /\ Kids(g.nodes[p]) = {c.nodes[p].link} \cup Refs(LowHalf(c, cells))
      /\ ~ g.nodes[c.next].leaf /\ g.nodes[c.next].prev = NoPage
      /\ Kids(g.nodes[c.next]) = {cells[Middle(cells)].ref} \cup Refs(HighHalf(c, cells))
      /\ \A q \in Page : q # p /\ q # c.next => g.nodes[q] = c.nodes[q]
  <2>1. g = Popped(c, p) /\ cells = c.nodes[p].cells /\ Len(cells) >= 1
    BY <1>a, <1>c, <1>d
  <2>2. SplitTo(c, p, cells, g)
    BY <1>c, <2>1, PoppedIs
  <2> QED BY <2>2 DEF SplitTo
<1>5. /\ Refs(LowHalf(c, cells)) \subseteq Refs(cells) \cup {c.right}
      /\ Refs(HighHalf(c, cells)) \subseteq Refs(cells) \cup {c.right}
      /\ cells[Middle(cells)].ref \in Refs(cells)
  BY <1>1, <1>2, <1>d, HalvesAre
<1>e. PICK L : L = lev[c.left]
  OBVIOUS
<1>f. L \in Nat /\ L + 1 \in Nat /\ (L + 1) - 1 = L /\ l2[p] = L + 1 /\ l2[c.next] = L + 1
  BY <1>1, <1>2, <1>3, <1>e, SMTT(30)
<1>6. \A q \in Kids(g.nodes[p]) \cup Kids(g.nodes[c.next]) : q \in 1 .. c.next - 1 /\ lev[q] = lev[c.left]
  BY <1>1, <1>2, <1>4, <1>5
<1>7. \A q \in Kids(g.nodes[p]) \cup Kids(g.nodes[c.next]) :
         q \in 1 .. g.next - 1 /\ l2[q] = l2[p] - 1 /\ l2[q] = l2[c.next] - 1
  <2> TAKE q \in Kids(g.nodes[p]) \cup Kids(g.nodes[c.next])
  <2>1. q \in 1 .. c.next - 1 /\ l2[q] = lev[c.left]
    BY <1>3, <1>6
  <2>2. q \in 1 .. g.next - 1
    BY <1>1, <1>4, <2>1
  <2>3. l2[q] = L
    BY <1>e, <2>1
  <2> QED BY <1>f, <2>2, <2>3
<1>8. PageAt(g.nodes, g.next, l2, p)
  <2>1. PageAt(c.nodes, c.next, lev, p)
    BY <1>2, RisingIs
  <2>2. g.nodes[p].prev = NoPage /\ lev[p] # 1
    BY <1>2, <1>4, <2>1 DEF PageAt
  <2> QED BY <1>2, <1>3, <1>4, <1>7, <2>2 DEF PageAt
<1>9. PageAt(g.nodes, g.next, l2, c.next)
  <2>1. l2[c.next] # 1
    BY <1>1, <1>3
  <2> QED BY <1>4, <1>7, <2>1 DEF PageAt
<1>10. Shape(g.nodes, g.next, g.root, g.height, l2)
  <2>1. Shape(c.nodes, c.next, c.root, c.height, lev)
    BY DEF Rising
  <2>2. g.next \in c.next .. MaxPages /\ g.height \in c.height .. g.next - 1 /\ g.root \in 1 .. g.next - 1
    <3>1. c.next + Len(c.stack) < MaxPages /\ Len(c.stack) \in Nat
      BY RisingIs
    <3> QED BY <1>1, <1>4, <3>1, PagesAssumption, SMTT(30)
  <2>3. l2[g.root] = g.height
    BY <1>1, <1>3, <1>4
  <2>4. \A q \in 1 .. g.next - 1 : \/ q < c.next /\ g.nodes[q] = c.nodes[q]
                                   \/ l2[q] \in 1 .. g.height /\ PageAt(g.nodes, g.next, l2, q)
    <3> TAKE q \in 1 .. g.next - 1
    <3>1. CASE q = p
      BY <1>1, <1>2, <1>3, <1>4, <1>8, <3>1
    <3>2. CASE q = c.next
      <4>1. l2[p] = lev[p] /\ lev[p] \in 1 .. c.height
        BY <1>1, <1>2, <1>3
      <4>2. l2[c.next] = l2[p]
        BY <1>2, <1>3, <4>1
      <4> QED BY <1>4, <1>9, <3>2, <4>1, <4>2
    <3>3. CASE q # p /\ q # c.next
      <4>1. q \in 1 .. c.next - 1 /\ q < c.next
        BY <1>1, <1>4, <3>3
      <4> QED BY <1>1, <1>4, <3>3, <4>1
    <3> QED BY <3>1, <3>2, <3>3
  <2>5. \A q \in Page : q >= g.next => g.nodes[q] = c.nodes[q]
    BY <1>1, <1>2, <1>4
  <2>6. l2 \in [Page -> Nat] /\ \A q \in 1 .. c.next - 1 : l2[q] = lev[q]
    BY <1>3
  <2>7. g.nodes \in [Page -> Node]
    BY <1>4
  <2>8. Redrawn(c.nodes, c.next, c.height, lev, g.nodes, g.next, g.root, g.height, l2)
    BY <2>2, <2>3, <2>4, <2>5, <2>6, <2>7, Zenon DEF Redrawn
  <2> QED BY <2>1, <2>8, Reshape
<1>11. Chain(g.nodes, g.next, joined)
  <2>1. Chain(c.nodes, c.next, joined)
    BY DEF Rising
  <2>2. \A q \in 1 .. c.next - 1 : c.nodes[q].leaf => g.nodes[q] = c.nodes[q]
    BY <1>1, <1>2, <1>4
  <2>3. \A q \in 1 .. g.next - 1 : g.nodes[q].leaf => q \in 1 .. c.next - 1 /\ c.nodes[q].leaf
    <3> SUFFICES ASSUME NEW q \in 1 .. g.next - 1, g.nodes[q].leaf PROVE q \in 1 .. c.next - 1 /\ c.nodes[q].leaf
      OBVIOUS
    <3>1. q # c.next /\ q # p
      BY <1>4
    <3>2. q \in 1 .. c.next - 1
      BY <1>1, <1>4, <3>1
    <3>3. g.nodes[q] = c.nodes[q]
      BY <1>1, <1>4, <3>1, <3>2
    <3> QED BY <3>2, <3>3
  <2>4. g.next \in Nat /\ c.next <= g.next /\ c.next \in Nat
    BY <1>1, <1>4
  <2> QED BY <2>1, <2>2, <2>3, <2>4, Rechain
<1>12. /\ g.next + Len(g.stack) < MaxPages
       /\ g.left \in 1 .. g.next - 1 /\ l2[g.left] = g.height - Len(g.stack)
       /\ g.right \in 1 .. g.next - 1 /\ l2[g.right] = g.height - Len(g.stack)
       /\ \A i \in 1 .. Len(g.stack) : g.stack[i] \in 1 .. g.next - 1 /\ l2[g.stack[i]] = g.height - i + 1
  <2>1. /\ c.next + Len(c.stack) < MaxPages /\ Len(c.stack) \in Nat /\ lev[c.left] = c.height - Len(c.stack)
        /\ \A i \in 1 .. Len(c.stack) : c.stack[i] \in 1 .. c.next - 1 /\ lev[c.stack[i]] = c.height - i + 1
    BY RisingIs
  <2>2. g.next + Len(g.stack) < MaxPages
    BY <1>1, <1>4, <2>1, PagesAssumption
  <2>3. g.left \in 1 .. g.next - 1 /\ l2[g.left] = g.height - Len(g.stack)
    BY <1>1, <1>2, <1>3, <1>4, <2>1, SMTT(30)
  <2>4. g.right \in 1 .. g.next - 1 /\ l2[g.right] = g.height - Len(g.stack)
    <3>1. g.right \in 1 .. g.next - 1
      BY <1>1, <1>4
    <3>2. l2[g.right] = L + 1 /\ L = c.height - Len(c.stack)
      BY <1>4, <1>e, <1>f, <2>1
    <3> QED BY <1>1, <1>4, <2>1, <3>1, <3>2
  <2>5. ASSUME NEW i \in 1 .. Len(g.stack)
        PROVE  g.stack[i] \in 1 .. g.next - 1 /\ l2[g.stack[i]] = g.height - i + 1
    <3>1. g.stack[i] = c.stack[i] /\ c.stack[i] \in 1 .. c.next - 1 /\ lev[c.stack[i]] = c.height - i + 1
      BY <1>4, <2>1
    <3>2. l2[c.stack[i]] = lev[c.stack[i]]
      BY <1>3, <3>1
    <3>3. g.stack[i] \in 1 .. g.next - 1
      BY <1>1, <1>4, <3>1
    <3> QED BY <1>4, <3>1, <3>2, <3>3
  <2> QED BY <2>2, <2>3, <2>4, <2>5
<1> QED BY <1>4, <1>10, <1>11, <1>12, <1>a, <1>b DEF Rising

\* One level of the climb leaves a well shaped tree.
LEMMA UpRises ==
    ASSUME NEW c, NEW lev, Rising(c, lev)
    PROVE  Rising(Up(c), UpLev(c, lev))
<1>1. c \in Climbs /\ c.done \in BOOLEAN /\ c.nodes \in [Page -> Node] /\ c.stack \in Seq(Page)
  BY ClimbsIs DEF Rising
<1>2. CASE c.done
  BY <1>1, <1>2, UpIs DEF UpLev
<1>3. CASE ~ c.done /\ Len(c.stack) = 0
  BY <1>1, <1>3, UpIs, GrowRises
<1>4. CASE ~ c.done /\ Len(c.stack) # 0 /\ FitsChild(c.nodes[Top(c)].cells, c.key)
  BY <1>1, <1>4, UpIs, TakeRises
<1>5. CASE ~ c.done /\ Len(c.stack) # 0 /\ ~ FitsChild(c.nodes[Top(c)].cells, c.key)
  <2>1. c.nodes[Top(c)].cells \in Cells
    BY <1>5, TopIs
  <2>2. Len(c.nodes[Top(c)].cells) >= 1
    BY <1>1, <1>5, <2>1, ClimbsIs, FullHasCell
  <2> QED BY <1>1, <1>5, <2>2, UpIs, PoppedRises
<1> QED BY <1>2, <1>3, <1>4, <1>5

\* A level that is not the last takes one page off the stack.
LEMMA UpClimbs ==
    ASSUME NEW c, NEW lev, Rising(c, lev), ~ c.done
    PROVE  Up(c).done \/ (Len(c.stack) # 0 /\ Len(Up(c).stack) = Len(c.stack) - 1)
<1>1. c \in Climbs /\ c.stack \in Seq(Page) /\ c.next \in Page
  BY RisingIs, ClimbsIs
<1>2. CASE Len(c.stack) = 0
  <2>1. Up(c) = GrowRoot(c)
    BY <1>1, <1>2, UpIs
  <2>2. GrowRoot(c).done = TRUE
    BY <1>1, GrowRootIs
  <2> QED BY <2>1, <2>2
<1>3. CASE Len(c.stack) # 0 /\ FitsChild(c.nodes[Top(c)].cells, c.key)
  <2>1. Up(c) = TakeChild(c, Top(c))
    BY <1>1, <1>3, UpIs
  <2>2. Top(c) \in Page
    BY <1>3, TopIs
  <2>3. TakeChild(c, Top(c)).done = TRUE
    BY <1>1, <2>2, TakeChildIs
  <2> QED BY <2>1, <2>3
<1>4. CASE Len(c.stack) # 0 /\ ~ FitsChild(c.nodes[Top(c)].cells, c.key)
  <2>1. PICK p : p = Top(c)
    OBVIOUS
  <2>2. PICK cells : cells = c.nodes[p].cells
    OBVIOUS
  <2>3. PICK g : g = Popped(c, p)
    OBVIOUS
  <2>4. cells \in Cells
    BY <1>4, <2>1, <2>2, TopIs
  <2>5. Len(cells) >= 1
    BY <1>1, <1>4, <2>1, <2>2, <2>4, ClimbsIs, FullHasCell
  <2>6. SplitTo(c, p, cells, g)
    BY <1>4, <2>1, <2>2, <2>3, <2>5, PoppedIs
  <2>7. Up(c) = g
    BY <1>1, <1>4, <2>1, <2>3, UpIs
  <2> QED BY <1>4, <2>6, <2>7 DEF SplitTo
<1> QED BY <1>2, <1>3, <1>4

\* After a level for every page on the stack the climb has ended.
LEMMA ClimbEnds ==
    ASSUME NEW c, NEW lev0, Rising(c, lev0), ~ c.done
    PROVE  \E lev : Rising(InsertParent(c), lev) /\ InsertParent(c).done
<1> DEFINE f == UpFun(c)
           n == Len(c.stack)
           Good(d) == \E lev : Rising(f[d], lev) /\ (f[d].done \/ (d <= n /\ Len(f[d].stack) = n - d))
           S == {d \in 0 .. n + 1 : Good(d)}
<1>1. n \in Nat /\ c.next \in Nat /\ c.next >= 2 /\ c.next + n < MaxPages
  BY RisingIs
<1>2. /\ InsertParent(c) = f[n + 1] /\ f[0] = c
      /\ \A d \in 1 .. MaxPages : f[d] = Up(f[d - 1])
  BY UpFunIs
<1> HIDE DEF f, n
<1>3. 0 \in S
  BY <1>1, <1>2 DEF n
<1>4. ASSUME NEW d \in 0 .. n + 1 - 1, d \in S PROVE d + 1 \in S
  <2>1. PICK lev : Rising(f[d], lev) /\ (f[d].done \/ (d <= n /\ Len(f[d].stack) = n - d))
    BY <1>4
  <2>2. f[d + 1] = Up(f[d])
    <3>1. d + 1 \in 1 .. MaxPages /\ (d + 1) - 1 = d
      BY <1>1, PagesAssumption
    <3> QED BY <1>2, <3>1
  <2>3. Rising(f[d + 1], UpLev(f[d], lev))
    BY <2>1, <2>2, UpRises
  <2>4. f[d + 1].done \/ (d + 1 <= n /\ Len(f[d + 1].stack) = n - (d + 1))
    <3>1. CASE f[d].done
      <4>1. f[d] \in Climbs
        BY <2>1 DEF Rising
      <4>2. f[d + 1] = f[d]
        BY <2>2, <3>1, <4>1, UpIs
      <4> QED BY <3>1, <4>2
    <3>2. CASE ~ f[d].done
      <4>1. Up(f[d]).done \/ (Len(f[d].stack) # 0 /\ Len(Up(f[d]).stack) = Len(f[d].stack) - 1)
        BY <2>1, <3>2, UpClimbs
      <4> QED BY <1>1, <2>1, <2>2, <3>2, <4>1
    <3> QED BY <3>1, <3>2
  <2> QED BY <1>1, <2>3, <2>4
<1>5. n + 1 \in S
  <2> HIDE DEF S
  <2>1. \A d \in 0 .. n + 1 : d \in S
    BY <1>1, <1>3, <1>4, Steps
  <2> QED BY <1>1, <2>1
<1>6. Good(n + 1)
  BY <1>5
<1>7. PICK lev : Rising(f[n + 1], lev) /\ (f[n + 1].done \/ n + 1 <= n)
  BY <1>6
<1> QED BY <1>1, <1>2, <1>7

-------------------------------------------------------------------------------
\* Leaves

\* A leaf without a key is a leaf.
LEMMA WithoutIs ==
    ASSUME NEW s \in Seq(Cell(Val)), NEW k
    PROVE  Without(s, k) \in Seq(Cell(Val))
<1>1. CASE At(s, k) = {}
  BY <1>1 DEF Without
<1>2. CASE At(s, k) # {}
  <2>1. PICK i : i = CHOOSE x \in At(s, k) : TRUE
    OBVIOUS
  <2>2. i \in At(s, k)
    BY <1>2, <2>1
  <2>3. i \in 1 .. Len(s)
    BY <2>2, LenProperties DEF At
  <2>4. Without(s, k) = Cut(s, i)
    BY <1>2, <2>1 DEF Without
  <2> QED BY <2>3, <2>4, CutIs
<1> QED BY <1>1, <1>2

\* A leaf with a value put in is a leaf.
LEMMA InsertLeafCellIs ==
    ASSUME NEW s \in Seq(Cell(Val)), NEW k \in Key, NEW v \in Val
    PROVE  /\ InsertLeafCell(s, k, v).cells \in Seq(Cell(Val)) /\ InsertLeafCell(s, k, v).ok \in BOOLEAN
           /\ ~ InsertLeafCell(s, k, v).ok => Len(InsertLeafCell(s, k, v).cells) >= 1
<1>1. PICK rest : rest = Without(s, k)
  OBVIOUS
<1>2. rest \in Seq(Cell(Val))
  BY <1>1, WithoutIs
<1>3. PICK hit : hit = At(s, k)
  OBVIOUS
<1>4. PICK c \in Cell(Val) : c = [key |-> k, ref |-> v]
  BY DEF Cell
<1>5. PICK over : over = [i \in DOMAIN s |-> IF i \in hit THEN c ELSE s[i]]
  OBVIOUS
<1>6. over \in Seq(Cell(Val))
  <2>1. Len(s) \in Nat /\ DOMAIN s = 1 .. Len(s) /\ \A i \in 1 .. Len(s) : s[i] \in Cell(Val)
    BY ElementOfSeq, LenProperties
  <2>2. over \in [1 .. Len(s) -> Cell(Val)]
    BY <1>5, <2>1
  <2> QED BY <2>1, <2>2, SeqDef
<1>7. PICK b : b = Below(rest, k)
  OBVIOUS
<1>8. b \in 0 .. Len(rest)
  BY <1>2, <1>7, BelowInRange
<1>9. PICK put : put = InsertAt(rest, b, c)
  OBVIOUS
<1>10. put \in Seq(Cell(Val))
  BY <1>2, <1>8, <1>9, InsertAtIs
<1>11. InsertLeafCell(s, k, v) =
          IF \E i \in hit : ValLen[s[i].ref] = ValLen[v] THEN [ok |-> TRUE, cells |-> over]
          ELSE IF Fits(TRUE, rest, c) THEN [ok |-> TRUE, cells |-> put]
          ELSE [ok |-> FALSE, cells |-> rest]
  BY <1>1, <1>3, <1>4, <1>5, <1>7, <1>9 DEF InsertLeafCell
<1>12. ASSUME ~ Fits(TRUE, rest, c) PROVE Len(rest) >= 1
  <2>1. Len(rest) \in Nat
    BY <1>2
  <2>2. ASSUME Len(rest) = 0 PROVE FALSE
    <3>1. rest = << >>
      BY <1>2, <2>2
    <3>2. Used(TRUE, rest) = 0
      BY <3>1, EmptyUsed
    <3>3. LeafCell(k, v) \in Nat /\ LeafCell(k, v) <= Room
      BY PairAssumption, LengthAssumption DEF LeafCell
    <3>4. CellSize(TRUE, c) = LeafCell(k, v)
      BY <1>4 DEF CellSize
    <3>5. ~ (0 + LeafCell(k, v) <= Room)
      BY <1>12, <3>2, <3>4 DEF Fits
    <3> QED BY <3>3, <3>5
  <2> QED BY <2>1, <2>2
<1>13. CASE \E i \in hit : ValLen[s[i].ref] = ValLen[v]
  <2>1. InsertLeafCell(s, k, v) = [ok |-> TRUE, cells |-> over]
    BY <1>11, <1>13
  <2> QED BY <1>6, <2>1
<1>14. CASE ~ (\E i \in hit : ValLen[s[i].ref] = ValLen[v]) /\ Fits(TRUE, rest, c)
  <2>1. InsertLeafCell(s, k, v) = [ok |-> TRUE, cells |-> put]
    BY <1>11, <1>14
  <2> QED BY <1>10, <2>1
<1>15. CASE ~ (\E i \in hit : ValLen[s[i].ref] = ValLen[v]) /\ ~ Fits(TRUE, rest, c)
  <2>1. InsertLeafCell(s, k, v) = [ok |-> FALSE, cells |-> rest]
    BY <1>11, <1>15
  <2> QED BY <1>2, <1>12, <1>15, <2>1
<1> QED BY <1>13, <1>14, <1>15

\* The parts of a leaf.
LEMMA LeafIs ==
    ASSUME NEW s \in Seq(Cell(Val)), NEW a \in Page \cup {NoPage}, NEW b \in Page \cup {NoPage}
    PROVE  /\ Leaf(s, a, b) \in Node /\ Leaf(s, a, b).leaf /\ Leaf(s, a, b).cells = s
           /\ Leaf(s, a, b).prev = a /\ Leaf(s, a, b).link = b
<1>1. s \in Cells
  BY LeafCells
<1> QED BY <1>1 DEF Leaf, Node

\* The two leaves of a split, and the one behind them.
LeavesSplit(nodes, l, left, new, right, old, r) ==
    /\ r \in [Page -> Node]
    /\ r[l].leaf /\ r[l].cells = left /\ r[l].prev = nodes[l].prev /\ r[l].link = new
    /\ r[new].leaf /\ r[new].cells = right /\ r[new].prev = l /\ r[new].link = old
    /\ old # NoPage /\ old # l => /\ r[old].leaf = nodes[old].leaf /\ r[old].cells = nodes[old].cells
                                  /\ r[old].prev = new /\ r[old].link = nodes[old].link
    /\ \A p \in Page : p # l /\ p # new /\ p # old => r[p] = nodes[p]

\* The split changes no other page than these.
LEMMA RelinkedIs ==
    ASSUME NEW nodes \in [Page -> Node], NEW l \in Page, NEW new \in Page, NEW old \in Page \cup {NoPage},
           l # new, old # new,
           NEW left \in Seq(Cell(Val)), NEW right \in Seq(Cell(Val)),
           NEW r, r = Relinked(nodes, l, left, new, right, old)
    PROVE  LeavesSplit(nodes, l, left, new, right, old, r)
<1>1. nodes[l] \in Node /\ nodes[l].prev \in Page \cup {NoPage}
  BY NodeIs
<1>2. PICK a : a = Leaf(left, nodes[l].prev, new)
  OBVIOUS
<1>a. new \in Page \cup {NoPage} /\ l \in Page \cup {NoPage}
  OBVIOUS
<1>3. a \in Node /\ a.leaf /\ a.cells = left /\ a.prev = nodes[l].prev /\ a.link = new
  <2>1. PICK pv \in Page \cup {NoPage} : pv = nodes[l].prev
    BY <1>1
  <2>2. a = Leaf(left, pv, new)
    BY <1>2, <2>1
  <2> QED BY <1>a, <2>1, <2>2, LeafIs
<1>4. PICK b : b = Leaf(right, l, old)
  OBVIOUS
<1>5. b \in Node /\ b.leaf /\ b.cells = right /\ b.prev = l /\ b.link = old
  BY <1>4, <1>a, LeafIs
<1>6. PICK d : d = [nodes[old] EXCEPT !.prev = new]
  OBVIOUS
<1>7. old # NoPage =>
         /\ d \in Node /\ d.leaf = nodes[old].leaf /\ d.cells = nodes[old].cells
         /\ d.prev = new /\ d.link = nodes[old].link
  <2> SUFFICES ASSUME old # NoPage
               PROVE  /\ d \in Node /\ d.leaf = nodes[old].leaf /\ d.cells = nodes[old].cells
                      /\ d.prev = new /\ d.link = nodes[old].link
    OBVIOUS
  <2>1. nodes[old] \in Node
    OBVIOUS
  <2> QED BY <1>6, <2>1 DEF Node
<1>8. /\ DOMAIN r = Page /\ r = [p \in DOMAIN r |-> r[p]]
      /\ \A p \in Page : r[p] = IF p = l THEN a ELSE IF p = new THEN b ELSE IF p = old THEN d ELSE nodes[p]
  <2>1. r = [p \in Page |-> CASE p = l -> a [] p = new -> b [] p = old /\ p # l -> [nodes[p] EXCEPT !.prev = new]
                              [] OTHER -> nodes[p]]
    BY <1>2, <1>4 DEF Relinked
  <2>2. DOMAIN r = Page
    BY <2>1
  <2>3. ASSUME NEW p \in Page
        PROVE  r[p] = IF p = l THEN a ELSE IF p = new THEN b ELSE IF p = old THEN d ELSE nodes[p]
    <3>1. r[p] = CASE p = l -> a [] p = new -> b [] p = old /\ p # l -> [nodes[p] EXCEPT !.prev = new]
                   [] OTHER -> nodes[p]
      BY <2>1
    <3>2. CASE p = l
      <4>1. r[p] = a
        BY <3>1, <3>2
      <4> QED BY <3>2, <4>1
    <3>3. CASE p # l /\ p = new
      BY <3>1, <3>3
    <3>4. CASE p # l /\ p # new /\ p = old
      <4>1. r[p] = [nodes[p] EXCEPT !.prev = new]
        BY <3>1, <3>4
      <4>2. nodes[p] = nodes[old]
        BY <3>4
      <4>3. r[p] = d
        BY <1>6, <4>1, <4>2, Zenon
      <4> QED BY <3>4, <4>3
    <3>5. CASE p # l /\ p # new /\ p # old
      <4>1. r[p] = nodes[p]
        BY <3>1, <3>5
      <4> QED BY <3>5, <4>1
    <3> QED BY <3>2, <3>3, <3>4, <3>5
  <2>4. r = [p \in DOMAIN r |-> r[p]]
    BY <2>1
  <2> QED BY <2>2, <2>3, <2>4
<1>9. ASSUME NEW p \in Page PROVE r[p] \in Node
  <2>1. r[p] = IF p = l THEN a ELSE IF p = new THEN b ELSE IF p = old THEN d ELSE nodes[p]
    BY <1>8
  <2>2. p = old => old # NoPage
    BY DEF Page, NoPage
  <2>3. nodes[p] \in Node
    OBVIOUS
  <2> QED BY <1>3, <1>5, <1>7, <2>1, <2>2, <2>3
<1>10. r \in [Page -> Node]
  BY <1>8, <1>9
<1> QED BY <1>3, <1>5, <1>7, <1>8, <1>10 DEF LeavesSplit

\* The tree with the leaf l split, its new half not yet hung in.
LEMMA SplitShape ==
    ASSUME NEW lev, Shape(node, total, root, height, lev), Chain(node, total, joined),
           NEW l \in 1 .. total - 1, node[l].leaf, total < MaxPages,
           NEW left \in Seq(Cell(Val)), NEW right \in Seq(Cell(Val)),
           NEW r, r = Relinked(node, l, left, total, right, node[l].link),
           NEW l2, l2 = [lev EXCEPT ![total] = 1]
    PROVE  Shape(r, total + 1, root, height, l2) /\ Chain(r, total + 1, joined)
<1> USE PagesAssumption
<1>1. /\ total \in 2 .. MaxPages /\ height \in 1 .. total - 1 /\ root \in 1 .. total - 1
      /\ node \in [Page -> Node] /\ lev \in [Page -> Nat] /\ lev[root] = height
      /\ \A p \in 1 .. total - 1 : lev[p] \in 1 .. height /\ PageAt(node, total, lev, p)
      /\ \A p \in Page : p >= total => node[p] = Blank
  BY DEF Shape
<1>2. total \in Page /\ \A p \in 1 .. total - 1 : p \in Page /\ p # total
  BY <1>1 DEF Page
<1>3. PICK old : old = node[l].link
  OBVIOUS
<1>4. /\ old # NoPage => old \in 1 .. total - 1 /\ node[old].leaf
      /\ node[l].prev # NoPage => node[l].prev \in 1 .. total - 1 /\ node[node[l].prev].leaf
      /\ ~ joined => /\ old # l
                     /\ old # NoPage => node[old].prev = l
                     /\ node[l].prev # NoPage => node[node[l].prev].link = l
  BY <1>3 DEF Chain
<1>5. old \in Page \cup {NoPage} /\ old # total
  BY <1>1, <1>2, <1>4 DEF NoPage
<1>6. /\ r \in [Page -> Node]
      /\ r[l].leaf /\ r[l].cells = left /\ r[l].prev = node[l].prev /\ r[l].link = total
      /\ r[total].leaf /\ r[total].cells = right /\ r[total].prev = l /\ r[total].link = old
      /\ old # NoPage /\ old # l => /\ r[old].leaf = node[old].leaf /\ r[old].cells = node[old].cells
                                    /\ r[old].prev = total /\ r[old].link = node[old].link
      /\ \A p \in Page : p # l /\ p # total /\ p # old => r[p] = node[p]
  <2>1. l \in Page /\ l # total /\ r = Relinked(node, l, left, total, right, old)
    BY <1>2, <1>3
  <2>2. LeavesSplit(node, l, left, total, right, old, r)
    BY <1>1, <1>2, <1>5, <2>1, RelinkedIs
  <2> QED BY <2>2 DEF LeavesSplit
<1>7. l2 \in [Page -> Nat] /\ l2[total] = 1 /\ \A p \in 1 .. total - 1 : l2[p] = lev[p]
  BY <1>1, <1>2
<1>8. /\ \A i \in DOMAIN left : left[i].ref \in Val
      /\ \A i \in DOMAIN right : right[i].ref \in Val
  BY LeafCells
<1>9. PageAt(r, total + 1, l2, l) /\ PageAt(r, total + 1, l2, total)
  <2>1. lev[l] = 1
    BY <1>1 DEF PageAt
  <2> QED BY <1>6, <1>7, <1>8, <2>1 DEF PageAt
<1>10. old # NoPage /\ old # l => PageAt(r, total + 1, l2, old)
  <2> SUFFICES ASSUME old # NoPage, old # l PROVE PageAt(r, total + 1, l2, old)
    OBVIOUS
  <2>1. PageAt(node, total, lev, old) /\ node[old].leaf /\ l2[old] = lev[old]
    BY <1>1, <1>4, <1>7
  <2> QED BY <1>6, <2>1 DEF PageAt
<1>11. Shape(r, total + 1, root, height, l2)
  <2>1. \A p \in 1 .. (total + 1) - 1 : \/ p < total /\ r[p] = node[p]
                                        \/ l2[p] \in 1 .. height /\ PageAt(r, total + 1, l2, p)
    <3> TAKE p \in 1 .. (total + 1) - 1
    <3>1. CASE p = total
      BY <1>1, <1>7, <1>9, <3>1
    <3>2. CASE p # total /\ (p = l \/ p = old)
      <4>1. p \in 1 .. total - 1 /\ p # NoPage
        BY <1>1, <3>2 DEF NoPage
      <4> QED BY <1>1, <1>7, <1>9, <1>10, <3>2, <4>1
    <3>3. CASE p # total /\ p # l /\ p # old
      <4>1. p \in 1 .. total - 1 /\ p < total
        BY <1>1, <3>3
      <4> QED BY <1>2, <1>6, <3>3, <4>1
    <3> QED BY <3>1, <3>2, <3>3
  <2>2. \A p \in Page : p >= total + 1 => r[p] = node[p]
    <3> TAKE p \in Page
    <3>1. p >= total + 1 => p # l /\ p # total /\ p # old
      BY <1>1, <1>4, SMTT(30) DEF Page, NoPage
    <3> QED BY <1>6, <3>1
  <2>3. /\ total + 1 \in total .. MaxPages /\ height \in height .. (total + 1) - 1 /\ root \in 1 .. (total + 1) - 1
        /\ l2[root] = height
    BY <1>1, <1>7
  <2>4. r \in [Page -> Node] /\ l2 \in [Page -> Nat] /\ \A p \in 1 .. total - 1 : l2[p] = lev[p]
    BY <1>6, <1>7
  <2>5. Redrawn(node, total, height, lev, r, total + 1, root, height, l2)
    BY <2>1, <2>2, <2>3, <2>4 DEF Redrawn
  <2> QED BY <2>5, Reshape
<1>12. Chain(r, total + 1, joined)
  <2> SUFFICES ASSUME NEW p \in 1 .. (total + 1) - 1, r[p].leaf
               PROVE  /\ r[p].link # NoPage => r[p].link \in 1 .. (total + 1) - 1 /\ r[r[p].link].leaf
                      /\ r[p].prev # NoPage => r[p].prev \in 1 .. (total + 1) - 1 /\ r[r[p].prev].leaf
                      /\ ~ joined => /\ r[p].link # p
                                     /\ r[p].link # NoPage => r[r[p].link].prev = p
                                     /\ r[p].prev # NoPage => r[r[p].prev].link = p
    BY DEF Chain
  <2>1. \A q \in 1 .. total - 1 : q \in 1 .. (total + 1) - 1 /\ (node[q].leaf => r[q].leaf)
    <3> TAKE q \in 1 .. total - 1
    <3>1. q # NoPage /\ q \in Page /\ q # total
      BY <1>1, <1>2 DEF NoPage
    <3> QED BY <1>1, <1>6, <3>1, SMTT(30)
  <2>2. total # NoPage /\ l # NoPage /\ total \in 1 .. (total + 1) - 1
    BY <1>1 DEF NoPage
  <2>3. CASE p = l
    <3>1. r[p].link = total /\ r[p].prev = node[l].prev /\ l # total /\ l \in Page
      BY <1>2, <1>6, <2>3
    <3>2. r[p].link # NoPage => r[p].link \in 1 .. (total + 1) - 1 /\ r[r[p].link].leaf
      BY <1>6, <2>2, <3>1
    <3>3. r[p].prev # NoPage => r[p].prev \in 1 .. (total + 1) - 1 /\ r[r[p].prev].leaf
      BY <1>4, <2>1, <3>1
    <3>4. ASSUME ~ joined, r[p].prev # NoPage PROVE r[r[p].prev].link = p
      <4>1. PICK q : q = node[l].prev
        OBVIOUS
      <4>2. q \in 1 .. total - 1 /\ node[q].link = l
        BY <1>4, <3>1, <3>4, <4>1
      <4>3. q # l
        BY <1>3, <1>4, <3>4, <4>2
      <4>4. r[q].link = node[q].link
        BY <1>2, <1>6, <4>2, <4>3 DEF NoPage
      <4> QED BY <2>3, <3>1, <4>1, <4>2, <4>4
    <3>5. r[p].link # p /\ r[r[p].link].prev = p
      BY <1>6, <2>3, <3>1
    <3> QED BY <3>2, <3>3, <3>4, <3>5
  <2>4. CASE p = total
    BY <1>2, <1>4, <1>6, <2>1, <2>2, <2>4
  <2>5. CASE p # l /\ p # total
    <3>1. p \in 1 .. total - 1 /\ p \in Page
      BY <1>1, <1>2, <2>5
    <3>2. node[p].leaf /\ r[p].link = node[p].link /\ (p # old => r[p].prev = node[p].prev)
      BY <1>6, <2>5, <3>1 DEF NoPage
    <3>3. /\ node[p].link # NoPage => node[p].link \in 1 .. total - 1 /\ node[node[p].link].leaf
          /\ node[p].prev # NoPage => node[p].prev \in 1 .. total - 1 /\ node[node[p].prev].leaf
          /\ ~ joined => /\ node[p].link # p
                         /\ node[p].link # NoPage => node[node[p].link].prev = p
                         /\ node[p].prev # NoPage => node[node[p].prev].link = p
      BY <3>1, <3>2 DEF Chain
    <3>4. CASE p = old
      <4>1. r[p].prev = total /\ r[total].leaf /\ r[total].link = p /\ old # NoPage
        BY <1>6, <2>5, <3>1, <3>4 DEF NoPage
      <4>2. r[p].link # NoPage => r[p].link \in 1 .. (total + 1) - 1 /\ r[r[p].link].leaf
        BY <2>1, <3>2, <3>3
      <4>3. ASSUME ~ joined PROVE r[p].link # p /\ (r[p].link # NoPage => r[r[p].link].prev = p)
        <5>1. node[p].link # l \/ node[l].prev = p
          BY <3>3, <4>3, <2>2
        <5>2. SUFFICES ASSUME r[p].link # NoPage PROVE r[r[p].link].prev = p
          BY <3>2, <3>3, <4>3
        <5>3. PICK q : q = node[p].link
          OBVIOUS
        <5>4. q \in 1 .. total - 1 /\ node[q].prev = p /\ q # p
          BY <3>2, <3>3, <4>3, <5>2, <5>3
        <5>5. r[q].prev = node[q].prev
          BY <1>2, <1>6, <3>4, <5>4
        <5> QED BY <3>2, <5>3, <5>4, <5>5
      <4> QED BY <2>2, <4>1, <4>2, <4>3
    <3>5. CASE p # old
      <4>1. /\ r[p].link # NoPage => r[p].link \in 1 .. (total + 1) - 1 /\ r[r[p].link].leaf
            /\ r[p].prev # NoPage => r[p].prev \in 1 .. (total + 1) - 1 /\ r[r[p].prev].leaf
        BY <2>1, <3>2, <3>3, <3>5
      <4>2. ASSUME ~ joined
            PROVE  /\ r[p].link # p
                   /\ r[p].link # NoPage => r[r[p].link].prev = p
                   /\ r[p].prev # NoPage => r[r[p].prev].link = p
        <5>1. r[p].link # p
          BY <3>2, <3>3, <4>2
        <5>2. ASSUME r[p].link # NoPage PROVE r[r[p].link].prev = p
          <6>1. PICK q : q = node[p].link
            OBVIOUS
          <6>2. q \in 1 .. total - 1 /\ node[q].prev = p
            BY <3>2, <3>3, <4>2, <5>2, <6>1
          <6>3. q # old
            BY <1>4, <2>5, <4>2, <6>2 DEF NoPage
          <6>4. r[q].prev = node[q].prev
            BY <1>2, <1>6, <6>2, <6>3
          <6> QED BY <3>2, <6>1, <6>2, <6>4
        <5>3. ASSUME r[p].prev # NoPage PROVE r[r[p].prev].link = p
          <6>1. PICK q : q = node[p].prev
            OBVIOUS
          <6>2. q \in 1 .. total - 1 /\ node[q].link = p
            BY <3>2, <3>3, <3>5, <4>2, <5>3, <6>1
          <6>3. q # l
            BY <1>3, <3>5, <6>2
          <6>4. r[q].link = node[q].link
            BY <1>2, <1>6, <6>2, <6>3 DEF NoPage
          <6> QED BY <3>2, <3>5, <6>1, <6>2, <6>4
        <5> QED BY <5>1, <5>2, <5>3
      <4> QED BY <4>1, <4>2
    <3> QED BY <3>4, <3>5
  <2> QED BY <2>3, <2>4, <2>5
<1> QED BY <1>11, <1>12

\* A leaf whose cells were changed.
LEMMA RecellShape ==
    ASSUME NEW nodes, NEW tot, NEW rt, NEW h, NEW lev, NEW j, Shape(nodes, tot, rt, h, lev),
           Chain(nodes, tot, j), NEW l \in 1 .. tot - 1, nodes[l].leaf, NEW s \in Seq(Cell(Val)),
           NEW r, r = WithCells(nodes, l, s)
    PROVE  Shape(r, tot, rt, h, lev) /\ Chain(r, tot, j)
<1> USE PagesAssumption
<1>1. /\ tot \in 2 .. MaxPages /\ h \in 1 .. tot - 1 /\ rt \in 1 .. tot - 1
      /\ nodes \in [Page -> Node] /\ lev \in [Page -> Nat] /\ lev[rt] = h
      /\ \A p \in 1 .. tot - 1 : lev[p] \in 1 .. h /\ PageAt(nodes, tot, lev, p)
  BY DEF Shape
<1>2. \A p \in 1 .. tot - 1 : p \in Page
  BY <1>1 DEF Page
<1>3. s \in Cells /\ \A i \in DOMAIN s : s[i].ref \in Val
  BY LeafCells
<1>4. /\ r \in [Page -> Node] /\ r[l].cells = s /\ r[l].leaf = nodes[l].leaf
      /\ r[l].link = nodes[l].link /\ r[l].prev = nodes[l].prev
      /\ \A q \in Page : q # l => r[q] = nodes[q]
  <2>1. l \in Page
    BY <1>2
  <2>2. nodes \in [Page -> Node]
    BY <1>1
  <2>3. s \in Cells
    BY <1>3
  <2>4. Recelled(nodes, l, s, r)
    BY <2>1, <2>2, <2>3, WithCellsIs
  <2> QED BY <2>4 DEF Recelled
<1>5. PageAt(r, tot, lev, l)
  <2>1. PageAt(nodes, tot, lev, l)
    BY <1>1
  <2> QED BY <1>3, <1>4, <2>1 DEF PageAt
<1>6. Shape(r, tot, rt, h, lev)
  <2>1. \A p \in 1 .. tot - 1 : \/ p < tot /\ r[p] = nodes[p]
                                \/ lev[p] \in 1 .. h /\ PageAt(r, tot, lev, p)
    BY <1>1, <1>2, <1>4, <1>5
  <2>2. \A p \in Page : p >= tot => r[p] = nodes[p]
    BY <1>1, <1>4
  <2>3. tot \in tot .. MaxPages /\ h \in h .. tot - 1
    BY <1>1
  <2>4. Redrawn(nodes, tot, h, lev, r, tot, rt, h, lev)
    BY <1>1, <1>4, <2>1, <2>2, <2>3 DEF Redrawn
  <2> QED BY <2>4, Reshape
<1>7. Chain(r, tot, j)
  <2>1. \A p \in 1 .. tot - 1 : r[p].leaf = nodes[p].leaf /\ r[p].link = nodes[p].link /\ r[p].prev = nodes[p].prev
    BY <1>2, <1>4
  <2> QED BY <2>1 DEF Chain
<1> QED BY <1>6, <1>7

\* The leaf l taken out of the chain.
LeafOut(nodes, l, r) ==
    \A p \in Page : /\ r[p].leaf = nodes[p].leaf /\ r[p].cells = nodes[p].cells
                    /\ r[p].link = IF p = nodes[l].prev THEN nodes[l].link ELSE nodes[p].link
                    /\ r[p].prev = IF p = nodes[l].link THEN nodes[l].prev ELSE nodes[p].prev

\* The neighbours of a leaf joined over it.
LEMMA UnlinkedShape ==
    ASSUME NEW nodes, NEW tot, NEW rt, NEW h, NEW lev, NEW j, Shape(nodes, tot, rt, h, lev),
           Chain(nodes, tot, j), NEW l \in 1 .. tot - 1, nodes[l].leaf,
           NEW r, r = Unlinked(nodes, l)
    PROVE  Shape(r, tot, rt, h, lev) /\ Chain(r, tot, TRUE) /\ LeafOut(nodes, l, r)
<1> USE PagesAssumption
<1>1. /\ tot \in 2 .. MaxPages /\ h \in 1 .. tot - 1 /\ rt \in 1 .. tot - 1
      /\ nodes \in [Page -> Node] /\ lev \in [Page -> Nat] /\ lev[rt] = h
      /\ \A p \in 1 .. tot - 1 : lev[p] \in 1 .. h /\ PageAt(nodes, tot, lev, p)
      /\ \A p \in Page : p >= tot => nodes[p] = Blank
  BY DEF Shape
<1>2. \A p \in 1 .. tot - 1 : p \in Page
  BY <1>1 DEF Page
<1>3. PICK a, b : a = nodes[l].prev /\ b = nodes[l].link
  OBVIOUS
<1>4. /\ a # NoPage => a \in 1 .. tot - 1 /\ nodes[a].leaf
      /\ b # NoPage => b \in 1 .. tot - 1 /\ nodes[b].leaf
  BY <1>3 DEF Chain
<1>5. a \in Page \cup {NoPage} /\ b \in Page \cup {NoPage}
  BY <1>2, <1>4
<1>6. ASSUME NEW p \in Page
      PROVE  /\ r[p] \in Node /\ r[p].leaf = nodes[p].leaf /\ r[p].cells = nodes[p].cells
             /\ r[p].link = (IF p = a THEN b ELSE nodes[p].link)
             /\ r[p].prev = (IF p = b THEN a ELSE nodes[p].prev)
  <2>1. nodes[p] \in Node
    BY <1>1
  <2>2. PICK x, y : x = (IF p = a THEN b ELSE nodes[p].link) /\ y = (IF p = b THEN a ELSE nodes[p].prev)
    OBVIOUS
  <2>3. x \in Page \cup {NoPage} /\ y \in Page \cup {NoPage}
    BY <1>5, <2>1, <2>2, NodeIs
  <2>4. r[p] = [nodes[p] EXCEPT !.link = x, !.prev = y]
    <3>1. r[p] = [nodes[p] EXCEPT !.link = IF p = nodes[l].prev THEN nodes[l].link ELSE @,
                                  !.prev = IF p = nodes[l].link THEN nodes[l].prev ELSE @]
      BY DEF Unlinked
    <3> QED BY <1>3, <2>1, <2>2, <3>1 DEF Node
  <2> QED BY <2>1, <2>2, <2>3, <2>4 DEF Node
<1>7. r \in [Page -> Node]
  <2>1. r = [p \in Page |-> [nodes[p] EXCEPT !.link = IF p = nodes[l].prev THEN nodes[l].link ELSE @,
                                  !.prev = IF p = nodes[l].link THEN nodes[l].prev ELSE @]]
    BY DEF Unlinked
  <2>2. DOMAIN r = Page /\ r = [p \in DOMAIN r |-> r[p]]
    BY <2>1
  <2> QED BY <1>6, <2>2
<1>8. ASSUME NEW p \in 1 .. tot - 1 PROVE PageAt(r, tot, lev, p)
  <2>1. PageAt(nodes, tot, lev, p) /\ p \in Page
    BY <1>1, <1>2
  <2>2. /\ r[p].leaf = nodes[p].leaf /\ r[p].cells = nodes[p].cells
        /\ r[p].link = (IF p = a THEN b ELSE nodes[p].link)
        /\ r[p].prev = (IF p = b THEN a ELSE nodes[p].prev)
    BY <1>6, <2>1
  <2>3. ~ nodes[p].leaf => p # a /\ p # b
    BY <1>4, <2>1 DEF Page, NoPage
  <2>4. ~ nodes[p].leaf => Kids(r[p]) = Kids(nodes[p]) /\ r[p].prev = nodes[p].prev
    BY <2>2, <2>3 DEF Kids
  <2> QED BY <2>1, <2>2, <2>4 DEF PageAt
<1>9. \A p \in Page : p >= tot => r[p] = nodes[p]
  <2> SUFFICES ASSUME NEW p \in Page, p >= tot PROVE r[p] = nodes[p]
    OBVIOUS
  <2>1. p # a /\ p # b
    BY <1>1, <1>4 DEF Page, NoPage
  <2>2. r[p] \in Node /\ nodes[p] \in Node
    BY <1>1, <1>6
  <2>3. /\ r[p].leaf = nodes[p].leaf /\ r[p].cells = nodes[p].cells
        /\ r[p].link = nodes[p].link /\ r[p].prev = nodes[p].prev
    BY <1>6, <2>1
  <2> QED BY <2>2, <2>3 DEF Node
<1>10. Shape(r, tot, rt, h, lev)
  <2>1. \A p \in 1 .. tot - 1 : lev[p] \in 1 .. h /\ PageAt(r, tot, lev, p)
    BY <1>1, <1>8
  <2>2. \A p \in Page : p >= tot => r[p] = Blank
    BY <1>1, <1>9
  <2> QED BY <1>1, <1>7, <2>1, <2>2 DEF Shape
<1>11. Chain(r, tot, TRUE)
  <2>1. \A p \in 1 .. tot - 1 : r[p].leaf = nodes[p].leaf
    BY <1>2, <1>6
  <2>2. ASSUME NEW p \in 1 .. tot - 1, r[p].leaf
        PROVE  /\ r[p].link # NoPage => r[p].link \in 1 .. tot - 1 /\ nodes[r[p].link].leaf
               /\ r[p].prev # NoPage => r[p].prev \in 1 .. tot - 1 /\ nodes[r[p].prev].leaf
    <3>1. /\ nodes[p].link # NoPage => nodes[p].link \in 1 .. tot - 1 /\ nodes[nodes[p].link].leaf
          /\ nodes[p].prev # NoPage => nodes[p].prev \in 1 .. tot - 1 /\ nodes[nodes[p].prev].leaf
      BY <2>1, <2>2 DEF Chain
    <3>2. /\ r[p].link = (IF p = a THEN b ELSE nodes[p].link)
          /\ r[p].prev = (IF p = b THEN a ELSE nodes[p].prev)
      BY <1>2, <1>6
    <3> QED BY <1>4, <3>1, <3>2
  <2> QED BY <2>1, <2>2 DEF Chain
<1>12. LeafOut(nodes, l, r)
  BY <1>3, <1>6 DEF LeafOut
<1> QED BY <1>10, <1>11, <1>12

-------------------------------------------------------------------------------
\* The tree stays well shaped

TreeInv ==
    /\ content \in [Key -> Val \cup {NoVal}] /\ joined \in BOOLEAN
    /\ dropped \subseteq Key /\ orphaned \in BOOLEAN
    /\ Chain(node, total, joined)
    /\ \E lev : Shape(node, total, root, height, lev)

\* The leaf of a key is the last page of its path.
LEMMA LeafOfIs ==
    ASSUME NEW k, NEW lev, Shape(node, total, root, height, lev)
    PROVE  /\ LeafOf(k) = Path(k)[height] /\ LeafOf(k) \in 1 .. total - 1 /\ LeafOf(k) \in Page
           /\ lev[LeafOf(k)] = 1 /\ node[LeafOf(k)].leaf
           /\ node[LeafOf(k)].cells \in Seq(Cell(Val)) /\ Len(Path(k)) = height
<1>1. PICK s : s = Path(k)
  OBVIOUS
<1>2. /\ s \in Seq(Page) /\ Len(s) = height
      /\ \A i \in 1 .. Len(s) : s[i] \in 1 .. total - 1 /\ lev[s[i]] = height - i + 1
  BY <1>1, PathIs DEF OnPath
<1>3. /\ height \in 1 .. total - 1 /\ total \in 2 .. MaxPages /\ node \in [Page -> Node]
      /\ \A p \in 1 .. total - 1 : PageAt(node, total, lev, p)
  BY DEF Shape
<1>4. PICK l : l = s[height]
  OBVIOUS
<1>5. l \in 1 .. total - 1 /\ lev[l] = 1
  BY <1>2, <1>3, <1>4
<1>6. l \in Page
  BY <1>3, <1>5, PagesAssumption DEF Page
<1>7. node[l].leaf /\ \A i \in DOMAIN node[l].cells : node[l].cells[i].ref \in Val
  BY <1>3, <1>5 DEF PageAt
<1>8. node[l].cells \in Cells
  BY <1>3, <1>6, NodeIs
<1>9. node[l].cells \in Seq(Cell(Val))
  BY <1>7, <1>8, LeafCells
<1>10. LeafOf(k) = l /\ l = Path(k)[height]
  BY <1>1, <1>2, <1>4 DEF LeafOf
<1> QED BY <1>1, <1>2, <1>5, <1>6, <1>7, <1>9, <1>10

\* btree_create
LEMMA InitShaped == Init => TreeInv
<1> SUFFICES ASSUME Init PROVE TreeInv
  OBVIOUS
<1> USE PagesAssumption DEF Init
<1>1. PICK n : n = Blank
  OBVIOUS
<1>2. << >> \in Seq(Cell(Val))
  OBVIOUS
<1>3. n \in Node /\ n.leaf /\ n.cells = << >> /\ n.prev = NoPage /\ n.link = NoPage
  <2>1. << >> \in Cells
    BY <1>2, LeafCells
  <2>2. PICK s : s = << >>
    OBVIOUS
  <2>3. n = [leaf |-> TRUE, cells |-> s, prev |-> NoPage, link |-> NoPage] /\ s \in Cells
    BY <1>1, <2>1, <2>2 DEF Blank, Leaf
  <2> QED BY <2>2, <2>3 DEF Node
<1>4. PICK lev : lev = [p \in Page |-> 1]
  OBVIOUS
<1>5. 1 \in Page /\ lev \in [Page -> Nat] /\ node \in [Page -> Node] /\ \A p \in Page : lev[p] = 1 /\ node[p] = n
  BY <1>1, <1>3, <1>4 DEF Page
<1>6. \A p \in 1 .. total - 1 : p = 1
  OBVIOUS
<1>7. PageAt(node, total, lev, 1)
  BY <1>3, <1>5 DEF PageAt
<1>8. Shape(node, total, root, height, lev)
  <2>1. total \in 2 .. MaxPages /\ height \in 1 .. total - 1 /\ root \in 1 .. total - 1 /\ lev[root] = height
    BY <1>5
  <2>2. \A p \in 1 .. total - 1 : lev[p] \in 1 .. height /\ PageAt(node, total, lev, p)
    BY <1>5, <1>6, <1>7
  <2>3. \A p \in Page : p >= total => node[p] = Blank
    BY <1>1, <1>5
  <2> QED BY <1>5, <2>1, <2>2, <2>3 DEF Shape
<1>9. Chain(node, total, joined)
  BY <1>3, <1>5, <1>6 DEF Chain, NoPage
<1>10. content \in [Key -> Val \cup {NoVal}] /\ joined \in BOOLEAN /\ dropped \subseteq Key /\ orphaned \in BOOLEAN
  OBVIOUS
<1> QED BY <1>8, <1>9, <1>10 DEF TreeInv

\* btree_delete
LEMMA DeleteShaped ==
    ASSUME TreeInv, NEW k \in Key, Delete(k)
    PROVE  TreeInv'
<1>1. PICK lev : Shape(node, total, root, height, lev)
  BY DEF TreeInv
<1>2. /\ Chain(node, total, joined) /\ joined \in BOOLEAN /\ content \in [Key -> Val \cup {NoVal}]
      /\ dropped \subseteq Key /\ orphaned \in BOOLEAN
  BY DEF TreeInv
<1>3. PICK l : l = LeafOf(k)
  OBVIOUS
<1>4. l \in 1 .. total - 1 /\ l \in Page /\ node[l].leaf /\ node[l].cells \in Seq(Cell(Val))
  BY <1>1, <1>3, LeafOfIs
<1>5. PICK s : s = Without(node[l].cells, k)
  OBVIOUS
<1>6. s \in Seq(Cell(Val))
  BY <1>4, <1>5, WithoutIs
<1>7. PICK r : r = WithCells(node, l, s)
  OBVIOUS
<1>8. Shape(r, total, root, height, lev) /\ Chain(r, total, joined)
  BY <1>1, <1>2, <1>4, <1>6, <1>7, RecellShape
<1>9. r = [node EXCEPT ![l].cells = Without(@, k)]
  BY <1>5, <1>7 DEF WithCells
<1>10. PICK out : out = (r[l].cells = << >> /\ l # root)
  OBVIOUS
<1>11. /\ content' = [content EXCEPT ![k] = NoVal] /\ dropped' = dropped \ {k} /\ orphaned' = orphaned
       /\ node' = (IF out THEN Unlinked(r, l) ELSE r)
       /\ joined' = (joined \/ out)
       /\ root' = root /\ height' = height /\ total' = total
  BY <1>3, <1>9, <1>10 DEF Delete
<1>12. content' \in [Key -> Val \cup {NoVal}] /\ dropped' \subseteq Key /\ orphaned' \in BOOLEAN
  BY <1>2, <1>11
<1>13. r[l].leaf
  <2>1. node \in [Page -> Node] /\ s \in Cells
    BY <1>1, <1>6, LeafCells DEF Shape
  <2>2. WithCells(node, l, s)[l].leaf = node[l].leaf
    BY <1>4, <2>1, WithCellsIs DEF Recelled
  <2> QED BY <1>4, <1>7, <2>2
<1>14. CASE out
  <2>1. PICK u : u = Unlinked(r, l)
    OBVIOUS
  <2>2. Shape(u, total, root, height, lev) /\ Chain(u, total, TRUE)
    BY <1>4, <1>8, <1>13, <2>1, UnlinkedShape
  <2>3. node' = u /\ joined' = TRUE
    BY <1>2, <1>10, <1>11, <1>14, <2>1
  <2> QED BY <1>11, <1>12, <2>2, <2>3 DEF TreeInv
<1>15. CASE ~ out
  <2>1. node' = r /\ joined' = joined
    BY <1>2, <1>10, <1>11, <1>15
  <2> QED BY <1>2, <1>8, <1>11, <1>12, <2>1 DEF TreeInv
<1>16. out \in BOOLEAN
  BY <1>10
<1> QED BY <1>14, <1>15, <1>16

\* The two halves of a leaf, and the cell put into its own.
LEMMA LeafPart ==
    ASSUME NEW s \in Seq(Cell(Val)), NEW a \in 1 .. Len(s) + 1, NEW b \in a - 1 .. Len(s)
    PROVE  SubSeq(s, a, b) \in Seq(Cell(Val))
  OBVIOUS

LeftHalf(s, k, v, up) ==
    IF k < up THEN InsertLeafCell(Low(s), k, v).cells ELSE Low(s)
RightHalf(s, k, v, up) ==
    IF k < up THEN High(s) ELSE InsertLeafCell(High(s), k, v).cells

\* A split makes two leaves of values and promotes a key.
LEMMA SplitCellsAre ==
    ASSUME NEW s \in Seq(Cell(Val)), Len(s) >= 1, NEW k \in Key, NEW v \in Val, NEW up
    PROVE  /\ LeftHalf(s, k, v, up) \in Seq(Cell(Val)) /\ RightHalf(s, k, v, up) \in Seq(Cell(Val))
           /\ Promoted(s) \in Key
<1>1. Len(s) \in Nat
  OBVIOUS
<1>2. PICK low : low = SubSeq(s, 1, Len(s) \div 2)
  OBVIOUS
<1>3. PICK high : high = SubSeq(s, Len(s) \div 2 + 1, Len(s))
  OBVIOUS
<1>4. low \in Seq(Cell(Val))
  <2>1. 1 \in 1 .. Len(s) + 1 /\ Len(s) \div 2 \in 1 - 1 .. Len(s)
    BY <1>1
  <2> QED BY <1>2, <2>1, LeafPart
<1>5. high \in Seq(Cell(Val))
  <2>1. Len(s) \div 2 + 1 \in 1 .. Len(s) + 1 /\ Len(s) \in (Len(s) \div 2 + 1) - 1 .. Len(s)
    BY <1>1
  <2> QED BY <1>3, <2>1, LeafPart
<1>6. InsertLeafCell(low, k, v).cells \in Seq(Cell(Val))
  BY <1>4, InsertLeafCellIs
<1>7. InsertLeafCell(high, k, v).cells \in Seq(Cell(Val))
  BY <1>5, InsertLeafCellIs
<1>8. LeftHalf(s, k, v, up) \in Seq(Cell(Val))
  BY <1>2, <1>4, <1>6 DEF LeftHalf, Low
<1>9. RightHalf(s, k, v, up) \in Seq(Cell(Val))
  BY <1>3, <1>5, <1>7 DEF RightHalf, High
<1>10. Promoted(s) \in Key
  <2>1. PICK m : m = Len(s) \div 2 + 1
    OBVIOUS
  <2>2. m \in 1 .. Len(s)
    BY <1>1, <2>1
  <2>3. s[m] \in Cell(Val)
    BY <2>2, ElementOfSeq
  <2> QED BY <2>1, <2>3 DEF Promoted, Cell
<1> QED BY <1>8, <1>9, <1>10

\* The climb a split starts with.
ClimbFrom(path, nodes, k, c) ==
    /\ c \in Climbs
    /\ c.nodes = nodes /\ c.next = total + 1 /\ c.root = root /\ c.height = height
    /\ c.key = k /\ c.left = path[Len(path)] /\ c.right = total /\ ~ c.done /\ c.orphan = orphaned
    /\ Len(c.stack) = Len(path) - 1
    /\ \A i \in 1 .. Len(path) - 1 : c.stack[i] = path[i]

\* The climb has the path without its leaf on the stack.
LEMMA ClimbIs ==
    ASSUME NEW path \in Seq(Page), Len(path) >= 1, NEW nodes \in [Page -> Node], NEW k \in Key,
           total \in Page, root \in Page, height \in Nat, orphaned \in BOOLEAN,
           NEW c, c = Climb(path, nodes, k)
    PROVE  ClimbFrom(path, nodes, k, c)
<1>1. PICK n \in Nat : n = Len(path)
  OBVIOUS
<1>2. PICK st : st = SubSeq(path, 1, n - 1)
  OBVIOUS
<1>3. n >= 1 /\ n \in 1 .. n
  BY <1>1
<1>4. path[n] \in Page
  BY <1>1, <1>3, ElementOfSeq
<1>5. st \in Seq(Page) /\ Len(st) = n - 1 /\ \A i \in 1 .. n - 1 : st[i] = path[i]
  BY <1>1, <1>2, <1>3
<1>6. PICK m \in Nat : m = total + 1
  BY PagesAssumption DEF Page
<1>7. PICK last \in Page : last = path[n]
  BY <1>4
<1>8. c = [stack |-> st, nodes |-> nodes, next |-> m, root |-> root, height |-> height,
           key |-> k, left |-> last, right |-> total, done |-> FALSE, orphan |-> orphaned]
  BY <1>1, <1>2, <1>6, <1>7 DEF Climb
<1>9. c \in Climbs
  BY <1>5, <1>8 DEF Climbs
<1> QED BY <1>1, <1>5, <1>6, <1>7, <1>8, <1>9 DEF ClimbFrom

\* A split of the leaf of k: c is the climb it starts, l2 the levels with the new
\* leaf.
SplitStart(k, v, s, lev, l, u, left, right, r, l2, c) ==
    /\ l = LeafOf(k) /\ l = Path(k)[Len(Path(k))] /\ u = Promoted(s)
    /\ left = LeftHalf(s, k, v, u) /\ right = RightHalf(s, k, v, u)
    /\ r = Relinked(node, l, left, total, right, node[l].link)
    /\ total < MaxPages /\ u \in Key /\ left \in Seq(Cell(Val)) /\ right \in Seq(Cell(Val))
    /\ l2 \in [Page -> Nat] /\ l2[total] = 1 /\ \A p \in 1 .. total - 1 : l2[p] = lev[p]
    /\ ClimbFrom(Path(k), r, u, c) /\ Rising(c, l2)
    /\ SplitLeaf(Path(k), s, k, v) = InsertParent(c)

\* btree_insert, the leaf split
LEMMA SplitRises ==
    ASSUME NEW lev, Shape(node, total, root, height, lev), Chain(node, total, joined),
           NEW k \in Key, NEW v \in Val, total + Len(Path(k)) < MaxPages, orphaned \in BOOLEAN,
           NEW s \in Seq(Cell(Val)), Len(s) >= 1
    PROVE  \E l, u, left, right, r, l2, c : SplitStart(k, v, s, lev, l, u, left, right, r, l2, c)
<1> USE PagesAssumption
<1>1. /\ total \in 2 .. MaxPages /\ height \in 1 .. total - 1 /\ root \in 1 .. total - 1
      /\ node \in [Page -> Node] /\ lev \in [Page -> Nat]
  BY DEF Shape
<1>2. PICK path : path = Path(k)
  OBVIOUS
<1>3. /\ path \in Seq(Page) /\ Len(path) = height
      /\ \A i \in 1 .. Len(path) : path[i] \in 1 .. total - 1 /\ lev[path[i]] = height - i + 1
  BY <1>2, PathIs DEF OnPath
<1>4. PICK l : l = path[Len(path)]
  OBVIOUS
<1>5. l \in 1 .. total - 1 /\ l \in Page /\ lev[l] = 1 /\ node[l].leaf
  <2>1. l = LeafOf(k)
    BY <1>2, <1>4 DEF LeafOf
  <2> QED BY <2>1, LeafOfIs
<1>a. l = LeafOf(k)
  BY <1>2, <1>4 DEF LeafOf
<1>6. total < MaxPages /\ total \in Page
  BY <1>1, <1>2, <1>3 DEF Page
<1>7. PICK up : up = Promoted(s)
  OBVIOUS
<1>8. PICK left, right : left = LeftHalf(s, k, v, up) /\ right = RightHalf(s, k, v, up)
  OBVIOUS
<1>9. left \in Seq(Cell(Val)) /\ right \in Seq(Cell(Val)) /\ up \in Key
  BY <1>7, <1>8, SplitCellsAre
<1>10. PICK r : r = Relinked(node, l, left, total, right, node[l].link)
  OBVIOUS
<1>11. PICK l2 : l2 = [lev EXCEPT ![total] = 1]
  OBVIOUS
<1>12. Shape(r, total + 1, root, height, l2) /\ Chain(r, total + 1, joined)
  BY <1>5, <1>6, <1>9, <1>10, <1>11, SplitShape
<1>13. PICK c : c = Climb(path, r, up)
  OBVIOUS
<1>b. ClimbFrom(path, r, up, c)
  <2>1. r \in [Page -> Node]
    BY <1>12 DEF Shape
  <2>2. root \in Page /\ height \in Nat /\ Len(path) >= 1
    BY <1>1, <1>3 DEF Page
  <2> QED BY <1>3, <1>6, <1>9, <1>13, <2>1, <2>2, ClimbIs
<1>14. /\ c \in Climbs /\ c.nodes = r /\ c.next = total + 1 /\ c.root = root /\ c.height = height
       /\ c.left = l /\ c.right = total /\ ~ c.done /\ Len(c.stack) = Len(path) - 1
       /\ \A i \in 1 .. Len(path) - 1 : c.stack[i] = path[i]
  BY <1>4, <1>b DEF ClimbFrom
<1>15. l2 \in [Page -> Nat] /\ l2[total] = 1 /\ \A p \in 1 .. total - 1 : l2[p] = lev[p]
  BY <1>1, <1>6, <1>11 DEF Page
<1>16. Rising(c, l2)
  <2>1. c.next + Len(c.stack) < MaxPages
    BY <1>1, <1>2, <1>3, <1>14
  <2>2. c.left \in 1 .. c.next - 1 /\ l2[c.left] = c.height - Len(c.stack)
    BY <1>1, <1>3, <1>5, <1>14, <1>15
  <2>3. c.right \in 1 .. c.next - 1 /\ l2[c.right] = c.height - Len(c.stack)
    BY <1>1, <1>3, <1>14, <1>15
  <2>4. ASSUME NEW i \in 1 .. Len(c.stack)
        PROVE  c.stack[i] \in 1 .. c.next - 1 /\ l2[c.stack[i]] = c.height - i + 1
    <3>1. i \in 1 .. Len(path) /\ c.stack[i] = path[i]
      BY <1>1, <1>3, <1>14
    <3>2. path[i] \in 1 .. total - 1 /\ l2[path[i]] = height - i + 1
      BY <1>3, <1>15, <3>1
    <3> QED BY <1>1, <1>14, <3>1, <3>2
  <2> QED BY <1>12, <1>14, <2>1, <2>2, <2>3, <2>4 DEF Rising
<1>17. SplitLeaf(path, s, k, v) = InsertParent(c)
  BY <1>4, <1>7, <1>8, <1>10, <1>13 DEF SplitLeaf, LeftHalf, RightHalf
<1>18. SplitStart(k, v, s, lev, l, up, left, right, r, l2, c)
  BY <1>2, <1>4, <1>6, <1>7, <1>8, <1>9, <1>10, <1>15, <1>16, <1>17, <1>a, <1>b DEF SplitStart
<1> QED BY <1>18

LEMMA SplitShaped ==
    ASSUME NEW lev, Shape(node, total, root, height, lev), Chain(node, total, joined),
           NEW k \in Key, NEW v \in Val, total + Len(Path(k)) < MaxPages, orphaned \in BOOLEAN,
           NEW s \in Seq(Cell(Val)), Len(s) >= 1
    PROVE  \E l2 : Rising(SplitLeaf(Path(k), s, k, v), l2) /\ SplitLeaf(Path(k), s, k, v).done
<1>1. PICK l, u, left, right, r, l2, c : SplitStart(k, v, s, lev, l, u, left, right, r, l2, c)
  BY SplitRises
<1>2. Rising(c, l2) /\ ~ c.done /\ SplitLeaf(Path(k), s, k, v) = InsertParent(c)
  BY <1>1 DEF SplitStart, ClimbFrom
<1> QED BY <1>2, ClimbEnds


\* btree_insert
LEMMA InsertShaped ==
    ASSUME TreeInv, NEW k \in Key, NEW v \in Val, Insert(k, v)
    PROVE  TreeInv'
<1>1. PICK lev : Shape(node, total, root, height, lev)
  BY DEF TreeInv
<1>2. /\ Chain(node, total, joined) /\ joined \in BOOLEAN /\ content \in [Key -> Val \cup {NoVal}]
      /\ dropped \subseteq Key /\ orphaned \in BOOLEAN
  BY DEF TreeInv
<1>3. PICK l : l = LeafOf(k)
  OBVIOUS
<1>4. l \in 1 .. total - 1 /\ l \in Page /\ node[l].leaf /\ node[l].cells \in Seq(Cell(Val))
  BY <1>1, <1>3, LeafOfIs
<1>5. PICK r : r = InsertLeafCell(node[l].cells, k, v)
  OBVIOUS
<1>6. r.cells \in Seq(Cell(Val)) /\ r.ok \in BOOLEAN /\ (~ r.ok => Len(r.cells) >= 1)
  BY <1>4, <1>5, InsertLeafCellIs
<1>7. /\ total + Len(Path(k)) < MaxPages /\ content' = [content EXCEPT ![k] = v] /\ joined' = joined
      /\ \/ r.ok /\ node' = [node EXCEPT ![l].cells = r.cells] /\ UNCHANGED <<root, height, total, orphaned>>
            /\ dropped' = dropped \ {k}
         \/ ~ r.ok /\ LET c == SplitLeaf(Path(k), r.cells, k, v)
                      IN  /\ node' = c.nodes /\ root' = c.root
                          /\ height' = c.height /\ total' = c.next /\ orphaned' = c.orphan
            /\ dropped' = IF LeftOut(r.cells, k, v) THEN dropped \cup {k} ELSE dropped \ {k}
  BY <1>3, <1>5 DEF Insert, LeafOf
<1>8. content' \in [Key -> Val \cup {NoVal}] /\ joined' \in BOOLEAN /\ dropped' \subseteq Key
  BY <1>2, <1>7
<1>9. CASE r.ok
  <2>1. PICK nodes : nodes = WithCells(node, l, r.cells)
    OBVIOUS
  <2>2. Shape(nodes, total, root, height, lev) /\ Chain(nodes, total, joined)
    BY <1>1, <1>2, <1>4, <1>6, <2>1, RecellShape
  <2>3. node' = nodes /\ root' = root /\ height' = height /\ total' = total
        /\ orphaned' = orphaned
    BY <1>7, <1>9, <2>1 DEF WithCells
  <2> QED BY <1>2, <1>7, <1>8, <2>2, <2>3 DEF TreeInv
<1>10. CASE ~ r.ok
  <2>1. PICK c : c = SplitLeaf(Path(k), r.cells, k, v)
    OBVIOUS
  <2>2. PICK l2 : Rising(c, l2)
    BY <1>1, <1>2, <1>6, <1>7, <1>10, <2>1, SplitShaped
  <2>3. node' = c.nodes /\ root' = c.root /\ height' = c.height /\ total' = c.next
        /\ orphaned' = c.orphan
    BY <1>7, <1>10, <2>1
  <2>4. Shape(c.nodes, c.next, c.root, c.height, l2) /\ Chain(c.nodes, c.next, joined)
        /\ c.orphan \in BOOLEAN
    BY <2>2, ClimbsIs DEF Rising
  <2> QED BY <1>7, <1>8, <2>3, <2>4 DEF TreeInv
<1> QED BY <1>6, <1>9, <1>10

\* The levels witness that searches are as deep as the tree is high.
LEMMA TreeInvSound == TreeInv => TreeSound
<1> SUFFICES ASSUME TreeInv PROVE TreeSound
  OBVIOUS
<1> USE PagesAssumption
<1>1. PICK lev : Shape(node, total, root, height, lev)
  BY DEF TreeInv
<1>2. /\ Chain(node, total, joined) /\ joined \in BOOLEAN /\ content \in [Key -> Val \cup {NoVal}]
      /\ dropped \subseteq Key /\ orphaned \in BOOLEAN
  BY DEF TreeInv
<1>3. /\ total \in 2 .. MaxPages /\ height \in 1 .. total - 1 /\ root \in 1 .. total - 1
      /\ node \in [Page -> Node] /\ lev \in [Page -> Nat]
      /\ \A p \in 1 .. total - 1 : lev[p] \in 1 .. height /\ PageAt(node, total, lev, p)
      /\ \A p \in Page : p >= total => node[p] = Blank
  BY <1>1 DEF Shape
<1>4. \A p : p \in InTree <=> p \in 1 .. total - 1
  BY <1>3 DEF InTree, Page
<1>5. ASSUME NEW p \in Page
      PROVE  /\ node[p].cells \in Seq(Cell(IF node[p].leaf THEN Val ELSE InTree))
             /\ node[p].prev \in InTree \cup {NoPage}
             /\ node[p].link \in InTree \cup (IF node[p].leaf THEN {NoPage} ELSE {})
  <2>1. node[p] \in Node /\ node[p].leaf \in BOOLEAN
    BY <1>3, NodeIs
  <2>2. CASE p >= total
    <3>1. node[p] = Leaf(<< >>, NoPage, NoPage)
      BY <1>3, <2>2 DEF Blank
    <3> QED BY <3>1 DEF Leaf
  <2>3. CASE ~ (p >= total)
    <3>1. p \in 1 .. total - 1
      BY <1>3, <2>3 DEF Page
    <3>2. PageAt(node, total, lev, p)
      BY <1>3, <3>1
    <3>3. CASE node[p].leaf
      <4>1. node[p].cells \in Cells /\ \A i \in DOMAIN node[p].cells : node[p].cells[i].ref \in Val
        BY <2>1, <3>2, <3>3, NodeIs DEF PageAt
      <4>2. node[p].cells \in Seq(Cell(Val))
        BY <4>1, LeafCells
      <4>3. /\ node[p].link # NoPage => node[p].link \in 1 .. total - 1
            /\ node[p].prev # NoPage => node[p].prev \in 1 .. total - 1
        BY <1>2, <3>1, <3>3 DEF Chain
      <4> QED BY <1>4, <3>3, <4>2, <4>3
    <3>4. CASE ~ node[p].leaf
      <4>1. node[p].prev = NoPage /\ \A q \in Kids(node[p]) : q \in InTree
        BY <1>4, <3>2, <3>4 DEF PageAt
      <4>2. node[p].link \in InTree
        BY <4>1 DEF Kids
      <4>3. PICK s : s = node[p].cells
        OBVIOUS
      <4>4. s \in Cells /\ \A i \in DOMAIN s : s[i].ref \in InTree
        BY <2>1, <4>1, <4>3, NodeIs DEF Kids
      <4>5. Len(s) \in Nat /\ s \in Seq(AnyCell) /\ DOMAIN s = 1 .. Len(s)
        BY <4>4, CellsAre
      <4>6. \A i \in 1 .. Len(s) : s[i] \in Cell(InTree)
        <5> TAKE i \in 1 .. Len(s)
        <5>1. s[i] \in AnyCell /\ s[i].ref \in InTree
          BY <4>4, <4>5, ElementOfSeq
        <5> QED BY <5>1 DEF AnyCell, Cell
      <4>7. s \in [1 .. Len(s) -> Cell(InTree)]
        BY <4>5, <4>6, LenProperties
      <4>8. s \in Seq(Cell(InTree))
        BY <4>5, <4>7, SeqDef
      <4> QED BY <3>4, <4>1, <4>2, <4>3, <4>8
    <3> QED BY <2>1, <3>3, <3>4
  <2> QED BY <2>2, <2>3
<1>6. TypeOK
  BY <1>2, <1>3, <1>4, <1>5 DEF TypeOK
<1>7. Balanced
  <2> SUFFICES ASSUME NEW k \in Key PROVE Len(Path(k)) = height
    BY DEF Balanced
  <2> QED BY <1>1, LeafOfIs
<1>8. ChainIsDouble
  BY <1>2, <1>4 DEF Chain, ChainIsDouble
<1> QED BY <1>6, <1>7, <1>8 DEF TreeSound

LEMMA TreeStays ==
    ASSUME TreeInv, [Next]_vars
    PROVE  TreeInv'
<1>1. ASSUME NEW k \in Key, NEW v \in Val, Insert(k, v) PROVE TreeInv'
  BY <1>1, InsertShaped
<1>2. ASSUME NEW k \in Key, Delete(k) PROVE TreeInv'
  BY <1>2, DeleteShaped
<1>3. CASE UNCHANGED vars
  BY <1>3 DEF vars, TreeInv
<1> QED BY <1>1, <1>2, <1>3 DEF Next

\* After every insert, split and delete all leaves are as deep as the tree is
\* high, the pages hold what their kind holds, and the chain of leaves reads the
\* same in both directions until a leaf is taken out of it (btree.lp:183-345).
THEOREM TreeStaysSound == Spec => []TreeSound
<1>1. Init => TreeInv
  BY InitShaped
<1>2. TreeInv /\ [Next]_vars => TreeInv'
  BY TreeStays
<1>3. TreeInv => TreeSound
  BY TreeInvSound
<1> QED BY <1>1, <1>2, <1>3, PTL DEF Spec

-------------------------------------------------------------------------------
\* The keys of an internal page
\*
\* An internal page with first child f and cells s has the keys from a up to b:
\* its child i has those from From(a, s, i) up to To(b, s, i).

Nth(f, s, i) == IF i = 0 THEN f ELSE s[i].ref
From(a, s, i) == IF i = 0 THEN a ELSE s[i].key
To(b, s, i) == IF i = Len(s) THEN b ELSE s[i + 1].key

\* lo and hi say where the keys of a page begin and end.  Only a first child may
\* have none: its page was split with a single cell, the first of its keys.
Spread(f, s, a, b, lo, hi) ==
    /\ Sorted(s)
    /\ \A i \in 0 .. Len(s) : /\ From(a, s, i) <= To(b, s, i)
                              /\ i # 0 => From(a, s, i) < To(b, s, i)
                              /\ lo[Nth(f, s, i)] = From(a, s, i)
                              /\ hi[Nth(f, s, i)] = To(b, s, i)

\* The children's keys are consecutive parts of the page's.
Parts(s, a, b) ==
    /\ \A i \in 0 .. Len(s) : /\ From(a, s, i) \in Nat /\ To(b, s, i) \in Nat
                              /\ a <= From(a, s, i) /\ From(a, s, i) <= To(b, s, i) /\ To(b, s, i) <= b
                              /\ i # 0 => From(a, s, i) < To(b, s, i)
    /\ \A i, j \in 0 .. Len(s) : i < j => To(b, s, i) <= From(a, s, j)

\* Cells in order divide the keys of their page.
LEMMA SpreadParts ==
    ASSUME NEW f, NEW s \in Cells, NEW a \in Nat, NEW b \in Nat, NEW lo, NEW hi,
           Spread(f, s, a, b, lo, hi)
    PROVE  Parts(s, a, b)
<1>1. PICK n \in Nat : n = Len(s)
  BY CellsAre
<1>2. \A i \in 1 .. n : s[i].key \in Nat
  <2> TAKE i \in 1 .. n
  <2>1. s[i].key \in Key
    BY <1>1, CellsAre
  <2> QED BY <2>1, LengthAssumption DEF Key
<1>3. \A i \in 0 .. n : From(a, s, i) <= To(b, s, i) /\ (i # 0 => From(a, s, i) < To(b, s, i))
  BY <1>1 DEF Spread
<1>4. \A i, j \in 1 .. n : i < j => s[i].key < s[j].key
  <2>1. DOMAIN s = 1 .. n
    BY <1>1, CellsAre
  <2> QED BY <2>1 DEF Spread, Sorted
<1>5. \A i \in 0 .. n : From(a, s, i) \in Nat /\ To(b, s, i) \in Nat
  <2> TAKE i \in 0 .. n
  <2>1. i # 0 => i \in 1 .. n
    OBVIOUS
  <2>2. i # n => i + 1 \in 1 .. n
    OBVIOUS
  <2> QED BY <1>1, <1>2, <2>1, <2>2 DEF From, To
<1>6. \A i \in 0 .. n : a <= From(a, s, i)
  <2> TAKE i \in 0 .. n
  <2>1. CASE i = 0
    BY <2>1 DEF From
  <2>2. CASE i # 0
    <3>1. 1 \in 1 .. n /\ 0 \in 0 .. n /\ i \in 1 .. n /\ 0 # n
      BY <2>2
    <3>2. a <= s[1].key
      BY <1>1, <1>3, <3>1 DEF From, To
    <3>3. s[1].key <= s[i].key
      <4>1. s[1].key \in Nat
        BY <1>2, <3>1
      <4>2. i = 1 \/ 1 < i
        BY <3>1
      <4> QED BY <1>2, <1>4, <3>1, <4>1, <4>2
    <3>4. From(a, s, i) = s[i].key
      BY <2>2 DEF From
    <3> QED BY <1>2, <3>1, <3>2, <3>3, <3>4
  <2> QED BY <2>1, <2>2
<1>7. \A i \in 0 .. n : To(b, s, i) <= b
  <2> TAKE i \in 0 .. n
  <2>1. CASE i = n
    BY <1>1, <2>1 DEF To
  <2>2. CASE i # n
    <3>1. n \in 1 .. n /\ n \in 0 .. n /\ i + 1 \in 1 .. n /\ n # 0
      BY <2>2
    <3>2. s[n].key < b
      BY <1>1, <1>3, <3>1 DEF From, To
    <3>3. s[i + 1].key <= s[n].key
      <4>1. s[n].key \in Nat
        BY <1>2, <3>1
      <4>2. i + 1 = n \/ i + 1 < n
        BY <3>1
      <4> QED BY <1>2, <1>4, <3>1, <4>1, <4>2
    <3>4. To(b, s, i) = s[i + 1].key
      BY <1>1, <2>2 DEF To
    <3> QED BY <1>2, <3>1, <3>2, <3>3, <3>4
  <2> QED BY <2>1, <2>2
<1>8. \A i, j \in 0 .. n : i < j => To(b, s, i) <= From(a, s, j)
  <2> TAKE i, j \in 0 .. n
  <2> SUFFICES ASSUME i < j PROVE To(b, s, i) <= From(a, s, j)
    OBVIOUS
  <2>1. i + 1 \in 1 .. n /\ j \in 1 .. n /\ i # n /\ j # 0 /\ (i + 1 = j \/ i + 1 < j)
    OBVIOUS
  <2>2. To(b, s, i) = s[i + 1].key /\ From(a, s, j) = s[j].key
    BY <1>1, <2>1 DEF To, From
  <2>3. s[i + 1].key \in Nat /\ s[j].key \in Nat
    BY <1>2, <2>1
  <2>4. s[i + 1].key <= s[j].key
    BY <1>4, <2>1, <2>3
  <2> QED BY <2>2, <2>4
<1> QED BY <1>1, <1>3, <1>5, <1>6, <1>7, <1>8 DEF Parts

\* A search goes on in the child that has the key.
LEMMA ChildHas ==
    ASSUME NEW n \in Node, NEW a \in Nat, NEW b \in Nat, NEW lo, NEW hi,
           Spread(n.link, n.cells, a, b, lo, hi), NEW k \in Nat, a <= k, k < b
    PROVE  lo[Child(n, k)] <= k /\ k < hi[Child(n, k)]
<1>1. PICK s : s = n.cells
  OBVIOUS
<1>2. s \in Cells
  BY <1>1, NodeIs
<1>3. PICK m \in Nat : m = Len(s)
  BY <1>2, CellsAre
<1>a. PICK k1 \in Nat : k1 = k + 1
  OBVIOUS
<1>4. PICK i : i = Below(s, k1)
  OBVIOUS
<1>5. Sorted(s)
  BY <1>1 DEF Spread
<1>6. i \in 0 .. m
  BY <1>2, <1>3, <1>4, BelowInRange DEF Cells
<1>7. \A j \in 1 .. m : s[j].key < k + 1 <=> j <= i
  <2>1. s \in Seq([key : Key, ref : Val \cup Page])
    BY <1>2 DEF Cells
  <2>2. \A j \in 1 .. Len(s) : s[j].key < k1 <=> j <= Below(s, k1)
    BY <1>5, <2>1, BelowIs
  <2> QED BY <1>3, <1>4, <1>a, <2>2
<1>8. Child(n, k) = Nth(n.link, s, i)
  BY <1>1, <1>4, <1>a DEF Child, Nth
<1>9. lo[Nth(n.link, s, i)] = From(a, s, i) /\ hi[Nth(n.link, s, i)] = To(b, s, i)
  BY <1>1, <1>3, <1>6 DEF Spread
<1>10. \A j \in 1 .. m : s[j].key \in Nat
  <2> TAKE j \in 1 .. m
  <2>1. s[j].key \in Key
    BY <1>2, <1>3, CellsAre
  <2> QED BY <2>1, LengthAssumption DEF Key
<1>11. From(a, s, i) <= k
  <2>1. i # 0 => i \in 1 .. m /\ i <= i
    BY <1>6
  <2> QED BY <1>7, <1>10, <2>1 DEF From
<1>12. k < To(b, s, i)
  <2>1. i # m => i + 1 \in 1 .. m /\ ~ (i + 1 <= i)
    BY <1>6
  <2> QED BY <1>3, <1>7, <1>10, <2>1 DEF To
<1> QED BY <1>8, <1>9, <1>11, <1>12

\* Where page_insert_internal_cell puts the cell.
LEMMA ChildPut ==
    ASSUME NEW s \in Cells, NEW k \in Key, NEW p \in Page, NEW t, t = InsertChild(s, k, p),
           NEW i, i = Below(s, k), NEW c, c = [key |-> k, ref |-> p]
    PROVE  t \in Cells /\ PutIn(s, i, c, t)
<1>1. s \in Seq(AnyCell) /\ Len(s) \in Nat
  BY CellsAre
<1>2. c \in AnyCell
  BY DEF AnyCell
<1>3. i \in 0 .. Len(s)
  BY <1>1, BelowInRange
<1>4. t = InsertAt(s, i, c)
  BY DEF InsertChild
<1>5. s \in Seq(AnyCell)
  BY <1>1
<1>6. InsertAt(s, i, c) \in Seq(AnyCell)
  BY <1>2, <1>3, <1>5, InsertAtIs
<1>7. PutIn(s, i, c, InsertAt(s, i, c))
  BY <1>2, <1>3, <1>5, InsertAtPuts
<1> QED BY <1>4, <1>6, <1>7 DEF Cells, AnyCell

\* No two children are the same page.
LEMMA NthDiffer ==
    ASSUME NEW f, NEW s \in Cells, NEW a \in Nat, NEW b \in Nat, NEW lo, NEW hi,
           Spread(f, s, a, b, lo, hi), NEW i \in 0 .. Len(s), NEW j \in 0 .. Len(s), i # j
    PROVE  Nth(f, s, i) # Nth(f, s, j)
<1>1. Parts(s, a, b)
  BY SpreadParts
<1>2. Len(s) \in Nat
  BY CellsAre
<1>3. To(b, s, i) # To(b, s, j)
  <2>1. (i < j /\ j # 0) \/ (j < i /\ i # 0)
    BY <1>2
  <2>2. From(a, s, i) \in Nat /\ To(b, s, i) \in Nat /\ (i # 0 => From(a, s, i) < To(b, s, i))
    BY <1>1 DEF Parts
  <2>3. From(a, s, j) \in Nat /\ To(b, s, j) \in Nat /\ (j # 0 => From(a, s, j) < To(b, s, j))
    BY <1>1 DEF Parts
  <2>4. i < j => To(b, s, i) <= From(a, s, j)
    BY <1>1 DEF Parts
  <2>5. j < i => To(b, s, j) <= From(a, s, i)
    BY <1>1 DEF Parts
  <2> QED BY <2>1, <2>2, <2>3, <2>4, <2>5
<1>4. hi[Nth(f, s, i)] = To(b, s, i) /\ hi[Nth(f, s, j)] = To(b, s, j)
  BY DEF Spread
<1> QED BY <1>3, <1>4

\* The slot of the key k is behind the first i cells.
Place(s, i, k) ==
    /\ Below(s, k) = i
    /\ \A j \in 1 .. Len(s) : IF j <= i THEN s[j].key < k ELSE k < s[j].key

\* The slot of a key that is no separator is behind the child that has it.
LEMMA PlaceIs ==
    ASSUME NEW f, NEW s \in Cells, NEW a \in Nat, NEW b \in Nat, NEW lo, NEW hi,
           Spread(f, s, a, b, lo, hi), NEW i \in 0 .. Len(s),
           NEW k \in Nat, k < To(b, s, i), i # 0 => From(a, s, i) < k
    PROVE  Place(s, i, k)
<1>1. Parts(s, a, b)
  BY SpreadParts
<1>2. PICK n \in Nat : n = Len(s)
  BY CellsAre
<1>3. PICK m : m = Below(s, k)
  OBVIOUS
<1>4. m \in 0 .. n
  BY <1>2, <1>3, BelowInRange DEF Cells
<1>5. \A j \in 1 .. n : s[j].key < k <=> j <= m
  <2>1. Sorted(s)
    BY DEF Spread
  <2>2. s \in Seq([key : Key, ref : Val \cup Page])
    BY DEF Cells
  <2>3. \A j \in 1 .. Len(s) : s[j].key < k <=> j <= Below(s, k)
    BY <2>1, <2>2, BelowIs
  <2> QED BY <1>2, <1>3, <2>3
<1>6. \A j \in 1 .. n : s[j].key \in Nat /\ From(a, s, j) = s[j].key
  <2> TAKE j \in 1 .. n
  <2>1. s[j].key \in Key
    BY <1>2, CellsAre
  <2> QED BY <2>1, LengthAssumption DEF Key, From
<1>7. \A j \in 1 .. n : j > i => k < s[j].key
  <2> TAKE j \in 1 .. n
  <2> SUFFICES ASSUME j > i PROVE k < s[j].key
    OBVIOUS
  <2>1. j \in 0 .. n /\ i \in 0 .. n /\ i < j
    BY <1>2
  <2>2. To(b, s, i) <= From(a, s, j) /\ To(b, s, i) \in Nat
    BY <1>1, <1>2, <2>1 DEF Parts
  <2>3. From(a, s, j) = s[j].key /\ s[j].key \in Nat
    BY <1>6
  <2> QED BY <2>2, <2>3
<1>8. i <= m
  <2>1. CASE i = 0
    BY <1>4, <2>1
  <2>2. CASE i # 0
    <3>1. i \in 1 .. n
      BY <1>2, <2>2
    <3>2. s[i].key < k
      BY <1>6, <3>1
    <3> QED BY <1>5, <3>1, <3>2
  <2> QED BY <2>1, <2>2
<1>9. m <= i
  <2> SUFFICES ASSUME ~ (m <= i) PROVE FALSE
    OBVIOUS
  <2>1. m \in 1 .. n /\ m > i /\ m <= m
    BY <1>2, <1>4
  <2>2. s[m].key < k /\ k < s[m].key /\ s[m].key \in Nat
    BY <1>5, <1>6, <1>7, <2>1
  <2> QED BY <2>2
<1>10. m = i
  BY <1>2, <1>4, <1>8, <1>9
<1>11. \A j \in 1 .. n : IF j <= i THEN s[j].key < k ELSE k < s[j].key
  BY <1>2, <1>5, <1>7, <1>10
<1> QED BY <1>2, <1>3, <1>10, <1>11 DEF Place

\* The children keep their labels, but for the end of the i-th one.
Relabelled(f, s, i, lo, end, lo2, hi2) ==
    /\ \A j \in 0 .. Len(s) : lo2[Nth(f, s, j)] = lo[Nth(f, s, j)]
    /\ \A j \in 0 .. Len(s) : j # i => hi2[Nth(f, s, j)] = end[Nth(f, s, j)]

\* What a child was split into hangs in the place of the child.
LEMMA InsertSpread ==
    ASSUME NEW f, NEW s \in Cells, NEW a \in Nat, NEW b \in Nat, NEW lo, NEW end,
           Spread(f, s, a, b, lo, end), NEW i \in 0 .. Len(s), NEW left, left = Nth(f, s, i),
           NEW k \in Key, From(a, s, i) <= k, k < To(b, s, i), i # 0 => From(a, s, i) < k, NEW right \in Page,
           NEW lo2, NEW hi2, lo2[right] = k, hi2[left] = k, hi2[right] = end[left],
           Relabelled(f, s, i, lo, end, lo2, hi2), NEW t, t = InsertChild(s, k, right)
    PROVE  Spread(f, t, a, b, lo2, hi2)
<1>1. k \in Nat
  BY LengthAssumption DEF Key
<1>2. PICK n \in Nat : n = Len(s)
  BY CellsAre
<1>z. Place(s, i, k)
  BY <1>1, PlaceIs
<1>3. i \in 0 .. n /\ Below(s, k) = i
  BY <1>2, <1>z DEF Place
<1>4. \A j \in 1 .. n : IF j <= i THEN s[j].key < k ELSE k < s[j].key
  BY <1>2, <1>z DEF Place
<1>5. PICK c : c = [key |-> k, ref |-> right]
  OBVIOUS
<1>6. t \in Cells /\ PutIn(s, i, c, t)
  BY <1>3, <1>5, ChildPut
<1>7. /\ t \in Cells /\ Len(t) = n + 1
      /\ \A j \in 1 .. n + 1 : t[j] = IF j <= i THEN s[j] ELSE IF j = i + 1 THEN c ELSE s[j - 1]
  BY <1>2, <1>6 DEF PutIn
<1>8. c.key = k /\ c.ref = right
  BY <1>5
<1>9. DOMAIN t = 1 .. n + 1 /\ DOMAIN s = 1 .. n
  BY <1>2, <1>7, CellsAre
<1>10. \A j \in 1 .. n : s[j].key \in Nat
  <2> TAKE j \in 1 .. n
  <2>1. s[j].key \in Key
    BY <1>2, CellsAre
  <2> QED BY <2>1, LengthAssumption DEF Key
<1>11. \A j, h \in 1 .. n : j < h => s[j].key < s[h].key
  BY <1>9 DEF Spread, Sorted
<1>12. ASSUME NEW j \in 1 .. n + 1, NEW h \in 1 .. n + 1, j < h PROVE t[j].key < t[h].key
  <2>1. CASE h <= i
    <3>1. j \in 1 .. n /\ h \in 1 .. n /\ j <= i
      BY <1>3, <1>12, <2>1
    <3> QED BY <1>7, <1>11, <1>12, <2>1, <3>1
  <2>2. CASE h = i + 1
    <3>1. j \in 1 .. n /\ j <= i /\ ~ (h <= i)
      BY <1>3, <1>12, <2>2
    <3>2. t[j] = s[j] /\ t[h] = c
      BY <1>7, <2>2, <3>1
    <3> QED BY <1>4, <1>8, <3>1, <3>2
  <2>3. CASE h > i + 1
    <3>1. h - 1 \in 1 .. n /\ ~ (h - 1 <= i) /\ ~ (h <= i) /\ h # i + 1
      BY <1>3, <2>3
    <3>2. t[h] = s[h - 1] /\ k < s[h - 1].key /\ s[h - 1].key \in Nat
      BY <1>4, <1>7, <1>10, <3>1
    <3>3. CASE j <= i
      <4>1. j \in 1 .. n /\ j < h - 1
        BY <1>3, <2>3, <3>3
      <4>2. t[j] = s[j]
        BY <1>7, <3>3
      <4> QED BY <1>11, <3>1, <3>2, <4>1, <4>2
    <3>4. CASE j = i + 1
      <4>1. t[j] = c
        BY <1>3, <1>7, <3>4
      <4> QED BY <1>8, <3>2, <4>1
    <3>5. CASE j > i + 1
      <4>1. j - 1 \in 1 .. n /\ j - 1 < h - 1 /\ ~ (j <= i) /\ j # i + 1
        BY <1>3, <1>12, <3>5
      <4>2. t[j] = s[j - 1]
        BY <1>7, <4>1
      <4> QED BY <1>11, <3>1, <3>2, <4>1, <4>2
    <3> QED BY <1>3, <3>3, <3>4, <3>5
  <2> QED BY <1>3, <2>1, <2>2, <2>3
<1>13. Sorted(t)
  BY <1>9, <1>12 DEF Sorted
<1>14. \A j \in 0 .. n : /\ From(a, s, j) <= To(b, s, j) /\ (j # 0 => From(a, s, j) < To(b, s, j))
                         /\ lo[Nth(f, s, j)] = From(a, s, j) /\ end[Nth(f, s, j)] = To(b, s, j)
  BY <1>2 DEF Spread
<1>r. /\ \A j \in 0 .. n : lo2[Nth(f, s, j)] = lo[Nth(f, s, j)]
      /\ \A j \in 0 .. n : j # i => hi2[Nth(f, s, j)] = end[Nth(f, s, j)]
  BY <1>2 DEF Relabelled
<1>15. ASSUME NEW j \in 0 .. n + 1
       PROVE  /\ From(a, t, j) <= To(b, t, j) /\ (j # 0 => From(a, t, j) < To(b, t, j))
              /\ lo2[Nth(f, t, j)] = From(a, t, j)
              /\ hi2[Nth(f, t, j)] = To(b, t, j)
  <2>1. CASE j <= i
    <3>1. j \in 0 .. n /\ (j # 0 => j \in 1 .. n + 1) /\ j # n + 1 /\ j + 1 \in 1 .. n + 1
      BY <1>3, <2>1
    <3>2. Nth(f, t, j) = Nth(f, s, j) /\ From(a, t, j) = From(a, s, j)
      BY <1>7, <2>1, <3>1 DEF Nth, From
    <3>3. To(b, t, j) = t[j + 1].key
      BY <1>7, <3>1 DEF To
    <3>4. CASE j = i
      <4>1. t[j + 1] = c
        BY <1>3, <1>7, <3>1, <3>4
      <4> QED BY <1>2, <1>8, <1>14, <1>r, <3>1, <3>2, <3>3, <3>4, <4>1
    <3>5. CASE j # i
      <4>1. j + 1 <= i /\ j # n
        BY <1>3, <2>1, <3>5
      <4>2. t[j + 1] = s[j + 1]
        BY <1>7, <3>1, <4>1
      <4>3. To(b, s, j) = s[j + 1].key
        BY <1>2, <4>1 DEF To
      <4> QED BY <1>2, <1>14, <1>r, <3>1, <3>2, <3>3, <3>5, <4>2, <4>3
    <3> QED BY <3>4, <3>5
  <2>2. CASE j = i + 1
    <3>1. j \in 1 .. n + 1 /\ ~ (j <= i) /\ j # 0
      BY <1>3, <2>2
    <3>2. t[j] = c
      BY <1>7, <2>2, <3>1
    <3>3. Nth(f, t, j) = right /\ From(a, t, j) = k
      BY <1>8, <3>1, <3>2 DEF Nth, From
    <3>4. To(b, t, j) = To(b, s, i)
      <4>1. CASE i = n
        BY <1>2, <1>7, <2>2, <4>1 DEF To
      <4>2. CASE i # n
        <5>1. j + 1 \in 1 .. n + 1 /\ ~ (j + 1 <= i) /\ j + 1 # i + 1 /\ (j + 1) - 1 = i + 1 /\ j # n + 1
          BY <1>3, <2>2, <4>2
        <5>2. t[j + 1] = s[i + 1]
          BY <1>7, <5>1
        <5> QED BY <1>2, <1>7, <4>2, <5>1, <5>2 DEF To
      <4> QED BY <4>1, <4>2
    <3>5. end[left] = To(b, s, i)
      BY <1>3, <1>14
    <3>6. To(b, s, i) \in Nat
      <4>1. i # n => i + 1 \in 1 .. n
        BY <1>3
      <4> QED BY <1>2, <1>10, <4>1 DEF To
    <3> QED BY <1>1, <3>3, <3>4, <3>5, <3>6
  <2>3. CASE j > i + 1
    <3>1. j - 1 \in 0 .. n /\ j - 1 # 0 /\ j # 0 /\ j \in 1 .. n + 1 /\ ~ (j <= i) /\ j # i + 1 /\ j - 1 # i
      BY <1>3, <2>3
    <3>2. t[j] = s[j - 1]
      BY <1>7, <3>1
    <3>3. Nth(f, t, j) = Nth(f, s, j - 1) /\ From(a, t, j) = From(a, s, j - 1)
      BY <3>1, <3>2 DEF Nth, From
    <3>4. To(b, t, j) = To(b, s, j - 1)
      <4>1. CASE j = n + 1
        BY <1>2, <1>7, <4>1 DEF To
      <4>2. CASE j # n + 1
        <5>1. j + 1 \in 1 .. n + 1 /\ ~ (j + 1 <= i) /\ j + 1 # i + 1 /\ (j + 1) - 1 = j /\ (j - 1) + 1 = j /\ j - 1 # n
          BY <1>3, <2>3, <4>2
        <5>2. t[j + 1] = s[j]
          BY <1>7, <5>1
        <5> QED BY <1>2, <1>7, <4>2, <5>1, <5>2 DEF To
      <4> QED BY <4>1, <4>2
    <3> QED BY <1>2, <1>14, <1>r, <3>1, <3>3, <3>4
  <2> QED BY <1>3, <2>1, <2>2, <2>3
<1> QED BY <1>7, <1>13, <1>15 DEF Spread

\* The cells before the m-th one, and those behind it, with their keys.
LowPart(f, s, a, b, lo, hi, m, low) ==
    /\ low \in Cells /\ Len(low) = m - 1 /\ Spread(f, low, a, s[m].key, lo, hi)
    /\ \A i \in 0 .. m - 1 : /\ Nth(f, low, i) = Nth(f, s, i) /\ From(a, low, i) = From(a, s, i)
                             /\ To(s[m].key, low, i) = To(b, s, i)

HighPart(f, s, a, b, lo, hi, m, high) ==
    /\ high \in Cells /\ Len(high) = Len(s) - m /\ Spread(s[m].ref, high, s[m].key, b, lo, hi)
    /\ \A i \in 0 .. Len(s) - m : /\ Nth(s[m].ref, high, i) = Nth(f, s, m + i)
                                  /\ From(s[m].key, high, i) = From(a, s, m + i)
                                  /\ To(b, high, i) = To(b, s, m + i)

\* The halves of a split page.
LEMMA HalvesSpread ==
    ASSUME NEW f, NEW s \in Cells, NEW a \in Nat, NEW b \in Nat, NEW lo, NEW hi,
           Spread(f, s, a, b, lo, hi), NEW m \in 1 .. Len(s),
           NEW low, low = SubSeq(s, 1, m - 1), NEW high, high = SubSeq(s, m + 1, Len(s))
    PROVE  LowPart(f, s, a, b, lo, hi, m, low) /\ HighPart(f, s, a, b, lo, hi, m, high)
<1>1. PICK n \in Nat : n = Len(s)
  BY CellsAre
<1>2. PICK u : u = s[m].key
  OBVIOUS
<1>3. m \in 1 .. n
  BY <1>1
<1>4. low \in Cells /\ Len(low) = m - 1 /\ \A i \in 1 .. m - 1 : low[i] = s[i]
  <2>1. 1 \in 1 .. Len(s) + 1 /\ m - 1 \in 1 - 1 .. Len(s) /\ (m - 1) - 1 + 1 = m - 1
    BY <1>1, <1>3
  <2>2. low \in Cells
    BY <2>1, PartIs
  <2>3. s \in Seq(AnyCell)
    BY CellsAre
  <2> QED BY <1>1, <1>3, <2>2, <2>3
<1>5. high \in Cells /\ Len(high) = n - m /\ \A i \in 1 .. n - m : high[i] = s[m + i]
  <2>1. m + 1 \in 1 .. Len(s) + 1 /\ Len(s) \in (m + 1) - 1 .. Len(s)
    BY <1>1, <1>3
  <2>2. high \in Cells
    BY <2>1, PartIs
  <2>3. s \in Seq(AnyCell)
    BY CellsAre
  <2> QED BY <1>1, <1>3, <2>2, <2>3
<1>6. \A i \in 0 .. m - 1 : /\ Nth(f, low, i) = Nth(f, s, i) /\ From(a, low, i) = From(a, s, i)
                            /\ To(u, low, i) = To(b, s, i)
  <2> TAKE i \in 0 .. m - 1
  <2>1. i # 0 => i \in 1 .. m - 1
    BY <1>3
  <2>2. Nth(f, low, i) = Nth(f, s, i) /\ From(a, low, i) = From(a, s, i)
    BY <1>4, <2>1 DEF Nth, From
  <2>3. CASE i = m - 1
    <3>1. i + 1 = m /\ i # n
      BY <1>3, <2>3
    <3> QED BY <1>1, <1>2, <1>4, <2>2, <2>3, <3>1 DEF To
  <2>4. CASE i # m - 1
    <3>1. i + 1 \in 1 .. m - 1 /\ i # n
      BY <1>3, <2>4
    <3> QED BY <1>1, <1>4, <2>2, <2>4, <3>1 DEF To
  <2> QED BY <2>3, <2>4
<1>7. \A i \in 0 .. n - m : /\ Nth(s[m].ref, high, i) = Nth(f, s, m + i)
                            /\ From(u, high, i) = From(a, s, m + i)
                            /\ To(b, high, i) = To(b, s, m + i)
  <2> TAKE i \in 0 .. n - m
  <2>1. Nth(s[m].ref, high, i) = Nth(f, s, m + i) /\ From(u, high, i) = From(a, s, m + i)
    <3>1. CASE i = 0
      <4>1. m + i = m /\ m # 0
        BY <1>3, <3>1
      <4> QED BY <1>2, <3>1, <4>1 DEF Nth, From
    <3>2. CASE i # 0
      <4>1. i \in 1 .. n - m /\ m + i # 0
        BY <1>3, <3>2
      <4> QED BY <1>5, <3>2, <4>1 DEF Nth, From
    <3> QED BY <3>1, <3>2
  <2>2. To(b, high, i) = To(b, s, m + i)
    <3>1. CASE i = n - m
      <4>1. m + i = n
        BY <1>3, <3>1
      <4> QED BY <1>1, <1>5, <3>1, <4>1 DEF To
    <3>2. CASE i # n - m
      <4>1. i + 1 \in 1 .. n - m /\ m + i # n /\ m + (i + 1) = (m + i) + 1
        BY <1>3, <3>2
      <4>2. high[i + 1] = s[(m + i) + 1]
        BY <1>5, <4>1
      <4> QED BY <1>1, <1>5, <3>2, <4>1, <4>2 DEF To
    <3> QED BY <3>1, <3>2
  <2> QED BY <2>1, <2>2
<1>8. \A j \in 0 .. n : /\ From(a, s, j) <= To(b, s, j) /\ (j # 0 => From(a, s, j) < To(b, s, j))
                        /\ lo[Nth(f, s, j)] = From(a, s, j) /\ hi[Nth(f, s, j)] = To(b, s, j)
  BY <1>1 DEF Spread
<1>9. \A j, h \in 1 .. n : j < h => s[j].key < s[h].key
  <2>1. DOMAIN s = 1 .. n
    BY <1>1, CellsAre
  <2> QED BY <2>1 DEF Spread, Sorted
<1>10. Spread(f, low, a, u, lo, hi)
  <2>1. DOMAIN low = 1 .. m - 1
    BY <1>4, CellsAre
  <2>2. Sorted(low)
    <3> SUFFICES ASSUME NEW j \in 1 .. m - 1, NEW h \in 1 .. m - 1, j < h PROVE low[j].key < low[h].key
      BY <2>1 DEF Sorted
    <3>1. j \in 1 .. n /\ h \in 1 .. n
      BY <1>3
    <3> QED BY <1>4, <1>9, <3>1
  <2>3. \A i \in 0 .. m - 1 : i \in 0 .. n
    BY <1>3
  <2> QED BY <1>4, <1>6, <1>8, <2>2, <2>3 DEF Spread
<1>11. Spread(s[m].ref, high, u, b, lo, hi)
  <2>1. DOMAIN high = 1 .. n - m
    BY <1>5, CellsAre
  <2>2. Sorted(high)
    <3> SUFFICES ASSUME NEW j \in 1 .. n - m, NEW h \in 1 .. n - m, j < h PROVE high[j].key < high[h].key
      BY <2>1 DEF Sorted
    <3>1. m + j \in 1 .. n /\ m + h \in 1 .. n /\ m + j < m + h
      BY <1>3
    <3> QED BY <1>5, <1>9, <3>1
  <2>3. \A i \in 0 .. n - m : m + i \in 0 .. n /\ m + i # 0
    BY <1>3
  <2> QED BY <1>5, <1>7, <1>8, <2>2, <2>3 DEF Spread
<1>12. LowPart(f, s, a, b, lo, hi, m, low)
  BY <1>2, <1>4, <1>6, <1>10 DEF LowPart
<1>13. HighPart(f, s, a, b, lo, hi, m, high)
  BY <1>1, <1>2, <1>5, <1>7, <1>11 DEF HighPart
<1> QED BY <1>12, <1>13

\* The children by number.
LEMMA KidsAre ==
    ASSUME NEW n \in Node
    PROVE  /\ \A i \in 0 .. Len(n.cells) : Nth(n.link, n.cells, i) \in Kids(n)
           /\ \A q \in Kids(n) : \E i \in 0 .. Len(n.cells) : q = Nth(n.link, n.cells, i)
<1>1. Len(n.cells) \in Nat /\ DOMAIN n.cells = 1 .. Len(n.cells)
  BY NodeIs
<1>2. ASSUME NEW i \in 0 .. Len(n.cells) PROVE Nth(n.link, n.cells, i) \in Kids(n)
  <2>1. i # 0 => i \in 1 .. Len(n.cells)
    BY <1>1
  <2> QED BY <1>1, <2>1 DEF Nth, Kids
<1>3. ASSUME NEW q \in Kids(n) PROVE \E i \in 0 .. Len(n.cells) : q = Nth(n.link, n.cells, i)
  <2>1. CASE q = n.link
    <3>1. 0 \in 0 .. Len(n.cells) /\ q = Nth(n.link, n.cells, 0)
      BY <1>1, <2>1 DEF Nth
    <3> QED BY <3>1
  <2>2. CASE q # n.link
    <3>1. PICK i \in 1 .. Len(n.cells) : q = n.cells[i].ref
      BY <1>1, <1>3, <2>2 DEF Kids
    <3>2. i \in 0 .. Len(n.cells) /\ i # 0
      BY <1>1
    <3>3. q = Nth(n.link, n.cells, i)
      BY <3>1, <3>2 DEF Nth
    <3> QED BY <3>2, <3>3
  <2> QED BY <2>1, <2>2
<1> QED BY <1>2, <1>3

\* Only the labels of its children matter to a page.
LEMMA SpreadSame ==
    ASSUME NEW f, NEW s, NEW a, NEW b, NEW lo, NEW hi, Spread(f, s, a, b, lo, hi), NEW lo2, NEW hi2,
           \A i \in 0 .. Len(s) : /\ lo2[Nth(f, s, i)] = lo[Nth(f, s, i)]
                                  /\ hi2[Nth(f, s, i)] = hi[Nth(f, s, i)]
    PROVE  Spread(f, s, a, b, lo2, hi2)
  BY DEF Spread

-------------------------------------------------------------------------------
\* The keys of the pages of a tree
\*
\* Page p has the keys from lo[p] up to hi[p]; pages of a level share none.

Spans(tot, lev, lo, hi) ==
    /\ lo \in [Page -> Nat] /\ hi \in [Page -> Nat]
    /\ \A p \in 1 .. tot - 1 : 1 <= lo[p] /\ lo[p] <= hi[p] /\ hi[p] <= MaxKey + 1
    /\ \A p, q \in 1 .. tot - 1 : p # q /\ lev[p] = lev[q] => hi[p] <= lo[q] \/ hi[q] <= lo[p]

\* The children of every page divide its keys among them.
Divided(nodes, tot, lo, hi, end) ==
    \A p \in 1 .. tot - 1 : ~ nodes[p].leaf =>
        Spread(nodes[p].link, nodes[p].cells, lo[p], hi[p], lo, end)

\* For its parent, a page still has the keys of the half that is not hung in yet.
Ends(c, hi) == IF c.done THEN hi ELSE [hi EXCEPT ![c.left] = hi[c.right]]

\* The way from the root over the stack to the split page.
Line(c, i) == IF i <= Len(c.stack) THEN c.stack[i] ELSE c.left

Hangs(c, lo, hi) ==
    /\ lo[c.right] = c.key /\ hi[c.left] = c.key /\ c.key < hi[c.right] /\ Line(c, 1) = c.root
    /\ \A i \in 1 .. Len(c.stack) : Line(c, i + 1) \in Kids(c.nodes[Line(c, i)])

\* What a climb keeps of the keys.
Ordered(c, lev, lo, hi) ==
    /\ Spans(c.next, lev, lo, hi)
    /\ Divided(c.nodes, c.next, lo, hi, Ends(c, hi))
    /\ lo[c.root] = 1 /\ Ends(c, hi)[c.root] = MaxKey + 1
    /\ ~ c.done => Hangs(c, lo, hi)

\* The labels when page p was cut at u and tot has the rest of its keys.
CutAt(tot, lo, hi, p, u, lo2, hi2) ==
    /\ lo2 \in [Page -> Nat] /\ hi2 \in [Page -> Nat]
    /\ lo2[tot] = u /\ hi2[tot] = hi[p] /\ hi2[p] = u
    /\ \A q \in 1 .. tot - 1 : lo2[q] = lo[q] /\ (q # p => hi2[q] = hi[q])

\* A page split at u into itself and a new one.
LEMMA CutSpans ==
    ASSUME NEW tot \in Page, NEW lev, NEW lo, NEW hi, Spans(tot, lev, lo, hi), NEW p \in 1 .. tot - 1,
           NEW u \in Nat, lo[p] <= u, u < hi[p],
           NEW lev2, \A q \in 1 .. tot - 1 : lev2[q] = lev[q], lev2[tot] = lev[p],
           NEW lo2, NEW hi2, CutAt(tot, lo, hi, p, u, lo2, hi2)
    PROVE  Spans(tot + 1, lev2, lo2, hi2)
<1>1. tot \in Nat /\ MaxKey \in Nat /\ \A q \in 1 .. tot - 1 : q \in Page /\ q # tot
  BY PagesAssumption, LengthAssumption DEF Page
<1>2. /\ lo \in [Page -> Nat] /\ hi \in [Page -> Nat]
      /\ \A q \in 1 .. tot - 1 : 1 <= lo[q] /\ lo[q] <= hi[q] /\ hi[q] <= MaxKey + 1
  BY DEF Spans
<1>3. \A q, r \in 1 .. tot - 1 : q # r /\ lev[q] = lev[r] => hi[q] <= lo[r] \/ hi[r] <= lo[q]
  BY DEF Spans
<1>4. /\ lo2[tot] = u /\ hi2[tot] = hi[p] /\ hi2[p] = u
      /\ \A q \in 1 .. tot - 1 : lo2[q] = lo[q] /\ (q # p => hi2[q] = hi[q])
  BY DEF CutAt
<1>5. lo2 \in [Page -> Nat] /\ hi2 \in [Page -> Nat]
  BY DEF CutAt
<1>6. \A q \in 1 .. tot : q = tot \/ q \in 1 .. tot - 1
  BY <1>1
<1>7. \A q \in 1 .. tot - 1 : lo[q] \in Nat /\ hi[q] \in Nat
  BY <1>1, <1>2
<1>8. \A q \in 1 .. tot : 1 <= lo2[q] /\ lo2[q] <= hi2[q] /\ hi2[q] <= MaxKey + 1
  BY <1>1, <1>2, <1>4, <1>6, <1>7
<1>9. ASSUME NEW q \in 1 .. tot - 1, NEW r \in 1 .. tot - 1, q # r, lev2[q] = lev2[r]
      PROVE  hi2[q] <= lo2[r] \/ hi2[r] <= lo2[q]
  <2>1. hi[q] <= lo[r] \/ hi[r] <= lo[q]
    <3>1. lev[q] = lev[r]
      BY <1>9
    <3> QED BY <1>3, <1>9, <3>1
  <2>2. hi2[q] <= hi[q] /\ hi2[r] <= hi[r] /\ lo2[q] = lo[q] /\ lo2[r] = lo[r]
    <3>1. hi2[q] = hi[q] \/ (hi2[q] = u /\ q = p)
      BY <1>4
    <3>2. hi2[r] = hi[r] \/ (hi2[r] = u /\ r = p)
      BY <1>4
    <3> QED BY <1>4, <1>7, <3>1, <3>2
  <2>3. hi2[q] \in Nat /\ hi2[r] \in Nat
    BY <1>1, <1>5
  <2> QED BY <1>7, <2>1, <2>2, <2>3
<1>10. ASSUME NEW q \in 1 .. tot - 1, lev2[q] = lev2[tot]
       PROVE  hi2[q] <= lo2[tot] \/ hi2[tot] <= lo2[q]
  <2>1. CASE q = p
    <3>1. hi2[q] = u /\ lo2[tot] = u
      BY <1>4, <2>1
    <3> QED BY <3>1
  <2>2. CASE q # p
    <3>1. lev[q] = lev[p]
      BY <1>10
    <3>2. hi[q] <= lo[p] \/ hi[p] <= lo[q]
      BY <1>3, <2>2, <3>1
    <3>3. hi2[q] = hi[q] /\ lo2[q] = lo[q] /\ lo2[tot] = u /\ hi2[tot] = hi[p]
      BY <1>4, <2>2
    <3> QED BY <1>7, <3>2, <3>3
  <2> QED BY <2>1, <2>2
<1>11. ASSUME NEW q \in 1 .. tot, NEW r \in 1 .. tot, q # r, lev2[q] = lev2[r]
       PROVE  hi2[q] <= lo2[r] \/ hi2[r] <= lo2[q]
  BY <1>6, <1>9, <1>10, <1>11
<1>12. (tot + 1) - 1 = tot
  BY <1>1
<1> QED BY <1>5, <1>8, <1>11, <1>12 DEF Spans

\* Only the split page ends elsewhere for its parent.
LEMMA EndsIs ==
    ASSUME NEW c, ~ c.done, c.left \in Page, NEW hi \in [Page -> Nat]
    PROVE  Ends(c, hi)[c.left] = hi[c.right] /\ \A r \in Page : r # c.left => Ends(c, hi)[r] = hi[r]
  BY DEF Ends

\* What the labels say of the page below the top of the stack and its new half.
LEMMA HangsIs ==
    ASSUME NEW c, NEW lev, Rising(c, lev), ~ c.done, NEW lo, NEW hi, Ordered(c, lev, lo, hi)
    PROVE  /\ lo \in [Page -> Nat] /\ hi \in [Page -> Nat]
           /\ \A r \in 1 .. c.next - 1 : r \in Page /\ lo[r] \in Nat /\ hi[r] \in Nat /\ lo[r] <= hi[r]
           /\ lo[c.right] = c.key /\ hi[c.left] = c.key /\ c.key \in Nat
           /\ lo[c.left] <= c.key /\ c.key < hi[c.right]
           /\ Ends(c, hi)[c.left] = hi[c.right]
           /\ \A r \in 1 .. c.next - 1 : r # c.left => Ends(c, hi)[r] = hi[r]
<1>1. c.left \in 1 .. c.next - 1 /\ c.right \in 1 .. c.next - 1 /\ c.left \in Page /\ c.right \in Page
  BY RisingIs
<1>2. \A r \in 1 .. c.next - 1 : r \in Page
  BY RisingIs
<1>3. lo \in [Page -> Nat] /\ hi \in [Page -> Nat] /\ \A r \in 1 .. c.next - 1 : lo[r] <= hi[r]
  BY DEF Ordered, Spans
<1>4. lo[c.right] = c.key /\ hi[c.left] = c.key /\ c.key < hi[c.right]
  BY DEF Ordered, Hangs
<1>5. c.key \in Nat
  BY <1>1, <1>3, <1>4
<1>6. Ends(c, hi)[c.left] = hi[c.right] /\ \A r \in Page : r # c.left => Ends(c, hi)[r] = hi[r]
  BY <1>1, <1>3, EndsIs
<1>7. \A r \in 1 .. c.next - 1 : r # c.left => Ends(c, hi)[r] = hi[r]
  BY <1>2, <1>6
<1>8. \A r \in 1 .. c.next - 1 : lo[r] \in Nat /\ hi[r] \in Nat
  BY <1>2, <1>3
<1>9. lo[c.left] <= c.key
  BY <1>1, <1>3, <1>4
<1> QED BY <1>2, <1>3, <1>4, <1>5, <1>6, <1>7, <1>8, <1>9

\* The split page is a child of the page on top of the stack, and of no other.
LEMMA LeftHangs ==
    ASSUME NEW c, NEW lev, Rising(c, lev), ~ c.done, Len(c.stack) # 0, NEW lo, NEW hi, Ordered(c, lev, lo, hi)
    PROVE  /\ c.left \in Kids(c.nodes[Top(c)])
           /\ \A q \in 1 .. c.next - 1 : ~ c.nodes[q].leaf /\ c.left \in Kids(c.nodes[q]) => q = Top(c)
<1>1. PICK p : p = Top(c)
  OBVIOUS
<1>2. Len(c.stack) \in Nat /\ c.nodes \in [Page -> Node] /\ c.left \in 1 .. c.next - 1 /\ c.next \in Nat
  BY RisingIs
<1>3. p \in 1 .. c.next - 1 /\ ~ c.nodes[p].leaf
  BY <1>1, TopIs
<1>4. c.left \in Kids(c.nodes[p])
  <2>1. PICK n \in Nat : n = Len(c.stack)
    BY <1>2
  <2>2. n \in 1 .. n /\ ~ (n + 1 <= n) /\ n <= n
    BY <2>1
  <2>3. Line(c, n + 1) \in Kids(c.nodes[Line(c, n)])
    BY <2>1, <2>2 DEF Ordered, Hangs
  <2>4. Line(c, n + 1) = c.left /\ Line(c, n) = p
    BY <1>1, <2>1, <2>2 DEF Line, Top
  <2> QED BY <2>3, <2>4
<1>5. \A q \in 1 .. c.next - 1 : q \in Page /\ lev[q] \in Nat /\ PageAt(c.nodes, c.next, lev, q)
  <2>1. \A q \in 1 .. c.next - 1 : q \in Page /\ PageAt(c.nodes, c.next, lev, q)
    BY RisingIs
  <2>2. lev \in [Page -> Nat]
    BY RisingIs
  <2> QED BY <2>1, <2>2
<1>6. ASSUME NEW q \in 1 .. c.next - 1, ~ c.nodes[q].leaf, c.left \in Kids(c.nodes[q])
      PROVE  lo[q] <= lo[c.left] /\ lo[c.left] < hi[q] /\ lev[c.left] = lev[q] - 1
  <2>1. PICK n : n = c.nodes[q]
    OBVIOUS
  <2>2. n \in Node /\ n.cells \in Cells
    BY <1>2, <1>5, <2>1, NodeIs
  <2>3. PICK i \in 0 .. Len(n.cells) : c.left = Nth(n.link, n.cells, i)
    BY <1>6, <2>1, <2>2, KidsAre
  <2>4. Spread(n.link, n.cells, lo[q], hi[q], lo, Ends(c, hi))
    BY <1>6, <2>1 DEF Ordered, Divided
  <2>5. lo[q] \in Nat /\ hi[q] \in Nat
    BY <1>5 DEF Ordered, Spans
  <2>6. Parts(n.cells, lo[q], hi[q])
    BY <2>2, <2>4, <2>5, SpreadParts
  <2>7. lo[c.left] = From(lo[q], n.cells, i) /\ Ends(c, hi)[c.left] = To(hi[q], n.cells, i)
    BY <2>3, <2>4 DEF Spread
  <2>8. /\ From(lo[q], n.cells, i) \in Nat /\ To(hi[q], n.cells, i) \in Nat
        /\ lo[q] <= From(lo[q], n.cells, i) /\ To(hi[q], n.cells, i) <= hi[q]
    BY <2>6 DEF Parts
  <2>a. lo[c.left] <= c.key /\ c.key < Ends(c, hi)[c.left] /\ c.key \in Nat
    BY HangsIs
  <2>9. lev[c.left] = lev[q] - 1
    BY <1>5, <1>6 DEF PageAt
  <2> QED BY <2>5, <2>7, <2>8, <2>9, <2>a
<1>7. ASSUME NEW q \in 1 .. c.next - 1, ~ c.nodes[q].leaf, c.left \in Kids(c.nodes[q]) PROVE q = p
  <2>1. lo[q] <= lo[c.left] /\ lo[c.left] < hi[q] /\ lev[c.left] = lev[q] - 1
    BY <1>6, <1>7
  <2>2. lo[p] <= lo[c.left] /\ lo[c.left] < hi[p] /\ lev[c.left] = lev[p] - 1
    BY <1>3, <1>4, <1>6
  <2>3. lev[p] = lev[q]
    BY <1>3, <1>5, <2>1, <2>2
  <2>4. lo[q] \in Nat /\ hi[q] \in Nat /\ lo[p] \in Nat /\ hi[p] \in Nat /\ lo[c.left] \in Nat
    BY <1>2, <1>3, <1>5 DEF Ordered, Spans
  <2>5. q # p => hi[p] <= lo[q] \/ hi[q] <= lo[p]
    BY <1>3, <2>3 DEF Ordered, Spans
  <2> QED BY <2>1, <2>2, <2>4, <2>5
<1> QED BY <1>1, <1>4, <1>7

\* A page that the split one is no child of.
LEMMA OtherSpread ==
    ASSUME NEW c, NEW lev, Rising(c, lev), ~ c.done, NEW lo, NEW hi, Ordered(c, lev, lo, hi),
           NEW q \in 1 .. c.next - 1, ~ c.nodes[q].leaf, c.left \notin Kids(c.nodes[q]),
           NEW lo2, NEW end2, \A r \in 1 .. c.next - 1 : lo2[r] = lo[r] /\ end2[r] = hi[r]
    PROVE  Spread(c.nodes[q].link, c.nodes[q].cells, lo[q], hi[q], lo2, end2)
<1>1. PICK n : n = c.nodes[q]
  OBVIOUS
<1>2. c.nodes \in [Page -> Node] /\ \A r \in 1 .. c.next - 1 : r \in Page
  BY RisingIs
<1>3. n \in Node
  BY <1>1, <1>2
<1>4. PageAt(c.nodes, c.next, lev, q)
  BY RisingIs
<1>5. \A r \in Kids(n) : r \in 1 .. c.next - 1 /\ r # c.left
  BY <1>1, <1>4 DEF PageAt
<1>6. \A r \in 1 .. c.next - 1 : r # c.left => Ends(c, hi)[r] = hi[r]
  BY HangsIs
<1>7. Spread(n.link, n.cells, lo[q], hi[q], lo, Ends(c, hi))
  BY <1>1 DEF Ordered, Divided
<1>8. ASSUME NEW i \in 0 .. Len(n.cells)
      PROVE  /\ lo2[Nth(n.link, n.cells, i)] = lo[Nth(n.link, n.cells, i)]
             /\ end2[Nth(n.link, n.cells, i)] = Ends(c, hi)[Nth(n.link, n.cells, i)]
  <2>1. PICK r : r = Nth(n.link, n.cells, i)
    OBVIOUS
  <2>2. r \in Kids(n)
    BY <1>3, <2>1, KidsAre
  <2> QED BY <1>5, <1>6, <2>1, <2>2
<1>9. Spread(n.link, n.cells, lo[q], hi[q], lo2, end2)
  BY <1>7, <1>8, SpreadSame
<1> QED BY <1>1, <1>9

\* The split page among the children of the page on top of the stack.
LEMMA LeftIs ==
    ASSUME NEW c, NEW lev, Rising(c, lev), ~ c.done, Len(c.stack) # 0, NEW lo, NEW hi,
           Ordered(c, lev, lo, hi), NEW p, p = Top(c), NEW f, f = c.nodes[p].link, NEW s, s = c.nodes[p].cells
    PROVE  /\ s \in Cells /\ lo[p] \in Nat /\ hi[p] \in Nat /\ p \in 1 .. c.next - 1 /\ p \in Page
           /\ Spread(f, s, lo[p], hi[p], lo, Ends(c, hi))
           /\ \E i \in 0 .. Len(s) : /\ c.left = Nth(f, s, i)
                                     /\ From(lo[p], s, i) <= c.key /\ c.key < To(hi[p], s, i)
<1>1. c.nodes \in [Page -> Node] /\ \A r \in 1 .. c.next - 1 : r \in Page
  BY RisingIs
<1>2. p \in 1 .. c.next - 1 /\ p \in Page /\ ~ c.nodes[p].leaf
  BY TopIs
<1>3. PICK n : n = c.nodes[p]
  OBVIOUS
<1>4. n \in Node /\ n.link = f /\ n.cells = s
  BY <1>1, <1>2, <1>3
<1>5. s \in Cells
  BY <1>4, NodeIs
<1>6. Spread(f, s, lo[p], hi[p], lo, Ends(c, hi))
  BY <1>2 DEF Ordered, Divided
<1>7. c.left \in Kids(n)
  BY <1>3, LeftHangs
<1>8. PICK i \in 0 .. Len(s) : c.left = Nth(f, s, i)
  BY <1>4, <1>7, KidsAre
<1>9. lo[c.left] = From(lo[p], s, i) /\ Ends(c, hi)[c.left] = To(hi[p], s, i)
  BY <1>6, <1>8 DEF Spread
<1>10. lo[c.left] <= c.key /\ c.key < hi[c.right] /\ Ends(c, hi)[c.left] = hi[c.right]
  BY HangsIs
<1>11. lo[p] \in Nat /\ hi[p] \in Nat
  BY <1>2, HangsIs
<1> QED BY <1>2, <1>5, <1>6, <1>8, <1>9, <1>10, <1>11

\* A step of the climb leaves the leaves and their keys alone.
KeepsLeaves(nodes, tot, lo, hi, nodes2, tot2, lo2, hi2) ==
    /\ tot \in Nat /\ tot2 \in Nat /\ tot <= tot2
    /\ \A p \in 1 .. tot - 1 : nodes[p].leaf => nodes2[p] = nodes[p] /\ lo2[p] = lo[p] /\ hi2[p] = hi[p]
    /\ \A p \in 1 .. tot2 - 1 : nodes2[p].leaf => p \in 1 .. tot - 1 /\ nodes[p].leaf

\* The spans only depend on the levels of the pages there are.
LEMMA SpansSame ==
    ASSUME NEW tot, NEW lev, NEW lo, NEW hi, Spans(tot, lev, lo, hi),
           NEW l2, \A p \in 1 .. tot - 1 : l2[p] = lev[p]
    PROVE  Spans(tot, l2, lo, hi)
  BY DEF Spans

\* A key that is no separator is greater than the one before it.
LEMMA BehindSlot ==
    ASSUME NEW s \in Cells, NEW a, NEW i \in 0 .. Len(s), NEW k \in Nat, From(a, s, i) <= k, At(s, k) = {}
    PROVE  i # 0 => From(a, s, i) < k
<1> SUFFICES ASSUME i # 0 PROVE From(a, s, i) < k
  OBVIOUS
<1>1. i \in 1 .. Len(s) /\ DOMAIN s = 1 .. Len(s)
  BY CellsAre
<1>2. s[i].key \in Nat
  <2>1. s[i].key \in Key
    BY <1>1, CellsAre
  <2> QED BY <2>1, LengthAssumption DEF Key
<1>3. s[i].key # k
  BY <1>1 DEF At
<1> QED BY <1>2, <1>3 DEF From

\* The page on top of the stack takes the separator.
LEMMA TakeOrders ==
    ASSUME NEW c, NEW lev, Rising(c, lev), ~ c.done, Len(c.stack) # 0, NEW lo, NEW hi,
           Ordered(c, lev, lo, hi), At(c.nodes[Top(c)].cells, c.key) = {}, NEW g, g = TakeChild(c, Top(c))
    PROVE  /\ Ordered(g, UpLev(c, lev), lo, hi)
           /\ KeepsLeaves(c.nodes, c.next, lo, hi, g.nodes, g.next, lo, hi)
<1>1. PICK p : p = Top(c)
  OBVIOUS
<1>2. PICK f, s : f = c.nodes[p].link /\ s = c.nodes[p].cells
  OBVIOUS
<1>3. /\ s \in Cells /\ lo[p] \in Nat /\ hi[p] \in Nat /\ p \in 1 .. c.next - 1 /\ p \in Page
      /\ Spread(f, s, lo[p], hi[p], lo, Ends(c, hi))
  BY <1>1, <1>2, LeftIs
<1>4. PICK i \in 0 .. Len(s) : c.left = Nth(f, s, i) /\ From(lo[p], s, i) <= c.key /\ c.key < To(hi[p], s, i)
  BY <1>1, <1>2, LeftIs
<1>a. i # 0 => From(lo[p], s, i) < c.key
  <2>1. c.key \in Nat
    BY HangsIs
  <2> QED BY <1>1, <1>2, <1>3, <1>4, <2>1, BehindSlot
<1>5. /\ c \in Climbs /\ c.nodes \in [Page -> Node] /\ c.next \in Nat /\ c.key \in Key /\ c.right \in Page
      /\ c.left \in Page /\ \A r \in 1 .. c.next - 1 : r \in Page
  BY RisingIs
<1>6. ~ c.nodes[p].leaf
  BY <1>1, TopIs
<1>7. PICK t : t = InsertChild(s, c.key, c.right)
  OBVIOUS
<1>8. g \in Climbs /\ g.nodes = WithCells(c.nodes, p, t) /\ g.next = c.next /\ g.root = c.root /\ g.done = TRUE
      /\ t \in Cells
  BY <1>1, <1>2, <1>3, <1>5, <1>7, TakeChildIs
<1>9. Recelled(c.nodes, p, t, g.nodes)
  BY <1>3, <1>5, <1>8, WithCellsIs
<1>10. /\ g.nodes[p].cells = t /\ g.nodes[p].link = f /\ ~ g.nodes[p].leaf
       /\ \A q \in Page : q # p => g.nodes[q] = c.nodes[q]
  BY <1>2, <1>6, <1>9 DEF Recelled
<1>11. /\ lo[c.right] = c.key /\ hi[c.left] = c.key /\ Ends(c, hi)[c.left] = hi[c.right]
       /\ \A r \in 1 .. c.next - 1 : r # c.left => Ends(c, hi)[r] = hi[r]
  BY HangsIs
<1>12. Spread(f, t, lo[p], hi[p], lo, hi)
  <2>1. ASSUME NEW j \in 0 .. Len(s), j # i PROVE hi[Nth(f, s, j)] = Ends(c, hi)[Nth(f, s, j)]
    <3>1. Nth(f, s, j) # c.left
      BY <1>3, <1>4, <2>1, NthDiffer
    <3>2. Nth(f, s, j) \in 1 .. c.next - 1
      <4>1. PICK n : n = c.nodes[p]
        OBVIOUS
      <4>2. n \in Node /\ n.link = f /\ n.cells = s
        BY <1>2, <1>3, <1>5, <4>1
      <4>3. Nth(f, s, j) \in Kids(n)
        BY <4>2, KidsAre
      <4>4. PageAt(c.nodes, c.next, lev, p)
        BY <1>3, RisingIs
      <4> QED BY <1>6, <4>1, <4>3, <4>4 DEF PageAt
    <3> QED BY <1>11, <3>1, <3>2
  <2>2. PICK e, a, b, k, left, right : /\ e = Ends(c, hi) /\ a = lo[p] /\ b = hi[p] /\ k = c.key
                                       /\ left = c.left /\ right = c.right
    OBVIOUS
  <2>3. a \in Nat /\ b \in Nat /\ k \in Key /\ right \in Page /\ left = Nth(f, s, i) /\ t = InsertChild(s, k, right)
    BY <1>3, <1>4, <1>5, <1>7, <2>2
  <2>4. Spread(f, s, a, b, lo, e) /\ From(a, s, i) <= k /\ k < To(b, s, i) /\ (i # 0 => From(a, s, i) < k)
    BY <1>3, <1>4, <1>a, <2>2
  <2>5. lo[right] = k /\ hi[left] = k /\ hi[right] = e[left]
    BY <1>11, <2>2
  <2>6. \A j \in 0 .. Len(s) : j # i => hi[Nth(f, s, j)] = e[Nth(f, s, j)]
    BY <2>1, <2>2
  <2>7. Relabelled(f, s, i, lo, e, lo, hi)
    BY <2>6 DEF Relabelled
  <2>8. Spread(f, t, a, b, lo, hi)
    BY <1>3, <2>3, <2>4, <2>5, <2>7, InsertSpread
  <2> QED BY <2>2, <2>8
<1>13. \A q \in 1 .. c.next - 1 : ~ c.nodes[q].leaf /\ c.left \in Kids(c.nodes[q]) => q = p
  BY <1>1, LeftHangs
<1>14. ASSUME NEW q \in 1 .. g.next - 1, ~ g.nodes[q].leaf
       PROVE  Spread(g.nodes[q].link, g.nodes[q].cells, lo[q], hi[q], lo, hi)
  <2>1. CASE q = p
    BY <1>10, <1>12, <2>1
  <2>2. CASE q # p
    <3>1. q \in 1 .. c.next - 1 /\ q \in Page
      BY <1>5, <1>8
    <3>2. g.nodes[q] = c.nodes[q]
      BY <1>10, <2>2, <3>1
    <3>3. ~ c.nodes[q].leaf /\ c.left \notin Kids(c.nodes[q])
      BY <1>13, <1>14, <2>2, <3>1, <3>2
    <3>4. Spread(c.nodes[q].link, c.nodes[q].cells, lo[q], hi[q], lo, hi)
      BY <3>1, <3>3, OtherSpread
    <3> QED BY <3>2, <3>4
  <2> QED BY <2>1, <2>2
<1>15. Ends(g, hi) = hi
  BY <1>8 DEF Ends
<1>16. Divided(g.nodes, g.next, lo, hi, Ends(g, hi))
  BY <1>14, <1>15 DEF Divided
<1>17. Spans(g.next, UpLev(c, lev), lo, hi)
  <2>1. Spans(c.next, lev, lo, hi)
    BY DEF Ordered
  <2>2. \A q \in 1 .. c.next - 1 : UpLev(c, lev)[q] = lev[q]
    BY UpLevIs
  <2> QED BY <1>8, <2>1, <2>2, SpansSame
<1>18. lo[g.root] = 1 /\ Ends(g, hi)[g.root] = MaxKey + 1
  <2>1. lo[c.root] = 1 /\ Ends(c, hi)[c.root] = MaxKey + 1
    BY DEF Ordered
  <2>2. c.root # c.left
    <3>1. lev[c.left] = c.height - Len(c.stack) /\ lev[c.root] = c.height /\ Len(c.stack) \in Nat
          /\ c.height \in 1 .. c.next - 1
      BY RisingIs
    <3> QED BY <1>5, <3>1
  <2>3. c.root \in 1 .. c.next - 1
    BY RisingIs
  <2> QED BY <1>8, <1>11, <1>15, <2>1, <2>2, <2>3
<1>19. Ordered(g, UpLev(c, lev), lo, hi)
  BY <1>8, <1>16, <1>17, <1>18 DEF Ordered
<1>20. KeepsLeaves(c.nodes, c.next, lo, hi, g.nodes, g.next, lo, hi)
  <2>1. \A q \in 1 .. c.next - 1 : q \in Page /\ (c.nodes[q].leaf => q # p) /\ (g.nodes[q].leaf => q # p)
    BY <1>5, <1>6, <1>10
  <2> QED BY <1>5, <1>8, <1>10, <2>1 DEF KeepsLeaves
<1> QED BY <1>19, <1>20

Parted(c, f, s, m, a, u, b, lo, end) ==
    /\ u \in Key /\ u \in Nat /\ a <= u /\ u < b
    /\ Spread(f, LowHalf(c, s), a, u, lo, end)
    /\ Spread(s[m].ref, HighHalf(c, s), u, b, lo, end)

\* The two pages a full one becomes have its keys up to the middle one and from
\* it on, with the new child beside the one it was split off.
LEMMA PopSpread ==
    ASSUME NEW c, NEW lev, Rising(c, lev), ~ c.done, Len(c.stack) # 0, NEW lo, NEW hi,
           Ordered(c, lev, lo, hi), NEW p, p = Top(c), NEW f, f = c.nodes[p].link,
           NEW s, s = c.nodes[p].cells, Len(s) >= 1, NEW m, m = Middle(s), NEW u, u = s[m].key,
           ~ HalfHides(c, s),
           NEW lo2, NEW end2, \A r \in 1 .. c.next - 1 : lo2[r] = lo[r] /\ end2[r] = hi[r]
    PROVE  Parted(c, f, s, m, lo[p], u, hi[p], lo2, end2)
<1>1. /\ s \in Cells /\ lo[p] \in Nat /\ hi[p] \in Nat /\ p \in 1 .. c.next - 1 /\ p \in Page
      /\ Spread(f, s, lo[p], hi[p], lo, Ends(c, hi))
  BY LeftIs
<1>2. PICK i \in 0 .. Len(s) : c.left = Nth(f, s, i) /\ From(lo[p], s, i) <= c.key /\ c.key < To(hi[p], s, i)
  BY LeftIs
<1>3. PICK e, a, b, k, left, right : /\ e = Ends(c, hi) /\ a = lo[p] /\ b = hi[p] /\ k = c.key
                                     /\ left = c.left /\ right = c.right
  OBVIOUS
<1>4. c \in Climbs /\ c.nodes \in [Page -> Node] /\ k \in Key /\ right \in Page
  BY <1>3, RisingIs
<1>5. k \in Nat /\ a \in Nat /\ b \in Nat
  BY <1>1, <1>3, <1>4, LengthAssumption DEF Key
<1>6. Spread(f, s, a, b, lo, e) /\ From(a, s, i) <= k /\ k < To(b, s, i) /\ left = Nth(f, s, i)
  BY <1>1, <1>2, <1>3
<1>7. PICK n \in Nat : n = Len(s)
  BY <1>1, CellsAre
<1>8. m \in 1 .. n /\ u \in Key
  BY <1>1, <1>4, <1>7, HalvesAre
<1>9. u \in Nat
  BY <1>8, LengthAssumption, SMTT(30) DEF Key
<1>10. PICK low, high : low = SubSeq(s, 1, m - 1) /\ high = SubSeq(s, m + 1, Len(s))
  OBVIOUS
<1>11. /\ LowHalf(c, s) = IF k < u THEN InsertChild(low, k, right) ELSE low
       /\ HighHalf(c, s) = IF k < u THEN high ELSE InsertChild(high, k, right)
       /\ At(IF k < u THEN low ELSE high, k) = {}
  <2>1. m - 1 = Len(s) \div 2 /\ m + 1 = Len(s) \div 2 + 2
    BY <1>7 DEF Middle
  <2>2. /\ LowHalf(c, s) = IF k < u THEN InsertInternalCell(low, k, right) ELSE low
        /\ HighHalf(c, s) = IF k < u THEN high ELSE InsertInternalCell(high, k, right)
    BY <1>3, <1>10, <2>1 DEF LowHalf, HighHalf
  <2>3. ~ Hidden(IF k < u THEN low ELSE high, k)
    BY <1>3, <1>10, <2>1 DEF HalfHides
  <2> QED BY <2>2, <2>3 DEF Hidden, InsertInternalCell
<1>12. m \in 1 .. Len(s)
  BY <1>7, <1>8
<1>13. LowPart(f, s, a, b, lo, e, m, low) /\ HighPart(f, s, a, b, lo, e, m, high)
  BY <1>1, <1>5, <1>6, <1>10, <1>12, HalvesSpread
<1>14. /\ low \in Cells /\ Len(low) = m - 1 /\ Spread(f, low, a, u, lo, e)
       /\ \A j \in 0 .. m - 1 : /\ Nth(f, low, j) = Nth(f, s, j) /\ From(a, low, j) = From(a, s, j)
                                /\ To(u, low, j) = To(b, s, j)
  BY <1>13 DEF LowPart
<1>15. /\ high \in Cells /\ Len(high) = n - m /\ Spread(s[m].ref, high, u, b, lo, e)
       /\ \A j \in 0 .. n - m : /\ Nth(s[m].ref, high, j) = Nth(f, s, m + j)
                                /\ From(u, high, j) = From(a, s, m + j)
                                /\ To(b, high, j) = To(b, s, m + j)
  BY <1>7, <1>13, ZenonT(40) DEF HighPart
<1>16. a <= u /\ u < b
  <2>1. Parts(s, a, b)
    BY <1>1, <1>5, <1>6, SpreadParts
  <2>2. m \in 0 .. Len(s) /\ m - 1 \in 0 .. Len(s) /\ m # 0 /\ m - 1 # Len(s) /\ (m - 1) + 1 = m
    BY <1>7, <1>8
  <2>3. From(a, s, m) = u /\ To(b, s, m - 1) = u
    BY <2>2 DEF From, To
  <2>4. From(a, s, m) < To(b, s, m) /\ To(b, s, m) <= b /\ To(b, s, m) \in Nat
    BY <2>1, <2>2 DEF Parts
  <2>5. a <= From(a, s, m)
    BY <2>1, <2>2 DEF Parts
  <2> QED BY <1>5, <1>9, <2>3, <2>4, <2>5, SMTT(30)
<1>18. (k < u => i <= m - 1) /\ (~ (k < u) => m <= i)
  <2>1. Parts(s, a, b)
    BY <1>1, <1>5, <1>6, SpreadParts
  <2>2. m \in 0 .. Len(s) /\ m # 0 /\ From(a, s, m) = u
    BY <1>7, <1>8 DEF From
  <2>3. From(a, s, m) < To(b, s, m) /\ To(b, s, m) \in Nat
    BY <2>1, <2>2 DEF Parts
  <2>4. i < m => To(b, s, i) <= u
    BY <2>1, <2>2 DEF Parts
  <2>5. m < i => To(b, s, m) <= From(a, s, i)
    BY <2>1, <2>2 DEF Parts
  <2>6. From(a, s, i) \in Nat /\ To(b, s, i) \in Nat
    BY <2>1 DEF Parts
  <2>7. m <= i => u <= k
    BY <1>5, <1>6, <1>7, <1>8, <1>9, <2>2, <2>3, <2>5, <2>6
  <2>8. i < m => k < u
    BY <1>5, <1>6, <1>9, <2>4, <2>6
  <2> QED BY <1>5, <1>7, <1>8, <1>9, <2>7, <2>8
<1>19. \A r \in 1 .. c.next - 1 : (r # left => e[r] = hi[r])
  BY <1>3, HangsIs
<1>20. lo[right] = k /\ hi[left] = k /\ hi[right] = e[left]
  BY <1>3, HangsIs
<1>21. left \in 1 .. c.next - 1 /\ right \in 1 .. c.next - 1
  BY <1>3, RisingIs
<1>22. lo2[right] = k /\ end2[left] = k /\ end2[right] = e[left]
  BY <1>20, <1>21
<1>23. \A j \in 0 .. n : Nth(f, s, j) \in 1 .. c.next - 1
  <2> TAKE j \in 0 .. n
  <2>1. PICK nd : nd = c.nodes[p]
    OBVIOUS
  <2>2. nd \in Node /\ nd.link = f /\ nd.cells = s
    BY <1>1, <1>4, <2>1
  <2>3. Nth(f, s, j) \in Kids(nd)
    BY <1>7, <2>2, KidsAre
  <2>4. PageAt(c.nodes, c.next, lev, p) /\ ~ c.nodes[p].leaf
    BY <1>1, RisingIs, TopIs
  <2> QED BY <2>1, <2>3, <2>4 DEF PageAt
<1>24. \A j \in 0 .. n : lo2[Nth(f, s, j)] = lo[Nth(f, s, j)]
  BY <1>23
<1>25. \A j \in 0 .. n : j # i => end2[Nth(f, s, j)] = e[Nth(f, s, j)]
  <2> TAKE j \in 0 .. n
  <2> SUFFICES ASSUME j # i PROVE end2[Nth(f, s, j)] = e[Nth(f, s, j)]
    OBVIOUS
  <2>1. Nth(f, s, j) # left
    BY <1>1, <1>5, <1>6, <1>7, NthDiffer
  <2>2. Nth(f, s, j) \in 1 .. c.next - 1
    BY <1>23
  <2> QED BY <1>19, <2>1, <2>2
<1>26. CASE k < u
  <2>1. i \in 0 .. m - 1 /\ i \in 0 .. Len(low)
    BY <1>7, <1>14, <1>18, <1>26
  <2>2. left = Nth(f, low, i) /\ From(a, low, i) <= k /\ k < To(u, low, i)
    BY <1>6, <1>14, <2>1
  <2>d. i # 0 => From(a, low, i) < k
    BY <1>5, <1>11, <1>14, <1>26, <2>1, <2>2, BehindSlot
  <2>3. \A j \in 0 .. Len(low) : j \in 0 .. m - 1 /\ j \in 0 .. n
    BY <1>8, <1>14
  <2>4. \A j \in 0 .. Len(low) : lo2[Nth(f, low, j)] = lo[Nth(f, low, j)]
    BY <1>14, <1>24, <2>3
  <2>5. \A j \in 0 .. Len(low) : j # i => end2[Nth(f, low, j)] = e[Nth(f, low, j)]
    BY <1>14, <1>25, <2>3
  <2>6. PICK t : t = InsertChild(low, k, right)
    OBVIOUS
  <2>7. low \in Cells /\ Spread(f, low, a, u, lo, e)
    BY <1>14
  <2>r. Relabelled(f, low, i, lo, e, lo2, end2)
    BY <2>4, <2>5 DEF Relabelled
  <2>b. a \in Nat /\ u \in Nat /\ k \in Key /\ right \in Page /\ i \in 0 .. Len(low)
    BY <1>4, <1>5, <1>9, <2>1
  <2>8. Spread(f, t, a, u, lo2, end2)
    BY <1>22, <2>b, <2>2, <2>d, <2>r, <2>6, <2>7, InsertSpread
  <2>9. Spread(s[m].ref, high, u, b, lo2, end2)
    <3>1. PICK g : g = s[m].ref
      OBVIOUS
    <3>2. \A j \in 0 .. Len(high) : lo2[Nth(g, high, j)] = lo[Nth(g, high, j)] /\ end2[Nth(g, high, j)] = e[Nth(g, high, j)]
      <4> TAKE j \in 0 .. Len(high)
      <4>1. PICK q : q = Nth(f, s, m + j)
        OBVIOUS
      <4>2. j \in 0 .. n - m /\ m + j \in 0 .. n /\ m + j # i
        BY <1>8, <1>15, <2>1
      <4>3. Nth(g, high, j) = q
        BY <1>15, <3>1, <4>1, <4>2
      <4>4. lo2[q] = lo[q]
        BY <1>24, <4>1, <4>2
      <4>5. end2[q] = e[q]
        BY <1>25, <4>1, <4>2
      <4> QED BY <4>3, <4>4, <4>5
    <3>3. Spread(g, high, u, b, lo, e)
      BY <1>15, <3>1
    <3>4. Spread(g, high, u, b, lo2, end2)
      BY ONLY <3>2, <3>3, SpreadSame
    <3> QED BY <3>1, <3>4
  <2> QED BY <1>3, <1>8, <1>9, <1>11, <1>16, <1>26, <2>6, <2>8, <2>9 DEF Parted
<1>27. CASE ~ (k < u)
  <2>1. PICK h \in Nat : h = i - m
    BY <1>7, <1>8, <1>18, <1>27
  <2>2. h \in 0 .. n - m /\ h \in 0 .. Len(high) /\ m + h = i
    BY <1>7, <1>8, <1>15, <2>1
  <2>3. PICK g : g = s[m].ref
    OBVIOUS
  <2>4. left = Nth(g, high, h) /\ From(u, high, h) <= k /\ k < To(b, high, h)
    BY <1>6, <1>15, <2>2, <2>3
  <2>d. h # 0 => From(u, high, h) < k
    BY <1>5, <1>11, <1>15, <1>27, <2>2, <2>4, BehindSlot
  <2>5. \A j \in 0 .. Len(high) : j \in 0 .. n - m /\ m + j \in 0 .. n /\ (j # h => m + j # i)
    BY <1>8, <1>15, <2>2
  <2>6. \A j \in 0 .. Len(high) : lo2[Nth(g, high, j)] = lo[Nth(g, high, j)]
    <3> TAKE j \in 0 .. Len(high)
    <3>1. Nth(g, high, j) = Nth(f, s, m + j)
      BY <1>15, <2>3, <2>5
    <3>2. m + j \in 0 .. n
      BY <2>5
    <3> QED BY <1>24, <3>1, <3>2
  <2>7. \A j \in 0 .. Len(high) : j # h => end2[Nth(g, high, j)] = e[Nth(g, high, j)]
    <3> TAKE j \in 0 .. Len(high)
    <3>1. Nth(g, high, j) = Nth(f, s, m + j)
      BY <1>15, <2>3, <2>5
    <3>2. m + j \in 0 .. n /\ (j # h => m + j # i)
      BY <2>5
    <3> QED BY <1>25, <3>1, <3>2
  <2>8. PICK t : t = InsertChild(high, k, right)
    OBVIOUS
  <2>9. high \in Cells /\ Spread(g, high, u, b, lo, e)
    BY <1>15, <2>3
  <2>r. Relabelled(g, high, h, lo, e, lo2, end2)
    BY <2>6, <2>7 DEF Relabelled
  <2>b. b \in Nat /\ u \in Nat /\ k \in Key /\ right \in Page /\ h \in 0 .. Len(high)
    BY <1>4, <1>5, <1>9, <2>2
  <2>10. Spread(g, t, u, b, lo2, end2)
    BY <1>22, <2>b, <2>4, <2>d, <2>r, <2>8, <2>9, InsertSpread
  <2>11. Spread(f, low, a, u, lo2, end2)
    <3>1. ASSUME NEW j \in 0 .. Len(low)
          PROVE  /\ lo2[Nth(f, low, j)] = lo[Nth(f, low, j)] /\ end2[Nth(f, low, j)] = e[Nth(f, low, j)]
      <4>1. j \in 0 .. m - 1 /\ j \in 0 .. n /\ j # i
        BY <1>8, <1>14, <2>2
      <4> QED BY <1>14, <1>24, <1>25, <4>1
    <3>2. Spread(f, low, a, u, lo, e)
      BY <1>14
    <3> QED BY <3>1, <3>2, SpreadSame
  <2> QED BY <1>3, <1>8, <1>9, <1>11, <1>16, <1>27, <2>3, <2>8, <2>10, <2>11 DEF Parted
<1> QED BY <1>26, <1>27

\* The labels after a page on the way was split: the new page begins at the
\* separator, where the old one now ends.
PopLo(c, u, lo) == [lo EXCEPT ![c.next] = u]
PopHi(c, p, u, hi) == [hi EXCEPT ![p] = u, ![c.next] = hi[p]]

\* A full page on top of the stack is split.
LEMMA PopOrders ==
    ASSUME NEW c, NEW lev, Rising(c, lev), ~ c.done, Len(c.stack) # 0, NEW lo, NEW hi,
           Ordered(c, lev, lo, hi), NEW p, p = Top(c), Len(c.nodes[p].cells) >= 1,
           ~ HalfHides(c, c.nodes[p].cells),
           NEW g, g = Popped(c, p), NEW u, u = c.nodes[p].cells[Middle(c.nodes[p].cells)].key,
           NEW lo2, lo2 = PopLo(c, u, lo), NEW hi2, hi2 = PopHi(c, p, u, hi)
    PROVE  /\ Ordered(g, UpLev(c, lev), lo2, hi2)
           /\ KeepsLeaves(c.nodes, c.next, lo, hi, g.nodes, g.next, lo2, hi2)
<1>1. PICK f, s, m : f = c.nodes[p].link /\ s = c.nodes[p].cells /\ m = Middle(s)
  OBVIOUS
<1>2. /\ c.next \in Page /\ c.next \in Nat /\ c.root \in 1 .. c.next - 1 /\ lev[c.root] = c.height
      /\ Len(c.stack) \in Nat /\ c.height \in Nat /\ lev[c.left] = c.height - Len(c.stack)
  BY RisingIs
<1>3. \A r \in 1 .. c.next - 1 : r \in Page /\ r # c.next
  BY <1>2, RisingIs
<1>4. p \in 1 .. c.next - 1 /\ p \in Page /\ p # c.next /\ ~ c.nodes[p].leaf /\ lev[p] = lev[c.left] + 1
  BY TopIs
<1>5. SplitTo(c, p, s, g)
  BY <1>1, PoppedIs
<1>6. /\ g.next = c.next + 1 /\ g.root = c.root /\ g.done = FALSE /\ g.left = p /\ g.right = c.next
      /\ Len(g.stack) = Len(c.stack) - 1
      /\ \A i \in 1 .. Len(g.stack) : i \in 1 .. Len(c.stack) /\ g.stack[i] = c.stack[i]
  BY <1>5 DEF SplitTo
<1>7. /\ g.key = u /\ g.nodes[p].cells = LowHalf(c, s) /\ ~ g.nodes[p].leaf /\ g.nodes[p].link = f
      /\ g.nodes[c.next].cells = HighHalf(c, s) /\ ~ g.nodes[c.next].leaf
      /\ g.nodes[c.next].link = s[m].ref
  BY <1>1, <1>5 DEF SplitTo
<1>8. \A q \in Page : q # p /\ q # c.next => g.nodes[q] = c.nodes[q]
  BY <1>5 DEF SplitTo
<1>9. lo \in [Page -> Nat] /\ hi \in [Page -> Nat]
  BY HangsIs
<1>10. lo2[c.next] = u /\ \A r \in 1 .. c.next - 1 : lo2[r] = lo[r]
  BY <1>2, <1>3, <1>9 DEF PopLo
<1>11. hi2 \in [Page -> {u} \cup Nat] /\ hi2[p] = u /\ hi2[c.next] = hi[p]
       /\ \A r \in 1 .. c.next - 1 : r # p => hi2[r] = hi[r]
  BY <1>2, <1>3, <1>4, <1>9 DEF PopHi
<1>12. PICK e : e = Ends(g, hi2)
  OBVIOUS
<1>13. \A r \in 1 .. c.next - 1 : e[r] = hi[r]
  <2>1. e = [hi2 EXCEPT ![p] = hi2[c.next]]
    BY <1>6, <1>12 DEF Ends
  <2>2. e[p] = hi[p] /\ \A r \in Page : r # p => e[r] = hi2[r]
    BY <1>4, <1>11, <2>1
  <2> QED BY <1>3, <1>11, <2>2
<1>14. \A r \in 1 .. c.next - 1 : lo2[r] = lo[r] /\ e[r] = hi[r]
  BY <1>10, <1>13
<1>15. u = s[m].key /\ Len(s) >= 1 /\ ~ HalfHides(c, s)
  BY <1>1
<1>16. /\ u \in Key /\ u \in Nat /\ lo[p] <= u /\ u < hi[p]
       /\ Spread(f, LowHalf(c, s), lo[p], u, lo2, e)
       /\ Spread(s[m].ref, HighHalf(c, s), u, hi[p], lo2, e)
  <2>1. Parted(c, f, s, m, lo[p], u, hi[p], lo2, e)
    BY <1>1, <1>14, <1>15, PopSpread
  <2> QED BY <2>1 DEF Parted
<1>17. Spread(g.nodes[p].link, g.nodes[p].cells, lo2[p], hi2[p], lo2, e)
  BY <1>4, <1>7, <1>10, <1>11, <1>16
<1>18. Spread(g.nodes[c.next].link, g.nodes[c.next].cells, lo2[c.next], hi2[c.next], lo2, e)
  BY <1>7, <1>10, <1>11, <1>16
<1>19. ASSUME NEW q \in 1 .. c.next - 1, q # p, ~ g.nodes[q].leaf
       PROVE  Spread(g.nodes[q].link, g.nodes[q].cells, lo2[q], hi2[q], lo2, e)
  <2>1. q \in Page /\ g.nodes[q] = c.nodes[q]
    BY <1>3, <1>8, <1>19
  <2>2. c.left \notin Kids(c.nodes[q]) /\ ~ c.nodes[q].leaf
    BY <1>19, <2>1, LeftHangs
  <2>3. Spread(c.nodes[q].link, c.nodes[q].cells, lo[q], hi[q], lo2, e)
    BY <1>14, <2>2, OtherSpread
  <2> QED BY <1>10, <1>11, <1>19, <2>1, <2>3
<1>20. Divided(g.nodes, g.next, lo2, hi2, e)
  <2> SUFFICES ASSUME NEW q \in 1 .. g.next - 1, ~ g.nodes[q].leaf
               PROVE  Spread(g.nodes[q].link, g.nodes[q].cells, lo2[q], hi2[q], lo2, e)
    BY DEF Divided
  <2>1. q = c.next \/ q = p \/ (q \in 1 .. c.next - 1 /\ q # p)
    BY <1>2, <1>6
  <2> QED BY <1>17, <1>18, <1>19, <2>1
<1>21. Spans(g.next, UpLev(c, lev), lo2, hi2)
  <2>1. PICK l2 : l2 = UpLev(c, lev)
    OBVIOUS
  <2>2. l2[c.next] = lev[p] /\ \A r \in 1 .. c.next - 1 : l2[r] = lev[r]
    BY <1>4, <2>1, UpLevIs
  <2>5. PICK n : n = c.next
    OBVIOUS
  <2>3. Spans(n, lev, lo, hi)
    BY <2>5 DEF Ordered
  <2>4. CutAt(n, lo, hi, p, u, lo2, hi2)
    <3>1. u \in Nat /\ hi[p] \in Nat
      BY <1>4, <1>9, <1>16
    <3>2. lo2 \in [Page -> Nat] /\ hi2 \in [Page -> Nat]
      BY <1>9, <3>1 DEF PopLo, PopHi
    <3> QED BY <1>10, <1>11, <2>5, <3>2 DEF CutAt
  <2>7. n \in Page /\ p \in 1 .. n - 1 /\ u \in Nat /\ lo[p] <= u /\ u < hi[p]
    BY <1>2, <1>4, <1>16, <2>5
  <2>8. \A q \in 1 .. n - 1 : l2[q] = lev[q]
    BY <2>2, <2>5
  <2>9. l2[n] = lev[p]
    BY <2>2, <2>5
  <2>6. Spans(n + 1, l2, lo2, hi2)
    BY <2>3, <2>4, <2>7, <2>8, <2>9, CutSpans
  <2> QED BY <1>6, <2>1, <2>5, <2>6
<1>22. lo2[g.root] = 1 /\ e[g.root] = MaxKey + 1
  <2>1. lo[c.root] = 1 /\ Ends(c, hi)[c.root] = MaxKey + 1
    BY DEF Ordered
  <2>2. c.root # c.left
    BY <1>2
  <2>3. \A r \in 1 .. c.next - 1 : r # c.left => Ends(c, hi)[r] = hi[r]
    BY HangsIs
  <2> QED BY <1>2, <1>6, <1>14, <2>1, <2>2, <2>3
<1>23. Hangs(g, lo2, hi2)
  <2>1. PICK n \in Nat : n = Len(c.stack)
    BY <1>2
  <2>2. \A i \in 1 .. n : i <= n /\ (i # n => i \in 1 .. Len(g.stack)) /\ (i <= Len(g.stack) <=> i # n)
    BY <1>6, <2>1
  <2>3. c.stack[n] = p
    BY <2>1 DEF Top
  <2>4. \A i \in 1 .. n : Line(g, i) = Line(c, i) /\ Line(c, i) = c.stack[i]
    <3> TAKE i \in 1 .. n
    <3>1. CASE i = n
      BY <1>6, <2>1, <2>2, <2>3, <3>1 DEF Line
    <3>2. CASE i # n
      BY <1>6, <2>1, <2>2, <3>2 DEF Line
    <3> QED BY <3>1, <3>2
  <2>5. Line(g, 1) = g.root
    <3>1. 1 \in 1 .. n
      BY <2>1
    <3>2. Line(c, 1) = c.root
      BY DEF Ordered, Hangs
    <3> QED BY <1>6, <2>4, <3>1, <3>2
  <2>6. ASSUME NEW i \in 1 .. Len(g.stack) PROVE Line(g, i + 1) \in Kids(g.nodes[Line(g, i)])
    <3>1. i \in 1 .. n /\ i + 1 \in 1 .. n /\ i # n /\ i \in 1 .. Len(c.stack)
      BY <1>6, <2>1
    <3>2. Line(c, i + 1) \in Kids(c.nodes[Line(c, i)])
      BY <3>1 DEF Ordered, Hangs
    <3>3. c.stack[i] \in 1 .. c.next - 1 /\ lev[c.stack[i]] = c.height - i + 1
      BY <3>1, RisingIs
    <3>4. lev[p] = c.height - n + 1
      BY <1>2, <1>4, <2>1
    <3>5. c.stack[i] # p
      BY <1>2, <3>1, <3>3, <3>4
    <3>6. g.nodes[c.stack[i]] = c.nodes[c.stack[i]]
      BY <1>3, <1>8, <3>3, <3>5
    <3> QED BY <2>4, <3>1, <3>2, <3>6
  <2>7. g.key < hi2[g.right]
    BY <1>6, <1>7, <1>11, <1>16
  <2> QED BY <1>6, <1>7, <1>10, <1>11, <2>5, <2>6, <2>7 DEF Hangs
<1>24. Ordered(g, UpLev(c, lev), lo2, hi2)
  BY <1>12, <1>20, <1>21, <1>22, <1>23 DEF Ordered
<1>25. KeepsLeaves(c.nodes, c.next, lo, hi, g.nodes, g.next, lo2, hi2)
  <2>1. \A q \in 1 .. c.next - 1 : c.nodes[q].leaf => g.nodes[q] = c.nodes[q] /\ lo2[q] = lo[q] /\ hi2[q] = hi[q]
    <3> TAKE q \in 1 .. c.next - 1
    <3>1. c.nodes[q].leaf => q # p
      BY <1>4
    <3> QED BY <1>3, <1>8, <1>10, <1>11, <3>1
  <2>2. \A q \in 1 .. g.next - 1 : g.nodes[q].leaf => q \in 1 .. c.next - 1 /\ c.nodes[q].leaf
    <3> TAKE q \in 1 .. g.next - 1
    <3>1. g.nodes[q].leaf => q # p /\ q # c.next
      BY <1>7
    <3>2. q = c.next \/ q \in 1 .. c.next - 1
      BY <1>2, <1>6
    <3> QED BY <1>3, <1>8, <3>1, <3>2
  <2>3. g.next \in Nat /\ c.next <= g.next
    BY <1>2, <1>6
  <2> QED BY <1>2, <2>1, <2>2, <2>3 DEF KeepsLeaves
<1> QED BY <1>24, <1>25

\* The labels with a new root.
RootLo(c, lo) == [lo EXCEPT ![c.next] = 1]
RootHi(c, hi) == [hi EXCEPT ![c.next] = MaxKey + 1]

\* A new root has all keys.
LEMMA GrowOrders ==
    ASSUME NEW c, NEW lev, Rising(c, lev), ~ c.done, Len(c.stack) = 0, NEW lo, NEW hi,
           Ordered(c, lev, lo, hi), NEW g, g = GrowRoot(c),
           NEW lo2, lo2 = RootLo(c, lo), NEW hi2, hi2 = RootHi(c, hi)
    PROVE  /\ Ordered(g, UpLev(c, lev), lo2, hi2)
           /\ KeepsLeaves(c.nodes, c.next, lo, hi, g.nodes, g.next, lo2, hi2)
<1>1. /\ c \in Climbs /\ c.nodes \in [Page -> Node] /\ c.next \in Page /\ c.next \in Nat
      /\ c.root \in 1 .. c.next - 1 /\ lev[c.root] = c.height /\ c.height \in Nat
      /\ c.left \in 1 .. c.next - 1 /\ c.right \in 1 .. c.next - 1 /\ c.left \in Page /\ c.right \in Page
      /\ c.key \in Key
  BY RisingIs
<1>2. lev[c.left] = c.height
  BY <1>1, RisingIs
<1>3. \A r \in 1 .. c.next - 1 : r \in Page /\ r # c.next /\ lev[r] \in 1 .. c.height
  BY <1>1, RisingIs
<1>4. /\ lo \in [Page -> Nat] /\ hi \in [Page -> Nat]
      /\ lo[c.right] = c.key /\ hi[c.left] = c.key /\ c.key \in Nat
      /\ lo[c.left] <= c.key /\ c.key < hi[c.right] /\ Ends(c, hi)[c.left] = hi[c.right]
  BY HangsIs
<1>5. c.left = c.root
  <2>1. Line(c, 1) = c.root
    BY DEF Ordered, Hangs
  <2> QED BY <2>1 DEF Line
<1>6. lo[c.left] = 1 /\ hi[c.right] = MaxKey + 1
  BY <1>4, <1>5 DEF Ordered
<1>7. PICK s : s = <<[key |-> c.key, ref |-> c.right]>>
  OBVIOUS
<1>8. /\ g.nodes = [c.nodes EXCEPT ![c.next] = Internal(c.left, s)]
      /\ g.next = c.next + 1 /\ g.root = c.next /\ g.done = TRUE /\ s \in Cells
  BY <1>1, <1>7, GrowRootIs
<1>9. g.nodes[c.next] = Internal(c.left, s) /\ \A q \in Page : q # c.next => g.nodes[q] = c.nodes[q]
  BY <1>1, <1>8
<1>10. ~ g.nodes[c.next].leaf /\ g.nodes[c.next].link = c.left /\ g.nodes[c.next].cells = s
  BY <1>9 DEF Internal
<1>11. MaxKey \in Nat
  BY LengthAssumption
<1>12. /\ lo2[c.next] = 1 /\ hi2[c.next] = MaxKey + 1
       /\ \A r \in 1 .. c.next - 1 : lo2[r] = lo[r] /\ hi2[r] = hi[r]
  BY <1>1, <1>3, <1>4 DEF RootLo, RootHi
<1>13. Spread(c.left, s, 1, MaxKey + 1, lo2, hi2)
  <2>1. Len(s) = 1 /\ DOMAIN s = 1 .. 1 /\ s[1].key = c.key /\ s[1].ref = c.right
    BY <1>7
  <2>2. Sorted(s)
    BY <2>1 DEF Sorted
  <2>3. \A i \in 0 .. 1 : i = 0 \/ i = 1
    OBVIOUS
  <2>4. Nth(c.left, s, 0) = c.left /\ Nth(c.left, s, 1) = c.right
    BY <2>1 DEF Nth
  <2>5. From(1, s, 0) = 1 /\ From(1, s, 1) = c.key
    BY <2>1 DEF From
  <2>6. To(MaxKey + 1, s, 0) = c.key /\ To(MaxKey + 1, s, 1) = MaxKey + 1
    BY <2>1 DEF To
  <2>7. lo2[c.left] = 1 /\ hi2[c.left] = c.key /\ lo2[c.right] = c.key /\ hi2[c.right] = MaxKey + 1
    BY <1>1, <1>4, <1>6, <1>12
  <2>8. 1 <= c.key /\ c.key < MaxKey + 1
    BY <1>4, <1>6
  <2>9. ASSUME NEW i \in 0 .. 1
        PROVE  /\ From(1, s, i) <= To(MaxKey + 1, s, i) /\ (i # 0 => From(1, s, i) < To(MaxKey + 1, s, i))
               /\ lo2[Nth(c.left, s, i)] = From(1, s, i) /\ hi2[Nth(c.left, s, i)] = To(MaxKey + 1, s, i)
    <3>1. CASE i = 0
      BY <1>4, <1>11, <2>4, <2>5, <2>6, <2>7, <2>8, <3>1
    <3>2. CASE i = 1
      BY <1>4, <1>11, <2>4, <2>5, <2>6, <2>7, <2>8, <3>2
    <3> QED BY <2>3, <3>1, <3>2
  <2> QED BY <2>1, <2>2, <2>9 DEF Spread
<1>14. ASSUME NEW q \in 1 .. c.next - 1, ~ g.nodes[q].leaf
       PROVE  Spread(g.nodes[q].link, g.nodes[q].cells, lo2[q], hi2[q], lo2, hi2)
  <2>1. q \in Page /\ g.nodes[q] = c.nodes[q]
    BY <1>3, <1>9
  <2>2. c.left \notin Kids(c.nodes[q])
    <3>1. PageAt(c.nodes, c.next, lev, q) /\ lev[q] \in 1 .. c.height
      BY RisingIs
    <3>2. c.left \in Kids(c.nodes[q]) => lev[c.left] = lev[q] - 1
      BY <1>14, <2>1, <3>1 DEF PageAt
    <3> QED BY <1>1, <1>2, <3>1, <3>2
  <2>3. Spread(c.nodes[q].link, c.nodes[q].cells, lo[q], hi[q], lo2, hi2)
    <3>1. \A r \in 1 .. c.next - 1 : lo2[r] = lo[r] /\ hi2[r] = hi[r]
      BY <1>12
    <3>2. ~ c.nodes[q].leaf
      BY <1>14, <2>1
    <3> QED BY <2>2, <3>1, <3>2, OtherSpread
  <2> QED BY <1>12, <2>1, <2>3
<1>15. Divided(g.nodes, g.next, lo2, hi2, hi2)
  <2> SUFFICES ASSUME NEW q \in 1 .. g.next - 1, ~ g.nodes[q].leaf
               PROVE  Spread(g.nodes[q].link, g.nodes[q].cells, lo2[q], hi2[q], lo2, hi2)
    BY DEF Divided
  <2>1. q = c.next \/ q \in 1 .. c.next - 1
    BY <1>1, <1>8
  <2> QED BY <1>10, <1>12, <1>13, <1>14, <2>1
<1>16. Ends(g, hi2) = hi2
  BY <1>8 DEF Ends
<1>17. Spans(g.next, UpLev(c, lev), lo2, hi2)
  <2>1. PICK l2 : l2 = UpLev(c, lev)
    OBVIOUS
  <2>2. l2[c.next] = c.height + 1 /\ \A r \in 1 .. c.next - 1 : l2[r] = lev[r]
    BY <1>2, <2>1, UpLevIs
  <2>3. lo2 \in [Page -> Nat] /\ hi2 \in [Page -> Nat]
    <3>1. PICK x \in Nat : x = MaxKey + 1
      BY <1>11
    <3>2. hi2 = [hi EXCEPT ![c.next] = x]
      BY <3>1 DEF RootHi
    <3>3. hi2 \in [Page -> Nat]
      BY <1>4, <3>2
    <3>4. lo2 \in [Page -> Nat]
      BY <1>4 DEF RootLo
    <3> QED BY <3>3, <3>4
  <2>4. \A q \in 1 .. g.next - 1 : q = c.next \/ q \in 1 .. c.next - 1
    BY <1>1, <1>8
  <2>5. /\ \A q \in 1 .. c.next - 1 : 1 <= lo[q] /\ lo[q] <= hi[q] /\ hi[q] <= MaxKey + 1
        /\ \A q, r \in 1 .. c.next - 1 : q # r /\ lev[q] = lev[r] => hi[q] <= lo[r] \/ hi[r] <= lo[q]
    BY DEF Ordered, Spans
  <2>6. \A q \in 1 .. g.next - 1 : 1 <= lo2[q] /\ lo2[q] <= hi2[q] /\ hi2[q] <= MaxKey + 1
    <3> TAKE q \in 1 .. g.next - 1
    <3>1. CASE q = c.next
      <4>1. 1 <= MaxKey + 1
        BY LengthAssumption
      <4> QED BY <1>11, <1>12, <3>1, <4>1
    <3>2. CASE q \in 1 .. c.next - 1
      BY <1>12, <2>5, <3>2
    <3> QED BY <2>4, <3>1, <3>2
  <2>7. \A q, r \in 1 .. g.next - 1 : q # r /\ l2[q] = l2[r] => hi2[q] <= lo2[r] \/ hi2[r] <= lo2[q]
    <3> TAKE q, r \in 1 .. g.next - 1
    <3> SUFFICES ASSUME q # r, l2[q] = l2[r] PROVE hi2[q] <= lo2[r] \/ hi2[r] <= lo2[q]
      OBVIOUS
    <3>1. \A h \in 1 .. c.next - 1 : l2[h] # l2[c.next]
      <4> TAKE h \in 1 .. c.next - 1
      <4>1. l2[h] = lev[h] /\ lev[h] \in 1 .. c.height
        BY <1>3, <2>2
      <4> QED BY <1>1, <2>2, <4>1
    <3>2. q \in 1 .. c.next - 1 /\ r \in 1 .. c.next - 1
      BY <2>4, <3>1
    <3>3. lev[q] = lev[r]
      BY <2>2, <3>2
    <3> QED BY <1>12, <2>5, <3>2, <3>3
  <2> QED BY <2>1, <2>3, <2>6, <2>7 DEF Spans
<1>18. Ordered(g, UpLev(c, lev), lo2, hi2)
  BY <1>8, <1>12, <1>15, <1>16, <1>17 DEF Ordered
<1>19. KeepsLeaves(c.nodes, c.next, lo, hi, g.nodes, g.next, lo2, hi2)
  <2>1. \A q \in 1 .. c.next - 1 : g.nodes[q] = c.nodes[q] /\ lo2[q] = lo[q] /\ hi2[q] = hi[q]
    BY <1>3, <1>9, <1>12
  <2>2. \A q \in 1 .. g.next - 1 : g.nodes[q].leaf => q \in 1 .. c.next - 1 /\ c.nodes[q].leaf
    <3> TAKE q \in 1 .. g.next - 1
    <3>1. q = c.next \/ q \in 1 .. c.next - 1
      BY <1>1, <1>8
    <3> QED BY <1>10, <2>1, <3>1
  <2>3. g.next \in Nat /\ c.next <= g.next
    BY <1>1, <1>8
  <2> QED BY <1>1, <2>1, <2>2, <2>3 DEF KeepsLeaves
<1> QED BY <1>18, <1>19

\* A page once left out or hidden is not forgotten.
LEMMA UpForgetsNoOrphan ==
    ASSUME NEW c, NEW lev, Rising(c, lev)
    PROVE  /\ c.orphan => Up(c).orphan
           /\ ~ c.done /\ Len(c.stack) # 0 /\ ~ Up(c).orphan =>
                  LET s == c.nodes[Top(c)].cells
                  IN  IF FitsChild(s, c.key) THEN At(s, c.key) = {} ELSE Len(s) >= 1 /\ ~ HalfHides(c, s)
<1>1. c \in Climbs
  BY DEF Rising
<1>2. CASE c.done
  BY <1>1, <1>2, UpIs
<1>3. CASE ~ c.done /\ Len(c.stack) = 0
  <2>1. Up(c) = GrowRoot(c)
    BY <1>1, <1>3, UpIs
  <2>2. c.next \in Page /\ c.left \in Page /\ c.right \in Page /\ c.key \in Key
    BY <1>3, RisingIs
  <2> QED BY <1>1, <1>3, <2>1, <2>2, GrowRootIs
<1>4. CASE ~ c.done /\ Len(c.stack) # 0
  <2>1. PICK p, s : p = Top(c) /\ s = c.nodes[p].cells
    OBVIOUS
  <2>2. s \in Cells
    BY <1>4, <2>1, TopIs
  <2>3. c.orphan \in BOOLEAN
    BY <1>1 DEF Climbs
  <2>4. CASE FitsChild(s, c.key)
    <3>1. Up(c) = TakeChild(c, p)
      BY <1>1, <1>4, <2>1, <2>4, UpIs
    <3>2. Up(c).orphan = (c.orphan \/ Hidden(s, c.key))
      BY <2>1, <3>1 DEF TakeChild
    <3> QED BY <1>4, <2>1, <2>4, <3>2 DEF Hidden
  <2>5. CASE ~ FitsChild(s, c.key)
    <3>1. Up(c) = Popped(c, p)
      BY <1>1, <1>4, <2>1, <2>5, UpIs
    <3>2. c.key \in Key
      BY <1>4, RisingIs
    <3>3. Len(s) >= 1
      BY <2>2, <2>5, <3>2, FullHasCell
    <3>4. SplitTo(c, p, s, Popped(c, p))
      BY <1>4, <2>1, <3>3, PoppedIs
    <3>5. Up(c).orphan = (c.orphan \/ HalfHides(c, s))
      BY <3>1, <3>4 DEF SplitTo
    <3> QED BY <1>4, <2>1, <2>5, <3>3, <3>5
  <2> QED BY <2>4, <2>5
<1> QED BY <1>2, <1>3, <1>4

\* One level of the climb keeps the keys in order.
LEMMA UpOrders ==
    ASSUME NEW c, NEW lev, Rising(c, lev), NEW lo, NEW hi, Ordered(c, lev, lo, hi), ~ Up(c).orphan
    PROVE  \E lo2, hi2 : /\ Ordered(Up(c), UpLev(c, lev), lo2, hi2)
                         /\ KeepsLeaves(c.nodes, c.next, lo, hi, Up(c).nodes, Up(c).next, lo2, hi2)
<1>1. c \in Climbs /\ c.next \in Nat
  BY ClimbsIs DEF Rising
<1>2. CASE c.done
  <2>1. Up(c) = c /\ UpLev(c, lev) = lev
    BY <1>1, <1>2, UpIs DEF UpLev
  <2>2. KeepsLeaves(c.nodes, c.next, lo, hi, c.nodes, c.next, lo, hi)
    BY <1>1 DEF KeepsLeaves
  <2> QED BY <2>1, <2>2
<1>3. CASE ~ c.done /\ Len(c.stack) = 0
  <2>1. Up(c) = GrowRoot(c)
    BY <1>1, <1>3, UpIs
  <2>2. PICK lo2, hi2 : lo2 = RootLo(c, lo) /\ hi2 = RootHi(c, hi)
    OBVIOUS
  <2> QED BY <1>3, <2>1, <2>2, GrowOrders
<1>4. CASE ~ c.done /\ Len(c.stack) # 0 /\ FitsChild(c.nodes[Top(c)].cells, c.key)
  <2>1. Up(c) = TakeChild(c, Top(c))
    BY <1>1, <1>4, UpIs
  <2>2. At(c.nodes[Top(c)].cells, c.key) = {}
    BY <1>4, UpForgetsNoOrphan
  <2> QED BY <1>4, <2>1, <2>2, TakeOrders
<1>5. CASE ~ c.done /\ Len(c.stack) # 0 /\ ~ FitsChild(c.nodes[Top(c)].cells, c.key)
  <2>1. PICK p : p = Top(c)
    OBVIOUS
  <2>2. Up(c) = Popped(c, p)
    BY <1>1, <1>5, <2>1, UpIs
  <2>3. PICK u : u = c.nodes[p].cells[Middle(c.nodes[p].cells)].key
    OBVIOUS
  <2>4. PICK lo2, hi2 : lo2 = PopLo(c, u, lo) /\ hi2 = PopHi(c, p, u, hi)
    OBVIOUS
  <2>5. Len(c.nodes[p].cells) >= 1 /\ ~ HalfHides(c, c.nodes[p].cells)
    BY <1>5, <2>1, UpForgetsNoOrphan
  <2> QED BY <1>5, <2>1, <2>2, <2>3, <2>4, <2>5, PopOrders
<1> QED BY <1>2, <1>3, <1>4, <1>5

-------------------------------------------------------------------------------
\* What the leaves hold

\* The cells s of a leaf are those m has from a up to b, or some of them.
Gathered(s, a, b, m) ==
    /\ s \in Seq(Cell(Val)) /\ Sorted(s)
    /\ \A i \in 1 .. Len(s) : a <= s[i].key /\ s[i].key < b /\ m[s[i].key] = s[i].ref

HasAll(s, a, b, m) ==
    \A k \in Key : a <= k /\ k < b /\ m[k] # NoVal => \E i \in 1 .. Len(s) : s[i].key = k

Holds(s, a, b, m) == Gathered(s, a, b, m) /\ HasAll(s, a, b, m)

\* Every leaf has the stored values of its keys.
LeavesHold(nodes, tot, lo, hi, m) ==
    \A p \in 1 .. tot - 1 : nodes[p].leaf => Holds(nodes[p].cells, lo[p], hi[p], m)

\* The chain goes from smaller to greater keys, and misses none until a leaf is
\* taken out of it.
LinkedAt(nodes, lo, hi, j, p) ==
    /\ nodes[p].link # NoPage => hi[p] <= lo[nodes[p].link]
    /\ nodes[p].prev # NoPage => hi[nodes[p].prev] <= lo[p]
    /\ ~ j => hi[p] = IF nodes[p].link = NoPage THEN MaxKey + 1 ELSE lo[nodes[p].link]

LeavesLinked(nodes, tot, lo, hi, j) ==
    \A p \in 1 .. tot - 1 : nodes[p].leaf => LinkedAt(nodes, lo, hi, j, p)

\* The chain leads from leaf to leaf without coming back, also over leaves that
\* have no keys of their own.
QueuedBy(nodes, tot, rank) ==
    /\ rank \in [Page -> Nat]
    /\ \A p \in 1 .. tot - 1 : nodes[p].leaf =>
          /\ rank[p] < tot
          /\ nodes[p].link # NoPage => rank[p] < rank[nodes[p].link]
          /\ nodes[p].prev # NoPage => rank[nodes[p].prev] < rank[p]

Queued(nodes, tot) == \E rank : QueuedBy(nodes, tot, rank)

\* A climb does not touch the chain.
LEMMA QueueKept ==
    ASSUME NEW nodes, NEW tot, NEW lo, NEW hi, NEW nodes2, NEW tot2, NEW lo2, NEW hi2,
           KeepsLeaves(nodes, tot, lo, hi, nodes2, tot2, lo2, hi2), Queued(nodes, tot),
           \A p \in 1 .. tot - 1 : p \in Page
    PROVE  Queued(nodes2, tot2)
<1>1. PICK rank : QueuedBy(nodes, tot, rank)
  BY DEF Queued
<1>2. ASSUME NEW p \in 1 .. tot2 - 1, nodes2[p].leaf
      PROVE  /\ rank[p] < tot2
             /\ nodes2[p].link # NoPage => rank[p] < rank[nodes2[p].link]
             /\ nodes2[p].prev # NoPage => rank[nodes2[p].prev] < rank[p]
  <2>1. p \in 1 .. tot - 1 /\ nodes[p].leaf /\ nodes2[p] = nodes[p]
    BY <1>2 DEF KeepsLeaves
  <2>2. rank[p] < tot /\ tot <= tot2 /\ tot \in Nat /\ tot2 \in Nat /\ rank[p] \in Nat
    BY <1>1, <2>1 DEF QueuedBy, KeepsLeaves
  <2> QED BY <1>1, <2>1, <2>2 DEF QueuedBy
<1> QED BY <1>1, <1>2 DEF Queued, QueuedBy

\* A climb does not touch what the leaves hold.
LEMMA LeavesKept ==
    ASSUME NEW nodes, NEW tot, NEW lo, NEW hi, NEW nodes2, NEW tot2, NEW lo2, NEW hi2,
           KeepsLeaves(nodes, tot, lo, hi, nodes2, tot2, lo2, hi2), NEW j, NEW m,
           Chain(nodes, tot, j), LeavesHold(nodes, tot, lo, hi, m), LeavesLinked(nodes, tot, lo, hi, j)
    PROVE  LeavesHold(nodes2, tot2, lo2, hi2, m) /\ LeavesLinked(nodes2, tot2, lo2, hi2, j)
<1>1. \A p \in 1 .. tot - 1 : nodes[p].leaf => nodes2[p] = nodes[p] /\ lo2[p] = lo[p] /\ hi2[p] = hi[p]
  BY DEF KeepsLeaves
<1>2. \A p \in 1 .. tot2 - 1 : nodes2[p].leaf => p \in 1 .. tot - 1 /\ nodes[p].leaf
  BY DEF KeepsLeaves
<1>3. ASSUME NEW p \in 1 .. tot2 - 1, nodes2[p].leaf
      PROVE  Holds(nodes2[p].cells, lo2[p], hi2[p], m) /\ LinkedAt(nodes2, lo2, hi2, j, p)
  <2>1. p \in 1 .. tot - 1 /\ nodes[p].leaf
    BY <1>2, <1>3
  <2>2. nodes2[p] = nodes[p] /\ lo2[p] = lo[p] /\ hi2[p] = hi[p]
    BY <1>1, <2>1
  <2>3. Holds(nodes[p].cells, lo[p], hi[p], m)
    BY <2>1 DEF LeavesHold
  <2>4. LinkedAt(nodes, lo, hi, j, p)
    BY <2>1 DEF LeavesLinked
  <2>5. nodes[p].link # NoPage => lo2[nodes[p].link] = lo[nodes[p].link]
    <3>1. nodes[p].link # NoPage => nodes[p].link \in 1 .. tot - 1 /\ nodes[nodes[p].link].leaf
      BY <2>1 DEF Chain
    <3> QED BY <1>1, <3>1
  <2>6. nodes[p].prev # NoPage => hi2[nodes[p].prev] = hi[nodes[p].prev]
    <3>1. nodes[p].prev # NoPage => nodes[p].prev \in 1 .. tot - 1 /\ nodes[nodes[p].prev].leaf
      BY <2>1 DEF Chain
    <3> QED BY <1>1, <3>1
  <2> QED BY <2>2, <2>3, <2>4, <2>5, <2>6 DEF LinkedAt
<1> QED BY <1>3 DEF LeavesHold, LeavesLinked

\* What a climb keeps of the tree and its leaves.
Climbing(c, lev, lo, hi, m) ==
    /\ Rising(c, lev) /\ Ordered(c, lev, lo, hi)
    /\ LeavesHold(c.nodes, c.next, lo, hi, m) /\ LeavesLinked(c.nodes, c.next, lo, hi, joined)
    /\ Queued(c.nodes, c.next)

LEMMA UpKeeps ==
    ASSUME NEW c, NEW lev, NEW lo, NEW hi, NEW m, Climbing(c, lev, lo, hi, m), ~ Up(c).orphan
    PROVE  \E lo2, hi2 : Climbing(Up(c), UpLev(c, lev), lo2, hi2, m)
<1>1. /\ Rising(c, lev) /\ Ordered(c, lev, lo, hi) /\ LeavesHold(c.nodes, c.next, lo, hi, m)
      /\ LeavesLinked(c.nodes, c.next, lo, hi, joined) /\ Queued(c.nodes, c.next)
  BY DEF Climbing
<1>2. PICK g : g = Up(c)
  OBVIOUS
<1>3. Rising(g, UpLev(c, lev))
  BY <1>1, <1>2, UpRises
<1>4. PICK lo2, hi2 : /\ Ordered(g, UpLev(c, lev), lo2, hi2)
                      /\ KeepsLeaves(c.nodes, c.next, lo, hi, g.nodes, g.next, lo2, hi2)
  BY <1>1, <1>2, UpOrders
<1>5. Chain(c.nodes, c.next, joined)
  BY <1>1 DEF Rising
<1>6. LeavesHold(g.nodes, g.next, lo2, hi2, m) /\ LeavesLinked(g.nodes, g.next, lo2, hi2, joined)
  BY <1>1, <1>4, <1>5, LeavesKept
<1>7. \A p \in 1 .. c.next - 1 : p \in Page
  <2>1. c.next \in 2 .. MaxPages
    BY <1>1 DEF Rising, Shape
  <2> QED BY <2>1, PagesAssumption DEF Page
<1>8. Queued(g.nodes, g.next)
  BY <1>1, <1>4, <1>7, QueueKept
<1> QED BY <1>2, <1>3, <1>4, <1>6, <1>8 DEF Climbing

\* The climb does not forget it either.
LEMMA ClimbForgetsNoOrphan ==
    ASSUME NEW c, NEW lev0, Rising(c, lev0), ~ c.done, c.orphan
    PROVE  InsertParent(c).orphan
<1> DEFINE f == UpFun(c)
           n == Len(c.stack)
           S == {d \in 0 .. n + 1 : f[d].orphan /\ \E lev : Rising(f[d], lev)}
<1>1. n \in Nat /\ c.next \in Nat /\ c.next >= 2 /\ c.next + n < MaxPages
  BY RisingIs
<1>2. /\ InsertParent(c) = f[n + 1] /\ f[0] = c
      /\ \A d \in 1 .. MaxPages : f[d] = Up(f[d - 1])
  BY UpFunIs
<1> HIDE DEF f, n
<1>3. 0 \in S
  BY <1>1, <1>2 DEF n
<1>4. ASSUME NEW d \in 0 .. n + 1 - 1, d \in S PROVE d + 1 \in S
  <2>1. PICK lev : Rising(f[d], lev)
    BY <1>4
  <2>2. f[d + 1] = Up(f[d])
    <3>1. d + 1 \in 1 .. MaxPages /\ (d + 1) - 1 = d
      BY <1>1, PagesAssumption
    <3> QED BY <1>2, <3>1
  <2>3. Rising(f[d + 1], UpLev(f[d], lev))
    BY <2>1, <2>2, UpRises
  <2>4. f[d + 1].orphan
    BY <1>4, <2>1, <2>2, UpForgetsNoOrphan
  <2> QED BY <1>1, <2>3, <2>4
<1>5. n + 1 \in S
  <2> HIDE DEF S
  <2>1. \A d \in 0 .. n + 1 : d \in S
    BY <1>1, <1>3, <1>4, Steps
  <2> QED BY <1>1, <2>1
<1> QED BY <1>2, <1>5

\* The tree btree_insert_parent leaves, unless a page was left out or hidden.
LEMMA ClimbKeeps ==
    ASSUME NEW c, NEW lev0, NEW lo0, NEW hi0, NEW m, Climbing(c, lev0, lo0, hi0, m), ~ c.done,
           ~ InsertParent(c).orphan
    PROVE  \E lev, lo, hi : Climbing(InsertParent(c), lev, lo, hi, m) /\ InsertParent(c).done
<1> DEFINE f == UpFun(c)
           n == Len(c.stack)
           Good(d) == /\ \E lev : /\ Rising(f[d], lev)
                                  /\ f[d].orphan \/ \E lo, hi : Climbing(f[d], lev, lo, hi, m)
                      /\ f[d].done \/ (d <= n /\ Len(f[d].stack) = n - d)
           S == {d \in 0 .. n + 1 : Good(d)}
<1>0. Rising(c, lev0)
  BY DEF Climbing
<1>1. n \in Nat /\ c.next \in Nat /\ c.next >= 2 /\ c.next + n < MaxPages
  BY <1>0, RisingIs
<1>2. /\ InsertParent(c) = f[n + 1] /\ f[0] = c
      /\ \A d \in 1 .. MaxPages : f[d] = Up(f[d - 1])
  BY UpFunIs
<1> HIDE DEF f, n
<1>3. 0 \in S
  BY <1>0, <1>1, <1>2 DEF n
<1>4. ASSUME NEW d \in 0 .. n + 1 - 1, d \in S PROVE d + 1 \in S
  <2>1. PICK lev : Rising(f[d], lev) /\ (f[d].orphan \/ \E lo, hi : Climbing(f[d], lev, lo, hi, m))
    BY <1>4
  <2>2. f[d].done \/ (d <= n /\ Len(f[d].stack) = n - d)
    BY <1>4
  <2>3. f[d + 1] = Up(f[d])
    <3>1. d + 1 \in 1 .. MaxPages /\ (d + 1) - 1 = d
      BY <1>1, PagesAssumption
    <3> QED BY <1>2, <3>1
  <2>4. f[d + 1].orphan \/ \E lo2, hi2 : Climbing(f[d + 1], UpLev(f[d], lev), lo2, hi2, m)
    BY <2>1, <2>3, UpKeeps, UpForgetsNoOrphan
  <2>5. Rising(f[d + 1], UpLev(f[d], lev))
    BY <2>1, <2>3, UpRises
  <2>6. f[d + 1].done \/ (d + 1 <= n /\ Len(f[d + 1].stack) = n - (d + 1))
    <3>1. CASE f[d].done
      <4>1. f[d] \in Climbs
        BY <2>1 DEF Rising
      <4>2. f[d + 1] = f[d]
        BY <2>3, <3>1, <4>1, UpIs
      <4> QED BY <3>1, <4>2
    <3>2. CASE ~ f[d].done
      <4>1. Up(f[d]).done \/ (Len(f[d].stack) # 0 /\ Len(Up(f[d]).stack) = Len(f[d].stack) - 1)
        BY <2>1, <3>2, UpClimbs
      <4> QED BY <1>1, <2>2, <2>3, <3>2, <4>1, SMTT(30)
    <3> QED BY <3>1, <3>2
  <2> QED BY <1>1, <2>4, <2>5, <2>6
<1>5. n + 1 \in S
  <2> HIDE DEF S
  <2>1. \A d \in 0 .. n + 1 : d \in S
    BY <1>1, <1>3, <1>4, Steps
  <2> QED BY <1>1, <2>1
<1>6. Good(n + 1)
  BY <1>5
<1>7. f[n + 1].done
  BY <1>1, <1>6
<1> QED BY <1>2, <1>6, <1>7

-------------------------------------------------------------------------------
\* The cells of a leaf

Put(m, k, x) == [m EXCEPT ![k] = x]
Map == [Key -> Val \cup {NoVal}]

\* A map with one entry changed.
LEMMA PutIs ==
    ASSUME NEW m \in Map, NEW k \in Key, NEW x \in Val \cup {NoVal}
    PROVE  /\ Put(m, k, x) \in Map /\ Put(m, k, x)[k] = x
           /\ \A q \in Key : q # k => Put(m, k, x)[q] = m[q]
  BY DEF Put, Map

\* The parts of a leaf's cells.
LEMMA ValCellsAre ==
    ASSUME NEW s \in Seq(Cell(Val))
    PROVE  /\ Len(s) \in Nat /\ DOMAIN s = 1 .. Len(s)
           /\ \A i \in 1 .. Len(s) : /\ s[i] \in Cell(Val) /\ s[i].key \in Key /\ s[i].key \in Nat
                                     /\ s[i].ref \in Val /\ s[i].ref # NoVal
<1>1. Len(s) \in Nat /\ DOMAIN s = 1 .. Len(s)
  BY LenProperties
<1>2. ASSUME NEW i \in 1 .. Len(s)
      PROVE  /\ s[i] \in Cell(Val) /\ s[i].key \in Key /\ s[i].key \in Nat
             /\ s[i].ref \in Val /\ s[i].ref # NoVal
  <2>1. s[i] \in Cell(Val)
    BY ElementOfSeq
  <2>2. s[i].key \in Key /\ s[i].ref \in Val
    BY <2>1 DEF Cell
  <2> QED BY <2>1, <2>2, LengthAssumption, NoValAssumption DEF Key
<1> QED BY <1>1, <1>2

\* What a leaf's cells say, one by one.
LEMMA GatheredIs ==
    ASSUME NEW s, NEW a, NEW b, NEW m, Gathered(s, a, b, m)
    PROVE  /\ s \in Seq(Cell(Val)) /\ Len(s) \in Nat /\ DOMAIN s = 1 .. Len(s)
           /\ \A i \in 1 .. Len(s) : /\ s[i] \in Cell(Val) /\ s[i].key \in Key /\ s[i].key \in Nat
                                     /\ s[i].ref \in Val /\ a <= s[i].key /\ s[i].key < b
                                     /\ m[s[i].key] = s[i].ref /\ m[s[i].key] # NoVal
           /\ \A i, j \in 1 .. Len(s) : i < j => s[i].key < s[j].key
<1>1. s \in Seq(Cell(Val))
  BY DEF Gathered
<1>2. /\ Len(s) \in Nat /\ DOMAIN s = 1 .. Len(s)
      /\ \A i \in 1 .. Len(s) : /\ s[i] \in Cell(Val) /\ s[i].key \in Key /\ s[i].key \in Nat
                                /\ s[i].ref \in Val /\ s[i].ref # NoVal
  BY <1>1, ValCellsAre
<1>3. \A i \in 1 .. Len(s) : a <= s[i].key /\ s[i].key < b /\ m[s[i].key] = s[i].ref
  BY DEF Gathered
<1>4. \A i, j \in 1 .. Len(s) : i < j => s[i].key < s[j].key
  BY <1>2 DEF Gathered, Sorted
<1> QED BY <1>1, <1>2, <1>3, <1>4

\* No key is in two cells.
LEMMA KeysDiffer ==
    ASSUME NEW s, NEW a, NEW b, NEW m, Gathered(s, a, b, m), NEW i \in 1 .. Len(s), NEW j \in 1 .. Len(s), i # j
    PROVE  s[i].key # s[j].key
<1>1. /\ Len(s) \in Nat /\ s[i].key \in Nat /\ s[j].key \in Nat
      /\ (i < j => s[i].key < s[j].key) /\ (j < i => s[j].key < s[i].key)
  BY GatheredIs
<1>2. i < j \/ j < i
  BY <1>1
<1> QED BY <1>1, <1>2

\* Other keys do not matter to a leaf.
LEMMA HoldsSame ==
    ASSUME NEW s, NEW a, NEW b, NEW m, Holds(s, a, b, m), NEW m2,
           \A k \in Key : a <= k /\ k < b => m2[k] = m[k]
    PROVE  Holds(s, a, b, m2)
<1>1. Gathered(s, a, b, m) /\ HasAll(s, a, b, m)
  BY DEF Holds
<1>2. Gathered(s, a, b, m2)
  <2>1. \A i \in 1 .. Len(s) : a <= s[i].key /\ s[i].key < b /\ s[i].key \in Key /\ m[s[i].key] = s[i].ref
    BY <1>1, GatheredIs
  <2> QED BY <1>1, <2>1 DEF Gathered
<1>3. HasAll(s, a, b, m2)
  BY <1>1 DEF HasAll
<1> QED BY <1>1, <1>2, <1>3 DEF Holds

\* A leaf without a key holds all others.
LEMMA WithoutHolds ==
    ASSUME NEW s, NEW a \in Nat, NEW b \in Nat, NEW m \in Map, Holds(s, a, b, m), NEW k \in Key,
           NEW m2, m2 = Put(m, k, NoVal), NEW t, t = Without(s, k)
    PROVE  Holds(t, a, b, m2) /\ At(t, k) = {}
<1>1. Gathered(s, a, b, m) /\ HasAll(s, a, b, m)
  BY DEF Holds
<1>2. /\ s \in Seq(Cell(Val)) /\ Len(s) \in Nat /\ DOMAIN s = 1 .. Len(s)
      /\ \A i \in 1 .. Len(s) : /\ s[i] \in Cell(Val) /\ s[i].key \in Key /\ s[i].key \in Nat
                                /\ s[i].ref \in Val /\ a <= s[i].key /\ s[i].key < b
                                /\ m[s[i].key] = s[i].ref
      /\ \A i, j \in 1 .. Len(s) : i < j => s[i].key < s[j].key
  BY <1>1, GatheredIs
<1>3. m2[k] = NoVal /\ \A q \in Key : q # k => m2[q] = m[q]
  BY PutIs
<1>4. t \in Seq(Cell(Val))
  BY <1>2, WithoutIs
<1>5. CASE At(s, k) = {}
  <2>1. t = s
    BY <1>5 DEF Without
  <2>2. \A i \in 1 .. Len(s) : s[i].key # k
    BY <1>2, <1>5 DEF At
  <2>3. Gathered(s, a, b, m2)
    <3>1. \A i \in 1 .. Len(s) : m2[s[i].key] = s[i].ref
      BY <1>2, <1>3, <2>2
    <3> QED BY <1>1, <1>2, <3>1 DEF Gathered
  <2>4. HasAll(s, a, b, m2)
    BY <1>1, <1>3 DEF HasAll
  <2> QED BY <1>1, <1>5, <2>1, <2>3, <2>4 DEF Holds
<1>6. CASE At(s, k) # {}
  <2>1. PICK i : i = CHOOSE x \in At(s, k) : TRUE
    OBVIOUS
  <2>2. i \in At(s, k)
    BY <1>6, <2>1
  <2>3. i \in 1 .. Len(s) /\ s[i].key = k
    BY <1>2, <2>2 DEF At
  <2>4. t = Cut(s, i)
    BY <1>6, <2>1 DEF Without
  <2>5. PICK n \in Nat : n = Len(s)
    BY <1>2
  <2>6. TakenOut(s, i, t)
    BY <1>2, <2>3, <2>4, CutIs
  <2>7. Len(t) = n - 1 /\ \A j \in 1 .. n - 1 : t[j] = IF j < i THEN s[j] ELSE s[j + 1]
    BY <2>5, <2>6 DEF TakenOut
  <2>8. DOMAIN t = 1 .. n - 1
    BY <1>4, <2>7, ValCellsAre
  <2>9. \A j \in 1 .. n : j # i => s[j].key # k
    <3> TAKE j \in 1 .. n
    <3>1. j # i => s[j].key # s[i].key
      BY <1>1, <2>3, <2>5, KeysDiffer
    <3> QED BY <2>3, <3>1
  <2>10. \A j \in 1 .. n - 1 : \E h \in 1 .. n : /\ t[j] = s[h] /\ h # i
                                                /\ h = IF j < i THEN j ELSE j + 1
    <3> TAKE j \in 1 .. n - 1
    <3>1. CASE j < i
      <4>1. j \in 1 .. n /\ j # i /\ t[j] = s[j]
        BY <2>7, <3>1
      <4> QED BY <3>1, <4>1
    <3>2. CASE ~ (j < i)
      <4>1. j + 1 \in 1 .. n /\ j + 1 # i /\ t[j] = s[j + 1]
        BY <2>3, <2>5, <2>7, <3>2
      <4> QED BY <3>2, <4>1
    <3> QED BY <3>1, <3>2
  <2>11. Sorted(t)
    <3> SUFFICES ASSUME NEW x \in 1 .. n - 1, NEW y \in 1 .. n - 1, x < y PROVE t[x].key < t[y].key
      BY <2>8 DEF Sorted
    <3>1. PICK g \in 1 .. n : t[x] = s[g] /\ g = IF x < i THEN x ELSE x + 1
      BY <2>10
    <3>2. PICK h \in 1 .. n : t[y] = s[h] /\ h = IF y < i THEN y ELSE y + 1
      BY <2>10
    <3>3. g < h
      BY <2>3, <2>5, <3>1, <3>2
    <3> QED BY <1>2, <2>5, <3>1, <3>2, <3>3
  <2>12. \A j \in 1 .. n - 1 : /\ a <= t[j].key /\ t[j].key < b /\ m2[t[j].key] = t[j].ref /\ t[j].key # k
    <3> TAKE j \in 1 .. n - 1
    <3>1. PICK h \in 1 .. n : t[j] = s[h] /\ h # i
      BY <2>10
    <3>2. s[h].key # k
      BY <2>9, <3>1
    <3> QED BY <1>2, <1>3, <2>5, <3>1, <3>2
  <2>13. Gathered(t, a, b, m2)
    BY <1>4, <2>7, <2>11, <2>12 DEF Gathered
  <2>14. HasAll(t, a, b, m2)
    <3> SUFFICES ASSUME NEW q \in Key, a <= q, q < b, m2[q] # NoVal
                 PROVE  \E j \in 1 .. n - 1 : t[j].key = q
      BY <2>7 DEF HasAll
    <3>1. q # k /\ m[q] # NoVal
      BY <1>3
    <3>2. PICK h \in 1 .. n : s[h].key = q
      BY <1>1, <2>5, <3>1 DEF HasAll
    <3>3. h # i
      BY <2>3, <3>1, <3>2
    <3>4. CASE h < i
      <4>1. h \in 1 .. n - 1 /\ t[h] = s[h]
        BY <2>3, <2>5, <2>7, <3>4
      <4> QED BY <3>2, <4>1
    <3>5. CASE h > i
      <4>1. h - 1 \in 1 .. n - 1 /\ (h - 1) + 1 = h /\ ~ (h - 1 < i)
        BY <2>3, <2>5, <3>5
      <4>2. t[h - 1] = s[h]
        BY <2>7, <4>1
      <4> QED BY <3>2, <4>1, <4>2
    <3> QED BY <2>3, <2>5, <3>3, <3>4, <3>5
  <2>15. At(t, k) = {}
    BY <2>8, <2>12 DEF At
  <2> QED BY <2>13, <2>14, <2>15 DEF Holds
<1> QED BY <1>5, <1>6

\* A leaf with a new key.
LEMMA PutHolds ==
    ASSUME NEW s, NEW a \in Nat, NEW b \in Nat, NEW m \in Map, Holds(s, a, b, m), NEW k \in Key,
           a <= k, k < b, NEW v \in Val, At(s, k) = {}, NEW m2, m2 = Put(m, k, v),
           NEW t, t = InsertAt(s, Below(s, k), [key |-> k, ref |-> v])
    PROVE  Holds(t, a, b, m2)
<1>1. Gathered(s, a, b, m) /\ HasAll(s, a, b, m)
  BY DEF Holds
<1>2. /\ s \in Seq(Cell(Val)) /\ Len(s) \in Nat /\ DOMAIN s = 1 .. Len(s)
      /\ \A i \in 1 .. Len(s) : /\ s[i] \in Cell(Val) /\ s[i].key \in Key /\ s[i].key \in Nat
                                /\ s[i].ref \in Val /\ a <= s[i].key /\ s[i].key < b
                                /\ m[s[i].key] = s[i].ref
      /\ \A i, j \in 1 .. Len(s) : i < j => s[i].key < s[j].key
  BY <1>1, GatheredIs
<1>3. m2[k] = v /\ \A q \in Key : q # k => m2[q] = m[q]
  BY PutIs
<1>4. PICK n \in Nat : n = Len(s)
  BY <1>2
<1>5. PICK i, c : i = Below(s, k) /\ c = [key |-> k, ref |-> v]
  OBVIOUS
<1>6. i \in 0 .. n
  BY <1>2, <1>4, <1>5, BelowInRange
<1>7. k \in Nat
  BY LengthAssumption DEF Key
<1>8. \A j \in 1 .. n : s[j].key # k
  BY <1>2, <1>4 DEF At
<1>9. \A j \in 1 .. n : IF j <= i THEN s[j].key < k ELSE k < s[j].key
  <2>1. Sorted(s)
    BY <1>1 DEF Gathered
  <2>2. s \in Seq([key : Key, ref : Val])
    BY <1>2 DEF Cell
  <2>3. \A j \in 1 .. Len(s) : s[j].key < k <=> j <= Below(s, k)
    BY <1>7, <2>1, <2>2, BelowIs
  <2>4. \A j \in 1 .. n : s[j].key < k <=> j <= i
    BY <1>4, <1>5, <2>3
  <2> QED BY <1>2, <1>4, <1>7, <1>8, <2>4
<1>10. c \in Cell(Val) /\ c.key = k /\ c.ref = v
  BY <1>5 DEF Cell
<1>11. t \in Seq(Cell(Val)) /\ PutIn(s, i, c, t)
  <2>1. t = InsertAt(s, i, c) /\ i \in 0 .. Len(s)
    BY <1>4, <1>5, <1>6
  <2> QED BY <1>2, <1>10, <2>1, InsertAtPuts
<1>12. Len(t) = n + 1 /\ \A j \in 1 .. n + 1 : t[j] = IF j <= i THEN s[j] ELSE IF j = i + 1 THEN c ELSE s[j - 1]
  BY <1>4, <1>11 DEF PutIn
<1>13. DOMAIN t = 1 .. n + 1
  BY <1>11, <1>12, ValCellsAre
<1>14. \A j \in 1 .. n + 1 : \/ j <= i /\ j \in 1 .. n /\ t[j] = s[j] /\ t[j].key < k
                             \/ j = i + 1 /\ t[j] = c
                             \/ j > i + 1 /\ j - 1 \in 1 .. n /\ t[j] = s[j - 1] /\ k < t[j].key
  <2> TAKE j \in 1 .. n + 1
  <2>1. CASE j <= i
    <3>1. j \in 1 .. n /\ t[j] = s[j]
      BY <1>6, <1>12, <2>1
    <3> QED BY <1>9, <2>1, <3>1
  <2>2. CASE j = i + 1
    <3>1. ~ (j <= i)
      BY <1>6, <2>2
    <3> QED BY <1>12, <2>2, <3>1
  <2>3. CASE j > i + 1
    <3>1. ~ (j <= i) /\ j # i + 1 /\ j - 1 \in 1 .. n /\ ~ (j - 1 <= i)
      BY <1>6, <2>3
    <3>2. t[j] = s[j - 1] /\ k < s[j - 1].key
      BY <1>9, <1>12, <3>1
    <3> QED BY <2>3, <3>1, <3>2
  <2> QED BY <1>6, <2>1, <2>2, <2>3
<1>15. \A j \in 1 .. n + 1 : t[j].key \in Nat /\ a <= t[j].key /\ t[j].key < b /\ m2[t[j].key] = t[j].ref
  <2> TAKE j \in 1 .. n + 1
  <2>1. CASE t[j] = c
    BY <1>3, <1>7, <1>10, <2>1
  <2>2. ASSUME NEW h \in 1 .. n, t[j] = s[h]
        PROVE  t[j].key \in Nat /\ a <= t[j].key /\ t[j].key < b /\ m2[t[j].key] = t[j].ref
    <3>1. s[h].key # k
      BY <1>8
    <3> QED BY <1>2, <1>3, <1>4, <2>2, <3>1
  <2> QED BY <1>14, <2>1, <2>2
<1>16. Sorted(t)
  <2> SUFFICES ASSUME NEW x \in 1 .. n + 1, NEW y \in 1 .. n + 1, x < y PROVE t[x].key < t[y].key
    BY <1>13 DEF Sorted
  <2>1. \A g, h \in 1 .. n : g < h => s[g].key < s[h].key
    BY <1>2, <1>4
  <2>2. CASE y <= i
    <3>1. x <= i /\ x \in 1 .. n /\ y \in 1 .. n
      BY <1>6, <2>2
    <3> QED BY <1>12, <2>1, <2>2, <3>1
  <2>3. CASE y = i + 1
    <3>1. x <= i /\ ~ (x > i + 1) /\ x # i + 1 /\ ~ (y <= i) /\ ~ (y > i + 1)
      BY <1>6, <2>3
    <3>2. t[x].key < k /\ t[y] = c
      BY <1>14, <3>1
    <3> QED BY <1>10, <3>2
  <2>4. CASE y > i + 1
    <3>1. ~ (y <= i) /\ y # i + 1
      BY <1>6, <2>4
    <3>2. y - 1 \in 1 .. n /\ t[y] = s[y - 1] /\ k < t[y].key
      BY <1>14, <3>1
    <3>3. CASE x <= i + 1
      <4>1. t[x].key < k \/ t[x].key = k
        <5>1. ~ (x > i + 1)
          BY <1>6, <3>3
        <5> QED BY <1>10, <1>14, <5>1
      <4> QED BY <1>7, <1>15, <3>2, <4>1
    <3>4. CASE x > i + 1
      <4>1. ~ (x <= i) /\ x # i + 1
        BY <1>6, <3>4
      <4>2. x - 1 \in 1 .. n /\ t[x] = s[x - 1]
        BY <1>14, <4>1
      <4>3. x - 1 < y - 1
        OBVIOUS
      <4> QED BY <2>1, <3>2, <4>2, <4>3
    <3> QED BY <1>6, <3>3, <3>4
  <2> QED BY <1>6, <2>2, <2>3, <2>4
<1>17. Gathered(t, a, b, m2)
  BY <1>11, <1>12, <1>15, <1>16 DEF Gathered
<1>18. HasAll(t, a, b, m2)
  <2> SUFFICES ASSUME NEW q \in Key, a <= q, q < b, m2[q] # NoVal
               PROVE  \E j \in 1 .. n + 1 : t[j].key = q
    BY <1>12 DEF HasAll
  <2>1. CASE q = k
    <3>1. i + 1 \in 1 .. n + 1 /\ ~ (i + 1 <= i)
      BY <1>6
    <3>2. t[i + 1] = c
      BY <1>12, <3>1
    <3> QED BY <1>10, <2>1, <3>1, <3>2
  <2>2. CASE q # k
    <3>1. m[q] # NoVal
      BY <1>3, <2>2
    <3>2. PICK h \in 1 .. n : s[h].key = q
      BY <1>1, <1>4, <3>1 DEF HasAll
    <3>3. CASE h <= i
      <4>1. h \in 1 .. n + 1 /\ t[h] = s[h]
        BY <1>12, <3>3
      <4> QED BY <3>2, <4>1
    <3>4. CASE h > i
      <4>1. h + 1 \in 1 .. n + 1 /\ ~ (h + 1 <= i) /\ h + 1 # i + 1 /\ (h + 1) - 1 = h
        BY <1>6, <3>4
      <4>2. t[h + 1] = s[h]
        BY <1>12, <4>1
      <4> QED BY <3>2, <4>1, <4>2
    <3> QED BY <1>6, <3>3, <3>4
  <2> QED BY <2>1, <2>2
<1> QED BY <1>17, <1>18 DEF Holds

\* The cells t are the cells s with the value v for the key k.
Overwritten(s, k, v, t) ==
    /\ t \in Seq(Cell(Val)) /\ DOMAIN t = DOMAIN s
    /\ \A j \in DOMAIN s : t[j] = IF j \in At(s, k) THEN [key |-> k, ref |-> v] ELSE s[j]
    /\ At(s, k) # {}

\* A value overwritten by one of the same length.
LEMMA OverHolds ==
    ASSUME NEW s, NEW a \in Nat, NEW b \in Nat, NEW m \in Map, Holds(s, a, b, m), NEW k \in Key,
           NEW v \in Val, NEW m2, m2 = Put(m, k, v), NEW t, Overwritten(s, k, v, t)
    PROVE  Holds(t, a, b, m2)
<1>a. PICK i \in At(s, k) : TRUE
  BY DEF Overwritten
<1>b. /\ t \in Seq(Cell(Val)) /\ DOMAIN t = DOMAIN s
      /\ \A j \in DOMAIN s : t[j] = IF j \in At(s, k) THEN [key |-> k, ref |-> v] ELSE s[j]
  BY DEF Overwritten
<1>1. Gathered(s, a, b, m) /\ HasAll(s, a, b, m)
  BY DEF Holds
<1>2. /\ s \in Seq(Cell(Val)) /\ Len(s) \in Nat /\ DOMAIN s = 1 .. Len(s)
      /\ \A j \in 1 .. Len(s) : /\ s[j] \in Cell(Val) /\ s[j].key \in Key /\ s[j].key \in Nat
                                /\ s[j].ref \in Val /\ a <= s[j].key /\ s[j].key < b
                                /\ m[s[j].key] = s[j].ref
      /\ \A j, h \in 1 .. Len(s) : j < h => s[j].key < s[h].key
  BY <1>1, GatheredIs
<1>3. m2[k] = v /\ \A q \in Key : q # k => m2[q] = m[q]
  BY PutIs
<1>4. i \in 1 .. Len(s) /\ s[i].key = k
  BY <1>2 DEF At
<1>5. Len(t) \in Nat /\ DOMAIN t = 1 .. Len(t)
  BY <1>b, ValCellsAre
<1>6. Len(t) = Len(s)
  <2>1. DOMAIN t = DOMAIN s
    BY <1>b
  <2>2. Len(s) \in Nat /\ DOMAIN s = 1 .. Len(s)
    BY <1>2
  <2>3. PICK x, y : x = Len(t) /\ y = Len(s)
    OBVIOUS
  <2>4. x \in Nat /\ y \in Nat /\ 1 .. x = 1 .. y
    BY <1>5, <2>1, <2>2, <2>3
  <2>5. x = y
    <3>1. \A z \in Nat : 1 <= z /\ z <= x <=> 1 <= z /\ z <= y
      BY <2>4
    <3> QED BY <2>4, <3>1
  <2> QED BY <2>3, <2>5
<1>7. \A j \in 1 .. Len(s) : IF j = i THEN t[j].key = k /\ t[j].ref = v ELSE t[j] = s[j] /\ s[j].key # k
  <2> TAKE j \in 1 .. Len(s)
  <2>1. j # i => s[j].key # k
    BY <1>1, <1>4, KeysDiffer
  <2>2. CASE j = i
    <3>1. t[j] = [key |-> k, ref |-> v]
      BY <1>2, <1>b, <2>2
    <3> QED BY <2>2, <3>1
  <2>3. CASE j # i
    <3>1. j \notin At(s, k)
      BY <2>1, <2>3 DEF At
    <3> QED BY <1>2, <1>b, <2>1, <2>3, <3>1
  <2> QED BY <2>2, <2>3
<1>8. \A j \in 1 .. Len(s) : t[j].key = s[j].key
  BY <1>4, <1>7
<1>9. Sorted(t)
  BY <1>2, <1>5, <1>6, <1>8 DEF Sorted
<1>10. \A j \in 1 .. Len(s) : m2[t[j].key] = t[j].ref
  <2> TAKE j \in 1 .. Len(s)
  <2>1. s[j].key \in Key /\ m[s[j].key] = s[j].ref
    BY <1>2
  <2> QED BY <1>3, <1>7, <2>1
<1>11. Gathered(t, a, b, m2)
  BY <1>2, <1>6, <1>8, <1>9, <1>10, <1>b DEF Gathered
<1>12. HasAll(t, a, b, m2)
  <2> SUFFICES ASSUME NEW q \in Key, a <= q, q < b, m2[q] # NoVal
               PROVE  \E j \in 1 .. Len(s) : t[j].key = q
    BY <1>6 DEF HasAll
  <2>1. CASE q = k
    BY <1>4, <1>7, <2>1
  <2>2. CASE q # k
    <3>1. m[q] # NoVal
      BY <1>3, <2>2
    <3>2. PICK h \in 1 .. Len(s) : s[h].key = q
      BY <1>1, <3>1 DEF HasAll
    <3> QED BY <1>8, <3>2
  <2> QED BY <2>1, <2>2
<1> QED BY <1>11, <1>12 DEF Holds

\* page_insert_leaf_cell either stores the value or leaves the other cells.
Inserted(r, a, b, m, k, v) ==
    /\ r.ok => Holds(r.cells, a, b, Put(m, k, v))
    /\ ~ r.ok => Holds(r.cells, a, b, Put(m, k, NoVal))

LEMMA InsertHolds ==
    ASSUME NEW s, NEW a \in Nat, NEW b \in Nat, NEW m \in Map, Holds(s, a, b, m), NEW k \in Key,
           a <= k, k < b, NEW v \in Val, NEW r, r = InsertLeafCell(s, k, v)
    PROVE  Inserted(r, a, b, m, k, v)
<1>1. s \in Seq(Cell(Val)) /\ DOMAIN s = 1 .. Len(s) /\ Len(s) \in Nat
  BY GatheredIs DEF Holds
<1>2. PICK rest, m0 : rest = Without(s, k) /\ m0 = Put(m, k, NoVal)
  OBVIOUS
<1>3. Holds(rest, a, b, m0) /\ At(rest, k) = {}
  BY <1>2, WithoutHolds
<1>4. PICK over : over = [i \in DOMAIN s |-> IF i \in At(s, k) THEN [key |-> k, ref |-> v] ELSE s[i]]
  OBVIOUS
<1>5. PICK put : put = InsertAt(rest, Below(rest, k), [key |-> k, ref |-> v])
  OBVIOUS
<1>6. r = IF \E i \in At(s, k) : ValLen[s[i].ref] = ValLen[v] THEN [ok |-> TRUE, cells |-> over]
          ELSE IF Fits(TRUE, rest, [key |-> k, ref |-> v]) THEN [ok |-> TRUE, cells |-> put]
          ELSE [ok |-> FALSE, cells |-> rest]
  BY <1>2, <1>4, <1>5, Zenon DEF InsertLeafCell
<1>7. CASE \E i \in At(s, k) : ValLen[s[i].ref] = ValLen[v]
  <2>1. r.ok /\ r.cells = over
    <3>1. r = [ok |-> TRUE, cells |-> over]
      BY <1>6, <1>7, Zenon
    <3> QED BY <3>1
  <2>2. over \in Seq(Cell(Val))
    <3>1. r.cells \in Seq(Cell(Val))
      BY <1>1, InsertLeafCellIs
    <3> QED BY <2>1, <3>1
  <2>3. /\ DOMAIN over = DOMAIN s
        /\ \A j \in DOMAIN s : over[j] = IF j \in At(s, k) THEN [key |-> k, ref |-> v] ELSE s[j]
    BY <1>2, <1>4
  <2>4. Overwritten(s, k, v, over)
    BY <1>7, <2>2, <2>3 DEF Overwritten
  <2>5. PICK m2 : m2 = Put(m, k, v)
    OBVIOUS
  <2>6. Holds(over, a, b, m2)
    BY <2>4, <2>5, OverHolds
  <2> QED BY <2>1, <2>5, <2>6 DEF Inserted
<1>8. CASE ~ (\E i \in At(s, k) : ValLen[s[i].ref] = ValLen[v]) /\ Fits(TRUE, rest, [key |-> k, ref |-> v])
  <2>1. r.ok /\ r.cells = put
    BY <1>6, <1>8
  <2>2. m0 \in Map
    BY <1>2, PutIs
  <2>3. PICK m2 : m2 = Put(m0, k, v)
    OBVIOUS
  <2>4. Holds(put, a, b, m2)
    BY <1>2, <1>3, <1>5, <1>8, <2>2, <2>3, PutHolds
  <2>5. m2 = Put(m, k, v)
    BY <1>2, <2>3 DEF Put, Map
  <2> QED BY <2>1, <2>4, <2>5 DEF Inserted
<1>9. CASE ~ (\E i \in At(s, k) : ValLen[s[i].ref] = ValLen[v]) /\ ~ Fits(TRUE, rest, [key |-> k, ref |-> v])
  <2>1. ~ r.ok /\ r.cells = rest
    BY <1>6, <1>9
  <2> QED BY <1>2, <1>3, <1>9, <2>1 DEF Inserted
<1> QED BY <1>7, <1>8, <1>9

\* The cells of a leaf cut before the h-th one, which has the key u.
Halved(s, a, b, m, h, u) ==
    /\ a <= u /\ u < b /\ u \in Key
    /\ Gathered(SubSeq(s, 1, h - 1), a, u, m) /\ HasAll(SubSeq(s, 1, h - 1), a, u, m)
    /\ Gathered(SubSeq(s, h, Len(s)), u, b, m) /\ HasAll(SubSeq(s, h, Len(s)), u, b, m)

LEMMA CutHolds ==
    ASSUME NEW s, NEW a \in Nat, NEW b \in Nat, NEW m, Holds(s, a, b, m),
           NEW h \in 1 .. Len(s), NEW u, u = s[h].key
    PROVE  Halved(s, a, b, m, h, u)
<1>1. Gathered(s, a, b, m) /\ HasAll(s, a, b, m)
  BY DEF Holds
<1>2. /\ s \in Seq(Cell(Val)) /\ Len(s) \in Nat
      /\ \A i \in 1 .. Len(s) : /\ s[i].key \in Key /\ s[i].key \in Nat
                                /\ a <= s[i].key /\ s[i].key < b /\ m[s[i].key] = s[i].ref
      /\ \A i, j \in 1 .. Len(s) : i < j => s[i].key < s[j].key
  BY <1>1, GatheredIs
<1>3. PICK n \in Nat : n = Len(s)
  BY <1>2
<1>4. h \in 1 .. n
  BY <1>3
<1>5. u \in Key /\ u \in Nat /\ u < b /\ a <= u
  BY <1>2, <1>3, <1>4
<1>7. PICK low : low = SubSeq(s, 1, h - 1)
  OBVIOUS
<1>8. PICK high : high = SubSeq(s, h, n)
  OBVIOUS
<1>9. low \in Seq(Cell(Val)) /\ Len(low) = h - 1 /\ \A i \in 1 .. h - 1 : low[i] = s[i]
  BY <1>2, <1>3, <1>4, <1>7
<1>10. high \in Seq(Cell(Val)) /\ Len(high) = n - h + 1 /\ \A i \in 1 .. n - h + 1 : high[i] = s[h + i - 1]
  BY <1>2, <1>3, <1>4, <1>8
<1>11. DOMAIN low = 1 .. h - 1 /\ DOMAIN high = 1 .. n - h + 1
  BY <1>9, <1>10, ValCellsAre
<1>12. Gathered(low, a, u, m)
  <2>1. \A i \in 1 .. h - 1 : i \in 1 .. n /\ i < h
    BY <1>4
  <2>2. \A i \in 1 .. h - 1 : a <= low[i].key /\ low[i].key < u /\ m[low[i].key] = low[i].ref
    BY <1>2, <1>3, <1>4, <1>9, <2>1
  <2>3. Sorted(low)
    BY <1>2, <1>3, <1>9, <1>11, <2>1 DEF Sorted
  <2> QED BY <1>9, <2>2, <2>3 DEF Gathered
<1>13. Gathered(high, u, b, m)
  <2>1. \A i \in 1 .. n - h + 1 : h + i - 1 \in 1 .. n /\ (h + i - 1 = h \/ h < h + i - 1)
    BY <1>4
  <2>2. \A i \in 1 .. n - h + 1 : u <= high[i].key /\ high[i].key < b /\ m[high[i].key] = high[i].ref
    <3> TAKE i \in 1 .. n - h + 1
    <3>1. PICK j \in 1 .. n : j = h + i - 1
      BY <2>1
    <3>2. j = h \/ h < j
      BY <2>1, <3>1
    <3>3. high[i] = s[j]
      BY <1>10, <3>1
    <3>4. u <= s[j].key
      BY <1>2, <1>3, <1>4, <1>5, <3>2
    <3> QED BY <1>2, <1>3, <3>3, <3>4
  <2>3. Sorted(high)
    <3> SUFFICES ASSUME NEW x \in 1 .. n - h + 1, NEW y \in 1 .. n - h + 1, x < y PROVE high[x].key < high[y].key
      BY <1>11 DEF Sorted
    <3>1. h + x - 1 < h + y - 1
      BY <1>4
    <3> QED BY <1>2, <1>3, <1>10, <2>1, <3>1
  <2> QED BY <1>10, <2>2, <2>3 DEF Gathered
<1>14. HasAll(low, a, u, m)
  <2> SUFFICES ASSUME NEW k \in Key, a <= k, k < u, m[k] # NoVal
               PROVE  \E i \in 1 .. h - 1 : low[i].key = k
    BY <1>9 DEF HasAll
  <2>1. k \in Nat /\ k < b
    BY <1>5, LengthAssumption DEF Key
  <2>2. PICK i \in 1 .. n : s[i].key = k
    BY <1>1, <1>3, <2>1 DEF HasAll
  <2>3. i < h
    <3>1. i # h
      BY <1>5, <2>1, <2>2
    <3>2. ~ (h < i)
      BY <1>2, <1>3, <1>4, <1>5, <2>1, <2>2
    <3> QED BY <1>4, <3>1, <3>2
  <2>4. i \in 1 .. h - 1
    BY <1>4, <2>3
  <2> QED BY <1>9, <2>2, <2>4
<1>15. HasAll(high, u, b, m)
  <2> SUFFICES ASSUME NEW k \in Key, u <= k, k < b, m[k] # NoVal
               PROVE  \E i \in 1 .. n - h + 1 : high[i].key = k
    BY <1>10 DEF HasAll
  <2>1. k \in Nat /\ a <= k
    BY <1>5, LengthAssumption DEF Key
  <2>2. PICK i \in 1 .. n : s[i].key = k
    BY <1>1, <1>3, <2>1 DEF HasAll
  <2>3. ~ (i < h)
    BY <1>2, <1>3, <1>4, <1>5, <2>1, <2>2
  <2>4. i - h + 1 \in 1 .. n - h + 1 /\ h + (i - h + 1) - 1 = i
    BY <1>4, <2>3
  <2>5. high[i - h + 1] = s[i]
    BY <1>10, <2>4
  <2> QED BY <2>2, <2>4, <2>5
<1> QED BY <1>3, <1>5, <1>7, <1>8, <1>12, <1>13, <1>14, <1>15 DEF Halved

\* The leaves of a split hold what the leaf held, and the new value if there was
\* room for it.
SplitAt(left, right, a, b, u, m) ==
    a <= u /\ u < b /\ u \in Key /\ Holds(left, a, u, m) /\ Holds(right, u, b, m)

\* What a leaf holds of the pair that found no room before the split.
Rest(s, k, v) == IF LeftOut(s, k, v) THEN NoVal ELSE v

LEMMA SplitHolds ==
    ASSUME NEW s, NEW a \in Nat, NEW b \in Nat, NEW m \in Map, Holds(s, a, b, m), NEW k \in Key,
           a <= k, k < b, NEW v \in Val, Len(s) >= 1, NEW m2, m2 = Put(m, k, Rest(s, k, v)),
           NEW u, u = Promoted(s), NEW left, left = LeftHalf(s, k, v, u),
           NEW right, right = RightHalf(s, k, v, u)
    PROVE  SplitAt(left, right, a, b, u, m2)
<1>1. s \in Seq(Cell(Val)) /\ Len(s) \in Nat
  BY GatheredIs DEF Holds
<1>3. PICK h : h = Len(s) \div 2 + 1
  OBVIOUS
<1>4. h \in 1 .. Len(s) /\ h - 1 = Len(s) \div 2
  BY <1>1, <1>3
<1>5. u = s[h].key
  BY <1>3 DEF Promoted
<1>6. PICK low : low = SubSeq(s, 1, h - 1)
  OBVIOUS
<1>7. PICK high : high = SubSeq(s, h, Len(s))
  OBVIOUS
<1>8. Halved(s, a, b, m, h, u)
  BY <1>4, <1>5, CutHolds
<1>9. /\ a <= u /\ u < b /\ u \in Key /\ Holds(low, a, u, m) /\ Holds(high, u, b, m)
  BY <1>6, <1>7, <1>8 DEF Halved, Holds
<1>10. low = Low(s) /\ high = High(s)
  BY <1>3, <1>4, <1>6, <1>7 DEF Low, High
<1>13. u \in Nat /\ k \in Nat
  BY <1>9, LengthAssumption DEF Key
<1>14. PICK r : r = InsertLeafCell(IF k < u THEN low ELSE high, k, v)
  OBVIOUS
<1>15. /\ left = (IF k < u THEN r.cells ELSE low)
       /\ right = (IF k < u THEN high ELSE r.cells)
  BY <1>10, <1>14 DEF LeftHalf, RightHalf
<1>16. m2 = Put(m, k, IF r.ok THEN v ELSE NoVal)
  BY <1>10, <1>14 DEF Rest, LeftOut
<1>17. \A q \in Key : q # k => m2[q] = m[q]
  BY PutIs DEF Rest
<1>18. CASE k < u
  <2>1. Inserted(r, a, u, m, k, v)
    BY <1>9, <1>13, <1>14, <1>18, InsertHolds
  <2>2. Holds(left, a, u, m2)
    BY <1>15, <1>16, <1>18, <2>1 DEF Inserted
  <2>3. \A q \in Key : u <= q /\ q < b => m2[q] = m[q]
    BY <1>13, <1>17, <1>18
  <2>4. Holds(right, u, b, m2)
    BY <1>9, <1>15, <1>18, <2>3, HoldsSame
  <2> QED BY <1>9, <2>2, <2>4 DEF SplitAt
<1>19. CASE ~ (k < u)
  <2>1. Inserted(r, u, b, m, k, v)
    <3>1. u <= k
      BY <1>13, <1>19
    <3> QED BY <1>9, <1>13, <1>14, <1>19, <3>1, InsertHolds
  <2>2. Holds(right, u, b, m2)
    BY <1>15, <1>16, <1>19, <2>1 DEF Inserted
  <2>3. \A q \in Key : a <= q /\ q < u => m2[q] = m[q]
    BY <1>13, <1>17, <1>19
  <2>4. Holds(left, a, u, m2)
    BY <1>9, <1>15, <1>19, <2>3, HoldsSame
  <2> QED BY <1>9, <2>2, <2>4 DEF SplitAt
<1> QED BY <1>18, <1>19

-------------------------------------------------------------------------------
\* The tree between calls

\* The keys of every page, from the root down, and what the leaves hold of m.
Searchable(nodes, tot, rt, h, j, lev, lo, hi, m) ==
    /\ Shape(nodes, tot, rt, h, lev) /\ Chain(nodes, tot, j)
    /\ Spans(tot, lev, lo, hi) /\ Divided(nodes, tot, lo, hi, hi)
    /\ lo[rt] = 1 /\ hi[rt] = MaxKey + 1
    /\ LeavesHold(nodes, tot, lo, hi, m) /\ LeavesLinked(nodes, tot, lo, hi, j) /\ Queued(nodes, tot)

\* The parts of the shape and of the labels.
LEMMA SearchableIs ==
    ASSUME NEW lev, NEW lo, NEW hi, NEW m, Searchable(node, total, root, height, joined, lev, lo, hi, m)
    PROVE  /\ Shape(node, total, root, height, lev) /\ Chain(node, total, joined)
           /\ total \in Nat /\ total >= 2 /\ height \in 1 .. total - 1 /\ root \in 1 .. total - 1
           /\ node \in [Page -> Node] /\ lev \in [Page -> Nat]
           /\ lo \in [Page -> Nat] /\ hi \in [Page -> Nat] /\ MaxKey \in Nat
           /\ \A p \in 1 .. total - 1 : /\ p \in Page /\ p # total /\ node[p] \in Node /\ (node[p].leaf <=> lev[p] = 1)
                                        /\ lo[p] \in Nat /\ hi[p] \in Nat
                                        /\ 1 <= lo[p] /\ lo[p] <= hi[p] /\ hi[p] <= MaxKey + 1
           /\ \A p, q \in 1 .. total - 1 : node[p].leaf /\ node[q].leaf /\ p # q => hi[p] <= lo[q] \/ hi[q] <= lo[p]
<1>1. Shape(node, total, root, height, lev) /\ Chain(node, total, joined) /\ Spans(total, lev, lo, hi)
  BY DEF Searchable
<1>2. /\ total \in 2 .. MaxPages /\ height \in 1 .. total - 1 /\ root \in 1 .. total - 1
      /\ node \in [Page -> Node] /\ lev \in [Page -> Nat]
      /\ \A p \in 1 .. total - 1 : PageAt(node, total, lev, p)
  BY <1>1 DEF Shape
<1>3. total \in Nat /\ total >= 2 /\ \A p \in 1 .. total - 1 : p \in Page /\ p # total
  BY <1>2, PagesAssumption DEF Page
<1>4. /\ lo \in [Page -> Nat] /\ hi \in [Page -> Nat]
      /\ \A p \in 1 .. total - 1 : 1 <= lo[p] /\ lo[p] <= hi[p] /\ hi[p] <= MaxKey + 1
      /\ \A p, q \in 1 .. total - 1 : p # q /\ lev[p] = lev[q] => hi[p] <= lo[q] \/ hi[q] <= lo[p]
  BY <1>1 DEF Spans
<1>5. \A p \in 1 .. total - 1 : node[p].leaf <=> lev[p] = 1
  BY <1>2 DEF PageAt
<1>6. \A p \in 1 .. total - 1 : lo[p] \in Nat /\ hi[p] \in Nat /\ node[p] \in Node
  BY <1>2, <1>3, <1>4
<1>7. \A p, q \in 1 .. total - 1 : node[p].leaf /\ node[q].leaf /\ p # q => hi[p] <= lo[q] \/ hi[q] <= lo[p]
  <2> TAKE p, q \in 1 .. total - 1
  <2>1. node[p].leaf /\ node[q].leaf => lev[p] = lev[q]
    BY <1>5
  <2> QED BY <1>4, <2>1
<1> QED BY <1>1, <1>2, <1>3, <1>4, <1>5, <1>6, <1>7, LengthAssumption

\* A page above the leaves divides its keys among its children.
LEMMA InnerIs ==
    ASSUME NEW lev, NEW lo, NEW hi, NEW m, Searchable(node, total, root, height, joined, lev, lo, hi, m),
           NEW p \in 1 .. total - 1, ~ node[p].leaf
    PROVE  /\ Spread(node[p].link, node[p].cells, lo[p], hi[p], lo, hi)
           /\ \A q \in Kids(node[p]) : q \in 1 .. total - 1
<1>1. Divided(node, total, lo, hi, hi) /\ Shape(node, total, root, height, lev)
  BY DEF Searchable
<1>2. PageAt(node, total, lev, p)
  BY <1>1 DEF Shape
<1> QED BY <1>1, <1>2 DEF Divided, PageAt

\* The leaf of a key has the key.
Within(l, k, lo, hi) == lo[l] <= k /\ k < hi[l]

LEMMA LeafHas ==
    ASSUME NEW lev, NEW lo, NEW hi, NEW m, Searchable(node, total, root, height, joined, lev, lo, hi, m),
           NEW k \in Key
    PROVE  Within(LeafOf(k), k, lo, hi)
<1>1. /\ Shape(node, total, root, height, lev) /\ total \in Nat /\ height \in 1 .. total - 1 /\ MaxKey \in Nat
      /\ \A p \in 1 .. total - 1 : /\ p \in Page /\ node[p] \in Node /\ (node[p].leaf <=> lev[p] = 1)
                                   /\ lo[p] \in Nat /\ hi[p] \in Nat
  BY SearchableIs
<1>2. PICK s : s = Path(k)
  OBVIOUS
<1>3. /\ s \in Seq(Page) /\ Len(s) = height /\ s[1] = root
      /\ \A i \in 1 .. height : s[i] \in 1 .. total - 1 /\ lev[s[i]] = height - i + 1
      /\ \A i \in 1 .. height - 1 : s[i + 1] = Child(node[s[i]], k)
  <2>1. OnPath(Path(k), height, k, lev)
    BY <1>1, PathIs
  <2>2. Len(s) = height
    BY <1>1, <1>2, LeafOfIs
  <2> QED BY <1>2, <2>1, <2>2 DEF OnPath
<1>4. k \in Nat /\ 1 <= k /\ k < MaxKey + 1
  BY <1>1 DEF Key
<1>5. PICK n \in Nat : n = height /\ n >= 1
  BY <1>1
<1> DEFINE S == {i \in 1 .. n : Within(s[i], k, lo, hi)}
<1>6. 1 \in S
  <2>1. lo[root] = 1 /\ hi[root] = MaxKey + 1
    BY DEF Searchable
  <2> QED BY <1>3, <1>4, <1>5, <2>1 DEF Within
<1>7. ASSUME NEW i \in 1 .. n - 1, i \in S PROVE i + 1 \in S
  <2>1. PICK p : p = s[i]
    OBVIOUS
  <2>2. i \in 1 .. height /\ i \in 1 .. height - 1 /\ i + 1 \in 1 .. n /\ height - i + 1 # 1
    BY <1>5
  <2>3. p \in 1 .. total - 1 /\ lev[p] # 1 /\ s[i + 1] = Child(node[p], k)
    BY <1>3, <2>1, <2>2
  <2>4. ~ node[p].leaf /\ node[p] \in Node /\ lo[p] \in Nat /\ hi[p] \in Nat
    BY <1>1, <2>3
  <2>5. Spread(node[p].link, node[p].cells, lo[p], hi[p], lo, hi)
    BY <2>3, <2>4, InnerIs
  <2>6. lo[p] <= k /\ k < hi[p]
    BY <1>7, <2>1 DEF Within
  <2>7. PICK x : x = node[p]
    OBVIOUS
  <2>8. PICK a, b : a = lo[p] /\ b = hi[p]
    OBVIOUS
  <2>9. /\ x \in Node /\ a \in Nat /\ b \in Nat /\ Spread(x.link, x.cells, a, b, lo, hi)
        /\ a <= k /\ k < b
    BY <2>4, <2>5, <2>6, <2>7, <2>8
  <2>10. lo[Child(x, k)] <= k /\ k < hi[Child(x, k)]
    BY <1>4, <2>9, ChildHas
  <2> QED BY <2>2, <2>3, <2>7, <2>10 DEF Within
<1>8. n \in S
  <2> HIDE DEF S
  <2>1. \A i \in 1 .. n : i \in S
    BY <1>5, <1>6, <1>7, Steps
  <2> QED BY <1>5, <2>1
<1>9. LeafOf(k) = s[n]
  BY <1>2, <1>3, <1>5 DEF LeafOf
<1> QED BY <1>8, <1>9

\* The leaf for a key, and the keys of the other leaves.
LEMMA KeyLeafIs ==
    ASSUME NEW lev, NEW lo, NEW hi, NEW m, Searchable(node, total, root, height, joined, lev, lo, hi, m),
           NEW k \in Key, NEW l, l = LeafOf(k)
    PROVE  /\ l \in 1 .. total - 1 /\ l \in Page /\ node[l].leaf /\ lev[l] = 1
           /\ lo[l] \in Nat /\ hi[l] \in Nat /\ lo[l] <= k /\ k < hi[l]
           /\ Holds(node[l].cells, lo[l], hi[l], m)
           /\ \A p \in 1 .. total - 1 : node[p].leaf /\ p # l => hi[p] <= k \/ k < lo[p]
<1>1. l \in 1 .. total - 1 /\ l \in Page /\ node[l].leaf /\ lev[l] = 1
  <2>1. Shape(node, total, root, height, lev)
    BY SearchableIs
  <2> QED BY <2>1, LeafOfIs
<1>2. lo[l] <= k /\ k < hi[l]
  BY LeafHas DEF Within
<1>3. LeavesHold(node, total, lo, hi, m)
  BY DEF Searchable
<1>4. Holds(node[l].cells, lo[l], hi[l], m)
  BY <1>1, <1>3 DEF LeavesHold
<1>5. k \in Nat
  BY LengthAssumption DEF Key
<1>6. ASSUME NEW p \in 1 .. total - 1, node[p].leaf, p # l PROVE hi[p] <= k \/ k < lo[p]
  <2>1. hi[p] <= lo[l] \/ hi[l] <= lo[p]
    BY <1>1, <1>6, SearchableIs
  <2>2. lo[p] \in Nat /\ hi[p] \in Nat /\ lo[l] \in Nat /\ hi[l] \in Nat
    BY <1>1, SearchableIs
  <2> QED BY <1>2, <1>5, <2>1, <2>2
<1>7. lo[l] \in Nat /\ hi[l] \in Nat
  BY <1>1, SearchableIs
<1> QED BY <1>1, <1>2, <1>4, <1>6, <1>7

-------------------------------------------------------------------------------
\* A split of a leaf

\* The pages of a split and their labels: the leaf l has the keys up to u, the
\* new leaf those from u on.
SplitTree(k, m, lev, lo, hi, l, u, r, l2, c, lo2, hi2) ==
    /\ Searchable(node, total, root, height, joined, lev, lo, hi, m)
    /\ l = LeafOf(k) /\ total \in Page /\ lo[l] <= u /\ u < hi[l] /\ u \in Key
    /\ l2 \in [Page -> Nat] /\ l2[total] = 1 /\ \A p \in 1 .. total - 1 : l2[p] = lev[p]
    /\ ClimbFrom(Path(k), r, u, c) /\ Rising(c, l2) /\ c.left = l
    /\ CutAt(total, lo, hi, l, u, lo2, hi2)

\* The new labels.
LEMMA NewLabels ==
    ASSUME NEW k \in Key, NEW m, NEW lev, NEW lo, NEW hi, NEW l, NEW u, NEW r, NEW l2, NEW c, NEW lo2, NEW hi2,
           SplitTree(k, m, lev, lo, hi, l, u, r, l2, c, lo2, hi2)
    PROVE  /\ lo2 \in [Page -> Nat] /\ hi2 \in [Page -> Nat] /\ u \in Nat
           /\ lo2[total] = u /\ hi2[total] = hi[l] /\ hi2[l] = u /\ lo2[l] = lo[l]
           /\ \A p \in 1 .. total - 1 : lo2[p] = lo[p] /\ (p # l => hi2[p] = hi[p])
           /\ l \in 1 .. total - 1 /\ l \in Page /\ node[l].leaf /\ total \in Page
           /\ Ends(c, hi2)[l] = hi[l]
           /\ \A p \in 1 .. total - 1 : Ends(c, hi2)[p] = hi[p]
<1>1. /\ Searchable(node, total, root, height, joined, lev, lo, hi, m) /\ l = LeafOf(k)
      /\ total \in Page /\ u \in Key /\ CutAt(total, lo, hi, l, u, lo2, hi2) /\ c.left = l
      /\ ClimbFrom(Path(k), r, u, c)
  BY DEF SplitTree
<1>2. l \in 1 .. total - 1 /\ l \in Page /\ node[l].leaf
  BY <1>1, KeyLeafIs
<1>3. /\ lo2 \in [Page -> Nat] /\ hi2 \in [Page -> Nat]
      /\ lo2[total] = u /\ hi2[total] = hi[l] /\ hi2[l] = u
      /\ \A p \in 1 .. total - 1 : lo2[p] = lo[p] /\ (p # l => hi2[p] = hi[p])
  BY <1>1 DEF CutAt
<1>4. u \in Nat
  BY <1>1, LengthAssumption DEF Key
<1>5. ~ c.done /\ c.right = total
  BY <1>1 DEF ClimbFrom
<1>6. \A p \in 1 .. total - 1 : p \in Page
  BY <1>1, SearchableIs
<1>7. Ends(c, hi2)[c.left] = hi2[c.right] /\ \A q \in Page : q # c.left => Ends(c, hi2)[q] = hi2[q]
  BY <1>1, <1>2, <1>3, <1>5, EndsIs
<1>8. Ends(c, hi2)[l] = hi[l]
  BY <1>1, <1>3, <1>5, <1>7
<1>9. \A p \in 1 .. total - 1 : Ends(c, hi2)[p] = hi[p]
  <2> TAKE p \in 1 .. total - 1
  <2>1. CASE p = l
    BY <1>8, <2>1
  <2>2. CASE p # l
    BY <1>1, <1>3, <1>6, <1>7, <2>2
  <2> QED BY <2>1, <2>2
<1> QED BY <1>1, <1>2, <1>3, <1>4, <1>8, <1>9

\* The labels say where the keys of the pages are, but for the parent of l.
LEMMA SplitOrders ==
    ASSUME NEW k \in Key, NEW m, NEW lev, NEW lo, NEW hi, NEW l, NEW u, NEW r, NEW l2, NEW c, NEW lo2, NEW hi2,
           SplitTree(k, m, lev, lo, hi, l, u, r, l2, c, lo2, hi2),
           NEW left, NEW right, LeavesSplit(node, l, left, total, right, node[l].link, r)
    PROVE  Ordered(c, l2, lo2, hi2)
<1>1. /\ Searchable(node, total, root, height, joined, lev, lo, hi, m) /\ l = LeafOf(k)
      /\ total \in Page /\ lo[l] <= u /\ u < hi[l]
      /\ l2 \in [Page -> Nat] /\ l2[total] = 1 /\ \A p \in 1 .. total - 1 : l2[p] = lev[p]
      /\ ClimbFrom(Path(k), r, u, c) /\ Rising(c, l2) /\ CutAt(total, lo, hi, l, u, lo2, hi2)
  BY DEF SplitTree
<1>2. /\ lo2 \in [Page -> Nat] /\ hi2 \in [Page -> Nat] /\ u \in Nat
      /\ lo2[total] = u /\ hi2[total] = hi[l] /\ hi2[l] = u /\ lo2[l] = lo[l]
      /\ \A p \in 1 .. total - 1 : lo2[p] = lo[p] /\ (p # l => hi2[p] = hi[p])
      /\ l \in 1 .. total - 1 /\ l \in Page /\ node[l].leaf
      /\ \A p \in 1 .. total - 1 : Ends(c, hi2)[p] = hi[p]
  BY NewLabels
<1>3. /\ Shape(node, total, root, height, lev) /\ total \in Nat /\ root \in 1 .. total - 1
      /\ \A p \in 1 .. total - 1 : p \in Page /\ p # total /\ node[p] \in Node /\ (node[p].leaf <=> lev[p] = 1)
      /\ height \in 1 .. total - 1
  BY <1>1, SearchableIs
<1>4. /\ c.nodes = r /\ c.next = total + 1 /\ c.root = root /\ c.key = u /\ c.left = l /\ c.right = total
      /\ ~ c.done /\ Len(c.stack) = Len(Path(k)) - 1
      /\ \A i \in 1 .. Len(Path(k)) - 1 : c.stack[i] = Path(k)[i]
  BY <1>1 DEF ClimbFrom, SplitTree
<1>5. /\ r[l].leaf /\ r[total].leaf
      /\ node[l].link # NoPage /\ node[l].link # l => r[node[l].link].leaf = node[node[l].link].leaf
      /\ \A p \in Page : p # l /\ p # total /\ p # node[l].link => r[p] = node[p]
  BY DEF LeavesSplit
<1>6. node[l].link # NoPage => node[l].link \in 1 .. total - 1 /\ node[node[l].link].leaf
  <2>1. Chain(node, total, joined)
    BY <1>1, SearchableIs
  <2> QED BY <1>2, <2>1 DEF Chain
<1>7. \A p \in 1 .. total - 1 : ~ node[p].leaf => r[p] = node[p]
  <2> TAKE p \in 1 .. total - 1
  <2> SUFFICES ASSUME ~ node[p].leaf PROVE r[p] = node[p]
    OBVIOUS
  <2>1. p # l /\ p # total /\ p \in Page
    BY <1>2, <1>3
  <2>2. p # node[l].link
    BY <1>6, <2>1, PagesAssumption DEF NoPage, Page
  <2> QED BY <1>5, <2>1, <2>2
<1>8. Spans(total + 1, l2, lo2, hi2)
  <2>1. Spans(total, lev, lo, hi)
    BY <1>1 DEF Searchable
  <2>2. l2[total] = lev[l]
    BY <1>1, <1>2, <1>3
  <2> QED BY <1>1, <1>2, <2>1, <2>2, CutSpans
<1>9. Divided(r, total + 1, lo2, hi2, Ends(c, hi2))
  <2> SUFFICES ASSUME NEW p \in 1 .. (total + 1) - 1, ~ r[p].leaf
               PROVE  Spread(r[p].link, r[p].cells, lo2[p], hi2[p], lo2, Ends(c, hi2))
    BY DEF Divided
  <2>1. p # l /\ p # total
    BY <1>5
  <2>2. p \in 1 .. total - 1
    BY <1>3, <2>1
  <2>3. ~ node[p].leaf
    <3>1. p = node[l].link => ~ node[p].leaf
      <4>1. p # NoPage
        BY <2>2 DEF NoPage
      <4> QED BY <1>5, <2>1, <4>1
    <3>2. p # node[l].link => r[p] = node[p]
      BY <1>3, <1>5, <2>1, <2>2
    <3> QED BY <3>1, <3>2
  <2>4. r[p] = node[p] /\ lo2[p] = lo[p] /\ hi2[p] = hi[p]
    BY <1>2, <1>7, <2>1, <2>2, <2>3
  <2>5. PICK x, e : x = node[p] /\ e = Ends(c, hi2)
    OBVIOUS
  <2>6. /\ Spread(x.link, x.cells, lo[p], hi[p], lo, hi) /\ \A q \in Kids(x) : q \in 1 .. total - 1
    BY <1>1, <2>2, <2>3, <2>5, InnerIs
  <2>7. x \in Node
    BY <1>3, <2>2, <2>5
  <2>8. \A i \in 0 .. Len(x.cells) : /\ lo2[Nth(x.link, x.cells, i)] = lo[Nth(x.link, x.cells, i)]
                                     /\ e[Nth(x.link, x.cells, i)] = hi[Nth(x.link, x.cells, i)]
    <3> TAKE i \in 0 .. Len(x.cells)
    <3>1. PICK q : q = Nth(x.link, x.cells, i)
      OBVIOUS
    <3>2. q \in 1 .. total - 1
      BY <2>6, <2>7, <3>1, KidsAre
    <3> QED BY <1>2, <2>5, <3>1, <3>2
  <2>9. Spread(x.link, x.cells, lo[p], hi[p], lo2, e)
    BY <2>6, <2>8, SpreadSame
  <2> QED BY <2>4, <2>5, <2>9
<1>10. lo2[root] = 1 /\ Ends(c, hi2)[root] = MaxKey + 1
  <2>1. lo[root] = 1 /\ hi[root] = MaxKey + 1
    BY <1>1 DEF Searchable
  <2> QED BY <1>2, <1>3, <2>1
<1>11. Hangs(c, lo2, hi2)
  <2>1. PICK s : s = Path(k)
    OBVIOUS
  <2>2. PICK n \in Nat : n = height /\ n >= 1
    BY <1>3
  <2>3. /\ Len(s) = n /\ s[1] = root
        /\ \A i \in 1 .. n : s[i] \in 1 .. total - 1 /\ lev[s[i]] = n - i + 1
        /\ \A i \in 1 .. n - 1 : s[i + 1] = Child(node[s[i]], k)
    <3>1. OnPath(Path(k), height, k, lev)
      BY <1>3, PathIs
    <3> QED BY <2>1, <2>2, <3>1 DEF OnPath
  <2>4. s[n] = l
    BY <1>1, <2>1, <2>3 DEF LeafOf
  <2>5. Len(c.stack) = n - 1 /\ \A i \in 1 .. n - 1 : c.stack[i] = s[i]
    BY <1>4, <2>1, <2>3
  <2>6. \A i \in 1 .. n : Line(c, i) = s[i]
    <3> TAKE i \in 1 .. n
    <3>1. CASE i <= n - 1
      <4>1. i \in 1 .. n - 1
        BY <2>2, <3>1
      <4> QED BY <2>5, <3>1, <4>1 DEF Line
    <3>2. CASE ~ (i <= n - 1)
      <4>1. i = n
        BY <2>2, <3>2
      <4> QED BY <1>4, <2>4, <2>5, <3>2, <4>1 DEF Line
    <3> QED BY <3>1, <3>2
  <2>7. ASSUME NEW i \in 1 .. n - 1 PROVE Line(c, i + 1) \in Kids(r[Line(c, i)])
    <3>1. i \in 1 .. n /\ i + 1 \in 1 .. n /\ n - i + 1 # 1
      BY <2>2
    <3>2. s[i] \in 1 .. total - 1 /\ lev[s[i]] # 1 /\ s[i + 1] = Child(node[s[i]], k)
      BY <2>3, <3>1
    <3>3. ~ node[s[i]].leaf /\ node[s[i]] \in Node
      BY <1>3, <3>2
    <3>4. Child(node[s[i]], k) \in Kids(node[s[i]])
      BY <3>3, ChildIsKid
    <3>5. r[s[i]] = node[s[i]]
      BY <1>7, <3>2, <3>3
    <3> QED BY <2>6, <3>1, <3>2, <3>4, <3>5
  <2>8. Line(c, 1) = root
    BY <2>2, <2>3, <2>6
  <2>9. c.key < hi2[c.right]
    BY <1>1, <1>2, <1>4
  <2> QED BY <1>2, <1>4, <2>5, <2>7, <2>8, <2>9 DEF Hangs
<1> QED BY <1>4, <1>8, <1>9, <1>10, <1>11 DEF Ordered

\* Every page of the split tree is the old one, one of the halves or the leaf
\* behind them.
SplitKeeps(l, r, lo, hi) ==
    /\ node[l].link # NoPage =>
          /\ node[l].link \in 1 .. total - 1 /\ node[node[l].link].leaf
          /\ hi[l] <= lo[node[l].link] /\ node[l].link # l
    /\ \A p \in 1 .. (total + 1) - 1 :
          \/ p = l \/ p = total
          \/ /\ p \in 1 .. total - 1 /\ p # l /\ r[p].leaf = node[p].leaf
             /\ r[p].cells = node[p].cells /\ r[p].link = node[p].link
             /\ (p # node[l].link => r[p].prev = node[p].prev)
             /\ (p = node[l].link => r[p].prev = total)

LEMMA SplitPages ==
    ASSUME NEW k \in Key, NEW m, NEW lev, NEW lo, NEW hi, NEW l, NEW u, NEW r, NEW l2, NEW c, NEW lo2, NEW hi2,
           SplitTree(k, m, lev, lo, hi, l, u, r, l2, c, lo2, hi2),
           NEW left, NEW right, LeavesSplit(node, l, left, total, right, node[l].link, r)
    PROVE  SplitKeeps(l, r, lo, hi)
<1>1. Searchable(node, total, root, height, joined, lev, lo, hi, m)
  BY DEF SplitTree
<1>2. l \in 1 .. total - 1 /\ node[l].leaf
  BY NewLabels
<1>3. PICK old : old = node[l].link
  OBVIOUS
<1>4. old # NoPage => old \in 1 .. total - 1 /\ node[old].leaf
  <2>1. Chain(node, total, joined)
    BY <1>1, SearchableIs
  <2> QED BY <1>2, <1>3, <2>1 DEF Chain
<1>5. old # NoPage => hi[l] <= lo[old]
  <2>1. LinkedAt(node, lo, hi, joined, l)
    BY <1>1, <1>2 DEF Searchable, LeavesLinked
  <2> QED BY <1>3, <2>1 DEF LinkedAt
<1>6. total \in Nat /\ lo[l] \in Nat /\ hi[l] \in Nat /\ lo[l] < hi[l]
      /\ \A p \in 1 .. total - 1 : p \in Page /\ p # total
  <2>1. lo[l] <= u /\ u < hi[l] /\ u \in Nat
    BY NewLabels DEF SplitTree
  <2>2. total \in Nat /\ lo[l] \in Nat /\ hi[l] \in Nat /\ \A p \in 1 .. total - 1 : p \in Page /\ p # total
    BY <1>1, <1>2, SearchableIs
  <2> QED BY <2>1, <2>2
<1>7. old # NoPage => old # l
  BY <1>5, <1>6
<1>8. /\ old # NoPage /\ old # l => /\ r[old].leaf = node[old].leaf /\ r[old].cells = node[old].cells
                                    /\ r[old].prev = total /\ r[old].link = node[old].link
      /\ \A p \in Page : p # l /\ p # total /\ p # old => r[p] = node[p]
  BY <1>3 DEF LeavesSplit
<1>9. ASSUME NEW p \in 1 .. (total + 1) - 1, p # l, p # total
      PROVE  /\ p \in 1 .. total - 1 /\ p # l /\ r[p].leaf = node[p].leaf
             /\ r[p].cells = node[p].cells /\ r[p].link = node[p].link
             /\ (p # old => r[p].prev = node[p].prev)
             /\ (p = old => r[p].prev = total)
  <2>1. p \in 1 .. total - 1 /\ p # NoPage
    BY <1>6, <1>9 DEF NoPage
  <2>2. CASE p = old
    BY <1>8, <1>9, <2>1, <2>2
  <2>3. CASE p # old
    <3>1. r[p] = node[p]
      BY <1>6, <1>8, <1>9, <2>1, <2>3
    <3> QED BY <1>9, <2>1, <2>3, <3>1
  <2> QED BY <2>2, <2>3
<1> QED BY <1>3, <1>4, <1>5, <1>7, <1>9 DEF SplitKeeps

\* The other leaves have none of the keys of the split one.
LEMMA SplitLeavesHold ==
    ASSUME NEW k \in Key, NEW m, NEW lev, NEW lo, NEW hi, NEW l, NEW u, NEW r, NEW l2, NEW c, NEW lo2, NEW hi2,
           SplitTree(k, m, lev, lo, hi, l, u, r, l2, c, lo2, hi2),
           NEW left, NEW right, LeavesSplit(node, l, left, total, right, node[l].link, r),
           NEW m2, \A q \in Key : q # k => m2[q] = m[q], SplitAt(left, right, lo[l], hi[l], u, m2)
    PROVE  LeavesHold(r, total + 1, lo2, hi2, m2)
<1>1. Searchable(node, total, root, height, joined, lev, lo, hi, m) /\ l = LeafOf(k)
  BY DEF SplitTree
<1>2. /\ lo2[total] = u /\ hi2[total] = hi[l] /\ hi2[l] = u /\ lo2[l] = lo[l]
      /\ \A p \in 1 .. total - 1 : lo2[p] = lo[p] /\ (p # l => hi2[p] = hi[p])
  BY NewLabels
<1>3. r[l].cells = left /\ r[total].cells = right
  BY DEF LeavesSplit
<1>4. Holds(left, lo[l], u, m2) /\ Holds(right, u, hi[l], m2)
  BY DEF SplitAt
<1>5. SUFFICES ASSUME NEW p \in 1 .. (total + 1) - 1, r[p].leaf
               PROVE  Holds(r[p].cells, lo2[p], hi2[p], m2)
  BY DEF LeavesHold
<1>6. CASE p = l
  BY <1>2, <1>3, <1>4, <1>6
<1>7. CASE p = total
  BY <1>2, <1>3, <1>4, <1>7
<1>8. CASE p # l /\ p # total
  <2>1. p \in 1 .. total - 1 /\ r[p].leaf = node[p].leaf /\ r[p].cells = node[p].cells
    <3>1. SplitKeeps(l, r, lo, hi)
      BY SplitPages
    <3> QED BY <1>8, <3>1 DEF SplitKeeps
  <2>2. node[p].leaf
    BY <1>5, <2>1
  <2>3. Holds(node[p].cells, lo[p], hi[p], m)
    BY <1>1, <2>1, <2>2 DEF Searchable, LeavesHold
  <2>4. hi[p] <= k \/ k < lo[p]
    BY <1>1, <1>8, <2>1, <2>2, KeyLeafIs
  <2>5. lo[p] \in Nat /\ hi[p] \in Nat
    BY <1>1, <2>1, SearchableIs
  <2>6. \A q \in Key : q \in Nat
    BY LengthAssumption DEF Key
  <2>7. \A q \in Key : lo[p] <= q /\ q < hi[p] => m2[q] = m[q]
    BY <2>4, <2>5, <2>6
  <2>8. Holds(node[p].cells, lo[p], hi[p], m2)
    BY <2>3, <2>7, HoldsSame
  <2> QED BY <1>2, <1>8, <2>1, <2>8
<1> QED BY <1>6, <1>7, <1>8

\* The new leaf is in the chain between the split one and the one behind it.
LEMMA SplitLinked ==
    ASSUME NEW k \in Key, NEW m, NEW lev, NEW lo, NEW hi, NEW l, NEW u, NEW r, NEW l2, NEW c, NEW lo2, NEW hi2,
           SplitTree(k, m, lev, lo, hi, l, u, r, l2, c, lo2, hi2),
           NEW left, NEW right, LeavesSplit(node, l, left, total, right, node[l].link, r)
    PROVE  LeavesLinked(r, total + 1, lo2, hi2, joined)
<1>1. Searchable(node, total, root, height, joined, lev, lo, hi, m) /\ lo[l] <= u /\ u < hi[l]
  BY DEF SplitTree
<1>2. /\ lo2[total] = u /\ hi2[total] = hi[l] /\ hi2[l] = u /\ lo2[l] = lo[l] /\ u \in Nat
      /\ \A p \in 1 .. total - 1 : lo2[p] = lo[p] /\ (p # l => hi2[p] = hi[p])
      /\ l \in 1 .. total - 1 /\ node[l].leaf
  BY NewLabels
<1>3. PICK old : old = node[l].link
  OBVIOUS
<1>k. SplitKeeps(l, r, lo, hi)
  BY SplitPages
<1>4. /\ r[l].prev = node[l].prev /\ r[l].link = total
      /\ r[total].prev = l /\ r[total].link = old
  BY <1>3 DEF LeavesSplit
<1>5. old # NoPage => old \in 1 .. total - 1 /\ hi[l] <= lo[old] /\ old # l
  BY <1>3, <1>k DEF SplitKeeps
<1>6. total \in Nat /\ total # NoPage /\ l # NoPage
      /\ \A p \in 1 .. total - 1 : lo[p] \in Nat /\ hi[p] \in Nat /\ lo[p] <= hi[p]
  BY <1>1, <1>2, SearchableIs DEF NoPage
<1>7. ASSUME NEW p \in 1 .. total - 1, node[p].leaf
      PROVE  /\ node[p].link # NoPage => node[p].link \in 1 .. total - 1 /\ hi[p] <= lo[node[p].link]
             /\ node[p].prev # NoPage => node[p].prev \in 1 .. total - 1 /\ hi[node[p].prev] <= lo[p]
             /\ ~ joined => hi[p] = IF node[p].link = NoPage THEN MaxKey + 1 ELSE lo[node[p].link]
  <2>1. LinkedAt(node, lo, hi, joined, p)
    BY <1>1, <1>7 DEF Searchable, LeavesLinked
  <2>2. Chain(node, total, joined)
    BY <1>1, SearchableIs
  <2>3. /\ node[p].link # NoPage => node[p].link \in 1 .. total - 1
        /\ node[p].prev # NoPage => node[p].prev \in 1 .. total - 1
    BY <1>7, <2>2 DEF Chain
  <2> QED BY <2>1, <2>3 DEF LinkedAt
<1>8. \A p \in 1 .. total - 1 : hi2[p] \in Nat /\ hi2[p] <= hi[p] /\ lo2[p] = lo[p]
  <2> TAKE p \in 1 .. total - 1
  <2>1. CASE p = l
    BY <1>1, <1>2, <1>6, <2>1
  <2>2. CASE p # l
    BY <1>2, <1>6, <2>2
  <2> QED BY <2>1, <2>2
<1>9. SUFFICES ASSUME NEW p \in 1 .. (total + 1) - 1, r[p].leaf PROVE LinkedAt(r, lo2, hi2, joined, p)
  BY DEF LeavesLinked
<1>10. CASE p = l
  <2>1. node[l].prev # NoPage => hi2[node[l].prev] <= lo2[l]
    <3> SUFFICES ASSUME node[l].prev # NoPage PROVE hi2[node[l].prev] <= lo2[l]
      OBVIOUS
    <3>1. PICK q : q = node[l].prev
      OBVIOUS
    <3>2. q \in 1 .. total - 1 /\ hi[q] <= lo[l]
      BY <1>2, <1>7, <3>1
    <3> QED BY <1>2, <1>6, <1>8, <3>1, <3>2
  <2>2. hi2[l] = u /\ lo2[total] = u /\ u <= u
    BY <1>2
  <2> QED BY <1>4, <1>6, <1>10, <2>1, <2>2 DEF LinkedAt
<1>11. CASE p = total
  <2>1. old # NoPage => hi2[total] <= lo2[old]
    BY <1>2, <1>5
  <2>2. ~ joined => hi2[total] = IF old = NoPage THEN MaxKey + 1 ELSE lo2[old]
    BY <1>2, <1>3, <1>5, <1>7
  <2>3. hi2[l] <= lo2[total]
    BY <1>2
  <2> QED BY <1>4, <1>6, <1>11, <2>1, <2>2, <2>3 DEF LinkedAt
<1>12. CASE p # l /\ p # total
  <2>1. /\ p \in 1 .. total - 1 /\ r[p].leaf = node[p].leaf /\ r[p].link = node[p].link
        /\ (p # old => r[p].prev = node[p].prev)
        /\ (p = old => r[p].prev = total)
    BY <1>3, <1>12, <1>k DEF SplitKeeps
  <2>2. node[p].leaf
    BY <1>9, <2>1
  <2>3. hi2[p] = hi[p] /\ lo2[p] = lo[p]
    BY <1>2, <1>12, <2>1
  <2>4. node[p].link # NoPage => lo2[node[p].link] = lo[node[p].link]
    BY <1>2, <1>7, <2>1, <2>2
  <2>5. /\ r[p].link # NoPage => hi2[p] <= lo2[r[p].link]
        /\ ~ joined => hi2[p] = IF r[p].link = NoPage THEN MaxKey + 1 ELSE lo2[r[p].link]
    BY <1>7, <2>1, <2>2, <2>3, <2>4
  <2>6. r[p].prev # NoPage => hi2[r[p].prev] <= lo2[p]
    <3>1. CASE p = old
      <4>1. p # NoPage
        BY <2>1 DEF NoPage
      <4>2. hi[l] <= lo[p]
        BY <1>5, <3>1, <4>1
      <4> QED BY <1>2, <2>1, <2>3, <3>1, <4>2
    <3>2. CASE p # old
      <4> SUFFICES ASSUME node[p].prev # NoPage PROVE hi2[node[p].prev] <= lo2[p]
        BY <2>1, <3>2
      <4>1. PICK q : q = node[p].prev
        OBVIOUS
      <4>2. q \in 1 .. total - 1 /\ hi[q] <= lo[p]
        BY <1>7, <2>1, <2>2, <4>1
      <4>3. hi2[q] \in Nat /\ hi2[q] <= hi[q] /\ hi[q] \in Nat /\ lo[p] \in Nat
        BY <1>6, <1>8, <2>1, <4>2
      <4> QED BY <2>3, <4>1, <4>2, <4>3
    <3> QED BY <3>1, <3>2
  <2> QED BY <2>5, <2>6 DEF LinkedAt
<1> QED BY <1>10, <1>11, <1>12

\* It has its place in the queue.
LEMMA SplitQueued ==
    ASSUME NEW k \in Key, NEW m, NEW lev, NEW lo, NEW hi, NEW l, NEW u, NEW r, NEW l2, NEW c, NEW lo2, NEW hi2,
           SplitTree(k, m, lev, lo, hi, l, u, r, l2, c, lo2, hi2),
           NEW left, NEW right, LeavesSplit(node, l, left, total, right, node[l].link, r)
    PROVE  Queued(r, total + 1)
<1>1. Queued(node, total) /\ Chain(node, total, joined)
  BY DEF SplitTree, Searchable
<1>2. PICK rank : QueuedBy(node, total, rank)
  BY <1>1 DEF Queued
<1>3. /\ l \in 1 .. total - 1 /\ l \in Page /\ node[l].leaf /\ total \in Page /\ total \in Nat
      /\ \A p \in 1 .. total - 1 : p \in Page /\ p # total
  BY NewLabels, SearchableIs DEF SplitTree
<1>4. PICK n \in Nat : n = rank[l]
  BY <1>2, <1>3 DEF QueuedBy
<1>5. PICK w : w = [p \in Page |-> IF p = total THEN n + 1 ELSE IF n < rank[p] THEN rank[p] + 1 ELSE rank[p]]
  OBVIOUS
<1>6. w \in [Page -> Nat]
  BY <1>2, <1>5 DEF QueuedBy
<1>7. PICK old : old = node[l].link
  OBVIOUS
<1>k. SplitKeeps(l, r, lo, hi)
  BY SplitPages
<1>8. /\ r[l].prev = node[l].prev /\ r[l].link = total
      /\ r[total].prev = l /\ r[total].link = old
  BY <1>7 DEF LeavesSplit
<1>9. w[total] = n + 1 /\ \A p \in 1 .. total - 1 : w[p] = IF n < rank[p] THEN rank[p] + 1 ELSE rank[p]
  BY <1>3, <1>5
<1>10. \A p \in 1 .. total - 1 : rank[p] \in Nat
  BY <1>2, <1>3 DEF QueuedBy
<1>11. \A p, q \in 1 .. total - 1 : rank[p] < rank[q] => w[p] < w[q]
  BY <1>9, <1>10
<1>12. w[l] = n /\ (old # NoPage => old \in 1 .. total - 1 /\ n + 1 < w[old])
  <2>1. w[l] = n
    BY <1>3, <1>4, <1>9
  <2>2. ASSUME old # NoPage PROVE old \in 1 .. total - 1 /\ n + 1 < w[old]
    <3>1. old \in 1 .. total - 1 /\ n < rank[old]
      BY <1>1, <1>2, <1>3, <1>4, <1>7, <2>2 DEF Chain, QueuedBy
    <3> QED BY <1>9, <1>10, <3>1
  <2> QED BY <2>1, <2>2
<1>13. ASSUME NEW p \in 1 .. total - 1, node[p].leaf
       PROVE  /\ rank[p] < total
              /\ node[p].link # NoPage => node[p].link \in 1 .. total - 1 /\ w[p] < w[node[p].link]
              /\ node[p].prev # NoPage => node[p].prev \in 1 .. total - 1 /\ w[node[p].prev] < w[p]
  BY <1>1, <1>2, <1>11, <1>13 DEF Chain, QueuedBy
<1>14. ASSUME NEW p \in 1 .. (total + 1) - 1, r[p].leaf
       PROVE  /\ w[p] < total + 1
              /\ r[p].link # NoPage => w[p] < w[r[p].link]
              /\ r[p].prev # NoPage => w[r[p].prev] < w[p]
  <2>1. CASE p = l
    BY <1>3, <1>4, <1>8, <1>9, <1>12, <1>13, <2>1
  <2>2. CASE p = total
    BY <1>3, <1>4, <1>8, <1>9, <1>12, <1>13, <2>2
  <2>3. CASE p # l /\ p # total
    <3>1. /\ p \in 1 .. total - 1 /\ r[p].leaf = node[p].leaf /\ r[p].link = node[p].link
          /\ (p # old => r[p].prev = node[p].prev)
          /\ (p = old => r[p].prev = total)
      BY <1>7, <1>k, <2>3 DEF SplitKeeps
    <3>2. w[p] < total + 1
      BY <1>3, <1>9, <1>10, <1>13, <1>14, <3>1
    <3>3. r[p].prev # NoPage => w[r[p].prev] < w[p]
      <4>1. CASE p = old
        <5>1. p # NoPage
          BY <3>1 DEF NoPage
        <5> QED BY <1>9, <1>12, <3>1, <4>1, <5>1
      <4>2. CASE p # old
        BY <1>13, <1>14, <3>1, <4>2
      <4> QED BY <4>1, <4>2
    <3> QED BY <1>13, <1>14, <3>1, <3>2, <3>3
  <2> QED BY <2>1, <2>2, <2>3
<1>15. QueuedBy(r, total + 1, w)
  BY <1>6, <1>14 DEF QueuedBy
<1> QED BY <1>15 DEF Queued

-------------------------------------------------------------------------------
\* Every call leaves a tree that can be searched

\* The leaf of a key with other cells.
LEMMA RecellKeeps ==
    ASSUME NEW lev, NEW lo, NEW hi, NEW m, Searchable(node, total, root, height, joined, lev, lo, hi, m),
           NEW k \in Key, NEW l, l = LeafOf(k), NEW m2, \A q \in Key : q # k => m2[q] = m[q],
           NEW s, Holds(s, lo[l], hi[l], m2), NEW r, r = WithCells(node, l, s)
    PROVE  Searchable(r, total, root, height, joined, lev, lo, hi, m2)
<1>1. l \in 1 .. total - 1 /\ l \in Page /\ node[l].leaf
  BY KeyLeafIs
<1>2. /\ Shape(node, total, root, height, lev) /\ Chain(node, total, joined) /\ node \in [Page -> Node]
      /\ \A p \in 1 .. total - 1 : p \in Page /\ lo[p] \in Nat /\ hi[p] \in Nat
  BY SearchableIs
<1>3. s \in Seq(Cell(Val))
  BY GatheredIs DEF Holds
<1>4. Shape(r, total, root, height, lev) /\ Chain(r, total, joined)
  BY <1>1, <1>2, <1>3, RecellShape
<1>5. /\ r[l].cells = s /\ r[l].leaf = node[l].leaf /\ r[l].link = node[l].link /\ r[l].prev = node[l].prev
      /\ \A q \in Page : q # l => r[q] = node[q]
  <2>1. s \in Cells
    BY <1>3, LeafCells
  <2>2. Recelled(node, l, s, r)
    BY <1>1, <1>2, <2>1, WithCellsIs
  <2> QED BY <2>2 DEF Recelled
<1>6. \A p \in 1 .. total - 1 : r[p].leaf = node[p].leaf /\ r[p].link = node[p].link /\ r[p].prev = node[p].prev
  BY <1>2, <1>5
<1>7. Spans(total, lev, lo, hi) /\ lo[root] = 1 /\ hi[root] = MaxKey + 1
  BY DEF Searchable
<1>8. Divided(r, total, lo, hi, hi)
  <2> SUFFICES ASSUME NEW p \in 1 .. total - 1, ~ r[p].leaf
               PROVE  Spread(r[p].link, r[p].cells, lo[p], hi[p], lo, hi)
    BY DEF Divided
  <2>1. ~ node[p].leaf
    BY <1>6
  <2>2. r[p] = node[p]
    BY <1>1, <1>2, <1>5, <2>1
  <2> QED BY <2>1, <2>2, InnerIs
<1>9. LeavesHold(r, total, lo, hi, m2)
  <2> SUFFICES ASSUME NEW p \in 1 .. total - 1, r[p].leaf PROVE Holds(r[p].cells, lo[p], hi[p], m2)
    BY DEF LeavesHold
  <2>1. node[p].leaf
    BY <1>6
  <2>2. CASE p = l
    BY <1>5, <2>2
  <2>3. CASE p # l
    <3>1. Holds(node[p].cells, lo[p], hi[p], m)
      BY <2>1 DEF Searchable, LeavesHold
    <3>2. hi[p] <= k \/ k < lo[p]
      BY <2>1, <2>3, KeyLeafIs
    <3>3. \A q \in Key : q \in Nat
      BY LengthAssumption DEF Key
    <3>4. \A q \in Key : lo[p] <= q /\ q < hi[p] => m2[q] = m[q]
      BY <1>2, <3>2, <3>3
    <3>5. Holds(node[p].cells, lo[p], hi[p], m2)
      BY <3>1, <3>4, HoldsSame
    <3> QED BY <1>2, <1>5, <2>3, <3>5
  <2> QED BY <2>2, <2>3
<1>10. LeavesLinked(r, total, lo, hi, joined)
  <2>1. LeavesLinked(node, total, lo, hi, joined)
    BY DEF Searchable
  <2> QED BY <1>6, <2>1 DEF LeavesLinked, LinkedAt
<1>11. Queued(r, total)
  <2>1. Queued(node, total)
    BY DEF Searchable
  <2> QED BY <1>6, <2>1 DEF Queued, QueuedBy
<1> QED BY <1>4, <1>7, <1>8, <1>9, <1>10, <1>11 DEF Searchable

\* A leaf taken out of the chain leaves the others in order.
LEMMA UnlinkKeeps ==
    ASSUME NEW nodes, NEW tot, NEW rt, NEW h, NEW j, NEW lev, NEW lo, NEW hi, NEW m,
           Searchable(nodes, tot, rt, h, j, lev, lo, hi, m), NEW l \in 1 .. tot - 1, nodes[l].leaf,
           NEW r, r = Unlinked(nodes, l)
    PROVE  Searchable(r, tot, rt, h, TRUE, lev, lo, hi, m)
<1>1. /\ Shape(nodes, tot, rt, h, lev) /\ Chain(nodes, tot, j) /\ Spans(tot, lev, lo, hi)
      /\ Divided(nodes, tot, lo, hi, hi) /\ lo[rt] = 1 /\ hi[rt] = MaxKey + 1
      /\ LeavesHold(nodes, tot, lo, hi, m) /\ LeavesLinked(nodes, tot, lo, hi, j) /\ Queued(nodes, tot)
  BY DEF Searchable
<1>2. tot \in 2 .. MaxPages
  BY <1>1 DEF Shape
<1>3. \A p \in 1 .. tot - 1 : p \in Page
  BY <1>2, PagesAssumption DEF Page
<1>4. \A p \in 1 .. tot - 1 : lo[p] \in Nat /\ hi[p] \in Nat /\ lo[p] <= hi[p]
  BY <1>1, <1>3 DEF Spans
<1>5. PICK a, b : a = nodes[l].prev /\ b = nodes[l].link
  OBVIOUS
<1>6. /\ a # NoPage => a \in 1 .. tot - 1 /\ nodes[a].leaf
      /\ b # NoPage => b \in 1 .. tot - 1 /\ nodes[b].leaf
  BY <1>1, <1>5 DEF Chain
<1>7. (a # NoPage => hi[a] <= lo[l]) /\ (b # NoPage => hi[l] <= lo[b])
  BY <1>1, <1>5 DEF LeavesLinked, LinkedAt
<1>8. Shape(r, tot, rt, h, lev) /\ Chain(r, tot, TRUE)
  BY <1>1, UnlinkedShape
<1>9. \A p \in 1 .. tot - 1 : /\ r[p].leaf = nodes[p].leaf /\ r[p].cells = nodes[p].cells
                              /\ r[p].link = (IF p = a THEN b ELSE nodes[p].link)
                              /\ r[p].prev = (IF p = b THEN a ELSE nodes[p].prev)
  <2>1. \A p \in Page : /\ r[p].leaf = nodes[p].leaf /\ r[p].cells = nodes[p].cells
                        /\ r[p].link = IF p = nodes[l].prev THEN nodes[l].link ELSE nodes[p].link
                        /\ r[p].prev = IF p = nodes[l].link THEN nodes[l].prev ELSE nodes[p].prev
    <3>1. LeafOut(nodes, l, r)
      BY <1>1, UnlinkedShape
    <3> QED BY <3>1 DEF LeafOut
  <2> QED BY <1>3, <1>5, <2>1
<1>10. \A p \in 1 .. tot - 1 : p # NoPage
  BY DEF NoPage
<1>11. Divided(r, tot, lo, hi, hi)
  <2> SUFFICES ASSUME NEW p \in 1 .. tot - 1, ~ r[p].leaf
               PROVE  Spread(r[p].link, r[p].cells, lo[p], hi[p], lo, hi)
    BY DEF Divided
  <2>1. ~ nodes[p].leaf /\ r[p].cells = nodes[p].cells
    BY <1>9
  <2>2. r[p].link = nodes[p].link
    BY <1>6, <1>9, <1>10, <2>1
  <2> QED BY <1>1, <2>1, <2>2 DEF Divided
<1>12. LeavesHold(r, tot, lo, hi, m)
  BY <1>1, <1>9 DEF LeavesHold
<1>13. LeavesLinked(r, tot, lo, hi, TRUE)
  <2> SUFFICES ASSUME NEW p \in 1 .. tot - 1, r[p].leaf PROVE LinkedAt(r, lo, hi, TRUE, p)
    BY DEF LeavesLinked
  <2>1. /\ nodes[p].link # NoPage => hi[p] <= lo[nodes[p].link]
        /\ nodes[p].prev # NoPage => hi[nodes[p].prev] <= lo[p]
    BY <1>1, <1>9 DEF LeavesLinked, LinkedAt
  <2>2. r[p].link # NoPage => hi[p] <= lo[r[p].link]
    <3>1. CASE p = a
      <4>1. r[p].link = b
        BY <1>9, <3>1
      <4>2. b # NoPage => hi[p] <= lo[l] /\ hi[l] <= lo[b]
        BY <1>7, <1>10, <3>1
      <4>3. lo[l] <= hi[l] /\ lo[l] \in Nat /\ hi[l] \in Nat /\ hi[p] \in Nat
        BY <1>4
      <4>4. b # NoPage => lo[b] \in Nat
        BY <1>4, <1>6
      <4> QED BY <4>1, <4>2, <4>3, <4>4
    <3>2. CASE p # a
      BY <1>9, <2>1, <3>2
    <3> QED BY <3>1, <3>2
  <2>3. r[p].prev # NoPage => hi[r[p].prev] <= lo[p]
    <3>1. CASE p = b
      <4>1. r[p].prev = a
        BY <1>9, <3>1
      <4>2. a # NoPage => hi[a] <= lo[l] /\ hi[l] <= lo[p]
        BY <1>7, <1>10, <3>1
      <4>3. lo[l] <= hi[l] /\ lo[l] \in Nat /\ hi[l] \in Nat /\ lo[p] \in Nat
        BY <1>4
      <4>4. a # NoPage => hi[a] \in Nat
        BY <1>4, <1>6
      <4> QED BY <4>1, <4>2, <4>3, <4>4
    <3>2. CASE p # b
      BY <1>9, <2>1, <3>2
    <3> QED BY <3>1, <3>2
  <2> QED BY <2>2, <2>3 DEF LinkedAt
<1>14. Queued(r, tot)
  <2>1. PICK rank : QueuedBy(nodes, tot, rank)
    BY <1>1 DEF Queued
  <2>2. (a # NoPage => rank[a] < rank[l]) /\ (b # NoPage => rank[l] < rank[b])
    BY <1>5, <2>1 DEF QueuedBy
  <2>3. a # NoPage /\ b # NoPage => rank[a] < rank[b]
    <3>1. \A p \in 1 .. tot - 1 : rank[p] \in Nat
      BY <1>3, <2>1 DEF QueuedBy
    <3> QED BY <1>6, <2>2, <3>1
  <2>4. ASSUME NEW p \in 1 .. tot - 1, r[p].leaf
        PROVE  /\ rank[p] < tot
               /\ r[p].link # NoPage => rank[p] < rank[r[p].link]
               /\ r[p].prev # NoPage => rank[r[p].prev] < rank[p]
    <3>1. /\ nodes[p].leaf /\ rank[p] < tot
          /\ nodes[p].link # NoPage => rank[p] < rank[nodes[p].link]
          /\ nodes[p].prev # NoPage => rank[nodes[p].prev] < rank[p]
      BY <1>9, <2>1, <2>4 DEF QueuedBy
    <3>2. r[p].link # NoPage => rank[p] < rank[r[p].link]
      <4>1. CASE p = a
        BY <1>9, <1>10, <2>3, <4>1
      <4>2. CASE p # a
        BY <1>9, <3>1, <4>2
      <4> QED BY <4>1, <4>2
    <3>3. r[p].prev # NoPage => rank[r[p].prev] < rank[p]
      <4>1. CASE p = b
        BY <1>9, <1>10, <2>3, <4>1
      <4>2. CASE p # b
        BY <1>9, <3>1, <4>2
      <4> QED BY <4>1, <4>2
    <3> QED BY <3>1, <3>2, <3>3
  <2>5. QueuedBy(r, tot, rank)
    BY <2>1, <2>4 DEF QueuedBy
  <2> QED BY <2>5 DEF Queued
<1> QED BY <1>1, <1>8, <1>11, <1>12, <1>13, <1>14 DEF Searchable

\* What a lookup of each key should answer.
HeldMap == [k \in Key |-> Held(k)]

SearchInv ==
    /\ TreeInv
    /\ ~ orphaned =>
         \E lev, lo, hi : Searchable(node, total, root, height, joined, lev, lo, hi, HeldMap)

LEMMA HeldMapIs ==
    ASSUME TreeInv
    PROVE  HeldMap \in Map /\ \A k \in Key : HeldMap[k] = Held(k)
  BY DEF TreeInv, HeldMap, Held, Map

LEMMA HeldMapChanges ==
    ASSUME TreeInv, NEW k \in Key, NEW x \in Val \cup {NoVal}, content' = [content EXCEPT ![k] = x]
    PROVE  /\ dropped' = dropped \ {k} => HeldMap' = Put(HeldMap, k, x)
           /\ dropped' = dropped \cup {k} => HeldMap' = Put(HeldMap, k, NoVal)
<1>1. content \in Map /\ dropped \subseteq Key
  BY DEF TreeInv, Map
<1>2. content'[k] = x /\ \A q \in Key : q # k => content'[q] = content[q]
  BY <1>1 DEF Map
<1>3. HeldMap' = [q \in Key |-> IF q \in dropped' THEN NoVal ELSE content'[q]]
  BY DEF HeldMap, Held
<1>4. ASSUME NEW y
      PROVE  Put(HeldMap, k, y) = [q \in Key |-> IF q = k THEN y ELSE IF q \in dropped THEN NoVal ELSE content[q]]
  BY DEF HeldMap, Held, Put
<1>5. ASSUME dropped' = dropped \ {k} PROVE HeldMap' = Put(HeldMap, k, x)
  <2>1. \A q \in Key : (IF q \in dropped' THEN NoVal ELSE content'[q])
                         = (IF q = k THEN x ELSE IF q \in dropped THEN NoVal ELSE content[q])
    BY <1>2, <1>5
  <2> QED BY <1>3, <1>4, <2>1
<1>6. ASSUME dropped' = dropped \cup {k} PROVE HeldMap' = Put(HeldMap, k, NoVal)
  <2>1. \A q \in Key : (IF q \in dropped' THEN NoVal ELSE content'[q])
                         = (IF q = k THEN NoVal ELSE IF q \in dropped THEN NoVal ELSE content[q])
    BY <1>2, <1>6
  <2> QED BY <1>3, <1>4, <2>1
<1> QED BY <1>5, <1>6

\* btree_create: one empty leaf with all keys
LEMMA InitSearchable == Init => SearchInv
<1> SUFFICES ASSUME Init PROVE SearchInv
  OBVIOUS
<1> USE PagesAssumption DEF Init
<1>1. TreeInv
  BY InitShaped
<1>2. PICK lev : Shape(node, total, root, height, lev)
  BY <1>1 DEF TreeInv
<1>3. Chain(node, total, joined)
  BY <1>1 DEF TreeInv
<1>4. PICK lo, hi : lo = [p \in Page |-> 1] /\ hi = [p \in Page |-> MaxKey + 1]
  OBVIOUS
<1>5. MaxKey \in Nat /\ MaxKey >= 1 /\ MaxKey + 1 \in Nat
  BY LengthAssumption
<1>6. /\ lo \in [Page -> Nat] /\ hi \in [Page -> Nat] /\ \A p \in Page : lo[p] = 1 /\ hi[p] = MaxKey + 1
      /\ 1 \in Page /\ \A p \in 1 .. total - 1 : p = 1
  BY <1>4, <1>5 DEF Page
<1>7. PICK n : n = node[1]
  OBVIOUS
<1>8. n.leaf /\ n.cells = << >> /\ n.prev = NoPage /\ n.link = NoPage
  <2>1. n = Leaf(<< >>, NoPage, NoPage)
    BY <1>6, <1>7 DEF Blank
  <2> QED BY <2>1 DEF Leaf
<1>9. Spans(total, lev, lo, hi)
  BY <1>5, <1>6 DEF Spans
<1>10. Divided(node, total, lo, hi, hi)
  BY <1>6, <1>7, <1>8 DEF Divided
<1>11. lo[root] = 1 /\ hi[root] = MaxKey + 1
  BY <1>6
<1>12. LeavesHold(node, total, lo, hi, HeldMap)
  <2>1. PICK s : s = n.cells
    OBVIOUS
  <2>2. s \in Seq(Cell(Val)) /\ Len(s) = 0 /\ Sorted(s)
    BY <1>8, <2>1 DEF Sorted
  <2>3. Gathered(s, 1, MaxKey + 1, HeldMap)
    BY <2>2 DEF Gathered
  <2>4. HasAll(s, 1, MaxKey + 1, HeldMap)
    <3>1. \A k \in Key : HeldMap[k] = NoVal
      BY DEF HeldMap, Held
    <3> QED BY <3>1 DEF HasAll
  <2>6. Holds(s, 1, MaxKey + 1, HeldMap)
    BY <2>3, <2>4 DEF Holds
  <2> QED BY <1>6, <1>7, <2>1, <2>6 DEF LeavesHold
<1>13. LeavesLinked(node, total, lo, hi, joined)
  BY <1>6, <1>7, <1>8 DEF LeavesLinked, LinkedAt
<1>q. Queued(node, total)
  <2>1. PICK rank : rank = [p \in Page |-> 0]
    OBVIOUS
  <2>2. rank \in [Page -> Nat] /\ rank[1] = 0
    BY <1>6, <2>1
  <2>3. QueuedBy(node, total, rank)
    BY <1>6, <1>7, <1>8, <2>2 DEF QueuedBy
  <2> QED BY <2>3 DEF Queued
<1>14. Searchable(node, total, root, height, joined, lev, lo, hi, HeldMap)
  BY <1>2, <1>3, <1>9, <1>10, <1>11, <1>12, <1>13, <1>q DEF Searchable
<1> QED BY <1>1, <1>14 DEF SearchInv

\* btree_delete
LEMMA DeleteKeeps ==
    ASSUME SearchInv, NEW k \in Key, Delete(k)
    PROVE  SearchInv'
<1>t. TreeInv /\ TreeInv'
  BY DeleteShaped DEF SearchInv
<1> SUFFICES ASSUME ~ orphaned'
             PROVE  (\E lev, lo, hi : Searchable(node, total, root, height, joined, lev, lo, hi, HeldMap))'
  BY <1>t DEF SearchInv
<1>1. PICK lev, lo, hi : Searchable(node, total, root, height, joined, lev, lo, hi, HeldMap)
  BY DEF SearchInv, Delete
<1>2. HeldMap \in Map /\ joined \in BOOLEAN
  BY <1>t, HeldMapIs DEF TreeInv
<1>3. PICK l, m2 : l = LeafOf(k) /\ m2 = Put(HeldMap, k, NoVal)
  OBVIOUS
<1>4. /\ l \in 1 .. total - 1 /\ l \in Page /\ node[l].leaf /\ lo[l] \in Nat /\ hi[l] \in Nat
      /\ Holds(node[l].cells, lo[l], hi[l], HeldMap)
  BY <1>1, <1>3, KeyLeafIs
<1>5. m2 \in Map /\ \A q \in Key : q # k => m2[q] = HeldMap[q]
  BY <1>2, <1>3, PutIs
<1>6. PICK s : s = Without(node[l].cells, k)
  OBVIOUS
<1>7. Holds(s, lo[l], hi[l], m2)
  <2>1. PICK x, a, b : x = node[l].cells /\ a = lo[l] /\ b = hi[l]
    OBVIOUS
  <2>2. a \in Nat /\ b \in Nat /\ Holds(x, a, b, HeldMap) /\ s = Without(x, k)
    BY <1>4, <1>6, <2>1
  <2>3. Holds(s, a, b, m2)
    BY <1>2, <1>3, <2>2, WithoutHolds
  <2> QED BY <2>1, <2>3
<1>8. PICK r : r = WithCells(node, l, s)
  OBVIOUS
<1>9. Searchable(r, total, root, height, joined, lev, lo, hi, m2)
  BY <1>1, <1>3, <1>5, <1>7, <1>8, RecellKeeps
<1>10. r = [node EXCEPT ![l].cells = Without(@, k)]
  BY <1>6, <1>8 DEF WithCells
<1>11. PICK out : out = (r[l].cells = << >> /\ l # root)
  OBVIOUS
<1>h. HeldMap' = m2
  <2>1. content' = [content EXCEPT ![k] = NoVal] /\ dropped' = dropped \ {k}
    BY DEF Delete
  <2> QED BY <1>t, <1>3, <2>1, HeldMapChanges
<1>12. /\ node' = (IF out THEN Unlinked(r, l) ELSE r)
       /\ joined' = (joined \/ out)
       /\ root' = root /\ height' = height /\ total' = total
  BY <1>3, <1>10, <1>11 DEF Delete
<1>13. r[l].leaf
  <2>1. node \in [Page -> Node] /\ s \in Cells
    <3>1. s \in Seq(Cell(Val))
      BY <1>7, GatheredIs DEF Holds
    <3> QED BY <1>1, <3>1, LeafCells, SearchableIs
  <2>2. Recelled(node, l, s, r)
    BY <1>4, <1>8, <2>1, WithCellsIs
  <2> QED BY <1>4, <2>2 DEF Recelled
<1>14. CASE out
  <2>1. PICK w : w = Unlinked(r, l)
    OBVIOUS
  <2>2. Searchable(w, total, root, height, TRUE, lev, lo, hi, m2)
    BY <1>4, <1>9, <1>13, <2>1, UnlinkKeeps
  <2>3. node' = w /\ joined' = TRUE
    BY <1>2, <1>11, <1>12, <1>14, <2>1
  <2> QED BY <1>h, <1>12, <2>2, <2>3
<1>15. CASE ~ out
  <2>1. node' = r /\ joined' = joined
    BY <1>2, <1>11, <1>12, <1>15
  <2> QED BY <1>h, <1>9, <1>12, <2>1
<1>16. out \in BOOLEAN
  BY <1>11
<1> QED BY <1>14, <1>15, <1>16

\* btree_insert when the leaf has no room
LEMMA SplitKeepsTree ==
    ASSUME orphaned \in BOOLEAN, NEW lev, NEW lo, NEW hi, NEW m \in Map,
           Searchable(node, total, root, height, joined, lev, lo, hi, m),
           NEW k \in Key, NEW v \in Val, total + Len(Path(k)) < MaxPages, NEW m0, m0 = Put(m, k, NoVal),
           NEW s, Holds(s, lo[LeafOf(k)], hi[LeafOf(k)], m0), Len(s) >= 1,
           NEW m2, m2 = Put(m, k, Rest(s, k, v)), ~ SplitLeaf(Path(k), s, k, v).orphan
    PROVE  \E g, lev2, lo2, hi2 :
               /\ g = SplitLeaf(Path(k), s, k, v) /\ g.done
               /\ Climbing(g, lev2, lo2, hi2, m2)
<1>1. /\ Shape(node, total, root, height, lev) /\ Chain(node, total, joined) /\ total \in Nat /\ total >= 2
      /\ node \in [Page -> Node] /\ lo \in [Page -> Nat] /\ hi \in [Page -> Nat]
      /\ \A p \in 1 .. total - 1 : p \in Page /\ p # total
  BY SearchableIs
<1>2. s \in Seq(Cell(Val))
  BY GatheredIs DEF Holds
<1>3. PICK l, u, left, right, r, l2, c : SplitStart(k, v, s, lev, l, u, left, right, r, l2, c)
  BY <1>1, <1>2, SplitRises
<1>4. /\ l = LeafOf(k) /\ l = Path(k)[Len(Path(k))] /\ u = Promoted(s)
      /\ left = LeftHalf(s, k, v, u) /\ right = RightHalf(s, k, v, u)
      /\ r = Relinked(node, l, left, total, right, node[l].link)
      /\ total < MaxPages /\ u \in Key /\ left \in Seq(Cell(Val)) /\ right \in Seq(Cell(Val))
      /\ l2 \in [Page -> Nat] /\ l2[total] = 1 /\ \A p \in 1 .. total - 1 : l2[p] = lev[p]
      /\ ClimbFrom(Path(k), r, u, c) /\ Rising(c, l2)
      /\ SplitLeaf(Path(k), s, k, v) = InsertParent(c)
  BY <1>3 DEF SplitStart
<1>5. /\ l \in 1 .. total - 1 /\ l \in Page /\ node[l].leaf /\ lo[l] \in Nat /\ hi[l] \in Nat
      /\ lo[l] <= k /\ k < hi[l]
  <2>1. l = LeafOf(k)
    BY <1>4
  <2> QED BY <2>1, KeyLeafIs
<1>6. total \in Page
  BY <1>1, <1>4, PagesAssumption DEF Page
<1>7. PICK a, b : a = lo[l] /\ b = hi[l]
  OBVIOUS
<1>8. SplitAt(left, right, a, b, u, m2)
  <2>1. m0 \in Map
    BY PutIs
  <2>2. m2 = Put(m0, k, Rest(s, k, v))
    BY DEF Put, Map
  <2>3. Holds(s, a, b, m0) /\ a \in Nat /\ b \in Nat /\ a <= k /\ k < b
    BY <1>4, <1>5, <1>7
  <2> QED BY <1>4, <2>1, <2>2, <2>3, SplitHolds
<1>9. lo[l] <= u /\ u < hi[l]
  BY <1>7, <1>8 DEF SplitAt
<1>10. PICK old : old = node[l].link
  OBVIOUS
<1>11. LeavesSplit(node, l, left, total, right, node[l].link, r)
  <2>1. old # NoPage => old \in 1 .. total - 1
    BY <1>1, <1>5, <1>10 DEF Chain
  <2>2. old \in Page \cup {NoPage} /\ old # total
    BY <1>1, <2>1 DEF NoPage
  <2>3. l # total /\ r = Relinked(node, l, left, total, right, old)
    BY <1>1, <1>4, <1>5, <1>10
  <2>4. LeavesSplit(node, l, left, total, right, old, r)
    BY <1>1, <1>4, <1>5, <1>6, <2>2, <2>3, RelinkedIs
  <2> QED BY <1>10, <2>4
<1>12. PICK lo2, hi2 : lo2 = [lo EXCEPT ![total] = u] /\ hi2 = [hi EXCEPT ![l] = u, ![total] = hi[l]]
  OBVIOUS
<1>13. CutAt(total, lo, hi, l, u, lo2, hi2)
  <2>1. u \in Nat
    BY <1>4, LengthAssumption DEF Key
  <2>2. lo2 \in [Page -> Nat] /\ hi2 \in [Page -> Nat]
    BY <1>1, <1>5, <1>12, <2>1
  <2>3. lo2[total] = u /\ \A q \in 1 .. total - 1 : lo2[q] = lo[q]
    BY <1>1, <1>6, <1>12
  <2>4. hi2[total] = hi[l] /\ hi2[l] = u /\ \A q \in 1 .. total - 1 : q # l => hi2[q] = hi[q]
    BY <1>1, <1>5, <1>6, <1>12
  <2> QED BY <2>2, <2>3, <2>4 DEF CutAt
<1>14. c.left = l /\ ~ c.done /\ c.nodes = r /\ c.next = total + 1
  BY <1>4 DEF ClimbFrom
<1>15. SplitTree(k, m, lev, lo, hi, l, u, r, l2, c, lo2, hi2)
  BY <1>4, <1>6, <1>9, <1>13, <1>14 DEF SplitTree
<1>16. \A q \in Key : q # k => m2[q] = m[q]
  <2>1. PICK x \in Val \cup {NoVal} : x = Rest(s, k, v)
    BY DEF Rest
  <2> QED BY <2>1, PutIs
<1>17. Ordered(c, l2, lo2, hi2)
  BY <1>11, <1>15, SplitOrders
<1>18. LeavesHold(r, total + 1, lo2, hi2, m2)
  <2>1. SplitAt(left, right, lo[l], hi[l], u, m2)
    BY <1>7, <1>8
  <2> QED BY <1>11, <1>15, <1>16, <2>1, SplitLeavesHold
<1>19. LeavesLinked(r, total + 1, lo2, hi2, joined)
  BY <1>11, <1>15, SplitLinked
<1>q. Queued(r, total + 1)
  BY <1>11, <1>15, SplitQueued
<1>20. Climbing(c, l2, lo2, hi2, m2)
  BY <1>4, <1>14, <1>17, <1>18, <1>19, <1>q DEF Climbing
<1>21. PICK lev3, lo3, hi3 : Climbing(InsertParent(c), lev3, lo3, hi3, m2) /\ InsertParent(c).done
  <2>1. ~ InsertParent(c).orphan
    BY <1>4
  <2> QED BY <1>14, <1>20, <2>1, ClimbKeeps
<1> QED BY <1>4, <1>21

\* A split does not bring a lost page back.
LEMMA SplitForgetsNoOrphan ==
    ASSUME TreeInv, NEW k \in Key, NEW v \in Val, total + Len(Path(k)) < MaxPages,
           NEW s \in Seq(Cell(Val)), Len(s) >= 1, orphaned
    PROVE  SplitLeaf(Path(k), s, k, v).orphan
<1>1. PICK lev : Shape(node, total, root, height, lev)
  BY DEF TreeInv
<1>2. Chain(node, total, joined) /\ orphaned \in BOOLEAN
  BY DEF TreeInv
<1>3. PICK l, u, left, right, r, l2, c : SplitStart(k, v, s, lev, l, u, left, right, r, l2, c)
  BY <1>1, <1>2, SplitRises
<1>4. /\ Rising(c, l2) /\ ~ c.done /\ c.orphan
      /\ SplitLeaf(Path(k), s, k, v) = InsertParent(c)
  BY <1>3 DEF SplitStart, ClimbFrom
<1> QED BY <1>4, ClimbForgetsNoOrphan

\* btree_insert
LEMMA InsertKeeps ==
    ASSUME SearchInv, NEW k \in Key, NEW v \in Val, Insert(k, v)
    PROVE  SearchInv'
<1>t. TreeInv /\ TreeInv'
  BY InsertShaped DEF SearchInv
<1> SUFFICES ASSUME ~ orphaned'
             PROVE  (\E lev, lo, hi : Searchable(node, total, root, height, joined, lev, lo, hi, HeldMap))'
  BY <1>t DEF SearchInv
<1>1. PICK l : l = LeafOf(k)
  OBVIOUS
<1>2. PICK r : r = InsertLeafCell(node[l].cells, k, v)
  OBVIOUS
<1>3. r.cells \in Seq(Cell(Val)) /\ (~ r.ok => Len(r.cells) >= 1)
  <2>1. PICK lev : Shape(node, total, root, height, lev)
    BY <1>t DEF TreeInv
  <2>2. node[l].cells \in Seq(Cell(Val))
    BY <1>1, <2>1, LeafOfIs
  <2> QED BY <1>2, <2>2, InsertLeafCellIs
<1>4. /\ total + Len(Path(k)) < MaxPages /\ content' = [content EXCEPT ![k] = v] /\ joined' = joined
      /\ \/ /\ r.ok /\ node' = [node EXCEPT ![l].cells = r.cells] /\ dropped' = dropped \ {k}
            /\ UNCHANGED <<root, height, total, orphaned>>
         \/ /\ ~ r.ok
            /\ LET c == SplitLeaf(Path(k), r.cells, k, v)
               IN  /\ node' = c.nodes /\ root' = c.root
                   /\ height' = c.height /\ total' = c.next /\ orphaned' = c.orphan
            /\ dropped' = IF LeftOut(r.cells, k, v) THEN dropped \cup {k} ELSE dropped \ {k}
  BY <1>1, <1>2 DEF Insert, LeafOf
<1>5. ~ orphaned
  <2>1. CASE r.ok
    BY <1>4, <2>1
  <2>2. CASE ~ r.ok
    <3>1. ~ SplitLeaf(Path(k), r.cells, k, v).orphan
      BY <1>4, <2>2
    <3> QED BY <1>t, <1>3, <1>4, <2>2, <3>1, SplitForgetsNoOrphan
  <2> QED BY <2>1, <2>2
<1>6. PICK lev, lo, hi : Searchable(node, total, root, height, joined, lev, lo, hi, HeldMap)
  BY <1>5 DEF SearchInv
<1>7. HeldMap \in Map /\ joined \in BOOLEAN /\ orphaned \in BOOLEAN
  BY <1>t, HeldMapIs DEF TreeInv
<1>8. /\ l \in 1 .. total - 1 /\ l \in Page /\ node[l].leaf /\ lo[l] \in Nat /\ hi[l] \in Nat
      /\ lo[l] <= k /\ k < hi[l] /\ Holds(node[l].cells, lo[l], hi[l], HeldMap)
  BY <1>1, <1>6, KeyLeafIs
<1>9. PICK a, b, x : a = lo[l] /\ b = hi[l] /\ x = node[l].cells
  OBVIOUS
<1>10. Inserted(r, a, b, HeldMap, k, v)
  <2>1. a \in Nat /\ b \in Nat /\ a <= k /\ k < b /\ Holds(x, a, b, HeldMap) /\ r = InsertLeafCell(x, k, v)
    BY <1>2, <1>8, <1>9
  <2> QED BY <1>7, <2>1, InsertHolds
<1>11. CASE r.ok
  <2>1. PICK m2 : m2 = Put(HeldMap, k, v)
    OBVIOUS
  <2>2. HeldMap' = m2
    BY <1>t, <1>4, <1>11, <2>1, HeldMapChanges
  <2>3. \A q \in Key : q # k => m2[q] = HeldMap[q]
    BY <1>7, <2>1, PutIs
  <2>4. PICK w, s : s = r.cells /\ w = WithCells(node, l, s)
    OBVIOUS
  <2>5. Holds(s, lo[l], hi[l], m2)
    BY <1>9, <1>10, <1>11, <2>1, <2>4 DEF Inserted
  <2>6. Searchable(w, total, root, height, joined, lev, lo, hi, m2)
    BY <1>1, <1>6, <2>3, <2>4, <2>5, RecellKeeps
  <2>7. node' = w /\ root' = root /\ height' = height /\ total' = total
    BY <1>4, <1>11, <2>4 DEF WithCells
  <2> QED BY <1>4, <2>2, <2>6, <2>7
<1>12. CASE ~ r.ok
  <2>1. PICK s, m0, m2 : s = r.cells /\ m0 = Put(HeldMap, k, NoVal) /\ m2 = Put(HeldMap, k, Rest(s, k, v))
    OBVIOUS
  <2>2. HeldMap' = m2
    <3>1. dropped' = IF LeftOut(s, k, v) THEN dropped \cup {k} ELSE dropped \ {k}
      BY <1>4, <1>12, <2>1
    <3>2. CASE LeftOut(s, k, v)
      BY <1>t, <1>4, <2>1, <3>1, <3>2, HeldMapChanges DEF Rest
    <3>3. CASE ~ LeftOut(s, k, v)
      BY <1>t, <1>4, <2>1, <3>1, <3>3, HeldMapChanges DEF Rest
    <3> QED BY <3>2, <3>3
  <2>3. Holds(s, lo[LeafOf(k)], hi[LeafOf(k)], m0) /\ Len(s) >= 1
    BY <1>1, <1>3, <1>9, <1>10, <1>12, <2>1 DEF Inserted
  <2>4. ~ SplitLeaf(Path(k), s, k, v).orphan
    BY <1>4, <1>12, <2>1
  <2>5. PICK g, lev2, lo2, hi2 :
               /\ g = SplitLeaf(Path(k), s, k, v) /\ g.done
               /\ Climbing(g, lev2, lo2, hi2, m2)
    BY <1>4, <1>6, <1>7, <2>1, <2>3, <2>4, SplitKeepsTree
  <2>6. node' = g.nodes /\ root' = g.root /\ height' = g.height /\ total' = g.next
    BY <1>4, <1>12, <2>1, <2>5
  <2>7. /\ Rising(g, lev2) /\ Ordered(g, lev2, lo2, hi2) /\ Queued(g.nodes, g.next)
        /\ LeavesHold(g.nodes, g.next, lo2, hi2, m2) /\ LeavesLinked(g.nodes, g.next, lo2, hi2, joined)
    BY <2>5 DEF Climbing
  <2>8. Shape(g.nodes, g.next, g.root, g.height, lev2) /\ Chain(g.nodes, g.next, joined)
    BY <2>7 DEF Rising
  <2>9. /\ Spans(g.next, lev2, lo2, hi2) /\ Divided(g.nodes, g.next, lo2, hi2, hi2)
        /\ lo2[g.root] = 1 /\ hi2[g.root] = MaxKey + 1
    BY <2>5, <2>7 DEF Ordered, Ends
  <2>10. Searchable(g.nodes, g.next, g.root, g.height, joined, lev2, lo2, hi2, m2)
    BY <2>7, <2>8, <2>9 DEF Searchable
  <2> QED BY <1>4, <2>2, <2>6, <2>10
<1> QED BY <1>11, <1>12

\* A lookup finds the value the leaf of its key holds.
LEMMA SearchGets == SearchInv => GetAgrees
<1> SUFFICES ASSUME SearchInv, ~ orphaned, NEW k \in Key PROVE Get(k) = HeldMap[k]
  BY HeldMapIs DEF GetAgrees, SearchInv
<1>1. PICK lev, lo, hi : Searchable(node, total, root, height, joined, lev, lo, hi, HeldMap)
  BY DEF SearchInv
<1>2. PICK l : l = LeafOf(k)
  OBVIOUS
<1>3. lo[l] <= k /\ k < hi[l] /\ Holds(node[l].cells, lo[l], hi[l], HeldMap)
  BY <1>1, <1>2, KeyLeafIs
<1>4. PICK s, a, b : s = node[l].cells /\ a = lo[l] /\ b = hi[l]
  OBVIOUS
<1>5. Gathered(s, a, b, HeldMap) /\ HasAll(s, a, b, HeldMap) /\ a <= k /\ k < b
  BY <1>3, <1>4 DEF Holds
<1>6. DOMAIN s = 1 .. Len(s) /\ \A i \in 1 .. Len(s) : HeldMap[s[i].key] = s[i].ref
  BY <1>5, GatheredIs
<1>7. Get(k) = IF At(s, k) = {} THEN NoVal ELSE s[CHOOSE i \in At(s, k) : TRUE].ref
  BY <1>2, <1>4 DEF Get
<1>8. CASE At(s, k) = {}
  <2>1. HeldMap[k] = NoVal
    BY <1>5, <1>6, <1>8 DEF HasAll, At
  <2> QED BY <1>7, <1>8, <2>1
<1>9. CASE At(s, k) # {}
  <2>1. PICK i : i = CHOOSE x \in At(s, k) : TRUE
    OBVIOUS
  <2>2. i \in At(s, k)
    BY <1>9, <2>1
  <2>3. i \in 1 .. Len(s) /\ s[i].key = k
    BY <1>6, <2>2 DEF At
  <2>4. Get(k) = s[i].ref
    BY <1>7, <1>9, <2>1
  <2> QED BY <1>6, <2>3, <2>4
<1> QED BY <1>8, <1>9

\* What every call keeps.
LEMMA SearchStays ==
    ASSUME SearchInv, [Next]_vars
    PROVE  SearchInv'
<1>1. ASSUME NEW k \in Key, NEW v \in Val, Insert(k, v) PROVE SearchInv'
  BY <1>1, InsertKeeps
<1>2. ASSUME NEW k \in Key, Delete(k) PROVE SearchInv'
  BY <1>2, DeleteKeeps
<1>3. CASE UNCHANGED vars
  <2>1. TreeInv'
    BY TreeStays DEF SearchInv
  <2>2. HeldMap' = HeldMap
    BY <1>3 DEF vars, HeldMap, Held
  <2> QED BY <1>3, <2>1, <2>2 DEF vars, SearchInv
<1> QED BY <1>1, <1>2, <1>3 DEF Next

\* btree.lp:183, "Inserts or updates a (key, value) entry", and btree_get: for keys
\* and values of any lengths that go into a page, a lookup answers what was stored
\* last, whatever was split, overwritten and deleted in between, but for a pair for
\* which the half of a split leaf had no room (btree.lp:243 and :245), until a page
\* was left out of its parent (btree.lp:172 and :174) or hidden there.
THEOREM LookupsAgree == Spec => []GetAgrees
<1>1. Init => SearchInv
  BY InitSearchable
<1>2. SearchInv /\ [Next]_vars => SearchInv'
  BY SearchStays
<1>3. SearchInv => GetAgrees
  BY SearchGets
<1> QED BY <1>1, <1>2, <1>3, PTL DEF Spec

-------------------------------------------------------------------------------
\* The scan over the chain of leaves

WalkStart(l, slot) ==
    [at |-> node[l].link, cells |-> SubSeq(node[l].cells, slot, Len(node[l].cells))]

WalkStep(w) ==
    IF w.at = NoPage THEN w ELSE [at |-> node[w.at].link, cells |-> w.cells \o node[w.at].cells]

Walk(l, slot) ==
    CHOOSE walk : walk = [d \in 1 .. MaxPages |-> IF d = 1 THEN WalkStart(l, slot) ELSE WalkStep(walk[d - 1])]

\* The recursion of ScanFrom defines a function.
LEMMA WalkIs ==
    ASSUME NEW l, NEW slot
    PROVE  /\ ScanFrom(l, slot) = Walk(l, slot)[MaxPages] /\ Walk(l, slot)[1] = WalkStart(l, slot)
           /\ \A d \in 2 .. MaxPages : Walk(l, slot)[d] = WalkStep(Walk(l, slot)[d - 1])
<1> DEFINE step(f, d) == IF d = 1 THEN WalkStart(l, slot) ELSE WalkStep(f[d - 1])
           S == {n \in 1 .. MaxPages : \E f : f = [d \in 1 .. n |-> step(f, d)]}
<1> USE PagesAssumption
<1>1. 1 \in S
  <2> DEFINE g == [d \in 1 .. 1 |-> WalkStart(l, slot)]
  <2>1. \A d \in 1 .. 1 : g[d] = step(g, d)
    OBVIOUS
  <2>2. g = [d \in 1 .. 1 |-> step(g, d)]
    BY <2>1
  <2> HIDE DEF g
  <2> QED BY <2>2
<1>2. ASSUME NEW n \in 1 .. MaxPages - 1, n \in S PROVE n + 1 \in S
  <2>1. PICK f : f = [d \in 1 .. n |-> step(f, d)]
    BY <1>2
  <2> DEFINE g == [d \in 1 .. n + 1 |-> IF d <= n THEN f[d] ELSE WalkStep(f[n])]
  <2>2. \A d \in 1 .. n + 1 : g[d] = step(g, d)
    <3> SUFFICES ASSUME NEW d \in 1 .. n + 1 PROVE g[d] = step(g, d)
      OBVIOUS
    <3>0. \A e \in 1 .. n : f[e] = step(f, e)
      BY <2>1
    <3>1. CASE d = 1
      BY <3>0, <3>1
    <3>2. CASE d # 1
      <4>1. d - 1 \in 1 .. n /\ g[d - 1] = f[d - 1]
        BY <3>2
      <4>2. CASE d <= n
        BY <3>0, <3>2, <4>1, <4>2
      <4>3. CASE d = n + 1
        BY <3>2, <4>1, <4>3
      <4> QED BY <4>2, <4>3
    <3> QED BY <3>1, <3>2
  <2>3. g = [d \in 1 .. n + 1 |-> step(g, d)]
    BY <2>2
  <2>4. n + 1 \in 1 .. MaxPages
    OBVIOUS
  <2> HIDE DEF g
  <2> QED BY <2>3, <2>4
<1>3. MaxPages \in S
  <2> HIDE DEF S
  <2>1. \A n \in 1 .. MaxPages : n \in S
    BY <1>1, <1>2, Steps
  <2> QED BY <2>1
<1>4. \E f : f = [d \in 1 .. MaxPages |-> step(f, d)]
  BY <1>3
<1>5. Walk(l, slot) = [d \in 1 .. MaxPages |-> step(Walk(l, slot), d)]
  BY <1>4 DEF Walk
<1>6. ScanFrom(l, slot) = Walk(l, slot)[MaxPages]
  BY DEF ScanFrom, Walk, WalkStart, WalkStep
<1> HIDE DEF step
<1>7. \A d \in 1 .. MaxPages : Walk(l, slot)[d] = step(Walk(l, slot), d)
  BY <1>5
<1> QED BY <1>6, <1>7 DEF step

LeftStep(p) == IF node[p].leaf THEN p ELSE node[p].link

Leftward ==
    CHOOSE down : down = [d \in 1 .. MaxPages |-> IF d = 1 THEN root ELSE LeftStep(down[d - 1])]

\* The recursion of Leftmost defines a function.
LEMMA LeftwardIs ==
    /\ Leftmost = Leftward[MaxPages] /\ Leftward[1] = root
    /\ \A d \in 2 .. MaxPages : Leftward[d] = LeftStep(Leftward[d - 1])
<1> DEFINE step(f, d) == IF d = 1 THEN root ELSE LeftStep(f[d - 1])
           S == {n \in 1 .. MaxPages : \E f : f = [d \in 1 .. n |-> step(f, d)]}
<1> USE PagesAssumption
<1>1. 1 \in S
  <2> DEFINE g == [d \in 1 .. 1 |-> root]
  <2>1. \A d \in 1 .. 1 : g[d] = step(g, d)
    OBVIOUS
  <2>2. g = [d \in 1 .. 1 |-> step(g, d)]
    BY <2>1
  <2> HIDE DEF g
  <2> QED BY <2>2
<1>2. ASSUME NEW n \in 1 .. MaxPages - 1, n \in S PROVE n + 1 \in S
  <2>1. PICK f : f = [d \in 1 .. n |-> step(f, d)]
    BY <1>2
  <2> DEFINE g == [d \in 1 .. n + 1 |-> IF d <= n THEN f[d] ELSE LeftStep(f[n])]
  <2>2. \A d \in 1 .. n + 1 : g[d] = step(g, d)
    <3> SUFFICES ASSUME NEW d \in 1 .. n + 1 PROVE g[d] = step(g, d)
      OBVIOUS
    <3>0. \A e \in 1 .. n : f[e] = step(f, e)
      BY <2>1
    <3>1. CASE d = 1
      BY <3>0, <3>1
    <3>2. CASE d # 1
      <4>1. d - 1 \in 1 .. n /\ g[d - 1] = f[d - 1]
        BY <3>2
      <4>2. CASE d <= n
        BY <3>0, <3>2, <4>1, <4>2
      <4>3. CASE d = n + 1
        BY <3>2, <4>1, <4>3
      <4> QED BY <4>2, <4>3
    <3> QED BY <3>1, <3>2
  <2>3. g = [d \in 1 .. n + 1 |-> step(g, d)]
    BY <2>2
  <2>4. n + 1 \in 1 .. MaxPages
    OBVIOUS
  <2> HIDE DEF g
  <2> QED BY <2>3, <2>4
<1>3. MaxPages \in S
  <2> HIDE DEF S
  <2>1. \A n \in 1 .. MaxPages : n \in S
    BY <1>1, <1>2, Steps
  <2> QED BY <2>1
<1>4. \E f : f = [d \in 1 .. MaxPages |-> step(f, d)]
  BY <1>3
<1>5. Leftward = [d \in 1 .. MaxPages |-> step(Leftward, d)]
  BY <1>4 DEF Leftward
<1>6. Leftmost = Leftward[MaxPages]
  BY DEF Leftmost, Leftward, LeftStep
<1> HIDE DEF step
<1>7. \A d \in 1 .. MaxPages : Leftward[d] = step(Leftward, d)
  BY <1>5
<1> QED BY <1>6, <1>7 DEF step

\* The leftmost leaf has the smallest keys.
LEMMA LeftmostIs ==
    ASSUME NEW lev, NEW lo, NEW hi, NEW m, Searchable(node, total, root, height, joined, lev, lo, hi, m)
    PROVE  Leftmost \in 1 .. total - 1 /\ node[Leftmost].leaf /\ lo[Leftmost] = 1
<1> DEFINE depth(d) == IF d <= height THEN height - d + 1 ELSE 1
           S == {d \in 1 .. MaxPages : Leftward[d] \in 1 .. total - 1 /\ lo[Leftward[d]] = 1 /\ lev[Leftward[d]] = depth(d)}
<1>1. /\ total \in 2 .. MaxPages /\ height \in 1 .. total - 1 /\ root \in 1 .. total - 1 /\ lev[root] = height
      /\ \A p \in 1 .. total - 1 : PageAt(node, total, lev, p)
  BY SearchableIs DEF Shape
<1>2. MaxPages \in Nat /\ MaxPages >= 2
  BY PagesAssumption
<1>3. 1 \in S
  <2>1. lo[root] = 1
    BY DEF Searchable
  <2> QED BY <1>1, <1>2, <2>1, LeftwardIs
<1>4. ASSUME NEW d \in 1 .. MaxPages - 1, d \in S PROVE d + 1 \in S
  <2>1. PICK p : p = Leftward[d]
    OBVIOUS
  <2>2. p \in 1 .. total - 1 /\ lo[p] = 1 /\ lev[p] = depth(d)
    BY <1>4, <2>1
  <2>3. Leftward[d + 1] = LeftStep(p)
    <3>1. d + 1 \in 2 .. MaxPages /\ (d + 1) - 1 = d
      BY <1>2
    <3> QED BY <2>1, <3>1, LeftwardIs
  <2>4. d + 1 \in 1 .. MaxPages
    BY <1>2
  <2>5. CASE node[p].leaf
    <3>1. lev[p] = 1
      BY <1>1, <2>2, <2>5 DEF PageAt
    <3>2. depth(d + 1) = 1
      BY <1>1, <2>2, <3>1
    <3> QED BY <2>2, <2>3, <2>4, <2>5, <3>1, <3>2 DEF LeftStep
  <2>6. CASE ~ node[p].leaf
    <3>1. PICK q : q = node[p].link
      OBVIOUS
    <3>2. q \in 1 .. total - 1 /\ lev[q] = lev[p] - 1 /\ lev[p] # 1
      BY <1>1, <2>2, <2>6, <3>1 DEF PageAt, Kids
    <3>3. depth(d + 1) = depth(d) - 1
      BY <1>1, <2>2, <3>2
    <3>4. lo[q] = 1
      <4>1. Spread(node[p].link, node[p].cells, lo[p], hi[p], lo, hi)
        BY <2>2, <2>6, InnerIs
      <4>2. node[p].cells \in Cells
        BY <2>2, NodeIs, SearchableIs
      <4>3. 0 \in 0 .. Len(node[p].cells)
        BY <4>2, CellsAre
      <4> QED BY <2>2, <3>1, <4>1, <4>3 DEF Spread, Nth, From
    <3> QED BY <2>2, <2>3, <2>4, <2>6, <3>1, <3>2, <3>3, <3>4 DEF LeftStep
  <2> QED BY <2>5, <2>6
<1>5. MaxPages \in S
  <2> HIDE DEF S
  <2>1. \A d \in 1 .. MaxPages : d \in S
    BY <1>2, <1>3, <1>4, Steps
  <2> QED BY <1>2, <2>1
<1>6. depth(MaxPages) = 1
  BY <1>1, <1>2
<1>7. Leftward[MaxPages] \in 1 .. total - 1 /\ lo[Leftward[MaxPages]] = 1 /\ lev[Leftward[MaxPages]] = 1
  BY <1>5, <1>6
<1> QED BY <1>1, <1>7, LeftwardIs DEF PageAt

\* Cells behind one another, of keys behind one another.
LEMMA GatheredJoined ==
    ASSUME NEW s, NEW t, NEW a \in Nat, NEW b \in Nat, NEW b2 \in Nat, NEW c \in Nat, NEW m,
           Gathered(s, a, b, m), Gathered(t, b2, c, m), a <= b2, b <= b2, b <= c
    PROVE  Gathered(s \o t, a, c, m)
<1>1. PICK u : u = s \o t
  OBVIOUS
<1>2. /\ s \in Seq(Cell(Val)) /\ t \in Seq(Cell(Val)) /\ Len(s) \in Nat /\ Len(t) \in Nat
      /\ \A i \in 1 .. Len(s) : /\ s[i].key \in Nat /\ a <= s[i].key /\ s[i].key < b
                                /\ m[s[i].key] = s[i].ref
      /\ \A i \in 1 .. Len(t) : /\ t[i].key \in Nat /\ b2 <= t[i].key /\ t[i].key < c
                                /\ m[t[i].key] = t[i].ref
      /\ \A i, j \in 1 .. Len(s) : i < j => s[i].key < s[j].key
      /\ \A i, j \in 1 .. Len(t) : i < j => t[i].key < t[j].key
  BY GatheredIs
<1>3. PICK n \in Nat, n2 \in Nat : n = Len(s) /\ n2 = Len(t)
  BY <1>2
<1>4. /\ u \in Seq(Cell(Val)) /\ Len(u) = n + n2
      /\ \A i \in 1 .. n + n2 : u[i] = IF i <= n THEN s[i] ELSE t[i - n]
  <2>1. /\ u \in Seq(Cell(Val)) /\ Len(u) = Len(s) + Len(t)
        /\ \A i \in 1 .. Len(s) + Len(t) : u[i] = IF i <= Len(s) THEN s[i] ELSE t[i - Len(s)]
    BY <1>1, <1>2, ConcatProperties, Zenon
  <2> QED BY <1>3, <2>1
<1>5. \A i \in 1 .. n : u[i] = s[i] /\ i <= n
  BY <1>4
<1>6. \A i \in 1 .. n2 : u[n + i] = t[i]
  <2> TAKE i \in 1 .. n2
  <2>1. n + i \in 1 .. n + n2 /\ ~ (n + i <= n) /\ (n + i) - n = i
    OBVIOUS
  <2> QED BY <1>4, <2>1
<1>7. \A i \in 1 .. n + n2 : i \in 1 .. n \/ \E j \in 1 .. n2 : i = n + j
  <2> TAKE i \in 1 .. n + n2
  <2>1. CASE i <= n
    BY <2>1
  <2>2. CASE ~ (i <= n)
    <3>1. i - n \in 1 .. n2 /\ i = n + (i - n)
      BY <2>2
    <3> QED BY <3>1
  <2> QED BY <2>1, <2>2
<1>8. \A i \in 1 .. n + n2 : a <= u[i].key /\ u[i].key < c /\ m[u[i].key] = u[i].ref
  <2> TAKE i \in 1 .. n + n2
  <2>1. CASE i \in 1 .. n
    BY <1>2, <1>3, <1>5, <2>1
  <2>2. ASSUME NEW j \in 1 .. n2, i = n + j PROVE a <= u[i].key /\ u[i].key < c /\ m[u[i].key] = u[i].ref
    BY <1>2, <1>3, <1>6, <2>2, SMTT(30)
  <2> QED BY <1>7, <2>1, <2>2
<1>9. DOMAIN u = 1 .. n + n2
  BY <1>4, ValCellsAre
<1>10. Sorted(u)
  <2> SUFFICES ASSUME NEW i \in 1 .. n + n2, NEW j \in 1 .. n + n2, i < j PROVE u[i].key < u[j].key
    BY <1>9 DEF Sorted
  <2>1. CASE j \in 1 .. n
    <3>1. i \in 1 .. n
      BY <2>1
    <3> QED BY <1>2, <1>3, <1>5, <2>1, <3>1
  <2>2. ASSUME NEW y \in 1 .. n2, j = n + y PROVE u[i].key < u[j].key
    <3>1. u[j] = t[y] /\ t[y].key \in Nat /\ b2 <= t[y].key
      BY <1>2, <1>3, <1>6, <2>2
    <3>2. CASE i \in 1 .. n
      <4>1. u[i] = s[i] /\ s[i].key \in Nat /\ s[i].key < b
        BY <1>2, <1>3, <1>5, <3>2
      <4> QED BY <3>1, <4>1
    <3>3. ASSUME NEW x \in 1 .. n2, i = n + x PROVE u[i].key < u[j].key
      <4>1. u[i] = t[x] /\ x < y
        BY <1>6, <2>2, <3>3
      <4> QED BY <1>2, <1>3, <3>1, <4>1
    <3> QED BY <1>7, <3>2, <3>3
  <2> QED BY <1>7, <2>1, <2>2
<1>11. \A i \in 1 .. Len(u) : a <= u[i].key /\ u[i].key < c /\ m[u[i].key] = u[i].ref
  BY <1>4, <1>8
<1> QED BY <1>1, <1>4, <1>10, <1>11 DEF Gathered

LEMMA HasAllJoined ==
    ASSUME NEW s \in Seq(Cell(Val)), NEW t \in Seq(Cell(Val)), NEW a \in Nat, NEW b \in Nat, NEW c \in Nat, NEW m,
           HasAll(s, a, b, m), HasAll(t, b, c, m)
    PROVE  HasAll(s \o t, a, c, m)
<1>1. PICK u : u = s \o t
  OBVIOUS
<1>2. PICK n \in Nat, n2 \in Nat : n = Len(s) /\ n2 = Len(t)
  BY ValCellsAre
<1>3. Len(u) = n + n2 /\ \A i \in 1 .. n + n2 : u[i] = IF i <= n THEN s[i] ELSE t[i - n]
  <2>1. /\ Len(u) = Len(s) + Len(t)
        /\ \A i \in 1 .. Len(s) + Len(t) : u[i] = IF i <= Len(s) THEN s[i] ELSE t[i - Len(s)]
    BY <1>1, ConcatProperties, Zenon
  <2> QED BY <1>2, <2>1
<1>4. ASSUME NEW k \in Key, a <= k, k < c, m[k] # NoVal PROVE \E i \in 1 .. n + n2 : u[i].key = k
  <2>1. k \in Nat
    BY LengthAssumption DEF Key
  <2>2. CASE k < b
    <3>1. PICK i \in 1 .. n : s[i].key = k
      BY <1>2, <1>4, <2>2 DEF HasAll
    <3>2. i \in 1 .. n + n2 /\ u[i] = s[i]
      BY <1>3
    <3> QED BY <3>1, <3>2
  <2>3. CASE b <= k
    <3>1. PICK j \in 1 .. n2 : t[j].key = k
      BY <1>2, <1>4, <2>3 DEF HasAll
    <3>2. PICK i : i = n + j
      OBVIOUS
    <3>3. i \in 1 .. n + n2 /\ ~ (i <= n) /\ i - n = j
      BY <3>2
    <3>4. u[i] = t[j]
      BY <1>3, <3>3
    <3> QED BY <3>1, <3>3, <3>4
  <2> QED BY <2>1, <2>2, <2>3
<1> QED BY <1>1, <1>3, <1>4 DEF HasAll

\* The cells from the g-th on.
LEMMA TailIs ==
    ASSUME NEW S, NEW s \in Seq(S), NEW n \in Nat, n = Len(s), NEW g \in 1 .. n + 1,
           NEW t, t = SubSeq(s, g, n)
    PROVE  t \in Seq(S) /\ Len(t) = n - g + 1 /\ \A i \in 1 .. n - g + 1 : t[i] = s[g + i - 1]
  OBVIOUS

\* The cells of a leaf from the slot of k on.
LEMMA TailHolds ==
    ASSUME NEW s, NEW a \in Nat, NEW b \in Nat, NEW m, Gathered(s, a, b, m), HasAll(s, a, b, m),
           NEW k \in Nat, a <= k, k <= b, NEW t, t = SubSeq(s, Below(s, k) + 1, Len(s))
    PROVE  Gathered(t, k, b, m) /\ HasAll(t, k, b, m)
<1>1. /\ s \in Seq(Cell(Val)) /\ Len(s) \in Nat
      /\ \A i \in 1 .. Len(s) : s[i].key \in Nat /\ s[i].key < b /\ m[s[i].key] = s[i].ref
      /\ \A i, j \in 1 .. Len(s) : i < j => s[i].key < s[j].key
  BY GatheredIs
<1>2. PICK n \in Nat : n = Len(s)
  BY <1>1
<1>3. PICK h : h = Below(s, k)
  OBVIOUS
<1>4. h \in 0 .. n
  BY <1>1, <1>2, <1>3, BelowInRange
<1>5. \A i \in 1 .. n : s[i].key < k <=> i <= h
  <2>1. Sorted(s) /\ s \in Seq([key : Key, ref : Val])
    BY <1>1 DEF Gathered, Cell
  <2>2. \A i \in 1 .. Len(s) : s[i].key < k <=> i <= Below(s, k)
    BY <2>1, BelowIs
  <2> QED BY <1>2, <1>3, <2>2
<1>6. t \in Seq(Cell(Val)) /\ Len(t) = n - h /\ \A i \in 1 .. n - h : t[i] = s[h + i]
  <2>1. t = SubSeq(s, h + 1, n)
    BY <1>2, <1>3
  <2>2. PICK g : g = h + 1
    OBVIOUS
  <2>3. g \in 1 .. n + 1 /\ n - g + 1 = n - h
    BY <1>4, <2>2
  <2>4. t = SubSeq(s, g, n)
    BY <2>1, <2>2
  <2>5. t \in Seq(Cell(Val)) /\ Len(t) = n - g + 1 /\ \A i \in 1 .. n - g + 1 : t[i] = s[g + i - 1]
    <3>1. s \in Seq(Cell(Val)) /\ n \in Nat /\ n = Len(s) /\ g \in 1 .. n + 1
      BY <1>1, <1>2, <2>3
    <3> QED BY ONLY <2>4, <3>1, TailIs
  <2>6. \A i \in 1 .. n - h : g + i - 1 = h + i
    BY <1>4, <2>2
  <2> QED BY <2>3, <2>5, <2>6
<1>7. \A i \in 1 .. n - h : h + i \in 1 .. n /\ ~ (h + i <= h)
  BY <1>4
<1>8. \A i \in 1 .. n - h : k <= t[i].key /\ t[i].key < b /\ m[t[i].key] = t[i].ref
  <2> TAKE i \in 1 .. n - h
  <2>1. PICK j \in 1 .. n : j = h + i /\ ~ (j <= h)
    BY <1>7
  <2>2. t[i] = s[j] /\ s[j].key \in Nat /\ ~ (s[j].key < k)
    BY <1>1, <1>2, <1>5, <1>6, <2>1
  <2>3. k <= s[j].key
    BY <2>2
  <2>4. s[j].key < b /\ m[s[j].key] = s[j].ref
    BY <1>1, <1>2, <2>1
  <2> QED BY <2>2, <2>3, <2>4
<1>9. Sorted(t)
  <2>1. DOMAIN t = 1 .. n - h
    BY <1>6, ValCellsAre
  <2> SUFFICES ASSUME NEW x \in 1 .. n - h, NEW y \in 1 .. n - h, x < y PROVE t[x].key < t[y].key
    BY <2>1 DEF Sorted
  <2>2. PICK i \in 1 .. n, j \in 1 .. n : i = h + x /\ j = h + y
    BY <1>7
  <2>3. i < j
    BY <1>4, <2>2
  <2>4. t[x] = s[i] /\ t[y] = s[j]
    BY <1>6, <2>2
  <2> QED BY <1>1, <1>2, <2>3, <2>4
<1>10. Gathered(t, k, b, m)
  BY <1>6, <1>8, <1>9 DEF Gathered
<1>11. HasAll(t, k, b, m)
  <2> SUFFICES ASSUME NEW q \in Key, k <= q, q < b, m[q] # NoVal PROVE \E i \in 1 .. n - h : t[i].key = q
    BY <1>6 DEF HasAll
  <2>1. q \in Nat /\ a <= q
    BY LengthAssumption DEF Key
  <2>2. PICK j \in 1 .. n : s[j].key = q
    BY <1>2, <2>1 DEF HasAll
  <2>3. ~ (j <= h)
    BY <1>5, <2>1, <2>2
  <2>4. PICK i : i = j - h
    OBVIOUS
  <2>5. i \in 1 .. n - h /\ h + i = j
    BY <1>4, <2>3, <2>4
  <2> QED BY <1>6, <2>2, <2>5
<1> QED BY <1>10, <1>11

\* A leaf in the chain: what it holds, and the leaf behind it.
LeafOn(p, lo, hi) ==
    /\ lo[p] \in Nat /\ hi[p] \in Nat /\ lo[p] <= hi[p] /\ hi[p] <= MaxKey + 1
    /\ Gathered(node[p].cells, lo[p], hi[p], HeldMap) /\ HasAll(node[p].cells, lo[p], hi[p], HeldMap)
    /\ node[p].link # NoPage => /\ node[p].link \in 1 .. total - 1 /\ node[node[p].link].leaf
                                /\ hi[p] <= lo[node[p].link]
    /\ ~ joined => hi[p] = IF node[p].link = NoPage THEN MaxKey + 1 ELSE lo[node[p].link]

LEMMA LeafOnIs ==
    ASSUME NEW lev, NEW lo, NEW hi, Searchable(node, total, root, height, joined, lev, lo, hi, HeldMap),
           NEW p \in 1 .. total - 1, node[p].leaf
    PROVE  LeafOn(p, lo, hi)
<1>1. lo[p] \in Nat /\ hi[p] \in Nat /\ lo[p] <= hi[p] /\ hi[p] <= MaxKey + 1
  BY SearchableIs
<1>2. LeavesHold(node, total, lo, hi, HeldMap) /\ LeavesLinked(node, total, lo, hi, joined) /\ Chain(node, total, joined)
  BY DEF Searchable
<1>3. Gathered(node[p].cells, lo[p], hi[p], HeldMap) /\ HasAll(node[p].cells, lo[p], hi[p], HeldMap)
  BY <1>2 DEF LeavesHold, Holds
<1>4. LinkedAt(node, lo, hi, joined, p)
  BY <1>2 DEF LeavesLinked
<1>5. node[p].link # NoPage => node[p].link \in 1 .. total - 1 /\ node[node[p].link].leaf
  BY <1>2 DEF Chain
<1> QED BY <1>1, <1>3, <1>4, <1>5 DEF LeafOn, LinkedAt

\* What the scan from k on has collected after d leaves: what is stored from k up
\* to b, or some of it when leaves were taken out of the chain.  Ranks grow along
\* the chain: after d leaves the next one has at least d before it.
WalkedTo(w, d, k, lo, rank, b) ==
    /\ b \in Nat /\ k <= b /\ b <= MaxKey + 1
    /\ Gathered(w.cells, k, b, HeldMap)
    /\ w.at # NoPage => /\ w.at \in 1 .. total - 1 /\ node[w.at].leaf
                        /\ b <= lo[w.at] /\ d <= rank[w.at]
    /\ ~ joined => /\ HasAll(w.cells, k, b, HeldMap)
                   /\ b = IF w.at = NoPage THEN MaxKey + 1 ELSE lo[w.at]

Walked(w, d, k, lo, rank) == \E b : WalkedTo(w, d, k, lo, rank, b)

\* The scan starts in the leaf of k, at the slot of k.
LEMMA WalkStarts ==
    ASSUME NEW lev, NEW lo, NEW hi, Searchable(node, total, root, height, joined, lev, lo, hi, HeldMap),
           NEW rank, QueuedBy(node, total, rank),
           NEW l \in 1 .. total - 1, node[l].leaf, NEW k \in Nat, lo[l] <= k, k <= hi[l],
           NEW slot, slot = Below(node[l].cells, k) + 1
    PROVE  Walked(WalkStart(l, slot), 1, k, lo, rank)
<1>1. LeafOn(l, lo, hi)
  BY LeafOnIs
<1>2. PICK w : w = WalkStart(l, slot)
  OBVIOUS
<1>3. PICK s, a, b : s = node[l].cells /\ a = lo[l] /\ b = hi[l]
  OBVIOUS
<1>4. w.at = node[l].link /\ w.cells = SubSeq(s, Below(s, k) + 1, Len(s))
  BY <1>2, <1>3 DEF WalkStart
<1>5. /\ a \in Nat /\ b \in Nat /\ a <= b /\ b <= MaxKey + 1 /\ a <= k /\ k <= b
      /\ Gathered(s, a, b, HeldMap) /\ HasAll(s, a, b, HeldMap)
  BY <1>1, <1>3 DEF LeafOn
<1>6. PICK t : t = w.cells
  OBVIOUS
<1>7. Gathered(t, k, b, HeldMap) /\ HasAll(t, k, b, HeldMap)
  BY <1>4, <1>5, <1>6, TailHolds
<1>8. w.at # NoPage => 1 <= rank[w.at]
  <2> SUFFICES ASSUME w.at # NoPage PROVE 1 <= rank[w.at]
    OBVIOUS
  <2>1. w.at \in 1 .. total - 1
    BY <1>1, <1>4 DEF LeafOn
  <2>2. /\ rank[l] \in Nat /\ rank[w.at] \in Nat /\ rank[l] < rank[w.at]
    <3>1. l \in Page /\ w.at \in Page
      BY <2>1, SearchableIs
    <3> QED BY <1>4, <3>1 DEF QueuedBy
  <2> QED BY <2>2
<1>9. w.at # NoPage => w.at \in 1 .. total - 1 /\ node[w.at].leaf /\ b <= lo[w.at]
  BY <1>1, <1>3, <1>4 DEF LeafOn
<1>10. ~ joined => b = IF w.at = NoPage THEN MaxKey + 1 ELSE lo[w.at]
  BY <1>1, <1>3, <1>4 DEF LeafOn
<1>11. WalkedTo(w, 1, k, lo, rank, b)
  BY <1>5, <1>6, <1>7, <1>8, <1>9, <1>10 DEF WalkedTo
<1> QED BY <1>2, <1>11 DEF Walked

\* It goes on with the next leaf.
LEMMA WalkGoesOn ==
    ASSUME NEW lev, NEW lo, NEW hi, Searchable(node, total, root, height, joined, lev, lo, hi, HeldMap),
           NEW rank, QueuedBy(node, total, rank),
           NEW w, NEW d \in Nat, NEW k \in Nat, Walked(w, d, k, lo, rank)
    PROVE  Walked(WalkStep(w), d + 1, k, lo, rank)
<1>1. PICK b : WalkedTo(w, d, k, lo, rank, b)
  BY DEF Walked
<1>2. b \in Nat /\ k <= b /\ b <= MaxKey + 1 /\ Gathered(w.cells, k, b, HeldMap)
  BY <1>1 DEF WalkedTo
<1>3. CASE w.at = NoPage
  <2>1. WalkedTo(w, d + 1, k, lo, rank, b)
    BY <1>1, <1>3 DEF WalkedTo
  <2>2. WalkStep(w) = w
    BY <1>3 DEF WalkStep
  <2> QED BY <2>1, <2>2 DEF Walked
<1>4. CASE w.at # NoPage
  <2>1. PICK p : p = w.at
    OBVIOUS
  <2>2. p \in 1 .. total - 1 /\ node[p].leaf /\ b <= lo[p] /\ d <= rank[p]
    BY <1>1, <1>4, <2>1 DEF WalkedTo
  <2>3. LeafOn(p, lo, hi)
    BY <2>2, LeafOnIs
  <2>4. PICK s, t, a, c : s = w.cells /\ t = node[p].cells /\ a = lo[p] /\ c = hi[p]
    OBVIOUS
  <2>5. /\ a \in Nat /\ c \in Nat /\ a <= c /\ c <= MaxKey + 1 /\ b <= a
        /\ Gathered(t, a, c, HeldMap) /\ HasAll(t, a, c, HeldMap) /\ Gathered(s, k, b, HeldMap)
    BY <1>2, <2>2, <2>3, <2>4 DEF LeafOn
  <2>6. k <= a /\ b <= c /\ k <= c
    BY <1>2, <2>5
  <2>7. Gathered(s \o t, k, c, HeldMap)
    BY <1>2, <2>5, <2>6, GatheredJoined
  <2>8. ~ joined => HasAll(s \o t, k, c, HeldMap)
    <3> SUFFICES ASSUME ~ joined PROVE HasAll(s \o t, k, c, HeldMap)
      OBVIOUS
    <3>1. HasAll(s, k, b, HeldMap) /\ b = a
      BY <1>1, <1>4, <2>1, <2>4 DEF WalkedTo
    <3>2. s \in Seq(Cell(Val)) /\ t \in Seq(Cell(Val))
      BY <2>5 DEF Gathered
    <3> QED BY <2>5, <3>1, <3>2, HasAllJoined
  <2>10. PICK x : x = WalkStep(w)
    OBVIOUS
  <2>11. x.at = node[p].link /\ x.cells = s \o t
    BY <1>4, <2>1, <2>4, <2>10 DEF WalkStep
  <2>12. x.at # NoPage => x.at \in 1 .. total - 1 /\ node[x.at].leaf /\ c <= lo[x.at]
    BY <2>3, <2>4, <2>11 DEF LeafOn
  <2>9. x.at # NoPage => d + 1 <= rank[x.at]
    <3> SUFFICES ASSUME x.at # NoPage PROVE d + 1 <= rank[x.at]
      OBVIOUS
    <3>1. p \in Page /\ x.at \in Page
      BY <2>2, <2>12, SearchableIs
    <3>2. rank[p] \in Nat /\ rank[x.at] \in Nat /\ rank[p] < rank[x.at]
      BY <2>2, <2>11, <3>1 DEF QueuedBy
    <3> QED BY <2>2, <3>2
  <2>13. ~ joined => c = IF x.at = NoPage THEN MaxKey + 1 ELSE lo[x.at]
    BY <2>3, <2>4, <2>11 DEF LeafOn
  <2>14. WalkedTo(x, d + 1, k, lo, rank, c)
    BY <2>5, <2>6, <2>7, <2>8, <2>9, <2>11, <2>12, <2>13 DEF WalkedTo
  <2> QED BY <2>10, <2>14 DEF Walked
<1> QED BY <1>3, <1>4

\* What a scan from k on returns.
Scanned(s, k) ==
    \E b \in Nat : /\ b <= MaxKey + 1 /\ Gathered(s, k, b, HeldMap)
                   /\ ~ joined => b = MaxKey + 1 /\ HasAll(s, k, b, HeldMap)

LEMMA ScanIs ==
    ASSUME NEW lev, NEW lo, NEW hi, Searchable(node, total, root, height, joined, lev, lo, hi, HeldMap),
           NEW l \in 1 .. total - 1, node[l].leaf, NEW k \in Nat, lo[l] <= k, k <= hi[l],
           NEW slot, slot = Below(node[l].cells, k) + 1
    PROVE  Scanned(ScanFrom(l, slot).cells, k)
<1>r. PICK rank : QueuedBy(node, total, rank)
  BY DEF Searchable, Queued
<1> DEFINE S == {d \in 1 .. MaxPages : Walked(Walk(l, slot)[d], d, k, lo, rank)}
<1>1. total \in 2 .. MaxPages /\ MaxPages \in Nat /\ MaxPages >= 2
  BY SearchableIs, PagesAssumption DEF Shape
<1>2. 1 \in S
  <2>1. Walked(WalkStart(l, slot), 1, k, lo, rank)
    BY <1>r, WalkStarts
  <2> QED BY <1>1, <2>1, WalkIs
<1>3. ASSUME NEW d \in 1 .. MaxPages - 1, d \in S PROVE d + 1 \in S
  <2>1. PICK w : w = Walk(l, slot)[d]
    OBVIOUS
  <2>2. d \in Nat /\ d + 1 \in 2 .. MaxPages /\ d + 1 \in 1 .. MaxPages /\ (d + 1) - 1 = d
    BY <1>1
  <2>3. Walked(w, d, k, lo, rank)
    BY <1>3, <2>1
  <2>4. Walked(WalkStep(w), d + 1, k, lo, rank)
    BY <1>r, <2>2, <2>3, WalkGoesOn
  <2>5. Walk(l, slot)[d + 1] = WalkStep(w)
    BY <2>1, <2>2, WalkIs
  <2> QED BY <2>2, <2>4, <2>5
<1>4. MaxPages \in S
  <2> HIDE DEF S
  <2>1. \A d \in 1 .. MaxPages : d \in S
    BY <1>1, <1>2, <1>3, Steps
  <2> QED BY <1>1, <2>1
<1>5. PICK w : w = ScanFrom(l, slot)
  OBVIOUS
<1>6. Walked(w, MaxPages, k, lo, rank)
  BY <1>4, <1>5, WalkIs
<1>7. PICK b : WalkedTo(w, MaxPages, k, lo, rank, b)
  BY <1>6 DEF Walked
<1>8. w.at = NoPage
  <2> SUFFICES ASSUME w.at # NoPage PROVE FALSE
    OBVIOUS
  <2>1. w.at \in 1 .. total - 1 /\ node[w.at].leaf /\ MaxPages <= rank[w.at]
    BY <1>7 DEF WalkedTo
  <2>2. w.at \in Page
    BY <2>1, SearchableIs
  <2>3. rank[w.at] \in Nat /\ rank[w.at] < total
    BY <1>r, <2>1, <2>2 DEF QueuedBy
  <2> QED BY <1>1, <2>1, <2>3
<1>9. /\ b \in Nat /\ b <= MaxKey + 1 /\ Gathered(w.cells, k, b, HeldMap)
      /\ ~ joined => b = MaxKey + 1 /\ HasAll(w.cells, k, b, HeldMap)
  BY <1>7, <1>8 DEF WalkedTo
<1> QED BY <1>5, <1>9 DEF Scanned

\* The leaves the two scans start from.
LEMMA ScansAre ==
    ASSUME SearchInv, ~ orphaned
    PROVE  Scanned(ScanAll, 1) /\ \A k \in Key : Scanned(Scan(k), k)
<1>1. PICK lev, lo, hi : Searchable(node, total, root, height, joined, lev, lo, hi, HeldMap)
  BY DEF SearchInv
<1>2. Scanned(ScanAll, 1)
  <2>1. PICK l : l = Leftmost
    OBVIOUS
  <2>2. l \in 1 .. total - 1 /\ node[l].leaf /\ lo[l] = 1
    BY <1>1, <2>1, LeftmostIs
  <2>3. LeafOn(l, lo, hi)
    BY <1>1, <2>2, LeafOnIs
  <2>4. 1 <= hi[l] /\ Gathered(node[l].cells, 1, hi[l], HeldMap)
    BY <2>2, <2>3 DEF LeafOn
  <2>5. PICK s : s = node[l].cells
    OBVIOUS
  <2>6. Below(s, 1) = 0
    <3>1. \A i \in DOMAIN s : s[i].key \in Nat /\ 1 <= s[i].key
      BY <2>4, <2>5, GatheredIs
    <3>2. {i \in DOMAIN s : s[i].key < 1} = {}
      BY <3>1
    <3> QED BY <3>2, FS_EmptySet DEF Below
  <2>7. PICK slot : slot = 1
    OBVIOUS
  <2>8. slot = Below(node[l].cells, 1) + 1
    BY <2>5, <2>6, <2>7
  <2>9. lo[l] <= 1 /\ 1 \in Nat
    BY <2>2
  <2>10. Scanned(ScanFrom(l, slot).cells, 1)
    BY <1>1, <2>2, <2>4, <2>8, <2>9, ScanIs
  <2> QED BY <2>1, <2>7, <2>10 DEF ScanAll
<1>3. ASSUME NEW k \in Key PROVE Scanned(Scan(k), k)
  <2>1. PICK l : l = LeafOf(k)
    OBVIOUS
  <2>2. l \in 1 .. total - 1 /\ node[l].leaf /\ lo[l] <= k /\ k < hi[l] /\ hi[l] \in Nat
    BY <1>1, <2>1, KeyLeafIs
  <2>3. PICK slot : slot = Below(node[l].cells, k) + 1
    OBVIOUS
  <2>4. k \in Nat
    BY LengthAssumption DEF Key
  <2>5. k <= hi[l]
    BY <2>2, <2>4
  <2>6. Scanned(ScanFrom(l, slot).cells, k)
    BY <1>1, <2>2, <2>3, <2>4, <2>5, ScanIs
  <2> QED BY <2>1, <2>3, <2>6 DEF Scan
<1> QED BY <1>2, <1>3

\* A scan returns the stored keys from its start key on, in their order.
LEMMA ScansAgreed == SearchInv => ScanAgrees
<1> SUFFICES ASSUME SearchInv, ~ orphaned PROVE ScanSound /\ ScanComplete
  BY DEF ScanAgrees
<1>h. \A k \in Key : HeldMap[k] = Held(k)
  BY HeldMapIs DEF SearchInv
<1>1. ScanSound
  <2> SUFFICES ASSUME NEW k \in Key
               PROVE  /\ \A i \in 1 .. Len(Scan(k)) - 1 : Scan(k)[i].key < Scan(k)[i + 1].key
                      /\ \A i \in DOMAIN Scan(k) : /\ Scan(k)[i].key >= k
                                                   /\ Held(Scan(k)[i].key) = Scan(k)[i].ref
    BY Zenon DEF ScanSound
  <2>1. PICK s : s = Scan(k)
    OBVIOUS
  <2>2. Scanned(s, k)
    BY <2>1, ScansAre
  <2>3. PICK b : Gathered(s, k, b, HeldMap)
    BY <2>2 DEF Scanned
  <2>4. /\ Len(s) \in Nat /\ DOMAIN s = 1 .. Len(s)
        /\ \A i \in 1 .. Len(s) : /\ k <= s[i].key /\ s[i].key \in Nat /\ s[i].key \in Key
                                  /\ HeldMap[s[i].key] = s[i].ref
        /\ \A i, j \in 1 .. Len(s) : i < j => s[i].key < s[j].key
    BY <2>3, GatheredIs
  <2>5. k \in Nat
    BY LengthAssumption DEF Key
  <2>6. \A i \in 1 .. Len(s) - 1 : s[i].key < s[i + 1].key
    <3> TAKE i \in 1 .. Len(s) - 1
    <3>1. i \in 1 .. Len(s) /\ i + 1 \in 1 .. Len(s) /\ i < i + 1
      BY <2>4
    <3> QED BY <2>4, <3>1
  <2>7. \A i \in DOMAIN s : s[i].key >= k /\ Held(s[i].key) = s[i].ref
    BY <1>h, <2>4, <2>5
  <2> QED BY <2>1, <2>6, <2>7
<1>2. ScanComplete
  <2> SUFFICES ASSUME ~ joined
               PROVE  {ScanAll[i].key : i \in DOMAIN ScanAll} = {k \in Key : HeldMap[k] # NoVal}
    BY <1>h DEF ScanComplete, ScanFindsAll
  <2>1. PICK s : s = ScanAll
    OBVIOUS
  <2>2. Scanned(s, 1)
    BY <2>1, ScansAre
  <2>3. PICK b \in Nat : b = MaxKey + 1 /\ Gathered(s, 1, b, HeldMap) /\ HasAll(s, 1, b, HeldMap)
    BY <2>2 DEF Scanned
  <2>4. DOMAIN s = 1 .. Len(s) /\ \A i \in 1 .. Len(s) : s[i].key \in Key /\ HeldMap[s[i].key] # NoVal
    BY <2>3, GatheredIs
  <2>5. ASSUME NEW k \in Key, HeldMap[k] # NoVal PROVE \E i \in DOMAIN s : s[i].key = k
    <3>1. 1 <= k /\ k < b
      BY <2>3, LengthAssumption DEF Key
    <3> QED BY <2>3, <2>4, <2>5, <3>1 DEF HasAll
  <2>6. {s[i].key : i \in DOMAIN s} = {k \in Key : HeldMap[k] # NoVal}
    BY <2>4, <2>5
  <2> QED BY <2>1, <2>6
<1> QED BY <1>1, <1>2

\* btree.lp:329, "maintains sibling linked list continuity": under the same
\* exceptions a scan returns, in key order and without repetitions, what is stored,
\* and until a leaf was taken out of the chain a full scan misses no key.
THEOREM ScansAgree == Spec => []ScanAgrees
<1>1. Init => SearchInv
  BY InitSearchable
<1>2. SearchInv /\ [Next]_vars => SearchInv'
  BY SearchStays
<1>3. SearchInv => ScanAgrees
  BY ScansAgreed
<1> QED BY <1>1, <1>2, <1>3, PTL DEF Spec
===============================================================================
