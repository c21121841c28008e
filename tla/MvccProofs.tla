------------------------------ MODULE MvccProofs ------------------------------
(***************************************************************************)
(* The shape of the version chains, for every set of keys and values and   *)
(* every number of transactions.                                           *)
(*                                                                         *)
(* The inductive invariant is IInv.  A rollback is correct only because    *)
(* the transaction's versions are the top of the chain, one per entry of   *)
(* its write set (OneWriterOnTop); they are because a write over a head of *)
(* another running transaction is refused; and the heads a running         *)
(* transaction may overwrite belong to committed ones because aborted ones *)
(* leave nothing behind (CreatorsLive).                                    *)
(*                                                                         *)
(* The refinement also needs to know who wrote a key (Wrote): the head of  *)
(* its chain is at least as new as every committed transaction with the    *)
(* key in its write set, so the test of the head covers all of them.       *)
(***************************************************************************)
EXTENDS Mvcc, SequenceTheorems, WellFoundedInduction, NaturalsInduction, TLAPS

\* Every version was created by a running or a committed transaction.
CreatorsLive ==
    \A k \in Key : \A i \in DOMAIN chain[k] : chain[k][i].created \in active \cup committed

\* A running transaction has frozen every running transaction that began earlier.
FrozenCoversActive ==
    \A t, u \in active : u < t => u \in tx[t].frozen

IInv ==
    /\ TypeOK
    /\ ListsAgree
    /\ ChainLinked
    /\ OneWriterOnTop
    /\ CreatorsLive
    /\ FrozenCoversActive

-------------------------------------------------------------------------------
\* Sequences written as functions

\* A nonempty set of naturals has a least element.
LEMMA LeastElement ==
    ASSUME NEW S \in SUBSET Nat, S # {}
    PROVE  \E i \in S : \A j \in S : i <= j
<1> DEFINE R == {ss \in Nat \X Nat : ss[1] < ss[2]}
<1>1. IsWellFoundedOn(R, Nat)
  BY NatLessThanWellFounded DEF OpToRel
<1>2. PICK i \in S : \A j \in S : ~ (<<j, i>> \in R)
  BY <1>1, WFMin, Zenon
<1>3. ASSUME NEW j \in S
      PROVE  i <= j
  <2>1. i \in Nat /\ j \in Nat
    OBVIOUS
  <2>2. j < i => <<j, i>> \in R
    BY <2>1
  <2> QED BY <1>2, <2>1, <2>2
<1> QED BY <1>3

\* A function on 1 .. n is a sequence of length n.
LEMMA FunctionIsSeq ==
    ASSUME NEW S, NEW n \in Nat, NEW f \in [1 .. n -> S]
    PROVE  /\ f \in Seq(S)
           /\ Len(f) = n
           /\ DOMAIN f = 1 .. n
  BY SeqDef, LenProperties

-------------------------------------------------------------------------------
\* What the chain operations return

LEMMA PrependResult ==
    ASSUME NEW t \in TxId, NEW x \in Val \cup {NotFound}, NEW c \in Seq(Version)
    PROVE  LET p == Prepend(t, x, c)
           IN  /\ p \in Seq(Version)
               /\ Len(p) = Len(c) + 1
               /\ DOMAIN p = 1 .. Len(c) + 1
               /\ p[1] = [created |-> t, expired |-> 0, value |-> x]
               /\ \A i \in 1 .. Len(c) :
                      p[i + 1] = IF i = 1 THEN [c[1] EXCEPT !.expired = t] ELSE c[i]
<1> DEFINE new == [created |-> t, expired |-> 0, value |-> x]
           f   == [i \in DOMAIN c |-> IF i = 1 THEN [c[1] EXCEPT !.expired = t] ELSE c[i]]
           p   == <<new>> \o f
<1>1. PICK L \in Nat :
         L = Len(c) /\ DOMAIN c = 1 .. L /\ \A i \in 1 .. L : c[i] \in Version
  BY LenProperties, ElementOfSeq
<1>2. new \in Version
  BY DEF Version
<1>3. \A v \in Version : [v EXCEPT !.expired = t] \in Version
  BY DEF Version
<1>4. f \in [1 .. L -> Version]
  BY <1>1, <1>3
<1>5. f \in Seq(Version) /\ Len(f) = L
  BY <1>4, FunctionIsSeq
<1>6. <<new>> \in Seq(Version) /\ Len(<<new>>) = 1 /\ <<new>>[1] = new
  BY <1>2
<1>7. Prepend(t, x, c) = p
  BY DEF Prepend
<1>8. \A i \in 1 .. L : f[i] = IF i = 1 THEN [c[1] EXCEPT !.expired = t] ELSE c[i]
  BY <1>1
<1> HIDE DEF f, new
<1>9. /\ p \in Seq(Version)
      /\ Len(p) = L + 1
      /\ DOMAIN p = 1 .. L + 1
      /\ \A i \in 1 .. L + 1 : p[i] = IF i <= 1 THEN <<new>>[i] ELSE f[i - 1]
  BY <1>5, <1>6, ConcatProperties, LenProperties
<1> HIDE DEF p
<1>10. p[1] = new
  BY <1>6, <1>9
<1>11. \A i \in 1 .. L : p[i + 1] = f[i]
  BY <1>9
<1> QED BY <1>1, <1>7, <1>8, <1>9, <1>10, <1>11 DEF new

LEMMA CutResult ==
    ASSUME NEW c \in Seq(Version), NEW m \in Nat
    PROVE  \E n \in 0 .. Len(c) :
               /\ Cut(c, m) \in Seq(Version)
               /\ Len(Cut(c, m)) = n
               /\ DOMAIN Cut(c, m) = 1 .. n
               /\ \A i \in 1 .. n : Cut(c, m)[i] = c[i]
               /\ n < Len(c) => n >= 1 /\ Prunable(c[n + 1], m)
<1> DEFINE old == {i \in 2 .. Len(c) : Prunable(c[i], m)}
<1>1. Len(c) \in Nat /\ DOMAIN c = 1 .. Len(c) /\ \A i \in 1 .. Len(c) : c[i] \in Version
  BY LenProperties, ElementOfSeq
<1>2. CASE old = {}
  <2>1. Cut(c, m) = c
    BY <1>2 DEF Cut
  <2>2. Len(c) \in 0 .. Len(c)
    BY LenProperties, SMTT(30)
  <2> WITNESS Len(c) \in 0 .. Len(c)
  <2> QED BY <1>1, <2>1
<1>3. CASE old # {}
  <2> DEFINE first == CHOOSE i \in old : \A j \in old : i <= j
  <2>1. old \in SUBSET Nat
    BY <1>1
  <2>2. first \in old
    BY <1>3, <2>1, LeastElement
  <2>3. first \in 2 .. Len(c) /\ Prunable(c[first], m)
    BY <2>2
  <2> HIDE DEF first
  <2>4. Cut(c, m) = [i \in 1 .. first - 1 |-> c[i]]
    BY <1>3 DEF Cut, first
  <2>5. first - 1 \in Nat /\ first - 1 \in 0 .. Len(c) /\ (first - 1) + 1 = first
    BY <1>1, <2>3
  <2>6. [i \in 1 .. first - 1 |-> c[i]] \in [1 .. first - 1 -> Version]
    BY <1>1, <2>3
  <2>7. /\ Cut(c, m) \in Seq(Version)
        /\ Len(Cut(c, m)) = first - 1
        /\ DOMAIN Cut(c, m) = 1 .. first - 1
    BY <2>4, <2>5, <2>6, FunctionIsSeq
  <2> QED BY <1>1, <2>3, <2>4, <2>5, <2>7
<1> QED BY <1>2, <1>3

\* Where t's versions are exactly the top n, n rounds of the rollback loop
\* remove these and revive the version below.
LEMMA UnlinkResult ==
    ASSUME NEW t \in TxId, NEW c \in Seq(Version), NEW n \in 0 .. Len(c),
           \A i \in DOMAIN c : c[i].created = t <=> i <= n
    PROVE  LET u == Unlink(t, n, c)
           IN  /\ u \in Seq(Version)
               /\ Len(u) = Len(c) - n
               /\ DOMAIN u = 1 .. Len(c) - n
               /\ \A i \in 1 .. Len(c) - n :
                      u[i] = IF n > 0 /\ i = 1 THEN Unexpire(c[i + n], t) ELSE c[i + n]
<1> DEFINE u == Unlink(t, n, c)
<1>1. PICK L \in Nat :
         L = Len(c) /\ DOMAIN c = 1 .. L /\ (\A i \in 1 .. L : c[i] \in Version) /\ n \in 0 .. L
  BY LenProperties, ElementOfSeq
<1>2. \A o \in 0 .. L :
         (/\ \A i \in 1 .. o : c[i].created = t
          /\ o = L \/ c[o + 1].created # t) <=> o = n
  <2> TAKE o \in 0 .. L
  <2>1. CASE o = n
    <3>1. \A i \in 1 .. o : i \in DOMAIN c /\ i <= n
      BY <1>1, <2>1
    <3>2. o # L => o + 1 \in DOMAIN c /\ ~ (o + 1 <= n)
      BY <1>1, <2>1
    <3> QED BY <2>1, <3>1, <3>2
  <2>2. CASE o < n
    <3>1. o + 1 \in DOMAIN c /\ o + 1 <= n /\ o # L
      BY <1>1, <2>2
    <3> QED BY <2>2, <3>1
  <2>3. CASE o > n
    <3>1. n + 1 \in DOMAIN c /\ n + 1 \in 1 .. o /\ ~ (n + 1 <= n)
      BY <1>1, <2>3
    <3> QED BY <2>3, <3>1
  <2> QED BY <1>1, <2>1, <2>2, <2>3
<1>3. OwnPrefix(t, c) = n
  BY <1>1, <1>2 DEF OwnPrefix
<1>4. u = [i \in 1 .. L - n |->
              IF n > 0 /\ i = 1 THEN Unexpire(c[i + n], t) ELSE c[i + n]]
  BY <1>1, <1>3 DEF Unlink
<1>5. \A v \in Version : Unexpire(v, t) \in Version
  BY DEF Unexpire, Version
<1>6. L - n \in Nat /\ u \in [1 .. L - n -> Version]
  BY <1>1, <1>4, <1>5
<1>7. u \in Seq(Version) /\ Len(u) = L - n /\ DOMAIN u = 1 .. L - n
  BY <1>6, FunctionIsSeq
<1> QED BY <1>1, <1>4, <1>7

-------------------------------------------------------------------------------
\* Every action keeps IInv

\* Changing the state of one transaction record.
LEMMA StateChange ==
    ASSUME NEW f \in [TxId -> Transaction], NEW t \in TxId, NEW s \in TxState,
           NEW g, g = [f EXCEPT ![t].state = s]
    PROVE  /\ g \in [TxId -> Transaction]
           /\ \A u \in TxId : /\ g[u].state = IF u = t THEN s ELSE f[u].state
                              /\ g[u].frozen = f[u].frozen
                              /\ g[u].writes = f[u].writes
<1> DEFINE r == [f[t] EXCEPT !.state = s]
<1>1. f[t] \in Transaction
  OBVIOUS
<1>2. r \in Transaction /\ r.state = s /\ r.frozen = f[t].frozen /\ r.writes = f[t].writes
  BY <1>1 DEF Transaction
<1> HIDE DEF r
<1>3. g = [f EXCEPT ![t] = r]
  BY DEF r
<1> QED BY <1>2, <1>3


LEMMA InitInv == Init => IInv
<1> SUFFICES ASSUME Init
             PROVE  IInv
  OBVIOUS
<1>1. TypeOK
  BY BoundsAssumption
     DEF Init, TypeOK, FirstTx, TxId, Transaction, TxState, NoWrites
<1>2. ListsAgree
  BY BoundsAssumption DEF Init, ListsAgree, FirstTx, TxId
<1>3. ChainLinked /\ OneWriterOnTop /\ CreatorsLive /\ FrozenCoversActive
  BY DEF Init, ChainLinked, OneWriterOnTop, CreatorsLive, FrozenCoversActive
<1> QED BY <1>1, <1>2, <1>3 DEF IInv

LEMMA BeginInv ==
    ASSUME IInv, Begin
    PROVE  IInv'
<1> USE DEF IInv
<1>1. nextTx \in TxId /\ nextTx' = nextTx + 1 /\ tx[nextTx].state = "UNUSED"
  BY BoundsAssumption DEF Begin, TypeOK, TxId, FirstTx, ListsAgree
<1>2. TypeOK'
  BY <1>1, BoundsAssumption DEF Begin, TypeOK, TxId, FirstTx, Transaction, TxState, NoWrites
<1>3. ListsAgree'
  <2>1. active' = {t \in TxId : tx'[t].state = "ACTIVE"}
    BY <1>1 DEF Begin, TypeOK, ListsAgree
  <2>2. committed' = {t \in TxId : tx'[t].state = "COMMITTED"}
    BY <1>1 DEF Begin, TypeOK, ListsAgree
  <2>3. aborted' = {t \in TxId : tx'[t].state = "ABORTED"}
    BY <1>1 DEF Begin, TypeOK, ListsAgree
  <2>4. \A t \in TxId : tx'[t].state = "UNUSED" <=> t >= nextTx'
    BY <1>1, BoundsAssumption DEF Begin, TypeOK, ListsAgree, TxId, FirstTx
  <2>5. \A t \in TxId : \A u \in tx'[t].frozen : u < t /\ u < nextTx'
    <3>1. \A u \in active : u < nextTx /\ u < nextTx'
      BY <1>1, BoundsAssumption DEF TypeOK, ListsAgree, TxId, FirstTx
    <3>2. \A t \in TxId : tx'[t].frozen = IF t = nextTx THEN active ELSE tx[t].frozen
      BY <1>1 DEF Begin, TypeOK
    <3>3. \A t \in TxId : \A u \in tx[t].frozen : u < t /\ u < nextTx'
      <4>1. \A t \in TxId : tx[t].frozen \subseteq TxId
        BY DEF TypeOK, Transaction
      <4> QED BY <1>1, <4>1, BoundsAssumption DEF TypeOK, ListsAgree, TxId, FirstTx
    <3> QED BY <3>1, <3>2, <3>3
  <2> QED BY <2>1, <2>2, <2>3, <2>4, <2>5 DEF ListsAgree
<1>4. ChainLinked'
  BY DEF Begin, ChainLinked
<1>5. OneWriterOnTop'
  BY <1>1 DEF Begin, TypeOK, OneWriterOnTop, CreatorsLive, ListsAgree, NoWrites
<1>6. CreatorsLive'
  BY DEF Begin, CreatorsLive
<1>7. FrozenCoversActive'
  BY <1>1, BoundsAssumption
     DEF Begin, TypeOK, FrozenCoversActive, ListsAgree, TxId, FirstTx
<1> QED BY <1>2, <1>3, <1>4, <1>5, <1>6, <1>7

LEMMA CommitInv ==
    ASSUME IInv, NEW t \in TxId, Commit(t)
    PROVE  IInv'
<1> USE DEF IInv
<1>1. /\ tx' \in [TxId -> Transaction]
      /\ \A u \in TxId : /\ tx'[u].state = IF u = t THEN "COMMITTED" ELSE tx[u].state
                         /\ tx'[u].frozen = tx[u].frozen
                         /\ tx'[u].writes = tx[u].writes
  BY StateChange DEF Commit, TypeOK, TxState
<1>2. TypeOK'
  BY <1>1 DEF Commit, TypeOK
<1>3. ListsAgree'
  BY <1>1 DEF Commit, TypeOK, ListsAgree
<1>4. ChainLinked' /\ CreatorsLive'
  BY DEF Commit, ChainLinked, CreatorsLive
<1>5. OneWriterOnTop'
  BY <1>1 DEF Commit, TypeOK, OneWriterOnTop
<1>6. FrozenCoversActive'
  BY <1>1 DEF Commit, TypeOK, FrozenCoversActive
<1> QED BY <1>2, <1>3, <1>4, <1>5, <1>6

LEMMA WriteInv ==
    ASSUME IInv, NEW t \in TxId, NEW k \in Key, NEW x \in Val \cup {NotFound},
           Write(t, k, x)
    PROVE  IInv'
<1> USE DEF IInv
<1> DEFINE c == chain[k]
           p == chain'[k]
<1>1. /\ tx' \in [TxId -> Transaction]
      /\ \A u \in TxId : /\ tx'[u].state = tx[u].state
                         /\ tx'[u].frozen = tx[u].frozen
                         /\ \A j \in Key : tx'[u].writes[j] =
                               IF u = t /\ j = k THEN tx[u].writes[j] + 1 ELSE tx[u].writes[j]
  <2> DEFINE w == [tx[t].writes EXCEPT ![k] = @ + 1]
             r == [tx[t] EXCEPT !.writes = w]
  <2>1. tx[t] \in Transaction /\ tx[t].writes \in [Key -> Nat]
    BY DEF TypeOK, Transaction
  <2>2. /\ w \in [Key -> Nat]
        /\ \A j \in Key : w[j] = IF j = k THEN tx[t].writes[j] + 1 ELSE tx[t].writes[j]
    BY <2>1
  <2> HIDE DEF w
  <2>3. r \in Transaction /\ r.state = tx[t].state /\ r.frozen = tx[t].frozen /\ r.writes = w
    BY <2>1, <2>2 DEF Transaction
  <2> HIDE DEF r
  <2>4. tx' = [tx EXCEPT ![t] = r]
    BY DEF Write, r, w
  <2> QED BY <2>1, <2>2, <2>3, <2>4 DEF TypeOK
<1>2. PICK L \in Nat : L = Len(c) /\ DOMAIN c = 1 .. L /\ \A i \in 1 .. L : c[i] \in Version
  BY LenProperties, ElementOfSeq DEF TypeOK
<1>3. /\ p \in Seq(Version)
      /\ Len(p) = L + 1
      /\ DOMAIN p = 1 .. L + 1
      /\ p[1] = [created |-> t, expired |-> 0, value |-> x]
      /\ \A i \in 1 .. L : p[i + 1] = IF i = 1 THEN [c[1] EXCEPT !.expired = t] ELSE c[i]
  <2>1. p = Prepend(t, x, c)
    BY DEF Write, TypeOK
  <2>2. c \in Seq(Version)
    BY DEF TypeOK
  <2> HIDE DEF p, c
  <2> QED BY <1>2, <2>1, <2>2, PrependResult
<1>4. chain' \in [Key -> Seq(Version)] /\ \A j \in Key : j # k => chain'[j] = chain[j]
  BY <1>3 DEF Write, TypeOK
<1>5. t \in active
  BY DEF Write, ListsAgree
<1>6. L > 0 /\ c[1].created # t => c[1].created < t /\ c[1].created \notin active
  <2>1. L > 0 => c # << >> /\ c[1].created \in TxId
    BY <1>2, EmptySeq DEF Version
  <2> QED BY <2>1, BoundsAssumption DEF Write, Conflict, TxId, FirstTx
<1>7. /\ p[1].created = t /\ p[1].expired = 0
      /\ \A i \in 1 .. L : /\ p[i + 1].created = c[i].created
                          /\ p[i + 1].expired = IF i = 1 THEN t ELSE c[i].expired
  <2>1. \A v \in Version : [v EXCEPT !.expired = t].created = v.created
                            /\ [v EXCEPT !.expired = t].expired = t
    BY DEF Version
  <2>2. p[1].created = t /\ p[1].expired = 0
    BY <1>3
  <2>3. ASSUME NEW i \in 1 .. L
        PROVE  /\ p[i + 1].created = c[i].created
               /\ p[i + 1].expired = IF i = 1 THEN t ELSE c[i].expired
    <3>1. CASE i = 1
      <4>1. p[i + 1] = [c[1] EXCEPT !.expired = t] /\ c[1] \in Version
        BY <1>2, <1>3, <3>1
      <4> QED BY <2>1, <3>1, <4>1
    <3>2. CASE i # 1
      BY <1>3, <3>2
    <3> QED BY <3>1, <3>2
  <2> QED BY <2>2, <2>3
<1>8. \A i \in 1 .. L + 1 : i = 1 \/ (i - 1 \in 1 .. L /\ i = (i - 1) + 1)
  OBVIOUS
<1>9. TypeOK'
  BY <1>1, <1>4 DEF Write, TypeOK
<1>10. ListsAgree'
  BY <1>1 DEF Write, TypeOK, ListsAgree
<1>11. ChainLinked'
  <2> SUFFICES ASSUME NEW j \in Key, NEW i \in DOMAIN chain'[j]
               PROVE  /\ i = 1 => chain'[j][i].expired = 0
                      /\ i > 1 => /\ chain'[j][i].expired = chain'[j][i - 1].created
                                  /\ chain'[j][i].created <= chain'[j][i - 1].created
    BY DEF ChainLinked
  <2>1. CASE j # k
    BY <1>4, <2>1 DEF ChainLinked
  <2>2. CASE j = k
    <3>1. i \in 1 .. L + 1
      BY <1>3, <2>2
    <3>2. CASE i = 1
      BY <1>7, <2>2, <3>2
    <3>3. CASE i = 2
      <4>1. 1 \in 1 .. L /\ 1 \in DOMAIN c
        BY <1>2, <3>1, <3>3
      <4>2. p[2].created = c[1].created /\ p[2].expired = t
        BY <1>7, <4>1
      <4>3. c[1].created \in TxId
        BY <1>2, <4>1 DEF Version
      <4>4. c[1].created <= t
        BY <1>6, <4>1, <4>3, BoundsAssumption DEF TxId, FirstTx
      <4> QED BY <1>7, <2>2, <3>3, <4>2, <4>4
    <3>4. CASE i > 2
      <4>1. i - 1 \in 1 .. L /\ i - 2 \in 1 .. L /\ i - 1 > 1 /\ i - 1 \in DOMAIN c
            /\ (i - 1) - 1 = i - 2 /\ (i - 2) + 1 = i - 1 /\ (i - 1) + 1 = i
        BY <1>2, <3>1, <3>4
      <4>2. /\ c[i - 1].expired = c[i - 2].created
            /\ c[i - 1].created <= c[i - 2].created
        BY <4>1 DEF ChainLinked
      <4>3. /\ p[i].created = c[i - 1].created
            /\ p[i].expired = c[i - 1].expired
            /\ p[i - 1].created = c[i - 2].created
        BY <1>7, <4>1
      <4> QED BY <2>2, <3>4, <4>2, <4>3
    <3> QED BY <3>1, <3>2, <3>3, <3>4
  <2> QED BY <2>1, <2>2
<1>12. OneWriterOnTop'
  <2> SUFFICES ASSUME NEW j \in Key, NEW u \in active
               PROVE  /\ tx'[u].writes[j] <= Len(chain'[j])
                      /\ \A i \in DOMAIN chain'[j] :
                             chain'[j][i].created = u <=> i <= tx'[u].writes[j]
    BY DEF OneWriterOnTop, Write
  <2>0. u \in TxId /\ tx[u].writes[j] \in Nat
    BY DEF TypeOK, Transaction
  <2>1. CASE j # k
    BY <1>1, <1>4, <2>0, <2>1 DEF OneWriterOnTop
  <2>2. CASE j = k /\ u = t
    <3>1. tx'[u].writes[j] = tx[t].writes[k] + 1 /\ tx[t].writes[k] <= L
      BY <1>1, <1>2, <2>2, <1>5 DEF OneWriterOnTop
    <3>2. \A i \in 1 .. L : c[i].created = t <=> i <= tx[t].writes[k]
      BY <1>2, <1>5 DEF OneWriterOnTop
    <3>3. \A i \in 1 .. L + 1 : p[i].created = t <=> i <= tx[t].writes[k] + 1
      BY <1>7, <1>8, <2>0, <2>2, <3>2
    <3> QED BY <1>3, <2>0, <2>2, <3>1, <3>3
  <2>3. CASE j = k /\ u # t
    <3>1. tx'[u].writes[j] = tx[u].writes[k] /\ tx[u].writes[k] <= L
      BY <1>1, <1>2, <2>0, <2>3 DEF OneWriterOnTop
    <3>2. \A i \in 1 .. L : c[i].created = u <=> i <= tx[u].writes[k]
      BY <1>2 DEF OneWriterOnTop
    <3>3. tx[u].writes[k] = 0
      <4>1. SUFFICES ASSUME tx[u].writes[k] > 0
                     PROVE  FALSE
        BY <2>0, <2>3
      <4>2. 1 \in 1 .. L
        BY <2>0, <2>3, <3>1, <4>1
      <4>3. c[1].created = u
        BY <2>0, <2>3, <3>2, <4>1, <4>2
      <4> QED BY <1>6, <2>3, <4>2, <4>3
    <3>4. \A i \in 1 .. L : c[i].created # u
      BY <3>2, <3>3
    <3>5. \A i \in 1 .. L + 1 : p[i].created # u
      BY <1>7, <1>8, <2>3, <3>4
    <3> QED BY <1>3, <2>3, <3>1, <3>3, <3>5
  <2> QED BY <2>1, <2>2, <2>3
<1>13. CreatorsLive'
  <2> SUFFICES ASSUME NEW j \in Key, NEW i \in DOMAIN chain'[j]
               PROVE  chain'[j][i].created \in active \cup committed
    BY DEF CreatorsLive, Write
  <2>1. CASE j # k
    BY <1>4, <2>1 DEF CreatorsLive
  <2>2. CASE j = k
    <3>1. i \in 1 .. L + 1
      BY <1>3, <2>2
    <3>2. CASE i = 1
      BY <1>5, <1>7, <2>2, <3>2
    <3>3. CASE i # 1
      <4>1. i - 1 \in 1 .. L /\ i - 1 \in DOMAIN c
        BY <1>2, <1>8, <3>1, <3>3
      <4>2. p[i].created = c[i - 1].created
        BY <1>7, <1>8, <3>1, <4>1
      <4> QED BY <2>2, <4>1, <4>2 DEF CreatorsLive
    <3> QED BY <3>2, <3>3
  <2> QED BY <2>1, <2>2
<1>14. FrozenCoversActive'
  BY <1>1 DEF Write, FrozenCoversActive, TypeOK
<1> QED BY <1>9, <1>10, <1>11, <1>12, <1>13, <1>14

\* The chain d is the chain c, of length L, without its top m versions and
\* with the version below them revived.
Popped(c, d, m, L) ==
    /\ L = Len(c)
    /\ DOMAIN c = 1 .. L
    /\ m <= L
    /\ Len(d) = L - m
    /\ DOMAIN d = 1 .. L - m
    /\ \A i \in 1 .. L - m :
           /\ i + m \in 1 .. L
           /\ d[i].created = c[i + m].created
           /\ d[i].value = c[i + m].value
           /\ d[i].expired = IF m > 0 /\ i = 1 THEN 0 ELSE c[i + m].expired

\* A rollback pops from every chain the versions of its transaction.
LEMMA RollbackPops ==
    ASSUME IInv, NEW t \in TxId, Rollback(t), NEW k \in Key
    PROVE  /\ chain'[k] \in Seq(Version)
           /\ \E L, m \in Nat : /\ m = tx[t].writes[k]
                               /\ Popped(chain[k], chain'[k], m, L)
                               /\ \A i \in 1 .. L : chain[k][i].created = t <=> i <= m
<1> USE DEF IInv
<1>1. PICK c : c = chain[k]
  OBVIOUS
<1>2. c \in Seq(Version)
  BY <1>1 DEF TypeOK
<1>3. PICK L \in Nat : L = Len(c) /\ DOMAIN c = 1 .. L /\ \A i \in 1 .. L : c[i] \in Version
  BY <1>2, LenProperties, ElementOfSeq
<1>4. PICK m \in Nat : m = tx[t].writes[k]
  BY DEF TypeOK, Transaction
<1>5. m <= L /\ \A i \in 1 .. L : c[i].created = t <=> i <= m
  <2>1. t \in active
    BY DEF Rollback, ListsAgree
  <2> QED BY <1>1, <1>3, <1>4, <2>1 DEF OneWriterOnTop
<1>6. \A i \in 1 .. L : i > 1 => c[i].expired = c[i - 1].created
  BY <1>1, <1>3 DEF ChainLinked
<1>7. PICK d : d = chain'[k] /\ d = Unlink(t, m, c)
  BY <1>1, <1>4 DEF Rollback
<1>8. /\ d \in Seq(Version)
      /\ Len(d) = L - m
      /\ DOMAIN d = 1 .. L - m
      /\ \A i \in 1 .. L - m :
             d[i] = IF m > 0 /\ i = 1 THEN Unexpire(c[i + m], t) ELSE c[i + m]
  <2>1. m \in 0 .. Len(c) /\ \A i \in DOMAIN c : c[i].created = t <=> i <= m
    BY <1>3, <1>5
  <2>2. LET u == Unlink(t, m, c)
        IN  /\ u \in Seq(Version)
            /\ Len(u) = Len(c) - m
            /\ DOMAIN u = 1 .. Len(c) - m
            /\ \A i \in 1 .. Len(c) - m :
                   u[i] = IF m > 0 /\ i = 1 THEN Unexpire(c[i + m], t) ELSE c[i + m]
    BY <1>2, <2>1, UnlinkResult, Zenon
  <2> QED BY <1>3, <1>7, <2>2
<1>9. ASSUME NEW i \in 1 .. L - m
       PROVE  /\ i + m \in 1 .. L
              /\ d[i].created = c[i + m].created
              /\ d[i].value = c[i + m].value
              /\ d[i].expired = IF m > 0 /\ i = 1 THEN 0 ELSE c[i + m].expired
  <2>1. i + m \in 1 .. L /\ c[i + m] \in Version
    BY <1>3, <1>5
  <2>2. CASE m > 0 /\ i = 1
    <3>1. i + m > 1 /\ (i + m) - 1 = m /\ m \in 1 .. L
      BY <1>5, <2>2
    <3>2. c[i + m].expired = t
      BY <1>5, <1>6, <2>1, <3>1
    <3>3. d[i] = Unexpire(c[i + m], t)
      BY <1>8, <2>2
    <3>4. d[i].created = c[i + m].created /\ d[i].value = c[i + m].value /\ d[i].expired = 0
      <4>1. PICK v \in Version : v = c[i + m] /\ v.expired = t /\ d[i] = Unexpire(v, t)
        BY <2>1, <3>2, <3>3
      <4>2. /\ Unexpire(v, t).created = v.created /\ Unexpire(v, t).expired = 0
            /\ Unexpire(v, t).value = v.value
        BY <4>1 DEF Unexpire, Version
      <4> QED BY <4>1, <4>2
    <3> QED BY <2>1, <2>2, <3>4
  <2>3. CASE ~ (m > 0 /\ i = 1)
    <3>1. d[i] = c[i + m]
      BY <1>8, <2>3
    <3> QED BY <2>1, <2>3, <3>1
  <2> QED BY <2>1, <2>2, <2>3
<1>10. Popped(c, d, m, L)
  BY <1>3, <1>5, <1>8, <1>9 DEF Popped
<1> QED BY <1>1, <1>4, <1>5, <1>7, <1>8, <1>10

LEMMA RollbackInv ==
    ASSUME IInv, NEW t \in TxId, Rollback(t)
    PROVE  IInv'
<1> USE DEF IInv
<1>1. /\ tx' \in [TxId -> Transaction]
      /\ \A u \in TxId : /\ tx'[u].state = IF u = t THEN "ABORTED" ELSE tx[u].state
                         /\ tx'[u].frozen = tx[u].frozen
                         /\ tx'[u].writes = tx[u].writes
  <2>1. tx \in [TxId -> Transaction] /\ "ABORTED" \in TxState
    BY DEF TypeOK, TxState
  <2>2. PICK g : g = tx' /\ g = [tx EXCEPT ![t].state = "ABORTED"]
    BY DEF Rollback
  <2>3. /\ g \in [TxId -> Transaction]
        /\ \A u \in TxId : /\ g[u].state = IF u = t THEN "ABORTED" ELSE tx[u].state
                           /\ g[u].frozen = tx[u].frozen
                           /\ g[u].writes = tx[u].writes
    BY <2>1, <2>2, StateChange
  <2> QED BY <2>2, <2>3
<1>2. /\ t \in active
      /\ active' = active \ {t} /\ aborted' = aborted \cup {t}
      /\ nextTx' = nextTx /\ committed' = committed /\ keys' = keys
  BY DEF Rollback, ListsAgree
<1>3. TypeOK'
  <2>1. chain' \in [Key -> Seq(Version)]
    <3>1. chain' = [k \in Key |-> chain'[k]]
      BY DEF Rollback
    <3>2. \A k \in Key : chain'[k] \in Seq(Version)
      BY RollbackPops
    <3> QED BY <3>1, <3>2
  <2> QED BY <1>1, <1>2, <2>1 DEF TypeOK
<1>4. ListsAgree'
  BY <1>1, <1>2 DEF TypeOK, ListsAgree
<1>5. ChainLinked'
  <2> SUFFICES ASSUME NEW k \in Key, NEW i \in DOMAIN chain'[k]
               PROVE  /\ i = 1 => chain'[k][i].expired = 0
                      /\ i > 1 => /\ chain'[k][i].expired = chain'[k][i - 1].created
                                  /\ chain'[k][i].created <= chain'[k][i - 1].created
    BY DEF ChainLinked
  <2>1. PICK L \in Nat, m \in Nat : Popped(chain[k], chain'[k], m, L)
    BY RollbackPops
  <2>2. i \in 1 .. L - m /\ i \in Int /\ i + m \in DOMAIN chain[k]
    BY <2>1 DEF Popped
  <2>3. CASE i = 1
    <3>1. chain'[k][i].expired = IF m > 0 THEN 0 ELSE chain[k][i + m].expired
      BY <2>1, <2>2, <2>3 DEF Popped
    <3>2. m = 0 => i + m = 1
      BY <2>3
    <3>3. m = 0 => chain[k][i + m].expired = 0
      BY <2>2, <3>2 DEF ChainLinked
    <3> QED BY <2>3, <3>1, <3>3
  <2>4. CASE i > 1
    <3>1. i - 1 \in 1 .. L - m /\ (i - 1) + m = (i + m) - 1 /\ i + m > 1
      BY <2>2, <2>4
    <3>2. /\ chain[k][i + m].expired = chain[k][(i + m) - 1].created
          /\ chain[k][i + m].created <= chain[k][(i + m) - 1].created
      BY <2>2, <3>1 DEF ChainLinked
    <3>3. /\ chain'[k][i].created = chain[k][i + m].created
          /\ chain'[k][i].expired = chain[k][i + m].expired
      BY <2>1, <2>2, <2>4 DEF Popped
    <3>4. chain'[k][i - 1].created = chain[k][(i - 1) + m].created
      BY <2>1, <3>1 DEF Popped
    <3> QED BY <2>4, <3>1, <3>2, <3>3, <3>4
  <2> QED BY <2>2, <2>3, <2>4
<1>6. OneWriterOnTop'
  <2> SUFFICES ASSUME NEW k \in Key, NEW u \in active, u # t
               PROVE  /\ tx'[u].writes[k] <= Len(chain'[k])
                      /\ \A i \in DOMAIN chain'[k] :
                             chain'[k][i].created = u <=> i <= tx'[u].writes[k]
    BY <1>2 DEF OneWriterOnTop
  <2>1. PICK L \in Nat, m \in Nat :
           /\ Popped(chain[k], chain'[k], m, L)
           /\ \A i \in 1 .. L : chain[k][i].created = t <=> i <= m
    BY RollbackPops
  <2>2. PICK w \in Nat : w = tx[u].writes[k] /\ w = tx'[u].writes[k]
    BY <1>1 DEF TypeOK, Transaction
  <2>3. w <= L /\ \A i \in 1 .. L : chain[k][i].created = u <=> i <= w
    <3>1. L = Len(chain[k]) /\ DOMAIN chain[k] = 1 .. L
      BY <2>1 DEF Popped
    <3>2. /\ tx[u].writes[k] <= Len(chain[k])
          /\ \A i \in DOMAIN chain[k] : chain[k][i].created = u <=> i <= tx[u].writes[k]
      BY DEF OneWriterOnTop
    <3> QED BY <2>2, <3>1, <3>2
  <2>4. m = 0 \/ w = 0
    <3>1. SUFFICES ASSUME m > 0, w > 0
                   PROVE  FALSE
      OBVIOUS
    <3>2. 1 \in 1 .. L /\ 1 <= m /\ 1 <= w
      BY <2>3, <3>1
    <3> QED BY <2>1, <2>3, <3>2
  <2>5. \A i \in 1 .. L - m : chain'[k][i].created = u <=> i <= w
    <3> TAKE i \in 1 .. L - m
    <3>1. i + m \in 1 .. L /\ chain'[k][i].created = chain[k][i + m].created
      BY <2>1 DEF Popped
    <3>2. chain'[k][i].created = u <=> i + m <= w
      BY <2>3, <3>1
    <3> QED BY <2>4, <3>2
  <2>6. w <= L - m
    BY <2>1, <2>3, <2>4 DEF Popped
  <2>7. Len(chain'[k]) = L - m /\ DOMAIN chain'[k] = 1 .. L - m
    BY <2>1 DEF Popped
  <2> QED BY <2>2, <2>5, <2>6, <2>7
<1>7. CreatorsLive'
  <2> SUFFICES ASSUME NEW k \in Key, NEW i \in DOMAIN chain'[k]
               PROVE  chain'[k][i].created \in (active \ {t}) \cup committed
    BY <1>2 DEF CreatorsLive
  <2>1. PICK L \in Nat, m \in Nat :
           /\ Popped(chain[k], chain'[k], m, L)
           /\ \A j \in 1 .. L : chain[k][j].created = t <=> j <= m
    BY RollbackPops
  <2>2. i \in 1 .. L - m /\ i + m \in 1 .. L /\ i + m \in DOMAIN chain[k]
    BY <2>1 DEF Popped
  <2>3. ~ (i + m <= m)
    BY <2>2
  <2>4. chain[k][i + m].created # t /\ chain[k][i + m].created \in active \cup committed
    BY <2>1, <2>2, <2>3 DEF CreatorsLive
  <2>5. chain'[k][i].created = chain[k][i + m].created
    BY <2>1, <2>2 DEF Popped
  <2> QED BY <2>4, <2>5
<1>8. FrozenCoversActive'
  BY <1>1, <1>2 DEF FrozenCoversActive, TypeOK
<1> QED BY <1>3, <1>4, <1>5, <1>6, <1>7, <1>8

LEMMA VacuumInv ==
    ASSUME IInv, NEW m \in Horizons, Vacuum(m)
    PROVE  IInv'
<1> USE DEF IInv
<1>1. m \in Nat /\ \A t \in active : m <= t
  <2>1. m \in FirstTx .. MaxTx + 1 /\ \A t \in active : m <= t
    BY Zenon DEF Horizons
  <2> QED BY <2>1, BoundsAssumption DEF FirstTx
<1>2. ASSUME NEW k \in Key
      PROVE  /\ chain'[k] \in Seq(Version)
             /\ \E n \in Nat, L \in Nat :
                   /\ n <= L
                   /\ Len(chain[k]) = L /\ DOMAIN chain[k] = 1 .. L
                   /\ Len(chain'[k]) = n /\ DOMAIN chain'[k] = 1 .. n
                   /\ \A i \in 1 .. n : chain'[k][i] = chain[k][i] /\ i \in 1 .. L
                   /\ n < L => n >= 1 /\ n + 1 \in 1 .. L /\ chain[k][n + 1].expired < m
  <2>1. PICK c : c = chain[k]
    OBVIOUS
  <2>2. c \in Seq(Version) /\ chain'[k] = Cut(c, m)
    BY <2>1 DEF Vacuum, TypeOK
  <2>3. PICK L \in Nat : L = Len(c) /\ DOMAIN c = 1 .. L
    BY <2>2, LenProperties
  <2>4. PICK n \in 0 .. Len(c) :
           /\ Cut(c, m) \in Seq(Version)
           /\ Len(Cut(c, m)) = n
           /\ DOMAIN Cut(c, m) = 1 .. n
           /\ \A i \in 1 .. n : Cut(c, m)[i] = c[i]
           /\ n < Len(c) => n >= 1 /\ Prunable(c[n + 1], m)
    BY <1>1, <2>2, CutResult, Zenon
  <2>5. n \in Nat /\ n <= L /\ \A i \in 1 .. n : i \in 1 .. L
    BY <2>3, <2>4
  <2>6. n < L => n >= 1 /\ n + 1 \in 1 .. L /\ c[n + 1].expired < m
    BY <2>3, <2>4, <2>5 DEF Prunable
  <2> QED BY <2>1, <2>2, <2>3, <2>4, <2>5, <2>6
<1>3. TypeOK'
  <2>1. chain' = [k \in Key |-> chain'[k]]
    BY DEF Vacuum
  <2>2. chain' \in [Key -> Seq(Version)]
    BY <1>2, <2>1
  <2> QED BY <2>2 DEF Vacuum, TypeOK
<1>4. ListsAgree' /\ FrozenCoversActive'
  BY DEF Vacuum, ListsAgree, FrozenCoversActive
<1>5. ChainLinked'
  <2> SUFFICES ASSUME NEW k \in Key, NEW i \in DOMAIN chain'[k]
               PROVE  /\ i = 1 => chain'[k][i].expired = 0
                      /\ i > 1 => /\ chain'[k][i].expired = chain'[k][i - 1].created
                                  /\ chain'[k][i].created <= chain'[k][i - 1].created
    BY DEF ChainLinked
  <2>1. PICK n \in Nat, L \in Nat :
                   /\ n <= L
                   /\ Len(chain[k]) = L /\ DOMAIN chain[k] = 1 .. L
                   /\ Len(chain'[k]) = n /\ DOMAIN chain'[k] = 1 .. n
                   /\ \A j \in 1 .. n : chain'[k][j] = chain[k][j] /\ j \in 1 .. L
    BY <1>2
  <2>2. i \in 1 .. n /\ i \in DOMAIN chain[k] /\ chain'[k][i] = chain[k][i]
    BY <2>1
  <2>3. i > 1 => i - 1 \in 1 .. n /\ chain'[k][i - 1] = chain[k][i - 1]
    BY <2>1, <2>2
  <2> QED BY <2>2, <2>3 DEF ChainLinked
<1>6. OneWriterOnTop'
  <2> SUFFICES ASSUME NEW k \in Key, NEW t \in active
               PROVE  /\ tx[t].writes[k] <= Len(chain'[k])
                      /\ \A i \in DOMAIN chain'[k] :
                             chain'[k][i].created = t <=> i <= tx[t].writes[k]
    BY DEF OneWriterOnTop, Vacuum
  <2>1. PICK n \in Nat, L \in Nat :
                   /\ n <= L
                   /\ Len(chain[k]) = L /\ DOMAIN chain[k] = 1 .. L
                   /\ Len(chain'[k]) = n /\ DOMAIN chain'[k] = 1 .. n
                   /\ \A j \in 1 .. n : chain'[k][j] = chain[k][j] /\ j \in 1 .. L
                   /\ n < L => n >= 1 /\ n + 1 \in 1 .. L /\ chain[k][n + 1].expired < m
    BY <1>2
  <2>2. PICK w \in Nat : w = tx[t].writes[k]
    BY DEF TypeOK, Transaction
  <2>3. w <= L /\ \A i \in 1 .. L : chain[k][i].created = t <=> i <= w
    BY <2>1, <2>2 DEF OneWriterOnTop
  <2>4. w <= n
    <3>1. SUFFICES ASSUME w > n
                   PROVE  FALSE
      OBVIOUS
    <3>2. n < L /\ n >= 1 /\ n \in 1 .. L /\ n + 1 \in DOMAIN chain[k] /\ n + 1 > 1 /\ (n + 1) - 1 = n
      BY <2>1, <2>3, <3>1
    <3>3. chain[k][n].created = t
      BY <2>3, <3>1, <3>2
    <3>4. chain[k][n + 1].expired = t
      BY <3>2, <3>3 DEF ChainLinked
    <3>5. t \in Nat
      BY BoundsAssumption DEF TypeOK, TxId, FirstTx
    <3> QED BY <1>1, <2>1, <3>2, <3>4, <3>5
  <2> QED BY <2>1, <2>2, <2>3, <2>4
<1>7. CreatorsLive'
  <2> SUFFICES ASSUME NEW k \in Key, NEW i \in DOMAIN chain'[k]
               PROVE  chain'[k][i].created \in active \cup committed
    BY DEF CreatorsLive, Vacuum
  <2>1. i \in DOMAIN chain[k] /\ chain'[k][i] = chain[k][i]
    BY <1>2
  <2> QED BY <2>1 DEF CreatorsLive
<1> QED BY <1>3, <1>4, <1>5, <1>6, <1>7

LEMMA NextInv == IInv /\ [Next]_vars => IInv'
<1> SUFFICES ASSUME IInv, [Next]_vars
             PROVE  IInv'
  OBVIOUS
<1>1. CASE Begin
  BY <1>1, BeginInv
<1>2. ASSUME NEW t \in TxId, NEW k \in Key, NEW x \in Val, Put(t, k, x)
      PROVE  IInv'
  BY <1>2, WriteInv DEF Put
<1>3. ASSUME NEW t \in TxId, NEW k \in Key, Delete(t, k)
      PROVE  IInv'
  BY <1>3, WriteInv DEF Delete
<1>4. ASSUME NEW t \in TxId, Commit(t)
      PROVE  IInv'
  BY <1>4, CommitInv
<1>5. ASSUME NEW t \in TxId, Rollback(t)
      PROVE  IInv'
  BY <1>5, RollbackInv
<1>6. ASSUME NEW m \in Horizons, Vacuum(m)
      PROVE  IInv'
  BY <1>6, VacuumInv
<1>7. CASE UNCHANGED vars
  BY <1>7 DEF vars, IInv, TypeOK, ListsAgree, ChainLinked, OneWriterOnTop, CreatorsLive,
              FrozenCoversActive
<1> QED BY <1>1, <1>2, <1>3, <1>4, <1>5, <1>6, <1>7 DEF Next

-------------------------------------------------------------------------------
\* Theorems

LEMMA Invariant == Spec => []IInv
<1>1. Init => IInv
  BY InitInv
<1>2. IInv /\ [Next]_vars => IInv'
  BY NextInv
<1> QED BY <1>1, <1>2, PTL DEF Spec

\* The engine's fields always hold what the functions of mvcc.lp store in them.
THEOREM TypeCorrect == Spec => []TypeOK
<1>1. IInv => TypeOK
  BY DEF IInv
<1> QED BY <1>1, Invariant, PTL

\* The chains that mvcc_put, mvcc_delete, mvcc_rollback and mvcc_vacuum build
\* are ordered by creator and linked by expiry, for any number of transactions.
THEOREM ChainsStayLinked == Spec => []ChainLinked
<1>1. IInv => ChainLinked
  BY DEF IInv
<1> QED BY <1>1, Invariant, PTL

\* A running transaction's versions are the top of the chain, as many as its
\* write set says: what mvcc_rollback relies on.
THEOREM WriterOnTop == Spec => []OneWriterOnTop
<1>1. IInv => OneWriterOnTop
  BY DEF IInv
<1> QED BY <1>1, Invariant, PTL

\* mvcc_rollback leaves no version and no expiry mark of an aborted transaction.
THEOREM RollbackIsClean == Spec => []AbortedUnlinked
<1>1. IInv => AbortedUnlinked
  <2> SUFFICES ASSUME IInv, NEW k \in Key, NEW i \in DOMAIN chain[k]
               PROVE  chain[k][i].created \notin aborted /\ chain[k][i].expired \notin aborted
    BY DEF AbortedUnlinked
  <2> USE DEF IInv
  <2>1. (active \cup committed) \cap aborted = {}
    BY DEF ListsAgree
  <2>2. \A j \in DOMAIN chain[k] : chain[k][j].created \notin aborted
    BY <2>1 DEF CreatorsLive
  <2>3. PICK L \in Nat : DOMAIN chain[k] = 1 .. L
    BY LenProperties DEF TypeOK
  <2>4. CASE i = 1
    <3>1. chain[k][i].expired = 0
      BY <2>4 DEF ChainLinked
    <3>2. 0 \notin aborted
      BY BoundsAssumption DEF TypeOK, TxId, FirstTx
    <3> QED BY <2>2, <3>1, <3>2
  <2>5. CASE i # 1
    <3>1. i > 1 /\ i - 1 \in DOMAIN chain[k]
      BY <2>3, <2>5
    <3>2. chain[k][i].expired = chain[k][i - 1].created
      BY <3>1 DEF ChainLinked
    <3> QED BY <2>2, <3>1, <3>2
  <2> QED BY <2>4, <2>5
<1> QED BY <1>1, Invariant, PTL

\* mvcc_get returns the transaction's own last write, or else the value of the
\* key in the snapshot taken when it began.
THEOREM ReadsAreSnapshotReads == Spec => []GetReadsSnapshot
<1>1. IInv => GetReadsSnapshot
  <2> SUFFICES ASSUME IInv, NEW t \in active, NEW k \in Key
               PROVE  Get(t, k) = IF tx[t].writes[k] > 0 THEN chain[k][1].value
                                  ELSE SnapshotValue(t, k)
    BY DEF GetReadsSnapshot
  <2> USE DEF IInv
  <2>1. PICK c : c = chain[k]
    OBVIOUS
  <2>2. PICK L \in Nat : L = Len(c) /\ DOMAIN c = 1 .. L /\ \A i \in 1 .. L : c[i] \in Version
    BY <2>1, LenProperties, ElementOfSeq DEF TypeOK
  <2>3. t \in TxId /\ t \in Nat /\ t > 0
    BY BoundsAssumption DEF TypeOK, TxId, FirstTx
  <2>4. PICK w \in Nat : w = tx[t].writes[k]
    BY <2>3 DEF TypeOK, Transaction
  <2>5. w <= L /\ \A i \in 1 .. L : c[i].created = t <=> i <= w
    BY <2>1, <2>2, <2>4 DEF OneWriterOnTop
  <2>6. \A i \in 1 .. L : /\ i = 1 => c[i].expired = 0
                         /\ i > 1 => c[i].expired = c[i - 1].created
    BY <2>1, <2>2 DEF ChainLinked
  <2>6a. 1 \in 1 .. L => c[1].expired = 0
    <3>1. \A i \in 1 .. L : i = 1 => c[i].expired = 0
      BY <2>1, <2>2 DEF ChainLinked
    <3> QED BY <3>1
  <2>7. \A i \in 1 .. L : c[i].created \in TxId /\ c[i].created \in active \cup committed
    BY <2>1, <2>2 DEF CreatorsLive, Version
  <2> DEFINE P(v) == v.created \in committed /\ v.created < t /\ v.created \notin tx[t].frozen
             V == {i \in DOMAIN c : Visible(t, c[i])}
             S == {i \in DOMAIN c : P(c[i])}
             Least(H) == CHOOSE i \in H : \A j \in H : i <= j
  <2>8. Get(t, k) = IF V = {} THEN NotFound ELSE c[Least(V)].value
    BY <2>1 DEF Get, Newest
  <2>9. SnapshotValue(t, k) = IF S = {} THEN NotFound ELSE c[Least(S)].value
    BY <2>1 DEF SnapshotValue, Newest
  <2>10. ASSUME NEW H \in SUBSET (1 .. L), NEW i \in H, \A j \in H : i <= j
         PROVE  Least(H) = i
    <3>1. \A j \in H : (\A l \in H : j <= l) => j = i
      BY <2>10
    <3> QED BY <2>10, <3>1
  <2> HIDE DEF Least
  <2>11. V \in SUBSET (1 .. L) /\ S \in SUBSET (1 .. L)
    BY <2>2
  <2>12. CASE w > 0
    <3>1. 1 \in 1 .. L /\ c[1].created = t /\ c[1].expired = 0
      <4>1. 1 \in 1 .. L /\ 1 <= w
        BY <2>5, <2>12
      <4> QED BY <2>5, <2>6a, <4>1
    <3>2. 1 \in V
      BY <2>2, <2>3, <3>1 DEF Visible
    <3>3. Least(V) = 1
      BY <2>10, <2>11, <3>2
    <3> QED BY <2>1, <2>4, <2>8, <2>12, <3>2, <3>3
  <2>13. CASE w = 0
    <3>1. \A i \in 1 .. L : c[i].created # t
      BY <2>5, <2>13
    <3>2. \A u \in committed : u \notin aborted
      BY DEF ListsAgree
    <3>3. V \subseteq S
      <4> SUFFICES ASSUME NEW i \in 1 .. L, Visible(t, c[i])
                   PROVE  P(c[i])
        BY <2>2
      <4>1. c[i].created < t /\ c[i].created \notin tx[t].frozen
        BY <3>1 DEF Visible
      <4>2. c[i].created \notin active
        BY <4>1 DEF FrozenCoversActive
      <4> QED BY <2>7, <4>1, <4>2
    <3>4. CASE S = {}
      BY <2>4, <2>8, <2>9, <2>13, <3>3, <3>4
    <3>5. CASE S # {}
      <4>1. PICK i \in S : \A j \in S : i <= j
        <5>1. S \in SUBSET Nat
          BY <2>11
        <5> HIDE DEF S
        <5> QED BY <3>5, <5>1, LeastElement
      <4>2. i \in 1 .. L /\ P(c[i])
        BY <2>2
      <4>3. Visible(t, c[i])
        <5>1. CASE i = 1
          <6>1. c[i].expired = 0 /\ c[i].created # t /\ c[i].created \notin aborted
            BY <2>6a, <3>1, <3>2, <4>2, <5>1
          <6> QED BY <4>2, <6>1 DEF Visible
        <5>2. CASE i # 1
          <6>1. i > 1 /\ i - 1 \in 1 .. L /\ ~ (i <= i - 1)
            BY <4>2, <5>2
          <6>2. ~ P(c[i - 1])
            BY <2>2, <4>1, <6>1
          <6>3. c[i].expired = c[i - 1].created /\ c[i].expired # t /\ c[i].expired \in TxId
            BY <2>6, <2>7, <3>1, <4>2, <6>1
          <6>4. c[i].expired < t => c[i].expired \in tx[t].frozen
            BY <2>7, <6>1, <6>2, <6>3 DEF FrozenCoversActive
          <6>5. c[i].expired > t \/ c[i].expired \in tx[t].frozen
            BY <2>3, <6>3, <6>4, BoundsAssumption DEF TxId, FirstTx
          <6> QED BY <3>1, <3>2, <4>2, <6>3, <6>5 DEF Visible
        <5> QED BY <5>1, <5>2
      <4>4. i \in V /\ \A j \in V : i <= j
        BY <2>2, <3>3, <4>1, <4>2, <4>3
      <4>5. Least(V) = i /\ Least(S) = i
        BY <2>10, <2>11, <4>1, <4>4
      <4> QED BY <2>4, <2>8, <2>9, <2>13, <3>5, <4>4, <4>5
    <3> QED BY <3>4, <3>5
  <2> QED BY <2>12, <2>13
<1> QED BY <1>1, Invariant, PTL

\* The lists and the chains of the version store are sound after every call, for
\* every set of keys and values and every number of transactions.
THEOREM VersionsStaySound == Spec => []VersionsSound
<1>1. IInv => ListsAgree
  BY DEF IInv
<1> QED
  BY <1>1, Invariant, ChainsStayLinked, WriterOnTop, RollbackIsClean, PTL DEF VersionsSound

-------------------------------------------------------------------------------
\* What a reader finds in a chain: the value of the newest version that one of a
\* set of transactions created

Top(c, S) == Newest(c, LAMBDA v : v.created \in S)

\* The transactions whose versions are in the snapshot of t.
Snap(t) == {u \in committed : u < t /\ u \notin tx[t].frozen}

LEMMA TopIs ==
    ASSUME NEW c \in Seq(Version), NEW S, NEW i \in DOMAIN c, c[i].created \in S,
           \A j \in DOMAIN c : c[j].created \in S => i <= j
    PROVE  Top(c, S) = c[i].value
<1> DEFINE H == {j \in DOMAIN c : c[j].created \in S}
<1>1. Top(c, S) = c[CHOOSE j \in H : \A l \in H : j <= l].value
  BY DEF Top, Newest
<1>2. i \in H /\ \A l \in H : i <= l
  OBVIOUS
<1>3. H \in SUBSET Nat
  OBVIOUS
<1> HIDE DEF H
<1>4. \A j \in H : (\A l \in H : j <= l) => j = i
  BY <1>2, <1>3
<1>5. (CHOOSE j \in H : \A l \in H : j <= l) = i
  BY <1>2, <1>4
<1> QED BY <1>1, <1>5

LEMMA TopNone ==
    ASSUME NEW c \in Seq(Version), NEW S, \A j \in DOMAIN c : c[j].created \notin S
    PROVE  Top(c, S) = NotFound
BY DEF Top, Newest

\* Either there is a newest version of S or there is none.
LEMMA TopCases ==
    ASSUME NEW c \in Seq(Version), NEW S
    PROVE  \/ \A j \in DOMAIN c : c[j].created \notin S
           \/ \E i \in DOMAIN c : /\ c[i].created \in S
                                  /\ \A j \in DOMAIN c : c[j].created \in S => i <= j
<1> DEFINE H == {j \in DOMAIN c : c[j].created \in S}
<1>1. H \in SUBSET Nat
  OBVIOUS
<1>2. CASE H = {}
  BY <1>2
<1>3. CASE H # {}
  <2>1. PICK i \in H : \A j \in H : i <= j
    <3> HIDE DEF H
    <3> QED BY <1>1, <1>3, LeastElement
  <2> QED BY <2>1
<1> QED BY <1>2, <1>3

LEMMA TopSame ==
    ASSUME NEW c \in Seq(Version), NEW S, NEW T,
           \A i \in DOMAIN c : c[i].created \in S <=> c[i].created \in T
    PROVE  Top(c, S) = Top(c, T)
<1>1. CASE \A j \in DOMAIN c : c[j].created \notin S
  BY <1>1, TopNone
<1>2. ASSUME NEW i \in DOMAIN c, c[i].created \in S,
             \A j \in DOMAIN c : c[j].created \in S => i <= j
      PROVE  Top(c, S) = Top(c, T)
  BY <1>2, TopIs
<1> QED BY <1>1, <1>2, TopCases

LEMMA TopPushed ==
    ASSUME NEW c \in Seq(Version), NEW S, NEW t \in TxId, NEW x \in Val \cup {NotFound}
    PROVE  Top(Prepend(t, x, c), S) = IF t \in S THEN x ELSE Top(c, S)
<1> DEFINE p == Prepend(t, x, c)
           L == Len(c)
<1>1. /\ p \in Seq(Version) /\ DOMAIN p = 1 .. L + 1 /\ L \in Nat /\ DOMAIN c = 1 .. L
      /\ p[1] = [created |-> t, expired |-> 0, value |-> x]
      /\ \A i \in 1 .. L : p[i + 1] = IF i = 1 THEN [c[1] EXCEPT !.expired = t] ELSE c[i]
      /\ \A i \in 1 .. L : c[i] \in Version
  BY PrependResult, LenProperties, ElementOfSeq
<1>2. \A i \in 1 .. L : p[i + 1].created = c[i].created /\ p[i + 1].value = c[i].value
  <2>1. \A v \in Version : /\ [v EXCEPT !.expired = t].created = v.created
                           /\ [v EXCEPT !.expired = t].value = v.value
    BY DEF Version
  <2> QED BY <1>1, <2>1
<1>3. p[1].created = t /\ p[1].value = x
  BY <1>1
<1> HIDE DEF p, L
<1>4. CASE t \in S
  <2>1. 1 \in DOMAIN p /\ \A j \in DOMAIN p : 1 <= j
    BY <1>1
  <2>2. Top(p, S) = p[1].value
    BY <1>1, <1>3, <1>4, <2>1, TopIs
  <2> QED BY <1>3, <1>4, <2>2 DEF p
<1>5. CASE t \notin S
  <2>1. \A j \in 1 .. L + 1 : p[j].created \in S => j - 1 \in 1 .. L /\ c[j - 1].created \in S
    <3> SUFFICES ASSUME NEW j \in 1 .. L + 1, p[j].created \in S
                 PROVE  j - 1 \in 1 .. L /\ c[j - 1].created \in S
      OBVIOUS
    <3>1. j # 1
      BY <1>3, <1>5
    <3>2. j - 1 \in 1 .. L /\ (j - 1) + 1 = j
      BY <1>1, <3>1
    <3> QED BY <1>2, <3>2
  <2>2. CASE \A i \in DOMAIN c : c[i].created \notin S
    <3>1. \A j \in DOMAIN p : p[j].created \notin S
      BY <1>1, <2>1, <2>2
    <3> QED BY <1>1, <1>5, <2>2, <3>1, TopNone DEF p
  <2>3. ASSUME NEW i \in DOMAIN c, c[i].created \in S,
               \A j \in DOMAIN c : c[j].created \in S => i <= j
        PROVE  Top(p, S) = Top(c, S)
    <3>1. /\ i \in 1 .. L /\ i + 1 \in DOMAIN p /\ p[i + 1].created \in S
          /\ p[i + 1].value = c[i].value
      BY <1>1, <1>2, <2>3
    <3>2. \A j \in DOMAIN p : p[j].created \in S => i + 1 <= j
      BY <1>1, <2>1, <2>3, <3>1
    <3>3. Top(p, S) = p[i + 1].value
      BY <1>1, <3>1, <3>2, TopIs
    <3> QED BY <2>3, <3>1, <3>3, TopIs
  <2> QED BY <1>5, <2>2, <2>3, TopCases DEF p
<1> QED BY <1>4, <1>5

LEMMA TopPopped ==
    ASSUME NEW c \in Seq(Version), NEW d \in Seq(Version), NEW m \in Nat, NEW L \in Nat,
           Popped(c, d, m, L), NEW S, \A i \in 1 .. L : i <= m => c[i].created \notin S
    PROVE  Top(d, S) = Top(c, S)
<1>1. /\ DOMAIN c = 1 .. L /\ m <= L /\ DOMAIN d = 1 .. L - m
      /\ \A i \in 1 .. L - m : /\ i + m \in 1 .. L
                               /\ d[i].created = c[i + m].created
                               /\ d[i].value = c[i + m].value
  BY DEF Popped
<1>2. CASE \A i \in DOMAIN c : c[i].created \notin S
  <2>1. \A i \in DOMAIN d : d[i].created \notin S
    BY <1>1, <1>2
  <2> QED BY <1>2, <2>1, TopNone
<1>3. ASSUME NEW i \in DOMAIN c, c[i].created \in S,
             \A j \in DOMAIN c : c[j].created \in S => i <= j
      PROVE  Top(d, S) = Top(c, S)
  <2>1. i \in 1 .. L /\ ~ (i <= m)
    BY <1>1, <1>3
  <2>2. i - m \in 1 .. L - m /\ (i - m) + m = i
    BY <1>1, <2>1
  <2>3. d[i - m].created \in S /\ d[i - m].value = c[i].value
    BY <1>1, <1>3, <2>2
  <2>4. \A j \in DOMAIN d : d[j].created \in S => i - m <= j
    BY <1>1, <1>3, <2>1
  <2>5. Top(d, S) = d[i - m].value
    BY <1>1, <2>2, <2>3, <2>4, TopIs
  <2> QED BY <1>3, <2>3, <2>5, TopIs
<1> QED BY <1>2, <1>3, TopCases

LEMMA TopCut ==
    ASSUME NEW c \in Seq(Version), NEW d \in Seq(Version), NEW n \in Nat, NEW L \in Nat, n <= L,
           DOMAIN c = 1 .. L, DOMAIN d = 1 .. n, \A i \in 1 .. n : d[i] = c[i],
           NEW S, n < L => n >= 1 /\ c[n].created \in S
    PROVE  Top(d, S) = Top(c, S)
<1>1. CASE \A i \in DOMAIN c : c[i].created \notin S
  <2>1. \A i \in DOMAIN d : d[i].created \notin S
    BY <1>1
  <2> QED BY <1>1, <2>1, TopNone
<1>2. ASSUME NEW i \in DOMAIN c, c[i].created \in S,
             \A j \in DOMAIN c : c[j].created \in S => i <= j
      PROVE  Top(d, S) = Top(c, S)
  <2>1. i \in DOMAIN d
    <3>1. CASE n < L
      <4>1. n \in DOMAIN c /\ c[n].created \in S
        BY <3>1
      <4> QED BY <1>2, <4>1
    <3>2. CASE ~ (n < L)
      BY <3>2
    <3> QED BY <3>1, <3>2
  <2>2. d[i] = c[i] /\ \A j \in DOMAIN d : d[j].created \in S => i <= j
    BY <1>2, <2>1
  <2>3. Top(d, S) = d[i].value
    BY <1>2, <2>1, <2>2, TopIs
  <2> QED BY <1>2, <2>2, <2>3, TopIs
<1> QED BY <1>1, <1>2, TopCases

LEMMA Views ==
    ASSUME NEW t, NEW k
    PROVE  /\ SnapshotValue(t, k) = Top(chain[k], Snap(t))
           /\ SnapshotValue(t, k)' = Top(chain'[k], Snap(t)')
           /\ Committed(k) = Top(chain[k], committed)
           /\ Committed(k)' = Top(chain'[k], committed')
           /\ Own(t, k) = Top(chain[k], {t})
           /\ Own(t, k)' = Top(chain'[k], {t})
<1>1. SnapshotValue(t, k) = Top(chain[k], Snap(t))
  <2> DEFINE A == {i \in DOMAIN chain[k] : chain[k][i].created \in committed /\ chain[k][i].created < t
                                           /\ chain[k][i].created \notin tx[t].frozen}
             B == {i \in DOMAIN chain[k] : chain[k][i].created \in Snap(t)}
  <2>1. A = B
    BY DEF Snap
  <2>2. SnapshotValue(t, k) = IF A = {} THEN NotFound
                              ELSE chain[k][CHOOSE i \in A : \A j \in A : i <= j].value
    BY DEF SnapshotValue, Newest
  <2>3. Top(chain[k], Snap(t)) = IF B = {} THEN NotFound
                                 ELSE chain[k][CHOOSE i \in B : \A j \in B : i <= j].value
    BY DEF Top, Newest
  <2> HIDE DEF A, B
  <2> QED BY <2>1, <2>2, <2>3
<1>2. SnapshotValue(t, k)' = Top(chain'[k], Snap(t)')
  <2> DEFINE A == {i \in DOMAIN chain'[k] : chain'[k][i].created \in committed' /\ chain'[k][i].created < t
                                           /\ chain'[k][i].created \notin tx'[t].frozen}
             B == {i \in DOMAIN chain'[k] : chain'[k][i].created \in Snap(t)'}
  <2>1. A = B
    BY DEF Snap
  <2>2. SnapshotValue(t, k)' = IF A = {} THEN NotFound
                              ELSE chain'[k][CHOOSE i \in A : \A j \in A : i <= j].value
    BY DEF SnapshotValue, Newest
  <2>3. Top(chain'[k], Snap(t)') = IF B = {} THEN NotFound
                                 ELSE chain'[k][CHOOSE i \in B : \A j \in B : i <= j].value
    BY DEF Top, Newest
  <2> HIDE DEF A, B
  <2> QED BY <2>1, <2>2, <2>3
<1>3. Committed(k) = Top(chain[k], committed) /\ Committed(k)' = Top(chain'[k], committed')
  BY DEF Committed, Top, Newest
<1>4. Own(t, k) = Top(chain[k], {t}) /\ Own(t, k)' = Top(chain'[k], {t})
  <2> DEFINE A == {i \in DOMAIN chain[k] : chain[k][i].created = t}
             B == {i \in DOMAIN chain[k] : chain[k][i].created \in {t}}
             C == {i \in DOMAIN chain'[k] : chain'[k][i].created = t}
             D == {i \in DOMAIN chain'[k] : chain'[k][i].created \in {t}}
  <2>1. A = B /\ C = D
    OBVIOUS
  <2>2. Own(t, k) = IF A = {} THEN NotFound
                    ELSE chain[k][CHOOSE i \in A : \A j \in A : i <= j].value
    BY DEF Own, Newest
  <2>3. Own(t, k)' = IF C = {} THEN NotFound
                    ELSE chain'[k][CHOOSE i \in C : \A j \in C : i <= j].value
    BY DEF Own, Newest
  <2>4. Top(chain[k], {t}) = IF B = {} THEN NotFound
                    ELSE chain[k][CHOOSE i \in B : \A j \in B : i <= j].value
    BY DEF Top, Newest
  <2>5. Top(chain'[k], {t}) = IF D = {} THEN NotFound
                    ELSE chain'[k][CHOOSE i \in D : \A j \in D : i <= j].value
    BY DEF Top, Newest
  <2> HIDE DEF A, B, C, D
  <2> QED BY <2>1, <2>2, <2>3, <2>4, <2>5
<1> QED BY <1>1, <1>2, <1>3, <1>4

-------------------------------------------------------------------------------
\* What the actions do to it

LEMMA WriteTops ==
    ASSUME IInv, NEW t \in TxId, NEW k \in Key, NEW x \in Val \cup {NotFound}, Write(t, k, x),
           NEW S, NEW j \in Key
    PROVE  Top(chain'[j], S) = IF j = k /\ t \in S THEN x ELSE Top(chain[j], S)
<1>1. chain[k] \in Seq(Version)
  BY DEF IInv, TypeOK
<1>2. chain'[j] = IF j = k THEN Prepend(t, x, chain[k]) ELSE chain[j]
  BY DEF Write, IInv, TypeOK
<1>3. PICK c : c = chain[k]
  OBVIOUS
<1>4. Top(Prepend(t, x, c), S) = IF t \in S THEN x ELSE Top(c, S)
  BY <1>1, <1>3, TopPushed
<1> QED BY <1>2, <1>3, <1>4

LEMMA RollbackTops ==
    ASSUME IInv, NEW t \in TxId, Rollback(t), NEW S, t \notin S, NEW k \in Key
    PROVE  Top(chain'[k], S) = Top(chain[k], S)
<1>1. chain'[k] \in Seq(Version) /\ chain[k] \in Seq(Version)
  BY RollbackPops DEF IInv, TypeOK
<1>2. PICK L \in Nat, m \in Nat :
         /\ Popped(chain[k], chain'[k], m, L)
         /\ \A i \in 1 .. L : chain[k][i].created = t <=> i <= m
  BY RollbackPops
<1>3. \A i \in 1 .. L : i <= m => chain[k][i].created \notin S
  BY <1>2
<1> QED BY <1>1, <1>2, <1>3, TopPopped

\* A vacuum cuts below a committed version older than its horizon.
LEMMA VacuumCuts ==
    ASSUME IInv, NEW m \in Horizons, Vacuum(m), NEW k \in Key
    PROVE  \E L, n \in Nat :
               /\ n <= L /\ DOMAIN chain[k] = 1 .. L /\ DOMAIN chain'[k] = 1 .. n
               /\ chain[k] \in Seq(Version) /\ chain'[k] \in Seq(Version)
               /\ \A i \in 1 .. n : chain'[k][i] = chain[k][i]
               /\ n < L => /\ n >= 1 /\ chain[k][n].created \in committed
                           /\ chain[k][n].created < m
<1>1. m \in Nat /\ \A t \in active : m <= t
  <2>1. m \in FirstTx .. MaxTx + 1 /\ \A t \in active : m <= t
    BY Zenon DEF Horizons
  <2> QED BY <2>1, BoundsAssumption DEF FirstTx
<1>2. PICK c : c = chain[k]
  OBVIOUS
<1>3. c \in Seq(Version) /\ chain'[k] = Cut(c, m)
  BY <1>2 DEF Vacuum, IInv, TypeOK
<1>4. PICK L \in Nat : L = Len(c) /\ DOMAIN c = 1 .. L /\ \A i \in 1 .. L : c[i] \in Version
  BY <1>3, LenProperties, ElementOfSeq
<1>5. PICK n \in 0 .. Len(c) :
         /\ Cut(c, m) \in Seq(Version)
         /\ Len(Cut(c, m)) = n
         /\ DOMAIN Cut(c, m) = 1 .. n
         /\ \A i \in 1 .. n : Cut(c, m)[i] = c[i]
         /\ n < Len(c) => n >= 1 /\ Prunable(c[n + 1], m)
  BY <1>1, <1>3, CutResult, Zenon
<1>6. n \in Nat /\ n <= L
  BY <1>4, <1>5
<1>7. n < L => n >= 1 /\ c[n].created \in committed /\ c[n].created < m
  <2> SUFFICES ASSUME n < L PROVE n >= 1 /\ c[n].created \in committed /\ c[n].created < m
    OBVIOUS
  <2>1. n >= 1 /\ n \in 1 .. L /\ n + 1 \in 1 .. L /\ n + 1 > 1 /\ (n + 1) - 1 = n
        /\ c[n + 1].expired < m
    BY <1>4, <1>5, <1>6 DEF Prunable
  <2>2. c[n + 1].expired = c[n].created
    <3>1. \A i \in 1 .. L : i > 1 => c[i].expired = c[i - 1].created
      BY <1>2, <1>4 DEF IInv, ChainLinked
    <3> QED BY <2>1, <3>1
  <2>3. c[n].created \in active \cup committed
    BY <1>2, <1>4, <2>1 DEF IInv, CreatorsLive
  <2>4. c[n].created \in Nat
    BY <1>4, <2>1, BoundsAssumption DEF Version, TxId, FirstTx
  <2>5. c[n].created \notin active
    BY <1>1, <2>1, <2>2, <2>4
  <2> QED BY <2>1, <2>2, <2>3, <2>5
<1>8. \A i \in 1 .. n : chain'[k][i] = chain[k][i]
  BY <1>2, <1>3, <1>5
<1> QED BY <1>2, <1>3, <1>4, <1>5, <1>6, <1>7, <1>8

LEMMA VacuumTops ==
    ASSUME IInv, NEW m \in Horizons, Vacuum(m), NEW S, {u \in committed : u < m} \subseteq S,
           NEW k \in Key
    PROVE  Top(chain'[k], S) = Top(chain[k], S)
<1>1. PICK L \in Nat, n \in Nat :
         /\ n <= L /\ DOMAIN chain[k] = 1 .. L /\ DOMAIN chain'[k] = 1 .. n
         /\ chain[k] \in Seq(Version) /\ chain'[k] \in Seq(Version)
         /\ \A i \in 1 .. n : chain'[k][i] = chain[k][i]
         /\ n < L => n >= 1 /\ chain[k][n].created \in committed /\ chain[k][n].created < m
  BY VacuumCuts
<1>2. PICK c, d : c = chain[k] /\ d = chain'[k]
  OBVIOUS
<1>3. Top(d, S) = Top(c, S)
  BY <1>1, <1>2, TopCut
<1> QED BY <1>2, <1>3

-------------------------------------------------------------------------------
\* The writers of a key

\* A chain is ordered by creator, not only between neighbours.
LEMMA ChainSorted ==
    ASSUME IInv, NEW k \in Key, NEW i \in DOMAIN chain[k], NEW j \in DOMAIN chain[k], i <= j
    PROVE  chain[k][j].created <= chain[k][i].created
<1>1. PICK c : c = chain[k]
  OBVIOUS
<1>2. PICK L \in Nat : DOMAIN c = 1 .. L /\ \A l \in 1 .. L : c[l] \in Version
  BY <1>1, LenProperties, ElementOfSeq DEF IInv, TypeOK
<1>3. \A l \in 1 .. L : c[l].created \in Nat
  BY <1>2, BoundsAssumption DEF Version, TxId, FirstTx
<1>4. \A l \in 1 .. L : l > 1 => c[l].created <= c[l - 1].created
  BY <1>1, <1>2 DEF IInv, ChainLinked
<1> DEFINE H == {l \in 1 .. L : i <= l /\ c[l].created > c[i].created}
<1>5. H = {}
  <2> SUFFICES ASSUME H # {} PROVE FALSE
    OBVIOUS
  <2>1. H \in SUBSET Nat
    OBVIOUS
  <2>2. PICK l \in H : \A g \in H : l <= g
    <3> HIDE DEF H
    <3> QED BY <2>1, LeastElement
  <2>3. l \in 1 .. L /\ i \in 1 .. L /\ i < l /\ l > 1
    BY <1>1, <1>2, <1>3, <2>2
  <2>4. l - 1 \in 1 .. L /\ i <= l - 1 /\ l - 1 < l
    BY <2>3
  <2>5. l - 1 \notin H
    BY <2>2, <2>3, <2>4
  <2>6. c[l - 1].created <= c[i].created
    BY <1>3, <2>3, <2>4, <2>5
  <2> QED BY <1>3, <1>4, <2>2, <2>3, <2>4, <2>6
<1>6. i \in 1 .. L /\ j \in 1 .. L /\ j \notin H
  BY <1>1, <1>2, <1>5
<1> QED BY <1>1, <1>3, <1>6

\* Who created a version of a key has the key in its write set.
CreatorsWrote ==
    \A k \in Key : \A i \in DOMAIN chain[k] : tx[chain[k][i].created].writes[k] > 0

\* The chain of a key that a transaction published has a committed version at
\* least as new, whatever was rolled back or cut since.
PublishersCovered ==
    \A k \in Key : \A u \in committed :
        tx[u].writes[k] > 0 =>
            \E i \in DOMAIN chain[k] : chain[k][i].created \in committed
                                       /\ chain[k][i].created >= u

Wrote == CreatorsWrote /\ PublishersCovered

LEMMA WroteStarts == Init => Wrote
BY DEF Init, Wrote, CreatorsWrote, PublishersCovered

LEMMA WroteBegin ==
    ASSUME IInv, Wrote, Begin
    PROVE  Wrote'
<1>1. /\ chain' = chain /\ committed' = committed
      /\ \A u \in active \cup committed : tx'[u] = tx[u]
  BY BoundsAssumption DEF Begin, IInv, TypeOK, TxId, FirstTx, ListsAgree
<1>2. CreatorsWrote'
  BY <1>1 DEF Wrote, CreatorsWrote, IInv, CreatorsLive
<1>3. PublishersCovered'
  BY <1>1 DEF Wrote, PublishersCovered
<1> QED BY <1>2, <1>3 DEF Wrote

\* What a write does to the creators in the chain and to the write sets.
LEMMA WritePushes ==
    ASSUME IInv, NEW t \in TxId, NEW k \in Key, NEW x \in Val \cup {NotFound}, Write(t, k, x)
    PROVE  /\ \E L \in Nat :
                 /\ DOMAIN chain[k] = 1 .. L /\ DOMAIN chain'[k] = 1 .. L + 1
                 /\ chain'[k][1].created = t
                 /\ \A i \in 1 .. L : chain'[k][i + 1].created = chain[k][i].created
           /\ \A j \in Key : j # k => chain'[j] = chain[j]
           /\ \A u \in TxId, j \in Key :
                 tx'[u].writes[j] = IF u = t /\ j = k THEN tx[u].writes[j] + 1 ELSE tx[u].writes[j]
<1>1. PICK c : c = chain[k] /\ c \in Seq(Version)
  BY DEF IInv, TypeOK
<1>2. PICK L \in Nat : L = Len(c) /\ DOMAIN c = 1 .. L /\ \A i \in 1 .. L : c[i] \in Version
  BY <1>1, LenProperties, ElementOfSeq
<1>3. PICK p : p = chain'[k] /\ p = Prepend(t, x, c)
  BY <1>1 DEF Write, IInv, TypeOK
<1>4. /\ DOMAIN p = 1 .. L + 1 /\ p[1] = [created |-> t, expired |-> 0, value |-> x]
      /\ \A i \in 1 .. L : p[i + 1] = IF i = 1 THEN [c[1] EXCEPT !.expired = t] ELSE c[i]
  BY <1>1, <1>2, <1>3, PrependResult
<1>5. \A v \in Version : [v EXCEPT !.expired = t].created = v.created
  BY DEF Version
<1>6. ASSUME NEW i \in 1 .. L PROVE p[i + 1].created = c[i].created
  <2>1. c[i] \in Version /\ [c[i] EXCEPT !.expired = t].created = c[i].created
    BY <1>2, <1>5
  <2>2. p[i + 1] = c[i] \/ p[i + 1] = [c[i] EXCEPT !.expired = t]
    BY <1>4
  <2> QED BY <2>1, <2>2
<1>7. p[1].created = t
  BY <1>4
<1>8. \A j \in Key : j # k => chain'[j] = chain[j]
  BY DEF Write, IInv, TypeOK
<1>9. \A u \in TxId, j \in Key :
         tx'[u].writes[j] = IF u = t /\ j = k THEN tx[u].writes[j] + 1 ELSE tx[u].writes[j]
  <2> DEFINE w == [tx[t].writes EXCEPT ![k] = @ + 1]
             r == [tx[t] EXCEPT !.writes = w]
  <2>1. tx[t] \in Transaction /\ tx[t].writes \in [Key -> Nat]
    BY DEF IInv, TypeOK, Transaction
  <2>2. \A j \in Key : w[j] = IF j = k THEN tx[t].writes[j] + 1 ELSE tx[t].writes[j]
    BY <2>1
  <2> HIDE DEF w
  <2>3. r.writes = w
    BY <2>1 DEF Transaction
  <2> HIDE DEF r
  <2>4. tx' = [tx EXCEPT ![t] = r]
    BY DEF Write, r, w
  <2> QED BY <2>2, <2>3, <2>4 DEF IInv, TypeOK
<1> QED BY <1>1, <1>2, <1>3, <1>4, <1>6, <1>7, <1>8, <1>9

LEMMA WroteWrite ==
    ASSUME IInv, Wrote, NEW t \in TxId, NEW k \in Key, NEW x \in Val \cup {NotFound}, Write(t, k, x)
    PROVE  Wrote'
<1>1. /\ t \in active /\ t \notin committed /\ active' = active /\ committed' = committed
      /\ active \cup committed \subseteq TxId
      /\ \A u \in TxId, j \in Key : tx[u].writes[j] \in Nat
  BY DEF Write, IInv, ListsAgree, TypeOK, Transaction
<1>2. PICK L \in Nat :
         /\ DOMAIN chain[k] = 1 .. L /\ DOMAIN chain'[k] = 1 .. L + 1
         /\ chain'[k][1].created = t
         /\ \A i \in 1 .. L : chain'[k][i + 1].created = chain[k][i].created
  BY WritePushes
<1>3. /\ \A j \in Key : j # k => chain'[j] = chain[j]
      /\ \A u \in TxId, j \in Key :
            tx'[u].writes[j] = IF u = t /\ j = k THEN tx[u].writes[j] + 1 ELSE tx[u].writes[j]
  BY WritePushes
<1>4. \A u \in TxId, j \in Key : tx[u].writes[j] > 0 => tx'[u].writes[j] > 0
  BY <1>1, <1>3
<1>5. ASSUME NEW j \in Key, NEW i \in DOMAIN chain'[j]
      PROVE  tx'[chain'[j][i].created].writes[j] > 0
  <2>1. CASE j # k
    <3>1. i \in DOMAIN chain[j] /\ chain'[j][i] = chain[j][i]
      BY <1>3, <2>1
    <3>2. chain[j][i].created \in TxId /\ tx[chain[j][i].created].writes[j] > 0
      BY <1>1, <3>1 DEF Wrote, CreatorsWrote, IInv, CreatorsLive
    <3> QED BY <1>4, <3>1, <3>2
  <2>2. CASE j = k /\ i = 1
    <3>1. tx'[t].writes[k] = tx[t].writes[k] + 1 /\ tx[t].writes[k] \in Nat
      BY <1>1, <1>3
    <3> QED BY <1>2, <2>2, <3>1
  <2>3. CASE j = k /\ i # 1
    <3>1. i - 1 \in 1 .. L /\ (i - 1) + 1 = i
      BY <1>2, <2>3
    <3>2. chain'[k][i].created = chain[k][i - 1].created
      BY <1>2, <3>1
    <3>3. chain[k][i - 1].created \in TxId /\ tx[chain[k][i - 1].created].writes[k] > 0
      BY <1>1, <1>2, <3>1 DEF Wrote, CreatorsWrote, IInv, CreatorsLive
    <3> QED BY <1>4, <2>3, <3>2, <3>3
  <2> QED BY <2>1, <2>2, <2>3
<1>6. ASSUME NEW j \in Key, NEW u \in committed, tx'[u].writes[j] > 0
      PROVE  \E i \in DOMAIN chain'[j] : chain'[j][i].created \in committed
                                         /\ chain'[j][i].created >= u
  <2>1. tx[u].writes[j] > 0
    BY <1>1, <1>3, <1>6
  <2>2. PICK i \in DOMAIN chain[j] : chain[j][i].created \in committed /\ chain[j][i].created >= u
    BY <2>1 DEF Wrote, PublishersCovered
  <2>3. CASE j # k
    BY <1>3, <2>2, <2>3
  <2>4. CASE j = k
    <3>1. i \in 1 .. L /\ i + 1 \in 1 .. L + 1
      BY <1>2, <2>2, <2>4
    <3>2. chain'[k][i + 1].created = chain[k][i].created
      BY <1>2, <3>1
    <3> QED BY <1>2, <2>2, <2>4, <3>1, <3>2
  <2> QED BY <2>3, <2>4
<1> QED BY <1>1, <1>5, <1>6 DEF Wrote, CreatorsWrote, PublishersCovered

LEMMA WroteCommit ==
    ASSUME IInv, Wrote, NEW t \in TxId, Commit(t)
    PROVE  Wrote'
<1>1. /\ t \in active /\ chain' = chain /\ committed' = committed \cup {t}
      /\ \A u \in TxId : tx'[u].writes = tx[u].writes
      /\ active \cup committed \subseteq TxId
  BY StateChange DEF Commit, IInv, ListsAgree, TypeOK, TxState
<1>2. CreatorsWrote'
  BY <1>1 DEF Wrote, CreatorsWrote, IInv, CreatorsLive
<1>3. ASSUME NEW k \in Key, NEW u \in committed', tx[u].writes[k] > 0
      PROVE  \E i \in DOMAIN chain[k] : chain[k][i].created \in committed'
                                        /\ chain[k][i].created >= u
  <2>1. CASE u = t
    <3>1. PICK w \in Nat : w = tx[t].writes[k] /\ w > 0
      BY <1>3, <2>1 DEF IInv, TypeOK, Transaction
    <3>2. PICK L \in Nat : L = Len(chain[k]) /\ DOMAIN chain[k] = 1 .. L
      BY LenProperties DEF IInv, TypeOK
    <3>3. w <= L /\ \A i \in 1 .. L : chain[k][i].created = t <=> i <= w
      BY <1>1, <3>1, <3>2 DEF IInv, OneWriterOnTop
    <3>4. 1 \in 1 .. L /\ 1 <= w
      BY <3>1, <3>3
    <3>5. chain[k][1].created = t /\ t >= t
      BY <3>3, <3>4, BoundsAssumption DEF TxId, FirstTx
    <3> QED BY <1>1, <2>1, <3>2, <3>4, <3>5
  <2>2. CASE u # t
    BY <1>1, <1>3, <2>2 DEF Wrote, PublishersCovered
  <2> QED BY <2>1, <2>2
<1>4. PublishersCovered'
  <2>1. \A u \in committed' : tx'[u].writes = tx[u].writes
    BY <1>1
  <2> QED BY <1>1, <1>3, <2>1 DEF PublishersCovered
<1> QED BY <1>2, <1>4 DEF Wrote

LEMMA WroteRollback ==
    ASSUME IInv, Wrote, NEW t \in TxId, Rollback(t)
    PROVE  Wrote'
<1>1. /\ t \notin committed /\ committed' = committed
      /\ \A u \in TxId : tx'[u].writes = tx[u].writes
      /\ active \cup committed \subseteq TxId
  BY StateChange DEF Rollback, IInv, ListsAgree, TypeOK, TxState
<1>2. ASSUME NEW k \in Key, NEW i \in DOMAIN chain'[k]
      PROVE  tx'[chain'[k][i].created].writes[k] > 0
  <2>1. PICK L \in Nat, m \in Nat : Popped(chain[k], chain'[k], m, L)
    BY RollbackPops
  <2>2. i + m \in DOMAIN chain[k] /\ chain'[k][i].created = chain[k][i + m].created
    BY <2>1 DEF Popped
  <2>3. chain[k][i + m].created \in TxId /\ tx[chain[k][i + m].created].writes[k] > 0
    BY <1>1, <2>2 DEF Wrote, CreatorsWrote, IInv, CreatorsLive
  <2> QED BY <1>1, <2>2, <2>3
<1>3. ASSUME NEW k \in Key, NEW u \in committed, tx[u].writes[k] > 0
      PROVE  \E i \in DOMAIN chain'[k] : chain'[k][i].created \in committed
                                         /\ chain'[k][i].created >= u
  <2>1. PICK L \in Nat, m \in Nat : /\ Popped(chain[k], chain'[k], m, L)
                                    /\ \A i \in 1 .. L : chain[k][i].created = t <=> i <= m
    BY RollbackPops
  <2>2. PICK i \in DOMAIN chain[k] : chain[k][i].created \in committed /\ chain[k][i].created >= u
    BY <1>3 DEF Wrote, PublishersCovered
  <2>3. i \in 1 .. L /\ ~ (i <= m)
    BY <1>1, <2>1, <2>2 DEF Popped
  <2>4. i - m \in 1 .. L - m /\ (i - m) + m = i
    BY <2>1, <2>3 DEF Popped
  <2>5. i - m \in DOMAIN chain'[k] /\ chain'[k][i - m].created = chain[k][i].created
    BY <2>1, <2>4 DEF Popped
  <2> QED BY <2>2, <2>5
<1>4. \A u \in committed : tx'[u].writes = tx[u].writes
  BY <1>1
<1>5. CreatorsWrote'
  BY <1>2 DEF CreatorsWrote
<1>6. PublishersCovered'
  BY <1>1, <1>3, <1>4 DEF PublishersCovered
<1> QED BY <1>5, <1>6 DEF Wrote

LEMMA WroteVacuum ==
    ASSUME IInv, Wrote, NEW m \in Horizons, Vacuum(m)
    PROVE  Wrote'
<1>1. committed' = committed /\ tx' = tx
  BY DEF Vacuum
<1>2. ASSUME NEW k \in Key
      PROVE  /\ \A i \in DOMAIN chain'[k] : tx[chain'[k][i].created].writes[k] > 0
             /\ \A u \in committed : tx[u].writes[k] > 0 =>
                   \E i \in DOMAIN chain'[k] : chain'[k][i].created \in committed
                                               /\ chain'[k][i].created >= u
  <2>1. PICK L \in Nat, n \in Nat :
           /\ n <= L /\ DOMAIN chain[k] = 1 .. L /\ DOMAIN chain'[k] = 1 .. n
           /\ \A i \in 1 .. n : chain'[k][i] = chain[k][i]
           /\ n < L => n >= 1 /\ chain[k][n].created \in committed
    BY VacuumCuts
  <2>2. \A i \in 1 .. n : tx[chain'[k][i].created].writes[k] > 0
    BY <2>1 DEF Wrote, CreatorsWrote
  <2>3. ASSUME NEW u \in committed, tx[u].writes[k] > 0
        PROVE  \E i \in 1 .. n : chain'[k][i].created \in committed /\ chain'[k][i].created >= u
    <3>1. PICK i \in 1 .. L : chain[k][i].created \in committed /\ chain[k][i].created >= u
      BY <2>1, <2>3 DEF Wrote, PublishersCovered
    <3>2. CASE i <= n
      BY <2>1, <3>1, <3>2
    <3>3. CASE ~ (i <= n)
      <4>1. n < L /\ n \in 1 .. n /\ n \in 1 .. L /\ n <= i
        BY <2>1, <3>3
      <4>2. chain[k][i].created <= chain[k][n].created
        BY <2>1, <4>1, ChainSorted
      <4>3. chain'[k][n] = chain[k][n] /\ chain[k][n].created \in committed
        BY <2>1, <4>1
      <4>4. committed \subseteq Nat
        BY BoundsAssumption DEF IInv, TypeOK, TxId, FirstTx
      <4>5. PICK a, b : a = chain[k][i].created /\ b = chain[k][n].created
        OBVIOUS
      <4>6. a \in Nat /\ b \in Nat /\ u \in Nat /\ a >= u /\ a <= b
        BY <3>1, <4>2, <4>3, <4>4, <4>5
      <4>7. chain[k][n].created >= u
        BY <4>5, <4>6
      <4> QED BY <4>1, <4>3, <4>7
    <3> QED BY <3>2, <3>3
  <2> QED BY <2>1, <2>2, <2>3
<1> QED BY <1>1, <1>2 DEF Wrote, CreatorsWrote, PublishersCovered

LEMMA WroteKept ==
    ASSUME IInv, Wrote, [Next]_vars
    PROVE  Wrote'
<1>1. CASE UNCHANGED vars
  BY <1>1 DEF vars, Wrote, CreatorsWrote, PublishersCovered
<1>2. CASE Next
  BY <1>2, WroteBegin, WroteWrite, WroteCommit, WroteRollback, WroteVacuum DEF Next, Put, Delete
<1> QED BY <1>1, <1>2

LEMMA WritersKnown == Spec => []Wrote
<1>1. IInv /\ Wrote /\ [Next]_vars => Wrote'
  BY WroteKept
<1> QED BY <1>1, WroteStarts, Invariant, PTL DEF Spec

-------------------------------------------------------------------------------
\* The snapshots of running transactions

\* No call but a vacuum changes the snapshot of a running transaction.
LEMMA SnapshotKept ==
    ASSUME IInv, [Next]_vars, NEW t \in active, t \in active', NEW k \in Key,
           \A m \in Horizons : ~ Vacuum(m)
    PROVE  SnapshotValue(t, k)' = SnapshotValue(t, k)
<1> USE DEF IInv
<1>0. t \in TxId /\ t \in Nat /\ tx[t].frozen \subseteq TxId
  BY BoundsAssumption DEF TypeOK, Transaction, TxId, FirstTx
<1> SUFFICES Top(chain'[k], Snap(t)') = Top(chain[k], Snap(t))
  BY Views
<1>1. CASE Begin
  <2>1. nextTx \in TxId /\ tx[nextTx].state = "UNUSED" /\ tx[t].state = "ACTIVE"
    BY <1>1, BoundsAssumption DEF Begin, TypeOK, TxId, FirstTx, ListsAgree
  <2>2. tx'[t] = tx[t] /\ committed' = committed /\ chain' = chain
    BY <1>0, <1>1, <2>1 DEF Begin, TypeOK
  <2> QED BY <2>2 DEF Snap
<1>2. ASSUME NEW u \in TxId, NEW j \in Key, NEW x \in Val \cup {NotFound}, Write(u, j, x)
      PROVE  Top(chain'[k], Snap(t)') = Top(chain[k], Snap(t))
  <2>1. tx'[t].frozen = tx[t].frozen
    <3>1. tx[u] \in Transaction /\ tx' = [tx EXCEPT ![u].writes[j] = @ + 1]
      BY <1>2 DEF TypeOK, Write
    <3>2. [tx[u] EXCEPT !.writes[j] = @ + 1].frozen = tx[u].frozen
      BY <3>1 DEF Transaction
    <3> QED BY <1>0, <3>1, <3>2 DEF TypeOK
  <2>2. Snap(t)' = Snap(t)
    BY <1>2, <2>1 DEF Snap, Write
  <2>3. u \notin Snap(t)
    BY <1>2 DEF Snap, Write, ListsAgree
  <2> HIDE DEF IInv
  <2>4. PICK S : S = Snap(t)
    OBVIOUS
  <2>5. Top(chain'[k], S) = Top(chain[k], S)
    BY <1>2, <2>3, <2>4, WriteTops
  <2> QED BY <2>2, <2>4, <2>5
<1>3. ASSUME NEW u \in TxId, Commit(u)
      PROVE  Top(chain'[k], Snap(t)') = Top(chain[k], Snap(t))
  <2>1. u \in active /\ u # t
    BY <1>3 DEF Commit, ListsAgree
  <2>2. tx'[t] = tx[t] /\ committed' = committed \cup {u} /\ chain' = chain
    BY <1>0, <1>3, <2>1 DEF Commit, TypeOK
  <2>3. u < t => u \in tx[t].frozen
    BY <2>1 DEF FrozenCoversActive
  <2>4. Snap(t)' = Snap(t)
    BY <2>2, <2>3 DEF Snap
  <2> QED BY <2>2, <2>4
<1>4. ASSUME NEW u \in TxId, Rollback(u)
      PROVE  Top(chain'[k], Snap(t)') = Top(chain[k], Snap(t))
  <2>1. u \in active /\ u # t /\ u \notin committed
    BY <1>4 DEF Rollback, ListsAgree
  <2>2. tx'[t] = tx[t] /\ committed' = committed
    BY <1>0, <1>4, <2>1 DEF Rollback, TypeOK
  <2>3. Snap(t)' = Snap(t) /\ u \notin Snap(t)
    BY <2>1, <2>2 DEF Snap
  <2> HIDE DEF IInv
  <2>4. PICK S : S = Snap(t)
    OBVIOUS
  <2>5. Top(chain'[k], S) = Top(chain[k], S)
    BY <1>4, <2>3, <2>4, RollbackTops
  <2> QED BY <2>3, <2>4, <2>5
<1>5. CASE UNCHANGED vars
  BY <1>5 DEF vars, Snap
<1> QED BY <1>1, <1>2, <1>3, <1>4, <1>5 DEF Next, Put, Delete


\* A vacuum leaves it alone, or takes a version out of it that a transaction the
\* snapshot froze has superseded and committed.
LEMMA VacuumReaches ==
    ASSUME IInv, Wrote, NEW m \in Horizons, Vacuum(m), NEW t \in active, NEW k \in Key
    PROVE  \/ SnapshotValue(t, k)' = SnapshotValue(t, k)
           \/ /\ SnapshotValue(t, k)' = NotFound
              /\ \E u \in tx[t].frozen \cap committed : u < m /\ tx[u].writes[k] > 0
<1>1. PICK L \in Nat, n \in Nat :
         /\ n <= L /\ DOMAIN chain[k] = 1 .. L /\ DOMAIN chain'[k] = 1 .. n
         /\ chain[k] \in Seq(Version) /\ chain'[k] \in Seq(Version)
         /\ \A i \in 1 .. n : chain'[k][i] = chain[k][i]
         /\ n < L => n >= 1 /\ chain[k][n].created \in committed /\ chain[k][n].created < m
  BY VacuumCuts
<1>2. PICK c, d, S : c = chain[k] /\ d = chain'[k] /\ S = Snap(t)
  OBVIOUS
<1>3. Snap(t)' = S
  BY <1>2 DEF Snap, Vacuum
<1>4. SnapshotValue(t, k) = Top(c, S) /\ SnapshotValue(t, k)' = Top(d, S)
  <2>1. t \in TxId
    BY DEF IInv, TypeOK
  <2>2. SnapshotValue(t, k) = Top(chain[k], Snap(t))
    BY <2>1, Views
  <2>3. SnapshotValue(t, k)' = Top(chain'[k], Snap(t)')
    BY <2>1, Views
  <2> QED BY <1>2, <1>3, <2>2, <2>3
<1>5. CASE n < L => c[n].created \in S
  <2>1. Top(d, S) = Top(c, S)
    BY <1>1, <1>2, <1>5, TopCut
  <2> QED BY <1>4, <2>1
<1>6. CASE n < L /\ c[n].created \notin S
  <2>1. PICK u : u = c[n].created /\ u \in committed /\ u < m /\ n \in 1 .. L
    BY <1>1, <1>2, <1>6
  <2>2. u \in Nat /\ t \in Nat /\ m \in Nat /\ m <= t
    <3>1. m \in FirstTx .. MaxTx + 1 /\ m <= t
      BY Zenon DEF Horizons
    <3>2. committed \subseteq Nat /\ active \subseteq Nat
      BY BoundsAssumption DEF IInv, TypeOK, TxId, FirstTx
    <3>3. m \in Nat
      BY <3>1, BoundsAssumption DEF FirstTx
    <3> QED BY <2>1, <3>1, <3>2, <3>3
  <2>3. u \in tx[t].frozen
    BY <1>2, <1>6, <2>1, <2>2 DEF Snap
  <2>4. tx[u].writes[k] > 0
    BY <1>1, <1>2, <2>1 DEF Wrote, CreatorsWrote
  <2>5. CASE \A i \in DOMAIN d : d[i].created \notin S
    <3>1. Top(d, S) = NotFound
      BY <1>1, <1>2, <2>5, TopNone
    <3> QED BY <1>4, <2>1, <2>3, <2>4, <3>1
  <2>6. ASSUME NEW i \in DOMAIN d, d[i].created \in S,
               \A j \in DOMAIN d : d[j].created \in S => i <= j
        PROVE  Top(d, S) = Top(c, S)
    <3>1. i \in 1 .. n /\ i \in 1 .. L /\ c[i] = d[i] /\ \A j \in 1 .. n : d[j] = c[j]
      BY <1>1, <1>2, <2>6
    <3>2. \A j \in DOMAIN c : c[j].created \in S => i <= j
      <4> SUFFICES ASSUME NEW j \in 1 .. L, c[j].created \in S PROVE i <= j
        BY <1>1, <1>2
      <4>1. CASE j <= n
        BY <1>1, <1>2, <2>6, <3>1, <4>1
      <4>2. CASE ~ (j <= n)
        BY <3>1, <4>2
      <4> QED BY <4>1, <4>2
    <3>3. Top(d, S) = d[i].value
      BY <1>1, <1>2, <2>6, TopIs
    <3>4. Top(c, S) = c[i].value
      BY <1>1, <1>2, <2>6, <3>1, <3>2, TopIs
    <3> QED BY <3>1, <3>3, <3>4
  <2>7. d \in Seq(Version)
    BY <1>1, <1>2
  <2>8. (\A i \in DOMAIN d : d[i].created \notin S) \/ Top(d, S) = Top(c, S)
    BY <2>6, <2>7, TopCases
  <2> QED BY <1>4, <2>5, <2>8
<1> QED BY <1>5, <1>6

\* A write of t on the top of a chain stays there until t writes again.
LEMMA HeadKept ==
    ASSUME IInv, [Next]_vars, NEW t \in active, t \in active', NEW k \in Key,
           tx[t].writes[k] > 0, tx'[t].writes[k] = tx[t].writes[k]
    PROVE  /\ 1 \in DOMAIN chain[k] /\ chain[k][1].created = t
           /\ 1 \in DOMAIN chain'[k] /\ chain'[k][1].created = t
           /\ chain'[k][1].value = chain[k][1].value
<1> USE DEF IInv
<1>0. t \in TxId
  BY DEF TypeOK
<1>1. PICK c : c = chain[k]
  OBVIOUS
<1>2. PICK L \in Nat : L = Len(c) /\ DOMAIN c = 1 .. L /\ \A i \in 1 .. L : c[i] \in Version
  BY <1>1, LenProperties, ElementOfSeq DEF TypeOK
<1>3. PICK w \in Nat : w = tx[t].writes[k]
  BY <1>0 DEF TypeOK, Transaction
<1>4. 1 \in 1 .. L /\ c[1].created = t
  <2>1. w <= L /\ \A i \in 1 .. L : c[i].created = t <=> i <= w
    BY <1>1, <1>2, <1>3 DEF OneWriterOnTop
  <2>2. 1 \in 1 .. L /\ 1 <= w
    BY <1>3, <2>1
  <2> QED BY <2>1, <2>2
<1> DEFINE Stays == /\ 1 \in DOMAIN chain'[k] /\ chain'[k][1].created = c[1].created
                    /\ chain'[k][1].value = c[1].value
<1>5. ASSUME chain'[k] = chain[k] PROVE Stays
  BY <1>1, <1>2, <1>4, <1>5
<1>6. ASSUME NEW u \in TxId, NEW j \in Key, NEW x \in Val \cup {NotFound}, Write(u, j, x)
      PROVE  Stays
  <2>1. CASE j # k
    BY <1>1, <1>2, <1>4, <1>6, <2>1 DEF Write, TypeOK
  <2>2. CASE j = k /\ u = t
    <3>1. tx' = [tx EXCEPT ![t].writes[k] = @ + 1] /\ tx[t] \in Transaction
      BY <1>6, <2>2 DEF Write, TypeOK
    <3>2. tx'[t].writes[k] = w + 1
      BY <1>0, <1>3, <3>1 DEF TypeOK, Transaction
    <3> QED BY <1>3, <3>2
  <2>3. CASE j = k /\ u # t
    <3>1. c # << >> /\ c[1].created # u /\ c[1].created \in active
      BY <1>2, <1>4, <2>3, EmptySeq
    <3> QED BY <1>1, <1>6, <2>3, <3>1 DEF Write, Conflict
  <2> QED BY <2>1, <2>2, <2>3
<1>7. ASSUME NEW u \in TxId, Rollback(u)
      PROVE  Stays
  <2>1. u # t
    BY <1>7 DEF Rollback
  <2>2. PICK N \in Nat, m \in Nat :
           /\ Popped(c, chain'[k], m, N)
           /\ \A i \in 1 .. N : c[i].created = u <=> i <= m
    BY <1>1, <1>7, RollbackPops
  <2>3. N = L /\ ~ (1 <= m)
    BY <1>2, <1>4, <2>1, <2>2 DEF Popped
  <2>4. m = 0 /\ 1 \in 1 .. N - m /\ 1 + m = 1
    BY <1>4, <2>3
  <2> QED BY <2>2, <2>4 DEF Popped
<1>8. ASSUME NEW m \in Horizons, Vacuum(m)
      PROVE  Stays
  <2>1. m \in Nat
    <3>1. m \in FirstTx .. MaxTx + 1
      BY Zenon DEF Horizons
    <3> QED BY <3>1, BoundsAssumption DEF FirstTx
  <2>2. c \in Seq(Version) /\ chain'[k] = Cut(c, m)
    BY <1>1, <1>8 DEF Vacuum, TypeOK
  <2>3. PICK n \in 0 .. Len(c) :
           /\ DOMAIN Cut(c, m) = 1 .. n
           /\ \A i \in 1 .. n : Cut(c, m)[i] = c[i]
           /\ n < Len(c) => n >= 1
    BY <2>1, <2>2, CutResult, Zenon
  <2>4. 1 \in 1 .. n
    BY <1>2, <1>4, <2>3
  <2> QED BY <2>2, <2>3, <2>4
<1>9. Stays
  <2>1. CASE Begin \/ (\E u \in TxId : Commit(u)) \/ UNCHANGED vars
    BY <1>5, <2>1 DEF Begin, Commit, vars
  <2> HIDE DEF Stays
  <2> QED BY <1>6, <1>7, <1>8, <2>1 DEF Next, Put, Delete
<1> QED BY <1>1, <1>2, <1>4, <1>9

\* What a running transaction reads changes only when it writes itself, for any
\* number of transactions that write, commit or roll back in between; a vacuum may
\* make it miss a key that one it overlapped has overwritten, and never makes it
\* read another value.
THEOREM ReadsRepeat == Spec => RepeatableRead
<1>1. IInv /\ Wrote /\ GetReadsSnapshot /\ GetReadsSnapshot' /\ [Next]_vars
        => [\A t \in active \cap active', k \in Key :
              tx'[t].writes[k] = tx[t].writes[k] =>
                  \/ Get(t, k)' = Get(t, k)
                  \/ /\ Get(t, k)' = NotFound
                     /\ tx[t].writes[k] = 0 /\ VacuumTakes(t, k)]_vars
  <2> SUFFICES ASSUME IInv, Wrote, GetReadsSnapshot, GetReadsSnapshot', [Next]_vars,
                      NEW t \in active \cap active', NEW k \in Key,
                      tx'[t].writes[k] = tx[t].writes[k]
               PROVE  \/ Get(t, k)' = Get(t, k)
                      \/ /\ Get(t, k)' = NotFound
                         /\ tx[t].writes[k] = 0 /\ VacuumTakes(t, k)
    OBVIOUS
  <2>1. Get(t, k) = IF tx[t].writes[k] > 0 THEN chain[k][1].value ELSE SnapshotValue(t, k)
    BY DEF GetReadsSnapshot
  <2>2. Get(t, k)' = IF tx'[t].writes[k] > 0 THEN chain'[k][1].value ELSE SnapshotValue(t, k)'
    BY DEF GetReadsSnapshot
  <2>3. tx[t].writes[k] \in Nat
    BY DEF IInv, TypeOK, Transaction
  <2>4. tx[t].writes[k] > 0 => chain'[k][1].value = chain[k][1].value
    BY HeadKept
  <2>5. CASE \A m \in Horizons : ~ Vacuum(m)
    <3>1. SnapshotValue(t, k)' = SnapshotValue(t, k)
      BY <2>5, SnapshotKept
    <3> QED BY <2>1, <2>2, <2>4, <3>1
  <2>6. ASSUME NEW m \in Horizons, Vacuum(m)
        PROVE  \/ SnapshotValue(t, k)' = SnapshotValue(t, k)
               \/ SnapshotValue(t, k)' = NotFound /\ VacuumTakes(t, k)
    BY <2>6, VacuumReaches DEF VacuumTakes
  <2> QED BY <2>1, <2>2, <2>3, <2>4, <2>5, <2>6
<1> QED BY <1>1, Invariant, WritersKnown, ReadsAreSnapshotReads, PTL DEF Spec, RepeatableRead

-------------------------------------------------------------------------------
\* Refinement: every action is one of the store that copies and publishes

LEMMA TopTyped ==
    ASSUME NEW c \in Seq(Version), NEW S
    PROVE  Top(c, S) \in Val \cup {NotFound}
<1>1. CASE \A j \in DOMAIN c : c[j].created \notin S
  BY <1>1, TopNone
<1>2. ASSUME NEW i \in DOMAIN c, c[i].created \in S,
             \A j \in DOMAIN c : c[j].created \in S => i <= j
      PROVE  Top(c, S) \in Val \cup {NotFound}
  <2>1. Top(c, S) = c[i].value
    BY <1>2, TopIs
  <2>2. c[i] \in Version
    BY ElementOfSeq, LenProperties
  <2> QED BY <2>1, <2>2 DEF Version
<1> QED BY <1>1, <1>2, TopCases

LEMMA TopHead ==
    ASSUME NEW c \in Seq(Version), NEW S, 1 \in DOMAIN c, c[1].created \in S
    PROVE  Top(c, S) = c[1].value
<1>1. \A j \in DOMAIN c : 1 <= j
  OBVIOUS
<1> QED BY <1>1, TopIs

LEMMA StatusIs ==
    ASSUME TypeOK, NEW t \in TxId
    PROVE  Status[t] = IF tx[t].state = "UNUSED" THEN "idle"
                       ELSE IF tx[t].state = "ACTIVE" THEN "running" ELSE "finished"
BY DEF Status

\* The status, snapshot and buffer of a transaction that an action is not about.
LEMMA SnapshotsKept ==
    ASSUME IInv, [Next]_vars, tx' # tx, NEW u \in TxId, u \in active' <=> u \in active
    PROVE  Snapshots'[u] = Snapshots[u]
<1>0. \A m \in Horizons : ~ Vacuum(m)
  BY DEF Vacuum
<1>1. ASSUME NEW k \in Key, u \in active PROVE SnapshotValue(u, k)' = SnapshotValue(u, k)
  BY <1>0, <1>1, SnapshotKept
<1>2. Snapshots[u] = [k \in Key |-> IF u \in active THEN SnapshotValue(u, k) ELSE NotFound]
  BY DEF Snapshots
<1>3. Snapshots'[u] = [k \in Key |-> IF u \in active' THEN SnapshotValue(u, k)' ELSE NotFound]
  BY DEF Snapshots
<1> QED BY <1>1, <1>2, <1>3

LEMMA BuffersKept ==
    ASSUME IInv, IInv', [Next]_vars, NEW u \in TxId, u \in active' <=> u \in active,
           NEW k \in Key, tx'[u].writes[k] = tx[u].writes[k]
    PROVE  Buffers'[u][k] = Buffers[u][k]
<1>1. Buffers[u][k] = IF u \in active /\ tx[u].writes[k] > 0 THEN Own(u, k) ELSE <<"unwritten">>
  BY DEF Buffers
<1>2. Buffers'[u][k] = IF u \in active' /\ tx'[u].writes[k] > 0 THEN Own(u, k)' ELSE <<"unwritten">>
  BY DEF Buffers
<1>3. ASSUME u \in active, tx[u].writes[k] > 0 PROVE Own(u, k)' = Own(u, k)
  <2>1. /\ 1 \in DOMAIN chain[k] /\ chain[k][1].created = u
        /\ 1 \in DOMAIN chain'[k] /\ chain'[k][1].created = u
        /\ chain'[k][1].value = chain[k][1].value
    BY <1>3, HeadKept
  <2>2. chain[k] \in Seq(Version) /\ chain'[k] \in Seq(Version)
    BY DEF IInv, TypeOK
  <2>3. Top(chain[k], {u}) = chain[k][1].value
    BY <2>1, <2>2, TopHead
  <2>4. Top(chain'[k], {u}) = chain'[k][1].value
    BY <2>1, <2>2, TopHead
  <2>5. Own(u, k) = Top(chain[k], {u}) /\ Own(u, k)' = Top(chain'[k], {u})
    BY Views
  <2> QED BY <2>1, <2>3, <2>4, <2>5
<1> QED BY <1>1, <1>2, <1>3

LEMMA BufferKept ==
    ASSUME IInv, IInv', [Next]_vars, NEW u \in TxId, u \in active' <=> u \in active,
           tx'[u].writes = tx[u].writes
    PROVE  Buffers'[u] = Buffers[u]
<1>1. \A k \in Key : Buffers'[u][k] = Buffers[u][k]
  BY BuffersKept
<1>2. /\ Buffers[u] = [k \in Key |-> Buffers[u][k]]
      /\ Buffers'[u] = [k \in Key |-> Buffers'[u][k]]
  BY DEF Buffers
<1> QED BY <1>1, <1>2

\* A transaction that is not running has neither.
LEMMA NothingHeld ==
    ASSUME NEW u \in TxId
    PROVE  /\ u \notin active => Snapshots[u] = SS!Nothing /\ Buffers[u] = SS!Untouched
           /\ u \notin active' => Snapshots'[u] = SS!Nothing /\ Buffers'[u] = SS!Untouched
BY DEF Snapshots, Buffers, SS!Nothing, SS!Untouched, SS!NoWrite

\* The maps are functions on the transaction ids: to compare two, compare them at
\* every transaction.
LEMMA Maps ==
    /\ Status = [u \in TxId |-> Status[u]] /\ Status' = [u \in TxId |-> Status'[u]]
    /\ Snapshots = [u \in TxId |-> Snapshots[u]] /\ Snapshots' = [u \in TxId |-> Snapshots'[u]]
    /\ Buffers = [u \in TxId |-> Buffers[u]] /\ Buffers' = [u \in TxId |-> Buffers'[u]]
    /\ Overlaps = [u \in TxId |-> tx[u].frozen] /\ Overlaps' = [u \in TxId |-> tx'[u].frozen]
BY DEF Status, Snapshots, Buffers, Overlaps

LEMMA UpdatedAt ==
    ASSUME NEW D, NEW f, NEW g, f = [u \in D |-> f[u]], g = [u \in D |-> g[u]],
           NEW t \in D, NEW e, \A u \in D : g[u] = IF u = t THEN e ELSE f[u]
    PROVE  g = [f EXCEPT ![t] = e]
OBVIOUS

LEMMA StartsIsolated == Init => SS!Init
<1> SUFFICES ASSUME Init PROVE SS!Init
  OBVIOUS
<1>1. \A k \in Key : Committed(k) = NotFound
  BY DEF Init, Committed, Newest
<1>2. Store = SS!Nothing
  BY <1>1 DEF Store, SS!Nothing
<1>3. Status = [t \in TxId |-> "idle"]
  BY DEF Init, Status
<1>4. Snapshots = [t \in TxId |-> SS!Nothing] /\ Buffers = [t \in TxId |-> SS!Untouched]
  BY DEF Init, Snapshots, Buffers, SS!Nothing, SS!Untouched, SS!NoWrite
<1>5. Overlaps = [t \in TxId |-> {}] /\ Published = [k \in Key |-> {}]
  BY DEF Init, Overlaps, Published
<1> QED BY <1>2, <1>3, <1>4, <1>5 DEF SS!Init

\* What a transaction beginning or ending does to the maps.
LEMMA StatusStep ==
    ASSUME NEW t \in TxId, NEW s, \A u \in TxId : Status'[u] = IF u = t THEN s ELSE Status[u]
    PROVE  Status' = [Status EXCEPT ![t] = s]
<1>1. PICK f, g : f = Status /\ g = Status'
  OBVIOUS
<1> QED BY <1>1, Maps, UpdatedAt

LEMMA SnapshotStep ==
    ASSUME IInv, [Next]_vars, tx' # tx, NEW t \in TxId,
           \A u \in TxId : u # t => (u \in active' <=> u \in active)
    PROVE  Snapshots' = [Snapshots EXCEPT ![t] = Snapshots'[t]]
<1>1. PICK f, g, e : f = Snapshots /\ g = Snapshots' /\ e = Snapshots'[t]
  OBVIOUS
<1>2. \A u \in TxId : g[u] = IF u = t THEN e ELSE f[u]
  BY <1>1, SnapshotsKept
<1> QED BY <1>1, <1>2, Maps, UpdatedAt

LEMMA BufferStep ==
    ASSUME IInv, IInv', [Next]_vars, NEW t \in TxId,
           \A u \in TxId : u # t => (u \in active' <=> u \in active) /\ tx'[u].writes = tx[u].writes
    PROVE  Buffers' = [Buffers EXCEPT ![t] = Buffers'[t]]
<1>1. PICK f, g, e : f = Buffers /\ g = Buffers' /\ e = Buffers'[t]
  OBVIOUS
<1>2. \A u \in TxId : g[u] = IF u = t THEN e ELSE f[u]
  BY <1>1, BufferKept
<1> QED BY <1>1, <1>2, Maps, UpdatedAt

LEMMA BeginIsolated ==
    ASSUME IInv, IInv', Begin, NEW t \in TxId, t = nextTx
    PROVE  SS!Begin(t)
<1>1. /\ tx[t].state = "UNUSED" /\ t \notin active
      /\ tx'[t].state = "ACTIVE" /\ tx'[t].frozen = active /\ tx'[t].writes = NoWrites
      /\ \A u \in TxId : u # t => tx'[u] = tx[u]
      /\ active' = active \cup {t} /\ committed' = committed /\ chain' = chain
      /\ tx' # tx
  BY BoundsAssumption DEF Begin, IInv, TypeOK, TxId, FirstTx, ListsAgree
<1>2. [Next]_vars
  BY DEF Next
<1>3. Status[t] = "idle" /\ \A u \in TxId : Status'[u] = IF u = t THEN "running" ELSE Status[u]
  BY <1>1 DEF Status
<1>4. Store' = Store
  BY <1>1 DEF Store, Committed, Newest
<1>5. Snapshots'[t] = Store
  <2>1. Snap(t)' = committed
    <3>1. \A u \in committed : u < t /\ u \notin active
      BY BoundsAssumption DEF IInv, ListsAgree, TypeOK, TxId, FirstTx
    <3> QED BY <1>1, <3>1 DEF Snap
  <2>2. ASSUME NEW k \in Key PROVE SnapshotValue(t, k)' = Committed(k)
    <3>1. SnapshotValue(t, k)' = Top(chain'[k], Snap(t)') /\ Committed(k) = Top(chain[k], committed)
      BY Views
    <3> QED BY <1>1, <2>1, <3>1
  <2>3. Snapshots'[t] = [k \in Key |-> SnapshotValue(t, k)']
    BY <1>1 DEF Snapshots
  <2> QED BY <2>2, <2>3 DEF Store
<1>6. Snapshots' = [Snapshots EXCEPT ![t] = Store]
  BY <1>1, <1>2, <1>5, SnapshotStep
<1>7. Buffers'[t] = Buffers[t]
  <2>1. \A k \in Key : ~ (tx'[t].writes[k] > 0)
    BY <1>1 DEF NoWrites
  <2> QED BY <1>1, <2>1 DEF Buffers
<1>8. Buffers' = Buffers
  <2>1. Buffers' = [Buffers EXCEPT ![t] = Buffers[t]]
    BY <1>1, <1>2, <1>7, BufferStep
  <2> QED BY <2>1, Maps
<1>9. Status' = [Status EXCEPT ![t] = "running"]
  BY <1>3, StatusStep
<1>10. Overlaps' = [Overlaps EXCEPT ![t] = {u \in TxId : Status[u] = "running"}]
  <2>1. {u \in TxId : Status[u] = "running"} = active
    BY DEF Status, IInv, ListsAgree
  <2>2. PICK f, g : f = Overlaps /\ g = Overlaps'
    OBVIOUS
  <2>3. \A u \in TxId : g[u] = IF u = t THEN active ELSE f[u]
    BY <1>1, <2>2 DEF Overlaps
  <2>4. g = [f EXCEPT ![t] = active]
    BY <2>2, <2>3, Maps, UpdatedAt DEF Overlaps
  <2> QED BY <2>1, <2>2, <2>4
<1>11. Published' = Published
  <2>1. t \notin committed
    BY <1>1 DEF IInv, ListsAgree
  <2> QED BY <1>1, <2>1 DEF Published, IInv, TypeOK
<1> QED BY <1>3, <1>4, <1>6, <1>8, <1>9, <1>10, <1>11 DEF SS!Begin

\* What the test of the chain's head says of the other writers of the key: none is
\* running, and none that has committed began while this one ran.
LEMMA NoOtherWriter ==
    ASSUME IInv, NEW t \in TxId, NEW k \in Key, NEW x, Write(t, k, x), NEW u \in TxId \ {t}
    PROVE  Buffers[u][k] = SS!NoWrite
<1>1. Buffers[u][k] = IF u \in active /\ tx[u].writes[k] > 0 THEN Own(u, k) ELSE SS!NoWrite
  BY DEF Buffers, SS!NoWrite
<1>2. ASSUME u \in active, tx[u].writes[k] > 0 PROVE FALSE
  <2>1. PICK L \in Nat : L = Len(chain[k]) /\ DOMAIN chain[k] = 1 .. L
    BY LenProperties DEF IInv, TypeOK
  <2>2. /\ tx[u].writes[k] \in Nat /\ tx[u].writes[k] <= L
        /\ \A i \in 1 .. L : chain[k][i].created = u <=> i <= tx[u].writes[k]
    BY <1>2, <2>1 DEF IInv, OneWriterOnTop, TypeOK, Transaction
  <2>3. 1 \in 1 .. L /\ 1 <= tx[u].writes[k]
    BY <1>2, <2>1, <2>2
  <2>4. chain[k] # << >> /\ chain[k][1].created = u
    BY <2>1, <2>2, <2>3, EmptySeq
  <2> QED BY <1>2, <2>4 DEF Write, Conflict
<1> QED BY <1>1, <1>2

LEMMA NoneBeganSince ==
    ASSUME IInv, Wrote, NEW t \in TxId, NEW k \in Key, NEW x, Write(t, k, x),
           NEW u \in Published[k]
    PROVE  t \notin Overlaps[u]
<1> SUFFICES ASSUME t \in Overlaps[u] PROVE FALSE
  OBVIOUS
<1>1. u \in committed /\ tx[u].writes[k] > 0 /\ u \in TxId
  BY DEF Published, IInv, TypeOK
<1>2. t < u /\ t \in Nat /\ u \in Nat
  BY <1>1, BoundsAssumption DEF Overlaps, IInv, ListsAgree, TxId, FirstTx
<1>3. PICK c : c = chain[k]
  OBVIOUS
<1>4. PICK L \in Nat : L = Len(c) /\ DOMAIN c = 1 .. L /\ \A i \in 1 .. L : c[i] \in Version
  BY <1>3, LenProperties, ElementOfSeq DEF IInv, TypeOK
<1>5. PICK i \in 1 .. L : c[i].created >= u
  BY <1>1, <1>3, <1>4 DEF Wrote, PublishersCovered
<1>6. 1 \in 1 .. L /\ c # << >>
  BY <1>4, <1>5, EmptySeq
<1>7. c[i].created <= c[1].created
  BY <1>3, <1>4, <1>5, <1>6, ChainSorted
<1>8. c[i].created \in Nat /\ c[1].created \in Nat
  BY <1>4, <1>5, <1>6, BoundsAssumption DEF Version, TxId, FirstTx
<1>9. c[1].created >= t /\ c[1].created # t
  BY <1>2, <1>5, <1>7, <1>8
<1> QED BY <1>3, <1>6, <1>9 DEF Write, Conflict

LEMMA WriteIsolated ==
    ASSUME IInv, IInv', Wrote, NEW t \in TxId, NEW k \in Key,
           NEW x \in Val \cup {NotFound}, Write(t, k, x), [Next]_vars
    PROVE  SS!Write(t, k, x)
<1>1. /\ tx[t].state = "ACTIVE" /\ t \in active /\ t \notin committed
      /\ active' = active /\ committed' = committed
  BY DEF Write, IInv, ListsAgree
<1>2. /\ tx'[t].state = "ACTIVE"
      /\ tx'[t].writes[k] \in Nat /\ tx'[t].writes[k] > 0
      /\ \A j \in Key : j # k => tx'[t].writes[j] = tx[t].writes[j]
      /\ \A u \in TxId : u # t => tx'[u] = tx[u]
      /\ tx'[t].frozen = tx[t].frozen
  BY <1>1 DEF Write, IInv, TypeOK, Transaction
<1>0. tx' # tx
  <2>1. tx[t].writes[k] \in Nat /\ tx'[t].writes[k] = tx[t].writes[k] + 1
    BY DEF Write, IInv, TypeOK, Transaction
  <2> QED BY <2>1
<1>3. Status[t] = "running" /\ Status' = Status
  <2>1. \A u \in TxId : Status'[u] = Status[u]
    BY <1>1, <1>2 DEF Status
  <2> QED BY <1>1, <2>1, Maps DEF Status
<1>4. Store' = Store
  <2>1. ASSUME NEW j \in Key PROVE Committed(j)' = Committed(j)
    <3>1. Committed(j)' = Top(chain'[j], committed') /\ Committed(j) = Top(chain[j], committed)
      BY Views
    <3>2. PICK S : S = committed
      OBVIOUS
    <3>3. Top(chain'[j], S) = Top(chain[j], S)
      BY <1>1, <3>2, WriteTops
    <3> QED BY <1>1, <3>1, <3>2, <3>3
  <2> QED BY <2>1 DEF Store
<1>5. Snapshots' = Snapshots
  <2>1. \A u \in TxId : Snapshots'[u] = Snapshots[u]
    BY <1>0, <1>1, SnapshotsKept
  <2> QED BY <2>1, Maps
<1>6. Buffers'[t][k] = x
  <2>1. Own(t, k)' = Top(chain'[k], {t})
    BY Views
  <2>2. Top(chain'[k], {t}) = x
    BY WriteTops
  <2>3. Buffers'[t][k] = Own(t, k)'
    BY <1>1, <1>2 DEF Buffers
  <2> QED BY <2>1, <2>2, <2>3
<1>7. Buffers' = [Buffers EXCEPT ![t] = Buffers'[t]]
  BY <1>1, <1>2, BufferStep
<1>8. Buffers'[t] = [Buffers[t] EXCEPT ![k] = x]
  <2>1. \A j \in Key : j # k => Buffers'[t][j] = Buffers[t][j]
    BY <1>1, <1>2, BuffersKept
  <2>2. /\ Buffers[t] = [j \in Key |-> Buffers[t][j]]
        /\ Buffers'[t] = [j \in Key |-> Buffers'[t][j]]
    BY DEF Buffers
  <2>3. PICK f, g : f = Buffers[t] /\ g = Buffers'[t]
    OBVIOUS
  <2>4. \A j \in Key : g[j] = IF j = k THEN x ELSE f[j]
    BY <1>6, <2>1, <2>3
  <2>5. g = [f EXCEPT ![k] = x]
    BY <2>2, <2>3, <2>4, UpdatedAt
  <2> QED BY <2>3, <2>5
<1>9. Buffers' = [Buffers EXCEPT ![t][k] = x]
  BY <1>7, <1>8
<1>10. Overlaps' = Overlaps
  BY <1>2 DEF Overlaps
<1>11. Published' = Published
  BY <1>1, <1>2 DEF Published, IInv, TypeOK
<1>12. \A u \in TxId \ {t} : Buffers[u][k] = SS!NoWrite
  BY NoOtherWriter
<1>13. \A u \in Published[k] : t \notin Overlaps[u]
  BY NoneBeganSince
<1> QED BY <1>3, <1>4, <1>5, <1>9, <1>10, <1>11, <1>12, <1>13 DEF SS!Write

\* A commit or a rollback of t: what is left of it is its place among the finished.
LEMMA FinishIsolated ==
    ASSUME IInv, IInv', [Next]_vars, NEW t \in TxId, NEW s,
           tx[t].state = "ACTIVE", tx' = [tx EXCEPT ![t].state = s],
           s \notin {"UNUSED", "ACTIVE"}, active' = active \ {t}
    PROVE  SS!Finish(t)
<1>1. /\ tx'[t].state = s /\ tx'[t].frozen = tx[t].frozen
      /\ \A u \in TxId : u # t => tx'[u] = tx[u]
      /\ tx' # tx
  BY DEF IInv, TypeOK, Transaction
<1>2. Status[t] = "running" /\ \A u \in TxId : Status'[u] = IF u = t THEN "finished" ELSE Status[u]
  BY <1>1 DEF Status
<1>3. Status' = [Status EXCEPT ![t] = "finished"]
  BY <1>2, StatusStep
<1>4. t \notin active'
  OBVIOUS
<1>5. Snapshots'[t] = SS!Nothing /\ Buffers'[t] = SS!Untouched
  BY <1>4, NothingHeld
<1>6. Snapshots' = [Snapshots EXCEPT ![t] = SS!Nothing]
  BY <1>1, <1>5, SnapshotStep
<1>7. Buffers' = [Buffers EXCEPT ![t] = SS!Untouched]
  BY <1>1, <1>5, BufferStep
<1>8. Overlaps' = Overlaps
  BY <1>1 DEF Overlaps
<1> QED BY <1>2, <1>3, <1>6, <1>7, <1>8 DEF SS!Finish

LEMMA RollbackIsolated ==
    ASSUME IInv, IInv', NEW t \in TxId, Rollback(t), [Next]_vars
    PROVE  SS!Abort(t)
<1>1. SS!Finish(t)
  <2>1. PICK s : s = "ABORTED"
    OBVIOUS
  <2>2. /\ tx[t].state = "ACTIVE" /\ tx' = [tx EXCEPT ![t].state = s]
        /\ s \notin {"UNUSED", "ACTIVE"} /\ active' = active \ {t}
    BY <2>1 DEF Rollback
  <2> QED BY <2>2, FinishIsolated
<1>2. t \notin committed /\ committed' = committed
  BY DEF Rollback, IInv, ListsAgree
<1>3. ASSUME NEW k \in Key PROVE Committed(k)' = Committed(k)
  <2>1. Committed(k)' = Top(chain'[k], committed') /\ Committed(k) = Top(chain[k], committed)
    BY Views
  <2>2. PICK S : S = committed
    OBVIOUS
  <2>3. Top(chain'[k], S) = Top(chain[k], S)
    BY <1>2, <2>2, RollbackTops
  <2> QED BY <1>2, <2>1, <2>2, <2>3
<1>4. Store' = Store
  BY <1>3 DEF Store
<1>5. Published' = Published
  <2>1. \A u \in committed : u \in TxId /\ u # t
    BY <1>2 DEF IInv, TypeOK
  <2>2. \A u \in committed : tx'[u] = tx[u]
    BY <2>1 DEF Rollback, IInv, TypeOK
  <2> QED BY <1>2, <2>2 DEF Published
<1> QED BY <1>1, <1>4, <1>5 DEF SS!Abort

\* No client writes the value that marks an unwritten key in the abstract buffer.
MarkerIsNoValue == SS!NoWrite \notin Val \cup {NotFound}

\* The newest own version of a running writer holds a value.
LEMMA OwnIsNoMarker ==
    ASSUME IInv, MarkerIsNoValue, NEW t \in active, NEW k \in Key, tx[t].writes[k] > 0
    PROVE  Own(t, k) # SS!NoWrite
<1>1. PICK c : c = chain[k] /\ c \in Seq(Version)
  BY DEF IInv, TypeOK
<1>2. Own(t, k) = Top(c, {t})
  BY <1>1, Views
<1>3. Own(t, k) \in Val \cup {NotFound}
  BY <1>1, <1>2, TopTyped
<1> QED BY <1>3 DEF MarkerIsNoValue

LEMMA CommitIsolated ==
    ASSUME IInv, IInv', MarkerIsNoValue, NEW t \in TxId, Commit(t), [Next]_vars
    PROVE  SS!Commit(t)
<1>1. SS!Finish(t)
  <2>1. PICK s : s = "COMMITTED"
    OBVIOUS
  <2>2. /\ tx[t].state = "ACTIVE" /\ tx' = [tx EXCEPT ![t].state = s]
        /\ s \notin {"UNUSED", "ACTIVE"} /\ active' = active \ {t}
    BY <2>1 DEF Commit
  <2> QED BY <2>2, FinishIsolated
<1>2. /\ t \in active /\ t \notin committed
      /\ committed' = committed \cup {t} /\ chain' = chain
  BY DEF Commit, IInv, ListsAgree
<1>3. ASSUME NEW k \in Key
      PROVE  Committed(k)' = IF Buffers[t][k] = SS!NoWrite THEN Committed(k) ELSE Buffers[t][k]
  <2>1. PICK c, S : c = chain[k] /\ S = committed
    OBVIOUS
  <2>2. c \in Seq(Version)
    BY <2>1 DEF IInv, TypeOK
  <2>3. PICK L \in Nat : L = Len(c) /\ DOMAIN c = 1 .. L /\ \A i \in 1 .. L : c[i] \in Version
    BY <2>2, LenProperties, ElementOfSeq
  <2>4. PICK w \in Nat : w = tx[t].writes[k]
    BY DEF IInv, TypeOK, Transaction
  <2>5. w <= L /\ \A i \in 1 .. L : c[i].created = t <=> i <= w
    BY <1>2, <2>1, <2>3, <2>4 DEF IInv, OneWriterOnTop
  <2>6. /\ Committed(k) = Top(c, S)
        /\ Committed(k)' = Top(c, S \cup {t})
        /\ Own(t, k) = Top(c, {t})
    BY <1>2, <2>1, Views
  <2>7. Buffers[t][k] = IF w > 0 THEN Top(c, {t}) ELSE SS!NoWrite
    BY <1>2, <2>4, <2>6 DEF Buffers, SS!NoWrite
  <2>8. CASE w = 0
    <3>1. \A i \in DOMAIN c : c[i].created \in S \cup {t} <=> c[i].created \in S
      BY <2>3, <2>5, <2>8
    <3>2. Top(c, S \cup {t}) = Top(c, S)
      BY <2>2, <3>1, TopSame
    <3> QED BY <2>6, <2>7, <2>8, <3>2
  <2>9. CASE w > 0
    <3>1. 1 \in DOMAIN c /\ c[1].created = t /\ c[1] \in Version
      <4>1. 1 \in 1 .. L /\ 1 <= w
        BY <2>5, <2>9
      <4> QED BY <2>3, <2>5, <4>1
    <3>2. Top(c, S \cup {t}) = c[1].value /\ Top(c, {t}) = c[1].value
      BY <2>2, <3>1, TopHead
    <3>3. c[1].value # SS!NoWrite
      BY <3>1, Zenon DEF Version, MarkerIsNoValue
    <3> QED BY <2>6, <2>7, <2>9, <3>2, <3>3
  <2> QED BY <2>8, <2>9
<1>4. Store' = [k \in Key |-> IF Buffers[t][k] = SS!NoWrite THEN Store[k] ELSE Buffers[t][k]]
  BY <1>3 DEF Store
<1>5. ASSUME NEW k \in Key
      PROVE  Published'[k] = IF Buffers[t][k] = SS!NoWrite THEN Published[k]
                             ELSE Published[k] \cup {t}
  <2>1. Buffers[t][k] = SS!NoWrite <=> ~ (tx[t].writes[k] > 0)
    BY <1>2, OwnIsNoMarker DEF Buffers, SS!NoWrite
  <2>2. \A u \in committed \cup {t} : u \in TxId /\ tx'[u].writes = tx[u].writes
    BY DEF Commit, IInv, TypeOK, Transaction
  <2>3. Published'[k] = {u \in committed \cup {t} : tx'[u].writes[k] > 0}
    BY <1>2 DEF Published
  <2>4. Published[k] = {u \in committed : tx[u].writes[k] > 0}
    BY DEF Published
  <2> QED BY <1>2, <2>1, <2>2, <2>3, <2>4
<1>6. Published' = [k \in Key |-> IF Buffers[t][k] = SS!NoWrite THEN Published[k]
                                  ELSE Published[k] \cup {t}]
  <2>1. Published' = [k \in Key |-> Published'[k]]
    BY DEF Published
  <2> QED BY <1>5, <2>1
<1> QED BY <1>1, <1>4, <1>6 DEF SS!Commit

\* A vacuum removes no version that is the newest committed one of its key; what
\* it removes of a snapshot, one that the snapshot overlaps has published.
LEMMA VacuumForgets ==
    ASSUME IInv, IInv', Wrote, NEW m \in Horizons, Vacuum(m), [Next]_vars
    PROVE  SS!Forget
<1>1. active' = active /\ committed' = committed /\ tx' = tx
  BY DEF Vacuum
<1>2. Status' = Status /\ Overlaps' = Overlaps /\ Published' = Published
  BY <1>1 DEF Status, Overlaps, Published
<1>3. Snapshots' \in [TxId -> [Key -> Val \cup {NotFound}]]
  <2>1. ASSUME NEW t \in TxId, NEW k \in Key PROVE SnapshotValue(t, k)' \in Val \cup {NotFound}
    <3>1. chain'[k] \in Seq(Version)
      BY DEF IInv, TypeOK
    <3>2. SnapshotValue(t, k)' = Top(chain'[k], Snap(t)')
      BY Views
    <3> QED BY <3>1, <3>2, TopTyped
  <2> QED BY <2>1 DEF Snapshots
<1>4. ASSUME NEW t \in TxId, NEW k \in Key
      PROVE  \/ Snapshots'[t][k] = Snapshots[t][k]
             \/ Snapshots'[t][k] = NotFound /\ Overlaps[t] \cap Published[k] # {}
  <2>1. /\ Snapshots[t][k] = IF t \in active THEN SnapshotValue(t, k) ELSE NotFound
        /\ Snapshots'[t][k] = IF t \in active THEN SnapshotValue(t, k)' ELSE NotFound
    BY <1>1 DEF Snapshots
  <2>2. CASE t \notin active
    BY <2>1, <2>2
  <2>3. CASE t \in active
    <3>1. ASSUME NEW u \in tx[t].frozen \cap committed, tx[u].writes[k] > 0
          PROVE  Overlaps[t] \cap Published[k] # {}
      BY <3>1 DEF Overlaps, Published
    <3> QED BY <2>1, <2>3, <3>1, VacuumReaches
  <2> QED BY <2>2, <2>3
<1>5. Buffers' = Buffers
  <2>1. \A u \in TxId : Buffers'[u] = Buffers[u]
    BY <1>1, BufferKept
  <2> QED BY <2>1, Maps
<1>6. ASSUME NEW k \in Key PROVE Committed(k)' = Committed(k)
  <2>1. Committed(k)' = Top(chain'[k], committed') /\ Committed(k) = Top(chain[k], committed)
    BY Views
  <2>2. PICK S : S = committed
    OBVIOUS
  <2>3. Top(chain'[k], S) = Top(chain[k], S)
    BY <2>2, VacuumTops
  <2> QED BY <1>1, <2>1, <2>2, <2>3
<1>7. Store' = Store
  BY <1>6 DEF Store
<1> QED BY <1>2, <1>3, <1>4, <1>5, <1>7 DEF SS!Forget

LEMMA StepsIsolated ==
    ASSUME IInv, IInv', Wrote, MarkerIsNoValue, [Next]_vars
    PROVE  [SS!Next]_<<Store, Status, Snapshots, Buffers, Overlaps, Published>>
<1>1. CASE Begin
  <2>1. PICK t \in TxId : t = nextTx
    BY <1>1, BoundsAssumption DEF Begin, IInv, TypeOK, TxId, FirstTx
  <2>2. SS!Begin(t)
    BY <1>1, <2>1, BeginIsolated
  <2> QED BY <2>2 DEF SS!Next
<1>2. ASSUME NEW t \in TxId, NEW k \in Key, NEW x \in Val \cup {NotFound}, Write(t, k, x)
      PROVE  SS!Next
  <2>1. SS!Write(t, k, x)
    BY <1>2, WriteIsolated
  <2> QED BY <2>1 DEF SS!Next
<1>3. ASSUME NEW t \in TxId, Commit(t) PROVE SS!Next
  BY <1>3, CommitIsolated DEF SS!Next
<1>4. ASSUME NEW t \in TxId, Rollback(t) PROVE SS!Next
  BY <1>4, RollbackIsolated DEF SS!Next
<1>5. ASSUME NEW m \in Horizons, Vacuum(m) PROVE SS!Next
  BY <1>5, VacuumForgets DEF SS!Next
<1>6. CASE UNCHANGED vars
  BY <1>6 DEF vars, Store, Status, Snapshots, Buffers, Overlaps, Published,
              Committed, Own, SnapshotValue, Newest
<1> QED BY <1>1, <1>2, <1>3, <1>4, <1>5, <1>6 DEF Next, Put, Delete

\* The version chains implement the store that copies at begin and publishes at
\* commit, for any number of clients, with every rollback and every vacuum: no
\* writer of a key runs beside another, none writes over one that began later and
\* has published, and a vacuum only hides keys published since the copy.
THEOREM ChainsImplementStore ==
    ASSUME MarkerIsNoValue
    PROVE  Spec => ImplementsSnapshotStore
<1>1. IInv /\ IInv' /\ Wrote /\ [Next]_vars
        => [SS!Next]_<<Store, Status, Snapshots, Buffers, Overlaps, Published>>
  BY StepsIsolated
<1> QED
  BY <1>1, StartsIsolated, Invariant, WritersKnown, PTL
     DEF Spec, ImplementsSnapshotStore, SS!Spec, SS!vars

=============================================================================
