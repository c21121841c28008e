----------------------------- MODULE RaftNetProofs -----------------------------
(***************************************************************************)
(* Elections of RaftNet are safe for every number of nodes: as long as one *)
(* is started only when no leader can be reached, there is one leader at a *)
(* time and no term has two winners.                                       *)
(***************************************************************************)
EXTENDS RaftNet, FiniteSetTheorems, WellFoundedInduction, NaturalsInduction,
        SequenceTheorems, TLAPS

-------------------------------------------------------------------------------
\* The inductive invariant

Isolation == \A n \in Node : isolated[n] => state[n] = "FOLLOWER"

\* The nodes that took part in term t or a later one.
AtLeast(t) == {n \in Node : term[n] >= t}

\* Every won term is known to a majority, which no write of a leader of an older
\* term can undo, because no such leader is left.
WonIsKnown ==
    ~disturbed => \A w \in won :
        /\ Cardinality(AtLeast(w[2])) >= Quorum
        /\ \A n \in Node : state[n] = "LEADER" => term[n] >= w[2]

IInv == TypeOK /\ Isolation /\ OneLeader /\ WonIsKnown /\ ElectionSafety

-------------------------------------------------------------------------------
\* Majorities

LEMMA NodeFinite == IsFiniteSet(Node) /\ Cardinality(Node) = N
BY SizeAssumption, FS_Interval DEF Node

LEMMA NodeSubset ==
    ASSUME NEW S \in SUBSET Node
    PROVE  IsFiniteSet(S) /\ Cardinality(S) \in Nat
BY NodeFinite, FS_Subset, FS_CardinalityType

\* Two majorities have a node in common.
LEMMA QuorumsMeet ==
    ASSUME NEW S \in SUBSET Node, NEW T \in SUBSET Node,
           Cardinality(S) >= Quorum, Cardinality(T) >= Quorum
    PROVE  \E n \in Node : n \in S /\ n \in T
<1>1. Cardinality(S) + Cardinality(T) > N
  BY NodeSubset, SizeAssumption DEF Quorum
<1>2. S \cap T # {}
  BY <1>1, NodeFinite, FS_MajoritiesIntersect
<1> QED
  BY <1>2

\* A larger set of nodes is a majority if a smaller one is.
LEMMA QuorumGrows ==
    ASSUME NEW S \in SUBSET Node, NEW T \in SUBSET Node, S \subseteq T,
           Cardinality(S) >= Quorum
    PROVE  Cardinality(T) >= Quorum
<1>1. Cardinality(S) <= Cardinality(T)
  BY NodeSubset, FS_Subset
<1> QED
  BY <1>1, NodeSubset, SizeAssumption DEF Quorum

-------------------------------------------------------------------------------
\* Every variable keeps its type

LEMMA TypeInit == Init => TypeOK
<1> SUFFICES ASSUME Init PROVE TypeOK
  OBVIOUS
<1>1. 0 \in Term
  BY BoundsAssumption DEF Term
<1>2. {NoVal} \in SUBSET (Val \cup {NoVal})
  OBVIOUS
<1>3. answers \in [Key -> SUBSET (Val \cup {NoVal})]
  BY <1>2 DEF Init
<1>4. log \in [Node -> Seq(Entry)] /\ won \subseteq Node \X Term /\ acked \subseteq Entry
  BY DEF Init
<1> QED
  BY <1>1, <1>3, <1>4 DEF Init, TypeOK

LEMMA TypeElect ==
    ASSUME TypeOK, NEW c \in Node, Elect(c)
    PROVE  TypeOK'
<1>1. term[c] + 1 \in Term
  BY BoundsAssumption DEF TypeOK, Elect, Term
<1>2. state' \in [Node -> {"FOLLOWER", "LEADER"}]
  BY DEF TypeOK, Elect, Outcome
<1>3. term' \in [Node -> Term]
  BY <1>1 DEF TypeOK, Elect
<1>4. won' \subseteq Node \X Term /\ disturbed' \in BOOLEAN
  BY <1>1 DEF TypeOK, Elect
<1> QED
  BY <1>2, <1>3, <1>4 DEF TypeOK, Elect

LEMMA TypeWrite ==
    ASSUME TypeOK, NEW k \in Key, NEW v \in Val, Write(k, v)
    PROVE  TypeOK'
<1>1. PICK l \in Leaders :
          LET e == [term |-> term[l], key |-> k, val |-> v]
              reached == Peers(l) \cup {l}
          IN  /\ log' = [n \in Node |-> IF n \in reached THEN Append(log[n], e) ELSE log[n]]
              /\ term' = [n \in Node |-> IF n \in reached THEN term[l] ELSE term[n]]
              /\ \/ /\ commit' = [n \in Node |-> IF n \in reached THEN Len(log[l]) + 1
                                                    ELSE commit[n]]
                    /\ acked' = acked \cup {e}
                    /\ answers' = [answers EXCEPT ![k] = {v}]
                 \/ /\ answers' = [answers EXCEPT ![k] = @ \cup {v}]
                    /\ UNCHANGED <<commit, acked>>
              /\ UNCHANGED <<state, isolated, won, disturbed>>
  BY DEF Write
<1> DEFINE e == [term |-> term[l], key |-> k, val |-> v]
<1>2. l \in Node
  BY DEF Leaders
<1>3. e \in Entry
  BY <1>2 DEF TypeOK, Entry
<1>4. log' \in [Node -> Seq(Entry)] /\ term' \in [Node -> Term]
  BY <1>1, <1>2, <1>3 DEF TypeOK
<1>5. commit' \in [Node -> Nat] /\ acked' \subseteq Entry
  <2>1. Len(log[l]) + 1 \in Nat
    BY <1>2 DEF TypeOK
  <2>2. commit' \in [Node -> Nat]
    BY <1>1, <2>1 DEF TypeOK
  <2>3. acked' = acked \/ acked' = acked \cup {e}
    BY <1>1
  <2> QED
    BY <1>3, <2>2, <2>3 DEF TypeOK
<1>6. answers' \in [Key -> SUBSET (Val \cup {NoVal})]
  <2>1. answers \in [Key -> SUBSET (Val \cup {NoVal})]
    BY DEF TypeOK
  <2>2. PICK S : answers' = [answers EXCEPT ![k] = S] /\ S \in {{v}, answers[k] \cup {v}}
    BY <1>1
  <2>3. S \in SUBSET (Val \cup {NoVal})
    BY <2>1, <2>2
  <2> QED
    BY <2>1, <2>2, <2>3
<1> QED
  BY <1>1, <1>4, <1>5, <1>6 DEF TypeOK

LEMMA TypeStep == TypeOK /\ [Next]_vars => TypeOK'
<1> SUFFICES ASSUME TypeOK, [Next]_vars
             PROVE  TypeOK'
  OBVIOUS
<1>1. CASE \E c \in Node : Elect(c)
  BY <1>1, TypeElect
<1>2. CASE \E n \in Node : Isolate(n) \/ Heal(n)
  BY <1>2 DEF TypeOK, Isolate, Heal, history
<1>3. CASE \E k \in Key, v \in Val : Write(k, v)
  BY <1>3, TypeWrite
<1>4. CASE UNCHANGED vars
  BY <1>4 DEF vars, node, history, TypeOK
<1> QED
  BY <1>1, <1>2, <1>3, <1>4 DEF Next

\* Every variable has its type (TypeOK), for every cluster size.
THEOREM TypeCorrect == Spec => []TypeOK
  BY TypeInit, TypeStep, PTL DEF Spec

-------------------------------------------------------------------------------
\* Elections are safe

LEMMA InvInit == Init => IInv
<1> SUFFICES ASSUME Init PROVE IInv
  OBVIOUS
<1>1. \A n \in Node : state[n] = "FOLLOWER"
  BY DEF Init
<1>2. won = {}
  BY DEF Init
<1> QED
  BY <1>1, <1>2, TypeInit DEF IInv, Isolation, OneLeader, WonIsKnown, ElectionSafety

\* If no node of AtLeast(t) falls below t, a majority stays one.
LEMMA StillKnown ==
    ASSUME NEW t, Cardinality(AtLeast(t)) >= Quorum,
           \A n \in Node : term[n] >= t => term'[n] >= t
    PROVE  Cardinality(AtLeast(t)') >= Quorum
<1>1. AtLeast(t) \in SUBSET Node /\ AtLeast(t)' \in SUBSET Node
  BY DEF AtLeast
<1>2. AtLeast(t) \subseteq AtLeast(t)'
  BY DEF AtLeast
<1> QED
  BY <1>1, <1>2, QuorumGrows

\* The candidate and its voters, when they are a majority, are now at its term.
LEMMA WinnerIsKnown ==
    ASSUME TypeOK, NEW c \in Node, Elect(c), Outcome(c) = "LEADER",
           NEW t, t = term[c] + 1
    PROVE  /\ Cardinality(Voters(c) \cup {c}) >= Quorum
           /\ Cardinality(AtLeast(t)') >= Quorum
<1> DEFINE V == Voters(c)
<1>1. V \in SUBSET Node /\ c \notin V
  BY DEF Voters, Peers
<1>2. IsFiniteSet(V) /\ Cardinality(V) \in Nat
  BY <1>1, NodeSubset
<1>3. Cardinality(V \cup {c}) = Cardinality(V) + 1
  BY <1>1, <1>2, FS_AddElement
<1>4. 1 + Cardinality(V) >= Quorum
  BY DEF Outcome
<1>5. Cardinality(V \cup {c}) >= Quorum
  BY <1>2, <1>3, <1>4 DEF Quorum
<1>6. \A n \in V \cup {c} : n \in Node /\ term'[n] = t /\ t \in Int
  BY <1>1 DEF Elect, TypeOK, Term
<1>7. V \cup {c} \subseteq AtLeast(t)' /\ AtLeast(t)' \in SUBSET Node
  BY <1>6 DEF AtLeast
<1> QED
  BY <1>1, <1>5, <1>7, QuorumGrows

\* The winner's term is newer than every won one: some node that knows the won
\* term voted for it or is the winner.
LEMMA WinnerIsNewer ==
    ASSUME IInv, ~disturbed, NEW c \in Node, Elect(c), Outcome(c) = "LEADER",
           NEW w \in won
    PROVE  w[2] < term[c] + 1
<1>0. TypeOK /\ Cardinality(AtLeast(w[2])) >= Quorum
  BY DEF IInv, WonIsKnown
<1>1. Cardinality(Voters(c) \cup {c}) >= Quorum
  BY <1>0, WinnerIsKnown
<1>2. AtLeast(w[2]) \in SUBSET Node /\ Voters(c) \cup {c} \in SUBSET Node
  BY DEF AtLeast, Voters, Peers
<1>3. PICK n \in Node : n \in AtLeast(w[2]) /\ n \in Voters(c) \cup {c}
  BY <1>0, <1>1, <1>2, QuorumsMeet
<1>4. term[n] >= w[2]
  BY <1>3 DEF AtLeast
<1>5. term[n] \in Int /\ term[c] \in Int /\ w[2] \in Int
  BY <1>0 DEF TypeOK, Term
<1>6. term[n] < term[c] + 1
  BY <1>3, <1>5 DEF Voters
<1> QED
  BY <1>4, <1>5, <1>6

LEMMA InvElect ==
    ASSUME IInv, NEW c \in Node, Elect(c)
    PROVE  IInv'
<1>1. TypeOK /\ TypeOK'
  BY TypeElect DEF IInv
<1>2. /\ state' = [state EXCEPT ![c] = Outcome(c)]
      /\ isolated' = isolated /\ ~isolated[c]
      /\ won' = IF Outcome(c) = "LEADER" THEN won \cup {<<c, term[c] + 1>>} ELSE won
      /\ ~disturbed' => ~disturbed /\ Leaders = {}
  BY DEF Elect
<1>3. Isolation'
  BY <1>1, <1>2 DEF IInv, Isolation, TypeOK
<1>4. ASSUME ~disturbed'
      PROVE  \A n \in Node : state'[n] = "LEADER" => n = c /\ Outcome(c) = "LEADER"
  BY <1>1, <1>2, <1>4 DEF IInv, Isolation, Leaders, TypeOK
<1>5. OneLeader'
  BY <1>4 DEF OneLeader
<1>6. \A n \in Node : \A t \in Term : term[n] >= t => term'[n] >= t
  BY <1>1 DEF Elect, Voters, TypeOK, Term
<1>7. ASSUME ~disturbed', NEW w \in won'
      PROVE  /\ Cardinality(AtLeast(w[2])') >= Quorum
             /\ \A n \in Node : state'[n] = "LEADER" => term'[n] >= w[2]
  <2>1. term'[c] = term[c] + 1 /\ term[c] \in Int
    BY <1>1 DEF Elect, TypeOK, Term
  <2>2. CASE w \in won
    <3>1. Cardinality(AtLeast(w[2])) >= Quorum /\ w[2] \in Term
      BY <1>1, <1>2, <1>7, <2>2 DEF IInv, WonIsKnown, TypeOK
    <3>2. Cardinality(AtLeast(w[2])') >= Quorum
      BY <3>1, <1>6, StillKnown
    <3>3. ASSUME NEW n \in Node, state'[n] = "LEADER"
          PROVE  term'[n] >= w[2]
      <4>1. n = c /\ Outcome(c) = "LEADER"
        BY <1>4, <1>7, <3>3
      <4>2. w[2] < term[c] + 1
        BY <1>2, <1>7, <2>2, <4>1, WinnerIsNewer
      <4>3. w[2] \in Int
        BY <3>1 DEF Term
      <4> QED
        BY <2>1, <4>1, <4>2, <4>3
    <3> QED
      BY <3>2, <3>3
  <2>3. CASE w \notin won
    <3>1. Outcome(c) = "LEADER" /\ w = <<c, term[c] + 1>>
      BY <1>2, <1>7, <2>3
    <3>2. w[2] = term[c] + 1
      BY <3>1
    <3>3. \A n \in Node : state'[n] = "LEADER" => n = c
      BY <1>4, <1>7
    <3>4. Cardinality(AtLeast(w[2])') >= Quorum
      BY <1>1, <3>1, <3>2, WinnerIsKnown
    <3> QED
      BY <2>1, <3>2, <3>3, <3>4
  <2> QED
    BY <2>2, <2>3
<1>8. WonIsKnown'
  BY <1>7 DEF WonIsKnown
<1>9. ElectionSafety'
  <2> SUFFICES ASSUME ~disturbed', NEW a \in won', NEW b \in won', a[2] = b[2]
               PROVE  a = b
    BY DEF ElectionSafety
  <2>1. ~disturbed
    BY <1>2
  <2>2. CASE a \in won /\ b \in won
    BY <2>1, <2>2 DEF IInv, ElectionSafety
  <2>3. ASSUME NEW w \in won, Outcome(c) = "LEADER"
        PROVE  w[2] # term[c] + 1
    <3>1. w[2] < term[c] + 1
      BY <2>1, <2>3, WinnerIsNewer
    <3>2. w[2] \in Int /\ term[c] \in Int
      BY <1>1, <2>3 DEF TypeOK, Term
    <3> QED
      BY <3>1, <3>2
  <2> QED
    BY <1>2, <2>2, <2>3
<1> QED
  BY <1>1, <1>3, <1>5, <1>8, <1>9 DEF IInv

LEMMA InvWrite ==
    ASSUME IInv, NEW k \in Key, NEW v \in Val, Write(k, v)
    PROVE  IInv'
<1>1. TypeOK /\ TypeOK'
  BY TypeWrite DEF IInv
<1>2. PICK l \in Node :
          /\ state[l] = "LEADER"
          /\ \E S \in SUBSET Node :
                term' = [n \in Node |-> IF n \in S THEN term[l] ELSE term[n]]
          /\ UNCHANGED <<state, isolated, won, disturbed>>
  <2>1. PICK l \in Leaders :
            /\ term' = [n \in Node |-> IF n \in Peers(l) \cup {l} THEN term[l] ELSE term[n]]
            /\ UNCHANGED <<state, isolated, won, disturbed>>
    BY DEF Write
  <2>2. l \in Node /\ state[l] = "LEADER" /\ Peers(l) \cup {l} \in SUBSET Node
    BY DEF Leaders, Peers
  <2> QED
    BY <2>1, <2>2
<1>3. Isolation' /\ OneLeader' /\ ElectionSafety'
  BY <1>2 DEF IInv, Isolation, OneLeader, ElectionSafety
<1>4. ASSUME ~disturbed', NEW w \in won'
      PROVE  /\ Cardinality(AtLeast(w[2])') >= Quorum
             /\ \A n \in Node : state'[n] = "LEADER" => term'[n] >= w[2]
  <2>1. ~disturbed /\ w \in won
    BY <1>2, <1>4
  <2>2. /\ Cardinality(AtLeast(w[2])) >= Quorum
        /\ \A n \in Node : state[n] = "LEADER" => term[n] >= w[2]
    BY <2>1 DEF IInv, WonIsKnown
  <2>3. \A n \in Node : term'[n] \in {term[n], term[l]}
    BY <1>2
  <2>4. \A n \in Node : term[n] >= w[2] => term'[n] >= w[2]
    BY <1>2, <2>2, <2>3
  <2>5. Cardinality(AtLeast(w[2])') >= Quorum
    BY <2>2, <2>4, StillKnown
  <2> QED
    BY <1>2, <2>2, <2>4, <2>5
<1> QED
  BY <1>1, <1>3, <1>4 DEF IInv, WonIsKnown

\* Cutting a node off and letting it back takes no term from anybody and makes
\* nobody a leader.
LEMMA InvPartition ==
    ASSUME IInv, NEW m \in Node, Isolate(m) \/ Heal(m)
    PROVE  IInv'
<1>1. /\ TypeOK
      /\ UNCHANGED <<term, log, commit, won, disturbed, acked, answers>>
      /\ \/ /\ isolated' = [isolated EXCEPT ![m] = TRUE]
            /\ state' = [state EXCEPT ![m] = "FOLLOWER"]
         \/ isolated' = [isolated EXCEPT ![m] = FALSE] /\ state' = state
  BY DEF IInv, Isolate, Heal, history
<1>2. TypeOK'
  BY <1>1 DEF TypeOK
<1>3. \A n \in Node : state'[n] = "LEADER" => state[n] = "LEADER"
  BY <1>1 DEF TypeOK
<1>4. Isolation'
  BY <1>1 DEF IInv, Isolation, TypeOK
<1>5. OneLeader' /\ ElectionSafety'
  BY <1>1, <1>3 DEF IInv, OneLeader, ElectionSafety
<1>6. \A t : AtLeast(t)' = AtLeast(t)
  BY <1>1 DEF AtLeast
<1>7. WonIsKnown'
  BY <1>1, <1>3, <1>6 DEF IInv, WonIsKnown
<1> QED
  BY <1>2, <1>4, <1>5, <1>7 DEF IInv

LEMMA InvStep == IInv /\ [Next]_vars => IInv'
<1> SUFFICES ASSUME IInv, [Next]_vars
             PROVE  IInv'
  OBVIOUS
<1>1. CASE \E c \in Node : Elect(c)
  BY <1>1, InvElect
<1>2. CASE \E n \in Node : Isolate(n) \/ Heal(n)
  BY <1>2, InvPartition
<1>3. CASE \E k \in Key, v \in Val : Write(k, v)
  BY <1>3, InvWrite
<1>4. CASE UNCHANGED vars
  BY <1>4 DEF vars, node, history, IInv, TypeOK, Isolation, OneLeader, WonIsKnown,
              ElectionSafety, AtLeast
<1> QED
  BY <1>1, <1>2, <1>3, <1>4 DEF Next

\* As long as elections are started only when no leader can be reached, at most
\* one node is LEADER, whatever was cut off and healed (OneLeader).
THEOREM LeaderIsUnique == Spec => []OneLeader
<1>1. IInv => OneLeader
  BY DEF IInv
<1> QED
  BY InvInit, InvStep, <1>1, PTL DEF Spec

\* Under the same condition no term is won by two nodes, although a write may set
\* its peers back to an older term (ElectionSafety).
THEOREM TermsHaveOneWinner == Spec => []ElectionSafety
<1>1. IInv => ElectionSafety
  BY DEF IInv
<1> QED
  BY InvInit, InvStep, <1>1, PTL DEF Spec

\* Both at once: what raft_net_election may rely on and leaves behind.
THEOREM ElectionsStaySafe == Spec => []ElectionsSafe
BY LeaderIsUnique, TermsHaveOneWinner, PTL DEF ElectionsSafe

-------------------------------------------------------------------------------
\* Acknowledged writes stay on a majority

Holders(e) == {n \in Node : \E i \in DOMAIN log[n] : log[n][i] = e}

LEMMA AppendKeeps ==
    ASSUME NEW s \in Seq(Entry), NEW e \in Entry
    PROVE  /\ \A i \in DOMAIN s : i \in DOMAIN Append(s, e) /\ Append(s, e)[i] = s[i]
           /\ \E i \in DOMAIN Append(s, e) : Append(s, e)[i] = e
<1>1. Len(s) + 1 \in DOMAIN Append(s, e) /\ Append(s, e)[Len(s) + 1] = e
  OBVIOUS
<1> QED
  BY <1>1

LEMMA AckedStep ==
    ASSUME TypeOK, AckedOnQuorum, [Next]_vars
    PROVE  AckedOnQuorum'
<1>1. CASE acked' = acked /\ log' = log
  BY <1>1 DEF AckedOnQuorum
<1>2. ASSUME NEW k \in Key, NEW v \in Val, Write(k, v)
      PROVE  AckedOnQuorum'
  <2>1. PICK l \in Leaders :
            LET e == [term |-> term[l], key |-> k, val |-> v]
                reached == Peers(l) \cup {l}
            IN  /\ log' = [n \in Node |-> IF n \in reached THEN Append(log[n], e) ELSE log[n]]
                /\ acked' = acked \/ (Committed(l) /\ acked' = acked \cup {e})
    BY <1>2 DEF Write
  <2> DEFINE e == [term |-> term[l], key |-> k, val |-> v]
             R == Peers(l) \cup {l}
  <2>2. l \in Node /\ Peers(l) \in SUBSET Node /\ l \notin Peers(l)
    BY DEF Leaders, Peers
  <2>3. e \in Entry /\ log \in [Node -> Seq(Entry)]
    BY <2>2 DEF TypeOK, Entry
  <2> HIDE DEF e
  <2>4. \A n \in R : \E i \in DOMAIN log'[n] : log'[n][i] = e
    <3>1. ASSUME NEW n \in R
          PROVE  log'[n] = Append(log[n], e) /\ log[n] \in Seq(Entry)
      BY <2>1, <2>2, <2>3, <3>1 DEF e
    <3>2. ASSUME NEW n \in R
          PROVE  \E i \in DOMAIN Append(log[n], e) : Append(log[n], e)[i] = e
      BY <2>3, <3>1, <3>2, AppendKeeps
    <3> QED
      BY <3>1, <3>2
  <2>5. \A n \in Node : \A i \in DOMAIN log[n] :
            i \in DOMAIN log'[n] /\ log'[n][i] = log[n][i]
    BY <2>1, <2>3, AppendKeeps DEF e
  <2>6. ASSUME NEW f \in acked
        PROVE  Cardinality(Holders(f)') >= Quorum
    <3>1. Cardinality(Holders(f)) >= Quorum
      BY DEF AckedOnQuorum, Holders
    <3>2. Holders(f) \subseteq Holders(f)' /\ Holders(f) \in SUBSET Node
          /\ Holders(f)' \in SUBSET Node
      BY <2>5 DEF Holders
    <3> QED
      BY <3>1, <3>2, QuorumGrows
  <2>7. ASSUME Committed(l), NEW f, f = e
        PROVE  Cardinality(Holders(f)') >= Quorum
    <3>1. R \in SUBSET Node /\ R \subseteq Holders(f)' /\ Holders(f)' \in SUBSET Node
      BY <2>2, <2>4, <2>7 DEF Holders
    <3>2. Cardinality(R) = Cardinality(Peers(l)) + 1 /\ Cardinality(Peers(l)) \in Nat
      BY <2>2, NodeSubset, FS_AddElement
    <3>3. Cardinality(R) >= Quorum
      BY <2>7, <3>2 DEF Committed, Quorum
    <3> QED
      BY <3>1, <3>3, QuorumGrows
  <2>8. ASSUME NEW f \in acked'
        PROVE  Cardinality(Holders(f)') >= Quorum
    BY <2>1, <2>6, <2>7, <2>8 DEF e
  <2> QED
    BY <2>8 DEF AckedOnQuorum, Holders
<1> QED
  BY <1>1, <1>2 DEF Next, Elect, Isolate, Heal, history, vars, node

\* A write that answered 1 is in the logs of a majority for ever, whatever is
\* elected, cut off or healed afterwards (AckedOnQuorum).
THEOREM AcknowledgedIsReplicated == Spec => []AckedOnQuorum
<1>1. Init => AckedOnQuorum
  BY DEF Init, AckedOnQuorum
<1>2. TypeOK /\ AckedOnQuorum /\ [Next]_vars => AckedOnQuorum'
  BY AckedStep
<1> QED
  BY <1>1, <1>2, TypeCorrect, PTL DEF Spec
-------------------------------------------------------------------------------
\* Reads of the first leader

Single == \A a, b \in won : a = b

\* The leader has every entry of its term of office: its committed entries
\* answer rightly, and committing the rest of its log would as well.
Serves(n) ==
    /\ commit[n] <= Len(log[n])
    /\ \A k \in Key : Get(n, k) \in answers[k]
    /\ \A i \in DOMAIN log[n] : i > commit[n] => log[n][i].val \in answers[log[n][i].key]

\* Until a second election is won: nothing is written before the first one,
\* its winner never returns to an older term, and leads with all it wrote.
FirstTerm ==
    Single =>
        /\ won = {} => \A n \in Node : log[n] = << >> /\ commit[n] = 0
        /\ won = {} => \A k \in Key : NoVal \in answers[k]
        /\ \A w \in won : term[w[1]] >= w[2]
        /\ \A n \in Node : state[n] = "LEADER" => Serves(n) /\ \E w \in won : w[1] = n

LEMMA Greatest ==
    ASSUME NEW L \in Nat, NEW S \in SUBSET (1 .. L), S # {}
    PROVE  \E m \in S : \A j \in S : j <= m
<1> DEFINE F == {L - i : i \in S}
           R == {ss \in Nat \X Nat : ss[1] < ss[2]}
<1>1. IsWellFoundedOn(R, Nat)
  BY NatLessThanWellFounded DEF OpToRel
<1>2. F \in SUBSET Nat /\ F # {}
  <2>1. \A i \in S : L - i \in Nat
    OBVIOUS
  <2> QED BY <2>1
<1>3. PICK x \in F : \A y \in F : ~ (<<y, x>> \in R)
  BY <1>1, <1>2, WFMin, Zenon
<1>4. PICK m \in S : x = L - m
  OBVIOUS
<1>5. ASSUME NEW j \in S PROVE j <= m
  <2>1. /\ L - j \in F /\ L - j \in Nat /\ L - m \in Nat
        /\ j \in 1 .. L /\ m \in 1 .. L
    OBVIOUS
  <2>2. ~ (L - j < L - m)
    BY <1>3, <1>4, <2>1
  <2> QED BY <2>1, <2>2
<1> QED BY <1>5

\* Which entries of a log a read searches up to the commit index, and its answer.
HitsIn(g, c, k) == {i \in DOMAIN g : i <= c /\ g[i].key = k}

Hits(n, k) == HitsIn(log[n], commit[n], k)

LastIn(g, c, k) ==
    IF c > Len(g) \/ HitsIn(g, c, k) = {} THEN NoVal
    ELSE g[CHOOSE i \in HitsIn(g, c, k) : \A j \in HitsIn(g, c, k) : j <= i].val

LEMMA GetSearches ==
    ASSUME NEW n, NEW k
    PROVE  Get(n, k) = LastIn(log[n], commit[n], k) /\ Get(n, k)' = LastIn(log'[n], commit'[n], k)
BY DEF Get, LastIn, HitsIn

LEMMA LastIs ==
    ASSUME NEW g \in Seq(Entry), NEW c \in Nat, c <= Len(g), NEW k,
           NEW m \in HitsIn(g, c, k), \A j \in HitsIn(g, c, k) : j <= m
    PROVE  LastIn(g, c, k) = g[m].val
<1> DEFINE H == HitsIn(g, c, k)
<1>1. H \in SUBSET Nat /\ ~ (c > Len(g)) /\ H # {}
  BY DEF HitsIn
<1>2. LastIn(g, c, k) = g[CHOOSE i \in H : \A j \in H : j <= i].val
  BY <1>1 DEF LastIn
<1> HIDE DEF H
<1>3. ASSUME NEW i \in H, \A j \in H : j <= i PROVE i = m
  BY <1>1, <1>3 DEF H
<1>4. m \in H /\ \A j \in H : j <= m
  BY DEF H
<1>5. (CHOOSE i \in H : \A j \in H : j <= i) = m
  BY <1>3, <1>4
<1> QED BY <1>2, <1>5

LEMMA GetNone ==
    ASSUME NEW n, NEW k
    PROVE  /\ Hits(n, k) = {} => Get(n, k) = NoVal
           /\ Hits(n, k)' = {} => Get(n, k)' = NoVal
BY GetSearches DEF Hits, LastIn

LEMMA GetIs ==
    ASSUME NEW n, NEW k, NEW m
    PROVE  /\ /\ log[n] \in Seq(Entry) /\ commit[n] \in Nat /\ commit[n] <= Len(log[n])
              /\ m \in Hits(n, k) /\ \A j \in Hits(n, k) : j <= m
              => Get(n, k) = log[n][m].val
           /\ /\ log'[n] \in Seq(Entry) /\ commit'[n] \in Nat /\ commit'[n] <= Len(log'[n])
              /\ m \in Hits(n, k)' /\ \A j \in Hits(n, k)' : j <= m
              => Get(n, k)' = log'[n][m].val
BY GetSearches, LastIs DEF Hits

LEMMA StillSingle == Single' /\ won \subseteq won' => Single
BY DEF Single

LEMMA FirstTermElect ==
    ASSUME TypeOK, FirstTerm, NEW c \in Node, Elect(c)
    PROVE  FirstTerm'
<1>1. /\ state' = [state EXCEPT ![c] = Outcome(c)]
      /\ term' = [n \in Node |-> IF n = c \/ n \in Voters(c) THEN term[c] + 1 ELSE term[n]]
      /\ won' = IF Outcome(c) = "LEADER" THEN won \cup {<<c, term[c] + 1>>} ELSE won
      /\ UNCHANGED <<log, commit, answers>>
  BY DEF Elect
<1>2. \A n \in Node : term[n] \in Nat /\ term'[n] >= term[n]
  BY <1>1 DEF TypeOK, Term, Voters
<1>3. \A n \in Node : Serves(n)' <=> Serves(n)
  BY <1>1 DEF Serves, Get
<1> SUFFICES ASSUME Single'
    PROVE  /\ won' = {} => \A n \in Node : log'[n] = << >> /\ commit'[n] = 0
           /\ won' = {} => \A k \in Key : NoVal \in answers'[k]
           /\ \A w \in won' : term'[w[1]] >= w[2]
           /\ \A n \in Node : state'[n] = "LEADER" => Serves(n)' /\ \E w \in won' : w[1] = n
  BY DEF FirstTerm
<1>4. Single
  BY <1>1, StillSingle
<1>5. CASE Outcome(c) # "LEADER"
  <2>1. won' = won
    BY <1>1, <1>5
  <2>2. \A n \in Node : state'[n] = "LEADER" => state[n] = "LEADER"
    BY <1>1, <1>5 DEF TypeOK
  <2>3. \A w \in won : w[1] \in Node /\ w[2] \in Int
    BY DEF TypeOK, Term
  <2>4. \A w \in won' : term'[w[1]] >= w[2]
    <3>1. \A w \in won : term[w[1]] >= w[2]
      BY <1>4 DEF FirstTerm
    <3>2. \A n \in Node : term'[n] \in Int /\ term[n] \in Int
      BY TypeElect DEF TypeOK, Term
    <3> QED BY <1>2, <2>1, <2>3, <3>1, <3>2
  <2> QED BY <1>1, <1>3, <1>4, <2>1, <2>2, <2>4 DEF FirstTerm
<1>6. CASE Outcome(c) = "LEADER"
  <2>1. won = {}
    <3>1. SUFFICES ASSUME NEW w \in won PROVE FALSE
      OBVIOUS
    <3>2. w = <<c, term[c] + 1>>
      BY <1>1, <1>6 DEF Single
    <3>3. term[c] >= term[c] + 1
      BY <1>4, <3>2 DEF FirstTerm
    <3> QED BY <1>2, <3>3
  <2>2. won' = {<<c, term[c] + 1>>} /\ term'[c] = term[c] + 1
    BY <1>1, <1>6, <2>1
  <2>3. \A n \in Node : state'[n] = "LEADER" => n = c
    BY <1>1, <1>4, <2>1 DEF TypeOK, FirstTerm
  <2>4. Serves(c)
    <3>1. log[c] = << >> /\ commit[c] = 0 /\ \A k \in Key : NoVal \in answers[k]
      BY <1>4, <2>1 DEF FirstTerm
    <3>2. \A k \in Key : Hits(c, k) = {}
      BY <3>1 DEF Hits, HitsIn
    <3> QED BY <3>1, <3>2, GetNone DEF Serves
  <2>5. <<c, term[c] + 1>>[1] = c /\ <<c, term[c] + 1>>[2] = term[c] + 1
    OBVIOUS
  <2>6. \A w \in won' : term'[w[1]] >= w[2]
    <3>1. term'[c] \in Int
      BY <1>2, <2>2
    <3>2. ASSUME NEW w \in won' PROVE w[1] = c /\ w[2] = term[c] + 1
      BY <2>2, <2>5
    <3>3. term'[c] >= term[c] + 1
      BY <2>2, <3>1
    <3> QED BY <3>2, <3>3
  <2> QED BY <1>3, <2>2, <2>3, <2>4, <2>5, <2>6
<1> QED BY <1>5, <1>6

LEMMA FirstTermPartition ==
    ASSUME TypeOK, FirstTerm, NEW n \in Node, Isolate(n) \/ Heal(n)
    PROVE  FirstTerm'
<1>1. UNCHANGED <<term, log, commit, won, answers>>
  BY DEF Isolate, Heal, history
<1>2. \A m \in Node : state'[m] = "LEADER" => state[m] = "LEADER"
  BY DEF Isolate, Heal, TypeOK
<1>3. \A m \in Node : Serves(m)' <=> Serves(m)
  BY <1>1 DEF Serves, Get
<1> QED BY <1>1, <1>2, <1>3 DEF FirstTerm, Single
\* What an appended entry leaves of a log.
LEMMA AppendIs ==
    ASSUME NEW s \in Seq(Entry), NEW e \in Entry
    PROVE  /\ Append(s, e) \in Seq(Entry) /\ Len(Append(s, e)) = Len(s) + 1
           /\ DOMAIN s = 1 .. Len(s) /\ DOMAIN Append(s, e) = 1 .. Len(s) + 1
           /\ \A i \in 1 .. Len(s) : Append(s, e)[i] = s[i]
           /\ Append(s, e)[Len(s) + 1] = e
OBVIOUS

\* The leader's own log and commit index after a write.
LEMMA ServesWrite ==
    ASSUME TypeOK, NEW l \in Node, Serves(l), NEW k \in Key, NEW v \in Val, NEW t \in Term,
           log'[l] = Append(log[l], [term |-> t, key |-> k, val |-> v]),
           \/ commit'[l] = Len(log[l]) + 1 /\ answers' = [answers EXCEPT ![k] = {v}]
           \/ commit'[l] = commit[l] /\ answers' = [answers EXCEPT ![k] = @ \cup {v}]
    PROVE  Serves(l)'
<1> DEFINE e == [term |-> t, key |-> k, val |-> v]
           L == Len(log[l])
<1>1. e \in Entry /\ e.key = k /\ e.val = v
  BY DEF Entry
<1> HIDE DEF e
<1>2. /\ log[l] \in Seq(Entry) /\ log'[l] \in Seq(Entry) /\ Len(log'[l]) = L + 1
      /\ DOMAIN log[l] = 1 .. L /\ DOMAIN log'[l] = 1 .. L + 1
      /\ \A i \in 1 .. L : log'[l][i] = log[l][i]
      /\ log'[l][L + 1] = e
  BY <1>1, AppendIs DEF e, TypeOK
<1>3. L \in Nat /\ commit[l] \in Nat /\ commit[l] <= L
  BY <1>2 DEF TypeOK, Serves
<1> HIDE DEF L
<1>4. \A i \in 1 .. L : log[l][i].key \in Key
  <2>1. \A i \in 1 .. L : log[l][i] \in Entry
    <3> DEFINE g == log[l]
    <3>1. g \in Seq(Entry) /\ 1 .. L = 1 .. Len(g)
      BY <1>2 DEF L
    <3> HIDE DEF g
    <3>2. \A i \in 1 .. Len(g) : g[i] \in Entry
      BY <3>1, ElementOfSeq
    <3> QED BY <3>1, <3>2 DEF g
  <2> QED BY <2>1 DEF Entry
<1>5. /\ \A q \in Key : Get(l, q) \in answers[q]
      /\ \A i \in 1 .. L : i > commit[l] => log[l][i].val \in answers[log[l][i].key]
  BY <1>2 DEF Serves
<1>6. \A q \in Key : q # k => answers'[q] = answers[q]
  BY DEF TypeOK
<1>7. CASE commit'[l] = L + 1 /\ answers' = [answers EXCEPT ![k] = {v}]
  <2>1. answers'[k] = {v}
    BY <1>7 DEF TypeOK
  <2>2. Get(l, k)' = v
    <3>1. L + 1 \in Hits(l, k)' /\ \A j \in Hits(l, k)' : j <= L + 1
      BY <1>1, <1>2, <1>3, <1>7 DEF Hits, HitsIn
    <3>2. Get(l, k)' = log'[l][L + 1].val
      <4>1. log'[l] \in Seq(Entry) /\ commit'[l] \in Nat /\ commit'[l] <= Len(log'[l])
        BY <1>2, <1>3, <1>7
      <4> QED BY <3>1, <4>1, GetIs, ZenonT(60)
    <3> QED BY <1>1, <1>2, <3>2
  <2>3. ASSUME NEW q \in Key, q # k PROVE Get(l, q)' \in answers'[q]
    <3>1. Hits(l, q)' = {i \in 1 .. L : log[l][i].key = q}
      <4>1. \A i \in 1 .. L + 1 : i \in 1 .. L \/ i = L + 1
        BY <1>3
      <4>2. \A i \in 1 .. L : i \in 1 .. L + 1 /\ i <= L + 1
        BY <1>3
      <4> QED BY <1>1, <1>2, <1>7, <2>3, <4>1, <4>2 DEF Hits, HitsIn
    <3>2. CASE Hits(l, q)' = {}
      <4>1. Hits(l, q) = {}
        BY <1>2, <3>1, <3>2 DEF Hits, HitsIn
      <4>2. Get(l, q)' = NoVal /\ Get(l, q) = NoVal
        BY <3>2, <4>1, GetNone
      <4> QED BY <1>5, <1>6, <2>3, <4>2
    <3>3. CASE Hits(l, q)' # {}
      <4>1. PICK m \in Hits(l, q)' : \A j \in Hits(l, q)' : j <= m
        <5>1. Hits(l, q)' \in SUBSET (1 .. L)
          BY <3>1
        <5> QED BY <1>3, <3>3, <5>1, Greatest
      <4>2. m \in 1 .. L /\ log[l][m].key = q /\ log'[l][m] = log[l][m]
        BY <1>2, <3>1, <4>1
      <4>3. Get(l, q)' = log[l][m].val
        <5>1. log'[l] \in Seq(Entry) /\ commit'[l] \in Nat /\ commit'[l] <= Len(log'[l])
          BY <1>2, <1>3, <1>7
        <5>2. Get(l, q)' = log'[l][m].val
          BY <4>1, <5>1, GetIs, ZenonT(60)
        <5> QED BY <4>2, <5>2
      <4>4. CASE m > commit[l]
        BY <1>5, <1>6, <2>3, <4>2, <4>3, <4>4
      <4>5. CASE m <= commit[l]
        <5>1. m \in Hits(l, q) /\ \A j \in Hits(l, q) : j <= m
          BY <1>2, <3>1, <4>1, <4>2, <4>5 DEF Hits, HitsIn
        <5>2. Get(l, q) = log[l][m].val
          BY <1>2, <1>3, <5>1, GetIs
        <5> QED BY <1>5, <1>6, <2>3, <4>3, <5>2
      <4>6. m \in Int
        BY <4>2
      <4> QED BY <1>3, <4>4, <4>5, <4>6
    <3> QED BY <3>2, <3>3
  <2>4. \A q \in Key : Get(l, q)' \in answers'[q]
    BY <2>1, <2>2, <2>3
  <2> QED BY <1>2, <1>3, <1>7, <2>4 DEF Serves
<1>8. CASE commit'[l] = commit[l] /\ answers' = [answers EXCEPT ![k] = @ \cup {v}]
  <2>1. answers'[k] = answers[k] \cup {v} /\ \A q \in Key : answers[q] \subseteq answers'[q]
    BY <1>6, <1>8 DEF TypeOK
  <2>2. ASSUME NEW q \in Key PROVE Get(l, q)' = Get(l, q)
    <3>1. Hits(l, q)' = Hits(l, q)
      <4>1. \A i \in 1 .. L + 1 : i <= commit[l] <=> i \in 1 .. L /\ i <= commit[l]
        BY <1>3
      <4>2. \A i \in 1 .. L : i \in 1 .. L + 1
        BY <1>3
      <4> QED BY <1>2, <1>8, <4>1, <4>2 DEF Hits, HitsIn
    <3>2. CASE Hits(l, q) = {}
      BY <3>1, <3>2, GetNone
    <3>3. CASE Hits(l, q) # {}
      <4>1. PICK m \in Hits(l, q) : \A j \in Hits(l, q) : j <= m
        <5>1. Hits(l, q) \in SUBSET (1 .. L)
          BY <1>2 DEF Hits, HitsIn
        <5> QED BY <1>3, <3>3, <5>1, Greatest
      <4>2. Get(l, q) = log[l][m].val
        BY <1>2, <1>3, <4>1, GetIs
      <4>3. Get(l, q)' = log'[l][m].val
        <5>1. log'[l] \in Seq(Entry) /\ commit'[l] \in Nat /\ commit'[l] <= Len(log'[l])
          BY <1>2, <1>3, <1>8
        <5>2. m \in Hits(l, q)' /\ \A j \in Hits(l, q)' : j <= m
          BY <3>1, <4>1
        <5> QED BY <5>1, <5>2, GetIs, ZenonT(60)
      <4>4. m \in 1 .. L
        BY <1>2, <4>1 DEF Hits, HitsIn
      <4> QED BY <1>2, <4>2, <4>3, <4>4
    <3> QED BY <3>2, <3>3
  <2>3. ASSUME NEW i \in 1 .. L + 1, i > commit'[l]
        PROVE  log'[l][i].val \in answers'[log'[l][i].key]
    <3>1. CASE i = L + 1
      BY <1>1, <1>2, <2>1, <3>1
    <3>2. CASE i \in 1 .. L
      BY <1>2, <1>4, <1>5, <1>8, <2>1, <2>3, <3>2
    <3>3. i = L + 1 \/ i \in 1 .. L
      BY <1>3
    <3> QED BY <3>1, <3>2, <3>3
  <2>4. commit'[l] <= Len(log'[l])
    BY <1>2, <1>3, <1>8
  <2> QED BY <1>2, <1>5, <2>1, <2>2, <2>3, <2>4 DEF Serves
<1> QED BY <1>7, <1>8 DEF L

LEMMA FirstTermWrite ==
    ASSUME TypeOK, FirstTerm, NEW k \in Key, NEW v \in Val, Write(k, v)
    PROVE  FirstTerm'
<1> SUFFICES ASSUME Single'
    PROVE  /\ won' # {}
           /\ \A w \in won' : term'[w[1]] >= w[2]
           /\ \A n \in Node : state'[n] = "LEADER" => Serves(n)' /\ \E w \in won' : w[1] = n
  BY DEF FirstTerm
<1>1. PICK l \in Leaders :
          LET e == [term |-> term[l], key |-> k, val |-> v]
              reached == Peers(l) \cup {l}
          IN  /\ log' = [n \in Node |-> IF n \in reached THEN Append(log[n], e) ELSE log[n]]
              /\ term' = [n \in Node |-> IF n \in reached THEN term[l] ELSE term[n]]
              /\ \/ /\ commit' = [n \in Node |-> IF n \in reached THEN Len(log[l]) + 1
                                                 ELSE commit[n]]
                    /\ answers' = [answers EXCEPT ![k] = {v}]
                 \/ /\ answers' = [answers EXCEPT ![k] = @ \cup {v}]
                    /\ commit' = commit
              /\ UNCHANGED <<state, won>>
  BY DEF Write
<1>2. l \in Node /\ state[l] = "LEADER" /\ l \in Peers(l) \cup {l}
  BY DEF Leaders
<1>3. /\ log'[l] = Append(log[l], [term |-> term[l], key |-> k, val |-> v])
      /\ term'[l] = term[l] /\ term[l] \in Term
      /\ \/ commit'[l] = Len(log[l]) + 1 /\ answers' = [answers EXCEPT ![k] = {v}]
         \/ commit'[l] = commit[l] /\ answers' = [answers EXCEPT ![k] = @ \cup {v}]
      /\ won' = won /\ state' = state
  BY <1>1, <1>2 DEF TypeOK
<1>4. Single
  BY <1>3, StillSingle
<1>5. Serves(l) /\ \E w \in won : w[1] = l
  BY <1>2, <1>4 DEF FirstTerm
<1>6. \A w \in won : w[1] = l
  BY <1>4, <1>5 DEF Single
<1>7. Serves(l)'
  BY <1>2, <1>3, <1>5, ServesWrite
<1>8. \A n \in Node : state'[n] = "LEADER" => n = l
  BY <1>3, <1>4, <1>6 DEF FirstTerm
<1>9. \A w \in won' : term'[w[1]] >= w[2]
  BY <1>3, <1>4, <1>6 DEF FirstTerm
<1>10. won' # {} /\ \A n \in Node : state'[n] = "LEADER" => Serves(n)' /\ \E w \in won' : w[1] = n
  <2>1. \E w \in won' : w[1] = l
    BY <1>3, <1>5
  <2>2. won' # {}
    BY <2>1
  <2>3. ASSUME NEW n \in Node, state'[n] = "LEADER"
        PROVE  Serves(n)' /\ \E w \in won' : w[1] = n
    <3>1. n = l
      BY <1>8, <2>3
    <3> QED BY <1>7, <2>1, <3>1
  <2> QED BY <2>2, <2>3
<1> QED BY <1>9, <1>10

LEMMA FirstTermStep == TypeOK /\ FirstTerm /\ [Next]_vars => FirstTerm'
<1> SUFFICES ASSUME TypeOK, FirstTerm, [Next]_vars PROVE FirstTerm'
  OBVIOUS
<1>1. CASE UNCHANGED vars
  <2>1. UNCHANGED <<state, term, log, commit, won, answers>>
    BY <1>1 DEF vars, node, history
  <2>2. \A n \in Node : Serves(n)' <=> Serves(n)
    BY <2>1 DEF Serves, Get
  <2> QED BY <2>1, <2>2 DEF FirstTerm, Single
<1>2. ASSUME NEW n \in Node, Elect(n) \/ Isolate(n) \/ Heal(n) PROVE FirstTerm'
  BY <1>2, FirstTermElect, FirstTermPartition
<1>3. ASSUME NEW k \in Key, NEW v \in Val, Write(k, v) PROVE FirstTerm'
  BY <1>3, FirstTermWrite
<1> QED BY <1>1, <1>2, <1>3 DEF Next

\* A read answers the last acknowledged write of the key or one tried since, as
\* long as no second election was won, for every cluster size (ReadsLatest).
THEOREM FirstLeaderReadsLatest == Spec => []ReadsLatest
<1>1. Init => FirstTerm
  BY DEF Init, FirstTerm
<1>2. TypeOK /\ FirstTerm => ReadsLatest
  <2> SUFFICES ASSUME TypeOK, FirstTerm, Cardinality(won) <= 1, Leaders # {}, NEW k \in Key
               PROVE  Get(Reader, k) \in answers[k]
    BY DEF ReadsLatest
  <2>1. IsFiniteSet(won)
    <3>1. IsFiniteSet(Node) /\ IsFiniteSet(Term)
      BY NodeFinite, FS_Interval, BoundsAssumption DEF Term
    <3>2. IsFiniteSet(Node \X Term)
      BY <3>1, FS_Product
    <3> QED BY <3>2, FS_Subset DEF TypeOK
  <2>2. Single
    <3> SUFFICES ASSUME NEW a \in won, NEW b \in won, a # b PROVE FALSE
      BY DEF Single
    <3>1. {a, b} \subseteq won /\ Cardinality({a, b}) = 2
      <4>1. IsFiniteSet({a}) /\ Cardinality({a}) = 1
        BY FS_Singleton
      <4>2. Cardinality({a} \cup {b}) = 2
        BY <4>1, FS_AddElement
      <4>3. {a} \cup {b} = {a, b}
        OBVIOUS
      <4> QED BY <4>2, <4>3
    <3>2. Cardinality(won) \in Nat /\ Cardinality({a, b}) <= Cardinality(won)
      BY <2>1, <3>1, FS_Subset, FS_CardinalityType
    <3> QED BY <3>1, <3>2
  <2>3. PICK l \in Leaders : TRUE
    OBVIOUS
  <2>4. \A m \in Leaders : m = l
    BY <2>2 DEF Leaders, FirstTerm, Single
  <2>5. Reader = l
    <3>1. l \in Int
      BY SizeAssumption DEF Leaders, Node
    <3>2. Leaders = {l}
      BY <2>3, <2>4
    <3>3. \A m \in {l} : l <= m
      BY <3>1
    <3> QED BY <3>2, <3>3 DEF Reader
  <2> QED BY <2>2, <2>3, <2>5 DEF FirstTerm, Leaders, Serves
<1> QED
  BY <1>1, <1>2, FirstTermStep, TypeCorrect, PTL DEF Spec
===============================================================================
