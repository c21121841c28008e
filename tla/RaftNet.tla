-------------------------------- MODULE RaftNet --------------------------------
(***************************************************************************)
(* The replicated cluster of universe/db/distributed/raft_cluster_net.lp.  *)
(*                                                                         *)
(* An election and a client write each visit all reachable nodes in one    *)
(* call on one thread, so each is one action.  What may happen between     *)
(* calls is that nodes are cut off and come back.                          *)
(***************************************************************************)
EXTENDS Integers, Sequences, FiniteSets

CONSTANTS
    N,          \* cluster_size
    Key, Val,
    NoVal,      \* what a read answers for a key it does not find
    MaxTerm,    \* bound: terms
    MaxLog      \* bound: entries in a node's log

ASSUME SizeAssumption == N \in Nat /\ N >= 3    \* raft_net_cluster_new raises it to 3
ASSUME BoundsAssumption == {MaxTerm, MaxLog} \subseteq Nat
ASSUME NoValAssumption == NoVal \notin Val

Node == 1 .. N
Term == 0 .. MaxTerm
Quorum == N \div 2 + 1
Entry == [term : Term, key : Key, val : Val]

VARIABLES
    state,      \* node.state: CANDIDATE is left within the call that enters it
    term,       \* node.current_term
    log,        \* node.log
    commit,     \* node.commit_index, and last_applied, which is set with it
    isolated,   \* node.is_isolated
    won,        \* history: who won an election in which term
    disturbed,  \* history: an election was started against a reachable leader
    acked,      \* history: entries whose write answered 1
    answers     \* history: for each key, the last value answered with 1 and the
                \* ones tried since

node == <<state, term, log, commit, isolated>>
history == <<won, disturbed, acked, answers>>
vars == <<node, history>>

Init ==
    /\ state = [n \in Node |-> "FOLLOWER"]
    /\ term = [n \in Node |-> 0]
    /\ log = [n \in Node |-> << >>]
    /\ commit = [n \in Node |-> 0]
    /\ isolated = [n \in Node |-> FALSE]
    /\ won = {} /\ disturbed = FALSE
    /\ acked = {} /\ answers = [k \in Key |-> {NoVal}]

Leaders == {n \in Node : state[n] = "LEADER" /\ ~isolated[n]}
Peers(n) == {m \in Node \ {n} : ~isolated[m]}

-------------------------------------------------------------------------------
\* raft_net_trigger_election

\* Mutant of Voters: a peer of the same term votes as well.
VotersAgain(c) == {p \in Peers(c) : term[p] <= term[c] + 1}

\* A peer votes when the candidate's term is new to it; logs are not compared.
Voters(c) == {p \in Peers(c) : term[p] < term[c] + 1}

Outcome(c) ==
    IF 1 + Cardinality(Voters(c)) >= Quorum THEN "LEADER" ELSE "FOLLOWER"

\* voted_for is written and never read.  A peer that votes keeps its state.
Elect(c) ==
    /\ ~isolated[c]
    /\ term[c] < MaxTerm
    /\ term' = [n \in Node |-> IF n = c \/ n \in Voters(c) THEN term[c] + 1 ELSE term[n]]
    /\ state' = [state EXCEPT ![c] = Outcome(c)]
    /\ won' = IF Outcome(c) = "LEADER" THEN won \cup {<<c, term[c] + 1>>} ELSE won
    /\ disturbed' = (disturbed \/ Leaders # {})
    /\ UNCHANGED <<log, commit, isolated, acked, answers>>

-------------------------------------------------------------------------------
\* raft_net_client_write

\* Mutant of Committed: one node less than a quorum is enough.
CommittedEarly(l) == 1 + Cardinality(Peers(l)) >= Quorum - 1

Committed(l) == 1 + Cardinality(Peers(l)) >= Quorum

\* Of several leaders the loop keeps the last one.  The entry is appended
\* wherever a reachable peer's log happens to end, and the peer takes over the
\* leader's term, which may be the older one.
Write(k, v) ==
    \E l \in Leaders :
        LET e == [term |-> term[l], key |-> k, val |-> v]
            reached == Peers(l) \cup {l}
        IN  /\ \A m \in Leaders : m <= l
            /\ \A n \in reached : Len(log[n]) < MaxLog
            /\ log' = [n \in Node |-> IF n \in reached THEN Append(log[n], e) ELSE log[n]]
            /\ term' = [n \in Node |-> IF n \in reached THEN term[l] ELSE term[n]]
            /\ IF Committed(l)
               THEN /\ commit' = [n \in Node |-> IF n \in reached THEN Len(log[l]) + 1
                                                 ELSE commit[n]]
                    /\ acked' = acked \cup {e}
                    /\ answers' = [answers EXCEPT ![k] = {v}]
               ELSE /\ answers' = [answers EXCEPT ![k] = @ \cup {v}]
                    /\ UNCHANGED <<commit, acked>>
            /\ UNCHANGED <<state, isolated, won, disturbed>>

-------------------------------------------------------------------------------
\* Partitions

\* raft_net_partition_isolate
Isolate(n) ==
    /\ ~isolated[n]
    /\ isolated' = [isolated EXCEPT ![n] = TRUE]
    /\ state' = [state EXCEPT ![n] = "FOLLOWER"]
    /\ UNCHANGED <<term, log, commit, history>>

\* raft_net_partition_heal
Heal(n) ==
    /\ isolated[n]
    /\ isolated' = [isolated EXCEPT ![n] = FALSE]
    /\ UNCHANGED <<state, term, log, commit, history>>

Next ==
    \/ \E n \in Node : Elect(n) \/ Isolate(n) \/ Heal(n)
    \/ \E k \in Key, v \in Val : Write(k, v)

Spec == Init /\ [][Next]_vars

-------------------------------------------------------------------------------
\* raft_net_get and raft_net_cluster_get

\* Mutant of Get: the committed entries are searched from the first one.
GetFirst(n, k) ==
    LET hits == {i \in DOMAIN log[n] : i <= commit[n] /\ log[n][i].key = k}
    IN  IF commit[n] > Len(log[n]) \/ hits = {} THEN NoVal
        ELSE log[n][CHOOSE i \in hits : \A j \in hits : i <= j].val

\* The last committed entry of the key; a commit index behind the end of the log
\* ends the loop at once.
Get(n, k) ==
    LET hits == {i \in DOMAIN log[n] : i <= commit[n] /\ log[n][i].key = k}
    IN  IF commit[n] > Len(log[n]) \/ hits = {} THEN NoVal
        ELSE log[n][CHOOSE i \in hits : \A j \in hits : j <= i].val

\* Of several leaders the first one answers.
Reader == CHOOSE l \in Leaders : \A m \in Leaders : l <= m

-------------------------------------------------------------------------------
\* Properties

TypeOK ==
    /\ state \in [Node -> {"FOLLOWER", "LEADER"}]
    /\ term \in [Node -> Term]
    /\ log \in [Node -> Seq(Entry)] /\ commit \in [Node -> Nat]
    /\ isolated \in [Node -> BOOLEAN]
    /\ won \subseteq Node \X Term /\ disturbed \in BOOLEAN
    /\ acked \subseteq Entry /\ answers \in [Key -> SUBSET (Val \cup {NoVal})]

\* As long as elections are started only when no leader can be reached, there is
\* one leader at a time, isolated nodes included, whoever was cut off and came
\* back in between.
OneLeader ==
    ~disturbed => \A n, m \in Node : state[n] = "LEADER" /\ state[m] = "LEADER" => n = m

\* As long as elections are started only when no leader can be reached, no term
\* is won by two nodes, although a write may set a peer back to an older term.
ElectionSafety ==
    ~disturbed => \A a, b \in won : a[2] = b[2] => a = b

\* Under the same condition the elections of a cluster are safe in both senses.
ElectionsSafe == OneLeader /\ ElectionSafety

\* A write that answered 1 is in the logs of a majority, for ever.
AckedOnQuorum ==
    \A e \in acked :
        Cardinality({n \in Node : \E i \in DOMAIN log[n] : log[n][i] = e}) >= Quorum

\* As long as no second election was won, a read answers the last acknowledged
\* write of the key or one tried since, whichever followers were cut off.
ReadsLatest ==
    Cardinality(won) <= 1 /\ Leaders # {} =>
        \A k \in Key : Get(Reader, k) \in answers[k]

\* "State Machine Application" of committed writes over failovers, tested as
\* "quorum failover verified" (tests/test_raft_cluster_net.lp:120): with elections
\* only when no leader can be reached, an acknowledged write is what the state
\* machine of a later leader answers.
CommittedReadable ==
    ~disturbed /\ Leaders # {} => \A k \in Key : Get(Reader, k) \in answers[k]
===============================================================================
