------------------------------- MODULE Gossip -------------------------------
(***************************************************************************)
(* Neighborhood gossip: which peers of the routing table are offered a     *)
(* piece of content (portalnet/src/gossip.rs).                             *)
(***************************************************************************)
EXTENDS Naturals, Sequences, FiniteSets, Functions

CONSTANTS
    NUM_CLOSEST_NODES,  \* peers closest to the content that are always chosen
    NUM_FARTHER_NODES   \* peers chosen at random among the others

ASSUME GossipAssumption == NUM_CLOSEST_NODES \in Nat /\ NUM_FARTHER_NODES \in Nat

Lesser(m, n) == IF m < n THEN m ELSE n

\* The sequences of the elements of a set.
Orders(S) == Injection(1..Cardinality(S), S)

\* The interested peers, closest first, in every order the sort may leave: peers at one
\* distance stay in that of the routing table, which may be any.
SortByDistance(nodes, distance) ==
    {s \in Orders(nodes) : \A i, j \in DOMAIN s : i < j => distance[s[i]] <= distance[s[j]]}

\* select_random_enrs: choose_multiple returns any nodes of that number, in any order.
SelectRandomEnrs(number, nodes) ==
    UNION {Orders(s) : s \in {t \in SUBSET nodes :
                                 Cardinality(t) = Lesser(number, Cardinality(nodes))}}

\* select_gossip_recipients: every selection it may return
SelectGossipRecipients(sorted) ==
    LET closest == SubSeq(sorted, 1, Lesser(NUM_CLOSEST_NODES, Len(sorted)))
        others  == {sorted[i] : i \in NUM_CLOSEST_NODES + 1 .. Len(sorted)}
    IN  {closest \o far : far \in SelectRandomEnrs(NUM_FARTHER_NODES, others)}

\* calculate_interested_enrs: nodes are the connected ones, with the radius the table
\* has for them; the content must be closer than that.
CalculateInterestedEnrs(nodes, distance, radius) ==
    LET interested == {n \in nodes : distance[n] < radius[n]}
    IN  UNION {SelectGossipRecipients(sorted) : sorted \in SortByDistance(interested, distance)}

=============================================================================
