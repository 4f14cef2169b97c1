----------------------------- MODULE MCQueries -----------------------------
(***************************************************************************)
(* Lookups on a small network: a FINDNODES lookup among peers at distances *)
(* 0..MaxDistance, whose answers name at most two of them in either order, *)
(* or a FINDCONTENT lookup, whose answers name at most one.                *)
(***************************************************************************)
EXTENDS FindNodeQuery, FindContentQuery

VARIABLE scope      \* the lookup that is made: "nodes" or "content"

mcvars == <<vars, cvars, scope>>

MCResponses == UNION {[1..n -> Peer] : n \in 0..2}

MCContentResponses == UNION {[1..n -> Peer] : n \in 0..1}

\* The lookup that is not made knows nobody.
MCInit ==
    /\ Init /\ CInit
    /\ \/ scope = "nodes" /\ Known(content_query) = {}
       \/ scope = "content" /\ Known(query) = {}

MCNext ==
    \/ scope = "nodes" /\ Next /\ UNCHANGED <<cvars, scope>>
    \/ scope = "content" /\ CNext /\ UNCHANGED <<vars, scope>>

MCSpec == MCInit /\ [][MCNext]_mcvars /\ (scope = "content" => CFairness)

\* The FINDNODES lookup alone.
NodesSpec == MCInit /\ scope = "nodes" /\ [][MCNext]_mcvars /\ Fairness

=============================================================================
