-------------------------- MODULE FindContentQuery --------------------------
(***************************************************************************)
(* A FINDCONTENT lookup (portalnet/src/find/iterators/findcontent.rs): the *)
(* iterator of QueryIterator plus the content a peer may return, either    *)
(* inline or as the id of a uTP connection over which to fetch it.         *)
(***************************************************************************)
EXTENDS QueryIterator

CONSTANT ContentResponses    \* the sequences of closer peers a node may report

ASSUME ContentResponsesAssumption == ContentResponses \subseteq Seq(Peer)

VARIABLES
    content_query,      \* the iterator of the FindContentQuery
    content,            \* its field `content`
    content_in_flight   \* peers with a request on the wire that is still unanswered

cvars == <<content_query, content, content_in_flight>>

NoContent == [kind |-> "None", peer |-> NoPeer]

CInit ==
    /\ \E known \in SUBSET Peer :
          /\ Cardinality(known) <= NumResults
          /\ content_query = WithConfig(known)
    /\ content = NoContent
    /\ content_in_flight = {}

\* Faulty: the content is only looked at by into_result.
PollContent_Late(q, c) == Poll(q)

\* Faulty: answers that it is finished but does not record it.
PollContent_Unrecorded(q, c) ==
    IF c # NoContent THEN {Outcome(q, "Finished", NoPeer)} ELSE Poll(q)

\* FindContentQuery::poll: a query that holds content is finished at once.
PollContent(q, c) ==
    IF c # NoContent THEN {Outcome(Finish(q), "Finished", NoPeer)} ELSE Poll(q)

PollContentQuery ==
    /\ content_query.progress # "Finished"
    /\ \E outcome \in PollContent(content_query, content) :
          /\ content_query' = outcome.query
          /\ content_in_flight' =
                IF outcome.peer = NoPeer THEN content_in_flight
                                         ELSE content_in_flight \cup {outcome.peer}
    /\ UNCHANGED content

\* on_success with ClosestNodes
OnClosestNodes(q, p, response) ==
    IF Answerable(q, p) THEN Incorporate(Settle(q, p, "Succeeded"), response) ELSE q

ReceiveClosestNodes(p, response) ==
    /\ p \in content_in_flight
    /\ content_in_flight' = content_in_flight \ {p}
    /\ content_query' = OnClosestNodes(content_query, p, response)
    /\ UNCHANGED content

\* on_success with Content or ConnectionId: the peer succeeded and the answer
\* replaces whatever the query held; its progress is left alone.
ReceiveContent(p, kind) ==
    /\ p \in content_in_flight
    /\ content_in_flight' = content_in_flight \ {p}
    /\ IF Answerable(content_query, p)
       THEN /\ content_query' = Settle(content_query, p, "Succeeded")
            /\ content' = [kind |-> kind, peer |-> p]
       ELSE UNCHANGED <<content_query, content>>

\* on_failure, for any peer at any time, as in FindNodeQuery.
ReportContentFailure(p) ==
    /\ content_query' = OnFailure(content_query, p)
    /\ UNCHANGED <<content, content_in_flight>>

LoseContentAnswer(p) ==
    /\ p \in content_in_flight
    /\ content_in_flight' = content_in_flight \ {p}
    /\ UNCHANGED <<content_query, content>>

ContentClockTick ==
    /\ WaitingOn(content_query) # {}
    /\ content_query' = Tick(content_query)
    /\ UNCHANGED <<content, content_in_flight>>

CNext ==
    \/ PollContentQuery
    \/ \E p \in Peer, response \in ContentResponses : ReceiveClosestNodes(p, response)
    \/ \E p \in Peer, kind \in {"Content", "Utp"} : ReceiveContent(p, kind)
    \/ \E p \in Peer : ReportContentFailure(p)
    \/ \E p \in Peer : LoseContentAnswer(p)
    \/ ContentClockTick

CSpec == CInit /\ [][CNext]_cvars

\* The service loop keeps polling the pool and time keeps passing; nothing is
\* assumed about the peers.
CFairness == WF_cvars(PollContentQuery) /\ WF_cvars(ContentClockTick)

-----------------------------------------------------------------------------
(* The result.                                                             *)

Closest(nodes) == {p \in nodes : Cardinality({r \in nodes : r <= p}) <= NumResults}

\* Faulty: the source of the content is among the nodes.
NodesToPoke_WithSource(q, source) == Closest(SucceededIn(q))

\* get_nodes_to_poke: the NumResults closest peers that succeeded, the source
\* of the content left out.
NodesToPoke(q, source) == Closest(SucceededIn(q) \ {source})

\* into_result
ContentResult ==
    IF content = NoContent
    THEN [kind |-> "ClosestNodes", nodes |-> Closest(SucceededIn(content_query))]
    ELSE [kind |-> content.kind, nodes |-> NodesToPoke(content_query, content.peer)]

-----------------------------------------------------------------------------
(* Properties.                                                             *)

\* Content is only ever attributed to a peer that succeeded, and a query that
\* finishes with content never pokes the node it got the content from.
ContentHasSource ==
    content # NoContent => /\ content_query.peers[content.peer] = "Succeeded"
                           /\ content.peer \notin ContentResult.nodes

\* A query that was handed content is never seen waiting again: the next poll ends it.
ContentEndsQuery ==
    content # NoContent ~> content_query.progress = "Finished"

\* While content is held no further peer is contacted.
NoContactAfterContent ==
    [][content # NoContent => content_in_flight' \subseteq content_in_flight]_cvars

=============================================================================
