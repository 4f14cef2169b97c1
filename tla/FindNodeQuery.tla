--------------------------- MODULE FindNodeQuery ---------------------------
(***************************************************************************)
(* A FINDNODES lookup (portalnet/src/find/iterators/findnodes.rs) against  *)
(* a network that may answer late, answer after the peer was given up, or  *)
(* never answer.  The pool polls the query; the overlay service reports    *)
(* the answers.                                                            *)
(***************************************************************************)
EXTENDS QueryIterator

CONSTANT Responses    \* the sequences of peers a node may report

ASSUME ResponsesAssumption == Responses \subseteq Seq(Peer)

VARIABLES
    query,      \* the FindNodeQuery
    in_flight   \* peers with a request on the wire that is still unanswered

vars == <<query, in_flight>>

TypeOK ==
    /\ query \in Query
    /\ in_flight \subseteq Peer

Init ==
    /\ \E known \in SUBSET Peer :
          /\ Cardinality(known) <= NumResults
          /\ query = WithConfig(known)
    /\ in_flight = {}

PollQuery ==
    /\ query.progress # "Finished"
    /\ \E outcome \in Poll(query) :
          /\ query' = outcome.query
          /\ in_flight' = IF outcome.peer = NoPeer THEN in_flight
                                                   ELSE in_flight \cup {outcome.peer}

\* FindNodeQuery::on_success
OnSuccess(q, p, response) ==
    IF Answerable(q, p) THEN Incorporate(Settle(q, p, "Succeeded"), response) ELSE q

\* An answer reaches the query.  A request is answered at most once, but the
\* answer may come after the peer was declared Unresponsive or the query ended.
ReceiveNodes(p, response) ==
    /\ p \in in_flight
    /\ in_flight' = in_flight \ {p}
    /\ query' = OnSuccess(query, p, response)

\* on_failure: the Query trait lets its user report any peer at any time.  (The
\* overlay service only reports the target of a FINDNODES lookup, see
\* OverlayQueries.)  A request that is on the wire stays there.
ReportFailure(p) ==
    /\ query' = OnFailure(query, p)
    /\ UNCHANGED in_flight

\* The request is answered by nobody: process_request_failure tells the
\* query nothing, so only the timer can release the peer.
LoseAnswer(p) ==
    /\ p \in in_flight
    /\ in_flight' = in_flight \ {p}
    /\ UNCHANGED query

ClockTick ==
    /\ WaitingOn(query) # {}
    /\ query' = Tick(query)
    /\ UNCHANGED in_flight

Next ==
    \/ PollQuery
    \/ \E p \in Peer, response \in Responses : ReceiveNodes(p, response)
    \/ \E p \in Peer : ReportFailure(p)
    \/ \E p \in Peer : LoseAnswer(p)
    \/ ClockTick

Spec == Init /\ [][Next]_vars

\* The pool polls its queries again and again, and time passes.
Fairness == WF_vars(PollQuery) /\ WF_vars(ClockTick)

-----------------------------------------------------------------------------
(* Safety.                                                                 *)

\* The counter num_waiting is always the number of peers in state Waiting:
\* none of the asserts on it can fire and no decrement can wrap around,
\* whatever the order of answers, failures and timeouts.
NumWaitingExact == query.num_waiting = Cardinality(WaitingOn(query))

\* The peers a finished query returns: the closest NumResults that succeeded.
IsResult(q, p) ==
    /\ p \in SucceededIn(q)
    /\ Cardinality({r \in SucceededIn(q) : r <= p}) <= NumResults

\* A finished lookup is complete: every known peer that is closer to the target
\* than the farthest peer returned either succeeded or was given up, and when
\* fewer than NumResults peers are returned no known peer was left out.
FinishedIsComplete ==
    query.progress = "Finished" =>
        \A p \in Peer :
            query.peers[p] \in {"NotContacted", "Waiting"} =>
                /\ Cardinality(SucceededIn(query)) >= NumResults
                /\ \A r \in Peer : IsResult(query, r) => r < p

-----------------------------------------------------------------------------
(* What a step may do.                                                     *)

\* A peer only moves forward: it is discovered, contacted once, may be given up,
\* and ends Failed or Succeeded for good.
Forward ==
    {<<"Unknown", "NotContacted">>, <<"NotContacted", "Waiting">>,
     <<"Waiting", "Unresponsive">>, <<"Waiting", "Failed">>, <<"Waiting", "Succeeded">>,
     <<"Unresponsive", "Failed">>, <<"Unresponsive", "Succeeded">>}

PeersMoveForward ==
    [][\A p \in Peer : \/ query'.peers[p] = query.peers[p]
                       \/ <<query.peers[p], query'.peers[p]>> \in Forward]_vars

\* "If the query is finished ... calling this function has no effect": the
\* result a finished query holds is final even when answers keep arriving.
FinishedIsFinal ==
    [][query.progress = "Finished" => query'.peers = query.peers
                                   /\ query'.progress = "Finished"]_vars

-----------------------------------------------------------------------------
(* Liveness.                                                               *)

\* The documentation of QueryConfig::peer_timeout: a peer that delivers no result
\* within the timeout is considered unresponsive and no longer waited for.
TimeoutIsNoticed ==
    \A p \in Peer :
        Expired(query, p) ~> (query.peers[p] # "Waiting" \/ query.progress = "Finished")

=============================================================================
