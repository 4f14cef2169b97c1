--------------------------- MODULE OverlayQueries ---------------------------
(***************************************************************************)
(* The overlay service's lookups (portalnet/src/overlay_service.rs and     *)
(* find/query_pool.rs): two query pools that the service loop polls, the   *)
(* requests sent on behalf of the queries, the answers that advance them,  *)
(* and the caller's callback, which has to be answered once per lookup.    *)
(*                                                                         *)
(* All lookups have the same target, so a peer is the same distance in     *)
(* each.  The routing table and discv5's ENR cache are not part of the     *)
(* state: what they return is chosen anew whenever they are read.          *)
(***************************************************************************)
EXTENDS QueryIterator

CONSTANTS
    FindNodeLookups, FindContentLookups,    \* the lookups callers may ask for
    QueryTimeout,                           \* OverlayConfig::query_timeout, in ticks
    Responses                               \* the sequences of peers a node may report

Lookup == FindNodeLookups \cup FindContentLookups

ASSUME OverlayAssumption ==
    /\ FindNodeLookups \cap FindContentLookups = {}
    /\ QueryTimeout \in Nat \ {0}
    /\ Responses \subseteq Seq(Peer)

NotStarted == -1

NoContent == [kind |-> "None", peer |-> NoPeer]

VARIABLES
    stage,      \* of a lookup: new, active (in its pool), fetching (in a task), answered
    query,      \* the iterator of a lookup
    content,    \* FindContentQuery::content
    enrs,       \* QueryInfo::untrusted_enrs, as the set of peers they belong to
    age,        \* ticks since the pool first polled the query (Query::started)
    query_id,   \* the QueryId the pool gave it; both pools count from 0
    requests,   \* <<lookup, peer>>: queued as a command, or active and unanswered
    answers     \* how often the caller's channel was sent a result

vars == <<stage, query, content, enrs, age, query_id, requests, answers>>

Active(pool) == {l \in pool : stage[l] = "active"}

TypeOK ==
    /\ stage \in [Lookup -> {"new", "active", "fetching", "answered"}]
    /\ query \in [Lookup -> Query]
    /\ content \in [Lookup -> [kind : {"Content", "Utp"}, peer : Peer] \cup {NoContent}]
    /\ enrs \in [Lookup -> SUBSET Peer]
    /\ age \in [Lookup -> {NotStarted} \cup 0..QueryTimeout]
    /\ query_id \in [Lookup -> Nat]
    /\ requests \subseteq Lookup \X Peer
    /\ answers \in [Lookup -> Nat]

Init ==
    /\ stage = [l \in Lookup |-> "new"]
    /\ query = [l \in Lookup |-> WithConfig({})]
    /\ content = [l \in Lookup |-> NoContent]
    /\ enrs = [l \in Lookup |-> {}]
    /\ age = [l \in Lookup |-> NotStarted]
    /\ query_id = [l \in Lookup |-> 0]
    /\ requests = {}
    /\ answers = [l \in Lookup |-> 0]

-----------------------------------------------------------------------------
(* Starting a lookup: init_find_nodes_query, init_find_content_query and   *)
(* QueryPool::add_query.                                                   *)

PoolOf(l) == IF l \in FindNodeLookups THEN FindNodeLookups ELSE FindContentLookups

StartLookup(l, known) ==
    /\ stage[l] = "new"
    /\ IF known = {}
       THEN /\ stage' = [stage EXCEPT ![l] = "answered"]
            /\ answers' = [answers EXCEPT ![l] = @ + 1]
            /\ UNCHANGED <<query, enrs, query_id>>
       ELSE /\ stage' = [stage EXCEPT ![l] = "active"]
            /\ query' = [query EXCEPT ![l] = WithConfig(known)]
            /\ enrs' = [enrs EXCEPT ![l] = known]
            /\ query_id' = [query_id EXCEPT
                  ![l] = Cardinality({k \in PoolOf(l) : enrs[k] # {}})]
            /\ UNCHANGED answers
    /\ UNCHANGED <<content, age, requests>>

-----------------------------------------------------------------------------
(* Polling.  QueryPool::poll visits the queries of its hash map and stops  *)
(* at the first one with an event.  Polling one query does not touch the   *)
(* others, so the visit is one PollQuery step per query.                   *)

Elapsed(l) == IF age[l] = NotStarted THEN 0 ELSE age[l]

PollOf(l) ==
    IF content[l] # NoContent THEN {Outcome(Finish(query[l]), "Finished", NoPeer)}
                              ELSE Poll(query[l])

\* find_enr: `elsewhere` is what the routing table and the discovery cache
\* know; after them the untrusted ENRs of all the queries in a pool are searched.
FindEnr(p, elsewhere, queries) ==
    p \in elsewhere \/ \E l \in queries : p \in enrs[l]

\* Neither an answer to wait for in time nor anything to do for the service.
Quiet(l, outcome) ==
    /\ outcome.peer = NoPeer /\ outcome.state # "Finished" /\ Elapsed(l) < QueryTimeout
    /\ query' = [query EXCEPT ![l] = outcome.query]
    /\ UNCHANGED <<stage, requests, answers>>

\* rpc_request refuses to ask the target of a FINDNODES lookup for itself.
RefuseTarget(l, outcome) ==
    /\ outcome.peer = 0 /\ l \in FindNodeLookups
    /\ query' = [query EXCEPT ![l] = OnFailure(outcome.query, 0)]
    /\ UNCHANGED <<stage, requests, answers>>

\* QueryEvent::Waiting: a request is queued for the peer.  Without an ENR the
\* peer is failed instead, and both handlers look for the query in the pool of
\* the FINDNODES lookups.
Contacts(l, outcome, elsewhere) ==
    /\ outcome.peer # NoPeer /\ (outcome.peer = 0 => l \notin FindNodeLookups)
    /\ LET p       == outcome.peer
           polled  == [query EXCEPT ![l] = outcome.query]
           failing == {k \in Active(FindNodeLookups) : query_id[k] = query_id[l]}
       IN  IF FindEnr(p, elsewhere, Active(Lookup))
           THEN /\ requests' = requests \cup {<<l, p>>}
                /\ query' = polled
           ELSE /\ query' = [k \in Lookup |-> IF k \in failing THEN OnFailure(polled[k], p)
                                                               ELSE polled[k]]
                /\ UNCHANGED requests
    /\ UNCHANGED <<stage, answers>>

\* Faulty: the query is reported but not removed from its pool.
Ends_StaysInPool(l, outcome, elsewhere) ==
    /\ outcome.peer = NoPeer
    /\ outcome.state = "Finished" \/ Elapsed(l) >= QueryTimeout
    /\ answers' = [answers EXCEPT ![l] = @ + 1]
    /\ query' = [query EXCEPT ![l] = outcome.query]
    /\ UNCHANGED <<stage, requests>>

\* Faulty: the pool does not look at the query timeout.
Ends_NoTimeout(l, outcome, elsewhere) ==
    /\ outcome.peer = NoPeer
    /\ outcome.state = "Finished"
    /\ stage' = [stage EXCEPT ![l] = "answered"]
    /\ answers' = [answers EXCEPT ![l] = @ + 1]
    /\ query' = [query EXCEPT ![l] = outcome.query]
    /\ UNCHANGED requests

\* QueryEvent::Finished and TimedOut: the query leaves its pool.  A result
\* without content is sent to the caller; content is validated, and first
\* fetched if it comes over uTP, in a task of its own.  The peer to fetch it
\* from is looked up when the query's own ENRs are gone already.
Ends(l, outcome, elsewhere) ==
    /\ outcome.peer = NoPeer
    /\ outcome.state = "Finished" \/ Elapsed(l) >= QueryTimeout
    /\ LET fetches ==
             \/ content[l].kind = "Content"
             \/ /\ content[l].kind = "Utp"
                /\ FindEnr(content[l].peer, elsewhere, Active(Lookup) \ {l})
       IN  /\ stage' = [stage EXCEPT ![l] = IF fetches THEN "fetching" ELSE "answered"]
           /\ answers' = [answers EXCEPT ![l] = IF fetches THEN @ ELSE @ + 1]
    /\ query' = [query EXCEPT ![l] = outcome.query]
    /\ UNCHANGED requests

PollQuery(l) ==
    /\ stage[l] = "active"
    /\ \E outcome \in PollOf(l), elsewhere \in SUBSET Peer :
          \/ Quiet(l, outcome)
          \/ RefuseTarget(l, outcome)
          \/ Contacts(l, outcome, elsewhere)
          \/ Ends(l, outcome, elsewhere)
    /\ age' = [age EXCEPT ![l] = Elapsed(l)]
    /\ UNCHANGED <<content, enrs, query_id>>

-----------------------------------------------------------------------------
(* Answers.  Every TALKREQ yields one response or one error; an error is   *)
(* not reported to the query.                                              *)

RequestFails(l, p) ==
    /\ <<l, p>> \in requests
    /\ requests' = requests \ {<<l, p>>}
    /\ UNCHANGED <<stage, query, content, enrs, age, query_id, answers>>

\* The lookup that an answer to a request of l advances.  The kind of the answer
\* decides in which pool the id of the query is looked up: a node that answers with
\* the wrong kind reaches the query of the other pool that happens to have that id.
Addressed(l, k) ==
    \/ k = l
    \/ PoolOf(k) # PoolOf(l) /\ stage[k] = "active" /\ query_id[k] = query_id[l]

\* Faulty: the reported ENRs go to the iterator only.
ReceiveEnrs_Forgets(l, k, p, response) ==
    /\ <<l, p>> \in requests /\ Addressed(l, k)
    /\ requests' = requests \ {<<l, p>>}
    /\ IF stage[k] = "active" /\ Answerable(query[k], p)
       THEN query' = [query EXCEPT ![k] = Incorporate(Settle(@, p, "Succeeded"), response)]
       ELSE UNCHANGED query
    /\ UNCHANGED <<stage, content, enrs, age, query_id, answers>>

\* advance_find_node_query, advance_find_content_query_with_enrs: the ENRs are
\* kept whether or not the iterator still takes the answer.
ReceiveEnrs(l, k, p, response) ==
    /\ <<l, p>> \in requests /\ Addressed(l, k)
    /\ requests' = requests \ {<<l, p>>}
    /\ IF stage[k] = "active"
       THEN /\ enrs' = [enrs EXCEPT ![k] = @ \cup Reported(response)]
            /\ query' = [query EXCEPT ![k] =
                  IF Answerable(@, p) THEN Incorporate(Settle(@, p, "Succeeded"), response)
                                      ELSE @]
       ELSE UNCHANGED <<enrs, query>>
    /\ UNCHANGED <<stage, content, age, query_id, answers>>

\* advance_find_content_query_with_content and _with_connection_id
ReceiveContent(l, k, p, kind) ==
    /\ k \in FindContentLookups
    /\ <<l, p>> \in requests /\ Addressed(l, k)
    /\ requests' = requests \ {<<l, p>>}
    /\ IF stage[k] = "active" /\ Answerable(query[k], p)
       THEN /\ query' = [query EXCEPT ![k] = Settle(@, p, "Succeeded")]
            /\ content' = [content EXCEPT ![k] = [kind |-> kind, peer |-> p]]
       ELSE UNCHANGED <<query, content>>
    /\ UNCHANGED <<stage, enrs, age, query_id, answers>>

\* The task of a FINDCONTENT lookup ends: the transfer failed, the content is
\* invalid, or it is handed to the caller.  Each way out sends one result.
FetchEnds(l) ==
    /\ stage[l] = "fetching"
    /\ stage' = [stage EXCEPT ![l] = "answered"]
    /\ answers' = [answers EXCEPT ![l] = @ + 1]
    /\ UNCHANGED <<query, content, enrs, age, query_id, requests>>

\* Time passes for the queries in the pools.
ClockTick ==
    /\ Active(Lookup) # {}
    /\ query' = [l \in Lookup |-> IF stage[l] = "active" THEN Tick(query[l]) ELSE query[l]]
    /\ age' = [l \in Lookup |-> IF stage[l] = "active" /\ age[l] \in 0..(QueryTimeout - 1)
                                THEN age[l] + 1 ELSE age[l]]
    /\ UNCHANGED <<stage, content, enrs, query_id, requests, answers>>

Next ==
    \/ \E l \in Lookup :
          \/ \E known \in SUBSET Peer : Cardinality(known) <= NumResults /\ StartLookup(l, known)
          \/ PollQuery(l)
          \/ FetchEnds(l)
          \/ \E p \in Peer :
                \/ RequestFails(l, p)
                \/ \E k \in Lookup, response \in Responses : ReceiveEnrs(l, k, p, response)
                \/ \E k \in Lookup, kind \in {"Content", "Utp"} : ReceiveContent(l, k, p, kind)
    \/ ClockTick

Spec == Init /\ [][Next]_vars

\* The bucket refresh timer alone wakes the service loop, and with it both
\* pools, every minute; a spawned task ends; no answer is ever promised.
Fairness ==
    /\ WF_vars(ClockTick)
    /\ \A l \in Lookup : WF_vars(PollQuery(l)) /\ WF_vars(FetchEnds(l))

-----------------------------------------------------------------------------
(* Properties.                                                             *)

\* The caller's oneshot channel is sent exactly one result, and not before the
\* lookup has left its pool, on all of the paths on which a lookup can end.
AnsweredOnce ==
    \A l \in Lookup : answers[l] = IF stage[l] = "answered" THEN 1 ELSE 0

\* While a query is in its pool the service has an ENR for every peer the query
\* may want to contact: the branches "Cannot query peer with unknown ENR", one
\* of which fails the peer in the wrong pool, cannot be reached.
PeersHaveEnrs ==
    \A l \in Active(Lookup) : Known(query[l]) \subseteq enrs[l]

\* num_waiting is exact in every query of both pools, so that no assert on it
\* panics in the service loop.
NumWaitingExact ==
    \A l \in Lookup : query[l].num_waiting = Cardinality(WaitingOn(query[l]))

\* Every lookup ends and its caller gets an answer, whatever the peers do: a
\* query that no peer timeout releases is ended by the pool's query_timeout.
EventuallyAnswered ==
    \A l \in Lookup : stage[l] = "active" ~> answers[l] = 1

=============================================================================
