---------------------------- MODULE LookupProofs ----------------------------
(***************************************************************************)
(* Proofs about FindNodeQuery and FindContentQuery, for every number of    *)
(* peers, every parallelism, number of results and peer timeout, and every *)
(* set of answers.                                                         *)
(***************************************************************************)
EXTENDS FindNodeQuery, FindContentQuery, QueryIteratorProofs

-----------------------------------------------------------------------------
(* The FINDNODES lookup: the counter.                                      *)

\* NumWaitingExact is inductive together with the types.
CountInv == TypeOK /\ NumWaitingExact

LEMMA OnSuccessIsExact ==
    ASSUME NEW q \in Query, Exact(q), NEW p \in Peer, NEW response \in Seq(Peer)
    PROVE  OnSuccess(q, p, response) \in Query /\ Exact(OnSuccess(q, p, response))
<1>1. CASE Answerable(q, p)
  <2> DEFINE s == Settle(q, p, "Succeeded")
  <2>1. s \in Query /\ Exact(s) /\ s.progress # "Finished"
    BY <1>1, SettleIsExact DEF Answerable
  <2> HIDE DEF s
  <2>2. Incorporate(s, response) \in Query /\ Exact(Incorporate(s, response))
    BY <2>1, IncorporateIsExact
  <2> QED
    BY <1>1, <2>2 DEF OnSuccess, s
<1>2. CASE ~Answerable(q, p)
  BY <1>2 DEF OnSuccess
<1> QED
  BY <1>1, <1>2

LEMMA OnFailureIsExact ==
    ASSUME NEW q \in Query, Exact(q), NEW p \in Peer
    PROVE  OnFailure(q, p) \in Query /\ Exact(OnFailure(q, p))
BY SettleIsExact DEF OnFailure

LEMMA CountStep ==
    ASSUME CountInv, [Next]_vars
    PROVE  CountInv'
<1> USE DEF CountInv, TypeOK
<1>0. Exact(query)
  BY DEF NumWaitingExact, Exact
<1>1. SUFFICES query' \in Query /\ Exact(query') /\ in_flight' \subseteq Peer
  BY DEF NumWaitingExact, Exact
<1>2. CASE PollQuery
  <2>1. PICK outcome \in Poll(query) :
          /\ query' = outcome.query
          /\ in_flight' = IF outcome.peer = NoPeer THEN in_flight
                                                   ELSE in_flight \cup {outcome.peer}
    BY <1>2 DEF PollQuery
  <2>2. outcome.query \in Query /\ Exact(outcome.query) /\ outcome.peer \in Peer \cup {NoPeer}
    BY <1>0, PollIsExact
  <2> QED
    BY <2>1, <2>2
<1>3. ASSUME NEW p \in Peer, NEW response \in Responses, ReceiveNodes(p, response)
      PROVE  query' \in Query /\ Exact(query') /\ in_flight' \subseteq Peer
  BY <1>0, <1>3, OnSuccessIsExact, ResponsesAssumption DEF ReceiveNodes
<1>4. ASSUME NEW p \in Peer, ReportFailure(p)
      PROVE  query' \in Query /\ Exact(query') /\ in_flight' \subseteq Peer
  BY <1>0, <1>4, OnFailureIsExact DEF ReportFailure
<1>5. ASSUME NEW p \in Peer, LoseAnswer(p)
      PROVE  query' \in Query /\ Exact(query') /\ in_flight' \subseteq Peer
  BY <1>0, <1>5 DEF LoseAnswer
<1>6. CASE ClockTick
  BY <1>0, <1>6, TickIsExact DEF ClockTick
<1>7. CASE UNCHANGED vars
  BY <1>0, <1>7 DEF vars
<1> QED
  BY <1>2, <1>3, <1>4, <1>5, <1>6, <1>7 DEF Next

\* The initial query counts no peer as waiting, and every step keeps the count.
LEMMA CountInvariance == Spec => []CountInv
<1>1. Init => CountInv
  BY WithConfigIsExact DEF Init, CountInv, TypeOK, NumWaitingExact, Exact
<1> QED
  BY <1>1, CountStep, PTL DEF Spec

\* The query's fields keep their types: no_progress stays below the parallelism,
\* for otherwise on_success has made the query stall.
THEOREM TypeCorrect == Spec => []TypeOK
BY CountInvariance, PTL DEF CountInv

\* num_waiting is the number of Waiting peers whatever the order of answers,
\* failures and timeouts: no assert on it in on_success, on_failure or poll fails.
THEOREM CountIsExact == Spec => []NumWaitingExact
BY CountInvariance, PTL DEF CountInv

-----------------------------------------------------------------------------
(* Completeness.                                                           *)

\* Among the peers that succeeded, those beyond a peer that NumResults of them
\* do not exceed are not part of the result.
LEMMA ResultIsClosest ==
    ASSUME NEW q \in Query, NEW s \in Peer, NEW r \in Peer,
           Cardinality({x \in SucceededIn(q) : x <= s}) >= NumResults,
           IsResult(q, r)
    PROVE  r <= s
<1> SUFFICES ASSUME ~(r <= s) PROVE FALSE
  OBVIOUS
<1> DEFINE upToS == {x \in SucceededIn(q) : x <= s}
           upToR == {x \in SucceededIn(q) : x <= r}
<1>1. upToS \subseteq Peer /\ upToR \subseteq Peer /\ r \in Int /\ s \in Int
  BY QueryConfigAssumption DEF SucceededIn, Peer
<1>2. r \in upToR /\ r \notin upToS /\ upToS \cup {r} \subseteq upToR
  BY <1>1 DEF IsResult, SucceededIn, Peer
<1>3. /\ IsFiniteSet(upToS) /\ Cardinality(upToS) \in Nat
      /\ IsFiniteSet(upToR) /\ Cardinality(upToR) \in Nat
  BY <1>1, PeersAreFinite
<1>4. Cardinality(upToS \cup {r}) = Cardinality(upToS) + 1
  BY <1>2, <1>3, FS_AddElement
<1>5. Cardinality(upToS \cup {r}) <= Cardinality(upToR)
  BY <1>2, <1>3, FS_Subset
<1>6. Cardinality(upToR) <= NumResults
  BY DEF IsResult
<1> QED
  BY <1>3, <1>4, <1>5, <1>6, QueryConfigAssumption

\* FinishedIsComplete as a predicate of a query.
Complete(q) ==
    q.progress = "Finished" =>
        \A p \in Peer :
            q.peers[p] \in {"NotContacted", "Waiting"} =>
                /\ Cardinality(SucceededIn(q)) >= NumResults
                /\ \A r \in Peer : IsResult(q, r) => r < p

\* A poll that ends the query leaves it complete: it stopped at a peer with
\* which enough had succeeded, and every peer before it is settled; or there
\* was no peer left to stop at and, the count being exact, none to wait for.
LEMMA PollCompletes ==
    ASSUME NEW q \in Query, Exact(q), q.progress # "Finished", NEW outcome \in Poll(q)
    PROVE  Complete(outcome.query)
<1> DEFINE s == Sweep(q)
           f == Finish(s)
<1> USE DEF Outcome
<1>1. /\ s \in Query /\ Exact(s) /\ s.progress = q.progress
      /\ s.peers = [p \in Peer |-> IF p \in TimedOut(q) THEN "Unresponsive" ELSE q.peers[p]]
      /\ \A p \in TimedOut(q) : q.peers[p] = "Waiting"
  BY SweepIsExact DEF TimedOut, Expired
<1> HIDE DEF s
<1>2. f \in Query /\ f.peers = s.peers
  BY <1>1, FinishIsExact
<1>3. SucceededIn(f) = SucceededIn(q)
  BY <1>1, <1>2 DEF SucceededIn
<1> HIDE DEF f
<1>4. CASE outcome.query.progress # "Finished"
  BY <1>4 DEF Complete
<1>5. ASSUME NEW stop \in FirstStop(q), q.peers[stop] = "Succeeded", outcome.query = f
      PROVE  Complete(f)
  <2>1. /\ stop \in Peer
        /\ Decisive(q, stop)
        /\ \A t \in Stops(q) : stop <= t
    BY <1>5 DEF FirstStop, Stops, Pending
  <2>2. /\ \A r \in 0..(stop - 1) : ~Pending(q, r)
        /\ Cardinality({r \in SucceededIn(q) : r <= stop}) >= NumResults
    BY <2>1 DEF Decisive
  <2> SUFFICES ASSUME NEW p \in Peer, f.peers[p] \in {"NotContacted", "Waiting"}
               PROVE  /\ Cardinality(SucceededIn(f)) >= NumResults
                      /\ \A r \in Peer : IsResult(f, r) => r < p
    BY DEF Complete
  <2>3. stop < p
    <3>1. q.peers[p] \in {"NotContacted", "Waiting"} /\ p \notin TimedOut(q)
      BY <1>1, <1>2
    <3>2. stop # p /\ stop \in Int /\ p \in Int /\ 0 <= p
      BY <1>5, <2>1, <3>1 DEF Peer
    <3>3. CASE q.peers[p] = "NotContacted"
      BY <2>1, <3>2, <3>3 DEF Stops
    <3>4. CASE Pending(q, p)
      BY <2>2, <3>2, <3>4
    <3>5. CASE Expired(q, p)
      <4>1. PICK t \in Stops(q) : ~(p < t)
        BY <3>1, <3>5 DEF TimedOut
      <4>2. stop <= t /\ t \in Int
        BY <2>1, <4>1 DEF Stops, Peer
      <4> QED
        BY <3>2, <4>1, <4>2
    <3>6. q.timer[p] \in 0..PeerTimeout
      BY DEF Query
    <3> QED
      BY <3>1, <3>3, <3>4, <3>5, <3>6, QueryConfigAssumption DEF Pending, Expired
  <2>4. Cardinality(SucceededIn(f)) >= NumResults
    <3>1. {r \in SucceededIn(q) : r <= stop} \subseteq SucceededIn(q)
      OBVIOUS
    <3>2. /\ IsFiniteSet(SucceededIn(q)) /\ Cardinality(SucceededIn(q)) \in Nat
          /\ Cardinality({r \in SucceededIn(q) : r <= stop}) \in Nat
      BY PeersAreFinite DEF SucceededIn
    <3>3. Cardinality({r \in SucceededIn(q) : r <= stop}) <= Cardinality(SucceededIn(q))
      BY <3>1, <3>2, FS_Subset
    <3> QED
      BY <1>3, <2>2, <3>2, <3>3, QueryConfigAssumption
  <2>5. ASSUME NEW r \in Peer, IsResult(f, r) PROVE r < p
    <3>1. r <= stop
      BY <1>2, <1>3, <2>1, <2>2, <2>5, ResultIsClosest
    <3> QED
      BY <2>1, <2>3, <3>1 DEF Peer
  <2> QED
    BY <2>4, <2>5
<1>6. ASSUME Stops(q) = {}, ~(s.num_waiting > 0), outcome.query = f
      PROVE  Complete(f)
  <2>1. Cardinality(WaitingOn(s)) = 0 /\ IsFiniteSet(WaitingOn(s))
    <3>1. IsFiniteSet(WaitingOn(s)) /\ Cardinality(WaitingOn(s)) \in Nat
      BY PeersAreFinite DEF WaitingOn
    <3> QED
      BY <1>1, <1>6, <3>1 DEF Exact
  <2>2. WaitingOn(s) = {}
    BY <2>1, FS_EmptySet
  <2>3. \A p \in Peer : f.peers[p] \notin {"NotContacted", "Waiting"}
    BY <1>1, <1>2, <1>6, <2>2 DEF Stops, WaitingOn
  <2> QED
    BY <2>3 DEF Complete
<1>7. CASE Stops(q) = {}
  <2>1. outcome = Exhausted(q)
    BY <1>7 DEF Poll
  <2> QED
    BY <1>1, <1>4, <1>6, <1>7, <2>1 DEF Exhausted, s, f
<1>8. CASE Stops(q) # {}
  <2>1. PICK stop \in FirstStop(q) : outcome = AtStop(q, stop)
    BY <1>8 DEF Poll
  <2>2. stop \in Peer
    BY DEF FirstStop, Stops
  <2>3. CASE q.peers[stop] = "Succeeded"
    <3>1. outcome.query = f
      BY <2>1, <2>3 DEF AtStop, s, f
    <3> QED
      BY <1>5, <2>3, <3>1
  <2>4. CASE q.peers[stop] = "NotContacted" /\ ~AtCapacity(q)
    <3>1. s.peers[stop] = "NotContacted"
      BY <1>1, <2>2, <2>4
    <3>2. Contact(s, stop).progress = q.progress
      BY <1>1, <2>2, <3>1, ContactIsExact
    <3> QED
      BY <1>4, <2>1, <2>4, <3>2 DEF AtStop, s
  <2>5. CASE q.peers[stop] # "Succeeded" /\ ~(q.peers[stop] = "NotContacted" /\ ~AtCapacity(q))
    BY <1>1, <1>4, <2>1, <2>5 DEF AtStop, s
  <2> QED
    BY <2>3, <2>4, <2>5
<1> QED
  BY <1>7, <1>8

LEMMA CompleteStep ==
    ASSUME CountInv, Complete(query), [Next]_vars
    PROVE  Complete(query')
<1>0. query \in Query /\ Exact(query)
  BY DEF CountInv, TypeOK, NumWaitingExact, Exact
<1>1. CASE PollQuery
  BY <1>0, <1>1, PollCompletes DEF PollQuery
<1>2. ASSUME NEW p \in Peer, NEW response \in Responses, ReceiveNodes(p, response)
      PROVE  Complete(query')
  <2>1. CASE Answerable(query, p)
    <3> DEFINE q == Settle(query, p, "Succeeded")
    <3>1. q \in Query /\ Exact(q) /\ q.progress # "Finished"
      BY <1>0, <2>1, SettleIsExact DEF Answerable
    <3>2. Incorporate(q, response).progress # "Finished"
      BY <3>1, ResponsesAssumption, IncorporateIsExact
    <3> QED
      BY <1>2, <2>1, <3>2 DEF ReceiveNodes, OnSuccess, Complete
  <2>2. CASE ~Answerable(query, p)
    BY <1>2, <2>2 DEF ReceiveNodes, OnSuccess
  <2> QED
    BY <2>1, <2>2
<1>3. ASSUME NEW p \in Peer, ReportFailure(p)
      PROVE  Complete(query')
  <2>1. CASE Answerable(query, p)
    <3>1. Settle(query, p, "Failed").progress # "Finished"
      BY <1>0, <2>1, SettleIsExact DEF Answerable
    <3> QED
      BY <1>3, <2>1, <3>1 DEF ReportFailure, OnFailure, Complete
  <2>2. CASE ~Answerable(query, p)
    BY <1>3, <2>2 DEF ReportFailure, OnFailure
  <2> QED
    BY <2>1, <2>2
<1>4. ASSUME NEW p \in Peer, LoseAnswer(p)
      PROVE  Complete(query')
  BY <1>4 DEF LoseAnswer
<1>5. CASE ClockTick
  <2>1. query'.peers = query.peers /\ query'.progress = query.progress
    BY <1>0, <1>5, TickIsExact DEF ClockTick
  <2>2. SucceededIn(query') = SucceededIn(query)
    BY <2>1 DEF SucceededIn
  <2> QED
    BY <2>1, <2>2 DEF Complete, IsResult
<1>6. CASE UNCHANGED vars
  BY <1>6 DEF vars
<1> QED
  BY <1>1, <1>2, <1>3, <1>4, <1>5, <1>6 DEF Next

\* A lookup that poll declares Finished has settled every peer closer than the
\* farthest it returns, and stays so when answers arrive afterwards.
THEOREM FinishedCompletely == Spec => []FinishedIsComplete
<1>1. Init => Complete(query)
  BY DEF Init, Complete, WithConfig
<1>2. Complete(query) <=> FinishedIsComplete
  BY DEF Complete, FinishedIsComplete
<1>3. CountInv /\ FinishedIsComplete /\ [Next]_vars => FinishedIsComplete'
  BY <1>2, CompleteStep DEF Complete, FinishedIsComplete
<1> QED
  BY <1>1, <1>2, <1>3, CountInvariance, PTL DEF Spec

-----------------------------------------------------------------------------
(* What a step may do.                                                     *)

LEMMA StepMovesForward ==
    ASSUME CountInv, [Next]_vars
    PROVE  /\ \A p \in Peer : \/ query'.peers[p] = query.peers[p]
                             \/ <<query.peers[p], query'.peers[p]>> \in Forward
           /\ query.progress = "Finished" =>
                 query'.peers = query.peers /\ query'.progress = "Finished"
<1> DEFINE Goal ==
      /\ \A p \in Peer : \/ query'.peers[p] = query.peers[p]
                        \/ <<query.peers[p], query'.peers[p]>> \in Forward
      /\ query.progress = "Finished" =>
            query'.peers = query.peers /\ query'.progress = "Finished"
<1> SUFFICES Goal
  OBVIOUS
<1>0. query \in Query /\ Exact(query) /\ query.peers \in [Peer -> PeerState]
  BY DEF CountInv, TypeOK, NumWaitingExact, Exact, Query
<1>1. CASE PollQuery
  <2>1. PICK outcome \in Poll(query) : query' = outcome.query
    BY <1>1 DEF PollQuery
  <2>2. PollMoves(query, outcome)
    BY <1>0, PollIsExact
  <2> QED
    BY <1>1, <2>1, <2>2 DEF PollQuery, PollMoves, Forward
<1>2. ASSUME NEW p \in Peer, NEW response \in Responses, ReceiveNodes(p, response)
      PROVE  Goal
  <2>1. CASE Answerable(query, p)
    <3> DEFINE q == Settle(query, p, "Succeeded")
    <3>1. /\ q \in Query /\ Exact(q) /\ q.progress # "Finished"
          /\ q.peers = [query.peers EXCEPT ![p] = "Succeeded"]
      BY <1>0, <2>1, SettleIsExact DEF Answerable
    <3>2. query' = Incorporate(q, response)
      BY <1>2, <2>1 DEF ReceiveNodes, OnSuccess
    <3> HIDE DEF q
    <3>3. query'.peers = [r \in Peer |-> IF r \in Reported(response) /\ q.peers[r] = "Unknown"
                                         THEN "NotContacted" ELSE q.peers[r]]
      BY <3>1, <3>2, ResponsesAssumption, IncorporateIsExact
    <3> QED
      BY <1>0, <2>1, <3>1, <3>3 DEF Answerable, Forward
  <2>2. CASE ~Answerable(query, p)
    BY <1>2, <2>2 DEF ReceiveNodes, OnSuccess
  <2> QED
    BY <2>1, <2>2
<1>3. ASSUME NEW p \in Peer, ReportFailure(p)
      PROVE  Goal
  <2>1. CASE Answerable(query, p)
    <3>1. query'.peers = [query.peers EXCEPT ![p] = "Failed"]
      BY <1>0, <1>3, <2>1, SettleIsExact DEF ReportFailure, OnFailure
    <3> QED
      BY <1>0, <2>1, <3>1 DEF Answerable, Forward
  <2>2. CASE ~Answerable(query, p)
    BY <1>3, <2>2 DEF ReportFailure, OnFailure
  <2> QED
    BY <2>1, <2>2
<1>4. ASSUME NEW p \in Peer, LoseAnswer(p)
      PROVE  Goal
  BY <1>4 DEF LoseAnswer
<1>5. CASE ClockTick
  BY <1>0, <1>5, TickIsExact DEF ClockTick
<1>6. CASE UNCHANGED vars
  BY <1>6 DEF vars
<1> QED
  BY <1>1, <1>2, <1>3, <1>4, <1>5, <1>6 DEF Next

\* A peer is contacted at most once and never leaves Failed or Succeeded.
THEOREM OnlyForward == Spec => PeersMoveForward
<1>1. CountInv /\ [Next]_vars =>
        [\A p \in Peer : \/ query'.peers[p] = query.peers[p]
                         \/ <<query.peers[p], query'.peers[p]>> \in Forward]_vars
  BY StepMovesForward
<1> QED
  BY <1>1, CountInvariance, PTL DEF Spec, PeersMoveForward

\* Answers and failures that reach a finished query have no effect on its result.
THEOREM FinishedForGood == Spec => FinishedIsFinal
<1>1. CountInv /\ [Next]_vars =>
        [query.progress = "Finished" => query'.peers = query.peers
                                     /\ query'.progress = "Finished"]_vars
  BY StepMovesForward
<1> QED
  BY <1>1, CountInvariance, PTL DEF Spec, FinishedIsFinal

-----------------------------------------------------------------------------
(* The FINDCONTENT lookup.                                                 *)

\* The query is well formed, and the content it holds is of a peer that succeeded:
\* no answer, failure or timeout takes a peer out of that state again.
ContentInv ==
    /\ content_query \in Query /\ Exact(content_query)
    /\ content_in_flight \subseteq Peer
    /\ content \in [kind : {"Content", "Utp"}, peer : Peer] \cup {NoContent}
    /\ content # NoContent => content_query.peers[content.peer] = "Succeeded"

\* What a step does to the query as long as it neither takes content nor loses it.
KeepsSucceeded(q) ==
    /\ q \in Query /\ Exact(q)
    /\ \A p \in Peer : content_query.peers[p] = "Succeeded" => q.peers[p] = "Succeeded"

LEMMA KeptIsEnough ==
    ASSUME ContentInv, KeepsSucceeded(content_query'), UNCHANGED content,
           content_in_flight' \subseteq Peer
    PROVE  ContentInv'
BY DEF ContentInv, KeepsSucceeded, NoContent, Exact, WaitingOn

LEMMA PollKeepsContent ==
    ASSUME ContentInv, PollContentQuery
    PROVE  ContentInv' /\ (content # NoContent => content_in_flight' = content_in_flight)
<1>0. content_query \in Query /\ Exact(content_query)
  BY DEF ContentInv
<1>1. PICK outcome \in PollContent(content_query, content) :
        /\ content_query' = outcome.query
        /\ content_in_flight' = IF outcome.peer = NoPeer THEN content_in_flight
                                ELSE content_in_flight \cup {outcome.peer}
  BY DEF PollContentQuery
<1>2. UNCHANGED content
  BY DEF PollContentQuery
<1>3. CASE content # NoContent
  <2>1. outcome.query = Finish(content_query) /\ outcome.peer = NoPeer
    BY <1>3 DEF PollContent, Outcome
  <2>2. KeepsSucceeded(content_query')
    BY <1>0, <1>1, <2>1, FinishIsExact DEF KeepsSucceeded
  <2> QED
    BY <1>1, <1>2, <2>1, <2>2, KeptIsEnough DEF ContentInv
<1>4. CASE content = NoContent
  <2>1. outcome \in Poll(content_query)
    BY <1>4 DEF PollContent
  <2>2. /\ outcome.query \in Query /\ Exact(outcome.query)
        /\ outcome.peer \in Peer \cup {NoPeer}
    BY <1>0, <2>1, PollIsExact
  <2> QED
    BY <1>1, <1>2, <1>4, <2>2 DEF ContentInv, Exact, WaitingOn
<1> QED
  BY <1>3, <1>4

LEMMA NodesKeepContent ==
    ASSUME ContentInv, NEW p \in Peer, NEW response \in ContentResponses,
           ReceiveClosestNodes(p, response)
    PROVE  ContentInv'
<1>0. /\ content_query \in Query /\ Exact(content_query) /\ response \in Seq(Peer)
      /\ content_query.peers \in [Peer -> PeerState]
  BY ContentResponsesAssumption DEF ContentInv, Query
<1>1. CASE Answerable(content_query, p)
  <2> DEFINE s == Settle(content_query, p, "Succeeded")
  <2>1. /\ s \in Query /\ Exact(s) /\ s.progress # "Finished"
        /\ s.peers = [content_query.peers EXCEPT ![p] = "Succeeded"]
    BY <1>0, <1>1, SettleIsExact DEF Answerable
  <2>2. content_query' = Incorporate(s, response)
    BY <1>1 DEF ReceiveClosestNodes, OnClosestNodes
  <2> HIDE DEF s
  <2>3. /\ Incorporate(s, response) \in Query /\ Exact(Incorporate(s, response))
        /\ Incorporate(s, response).peers =
              [r \in Peer |-> IF r \in Reported(response) /\ s.peers[r] = "Unknown"
                              THEN "NotContacted" ELSE s.peers[r]]
    BY <1>0, <2>1, IncorporateIsExact
  <2>4. KeepsSucceeded(content_query')
    BY <1>0, <2>1, <2>2, <2>3 DEF KeepsSucceeded
  <2> QED
    BY <2>4, KeptIsEnough DEF ReceiveClosestNodes, ContentInv
<1>2. CASE ~Answerable(content_query, p)
  <2>1. KeepsSucceeded(content_query')
    BY <1>0, <1>2 DEF ReceiveClosestNodes, OnClosestNodes, KeepsSucceeded
  <2> QED
    BY <2>1, KeptIsEnough DEF ReceiveClosestNodes, ContentInv
<1> QED
  BY <1>1, <1>2

\* The peer that sends the content is made a succeeded one in the same step.
LEMMA ContentKeepsContent ==
    ASSUME ContentInv, NEW p \in Peer, NEW kind \in {"Content", "Utp"}, ReceiveContent(p, kind)
    PROVE  ContentInv'
<1>0. /\ content_query \in Query /\ Exact(content_query)
      /\ content_query.peers \in [Peer -> PeerState]
  BY DEF ContentInv, Query
<1>1. CASE Answerable(content_query, p)
  <2>1. /\ Settle(content_query, p, "Succeeded") \in Query
        /\ Exact(Settle(content_query, p, "Succeeded"))
        /\ Settle(content_query, p, "Succeeded").peers
              = [content_query.peers EXCEPT ![p] = "Succeeded"]
    BY <1>0, <1>1, SettleIsExact
  <2>2. /\ content_query' = Settle(content_query, p, "Succeeded")
        /\ content' = [kind |-> kind, peer |-> p]
        /\ content_in_flight' \subseteq Peer
    BY <1>1 DEF ReceiveContent, ContentInv
  <2> QED
    BY <1>0, <2>1, <2>2 DEF ContentInv, Exact, WaitingOn
<1>2. CASE ~Answerable(content_query, p)
  <2>1. UNCHANGED <<content_query, content>> /\ content_in_flight' \subseteq Peer
    BY <1>2 DEF ReceiveContent, ContentInv
  <2>2. KeepsSucceeded(content_query')
    BY <1>0, <2>1 DEF KeepsSucceeded
  <2> QED
    BY <2>1, <2>2, KeptIsEnough
<1> QED
  BY <1>1, <1>2

LEMMA FailureKeepsContent ==
    ASSUME ContentInv, NEW p \in Peer, ReportContentFailure(p)
    PROVE  ContentInv'
<1>0. /\ content_query \in Query /\ Exact(content_query)
      /\ content_query.peers \in [Peer -> PeerState]
  BY DEF ContentInv, Query
<1>1. CASE Answerable(content_query, p)
  <2>1. /\ content_query' = Settle(content_query, p, "Failed")
        /\ content_query' \in Query /\ Exact(content_query')
        /\ content_query'.peers = [content_query.peers EXCEPT ![p] = "Failed"]
    BY <1>0, <1>1, SettleIsExact DEF ReportContentFailure, OnFailure
  <2>2. KeepsSucceeded(content_query')
    BY <1>0, <1>1, <2>1 DEF KeepsSucceeded, Answerable
  <2> QED
    BY <2>2, KeptIsEnough DEF ReportContentFailure, ContentInv
<1>2. CASE ~Answerable(content_query, p)
  <2>1. KeepsSucceeded(content_query')
    BY <1>0, <1>2 DEF ReportContentFailure, OnFailure, KeepsSucceeded
  <2> QED
    BY <2>1, KeptIsEnough DEF ReportContentFailure, ContentInv
<1> QED
  BY <1>1, <1>2

LEMMA ContentStep ==
    ASSUME ContentInv, [CNext]_cvars
    PROVE  ContentInv' /\ (content # NoContent => content_in_flight' \subseteq content_in_flight)
<1>0. content_query \in Query /\ Exact(content_query) /\ content_in_flight \subseteq Peer
  BY DEF ContentInv
<1>1. CASE PollContentQuery
  BY <1>1, PollKeepsContent
<1>2. ASSUME NEW p \in Peer, NEW response \in ContentResponses, ReceiveClosestNodes(p, response)
      PROVE  ContentInv' /\ content_in_flight' \subseteq content_in_flight
  BY <1>2, NodesKeepContent DEF ReceiveClosestNodes
<1>3. ASSUME NEW p \in Peer, NEW kind \in {"Content", "Utp"}, ReceiveContent(p, kind)
      PROVE  ContentInv' /\ content_in_flight' \subseteq content_in_flight
  BY <1>3, ContentKeepsContent DEF ReceiveContent
<1>4. ASSUME NEW p \in Peer, ReportContentFailure(p)
      PROVE  ContentInv' /\ content_in_flight' \subseteq content_in_flight
  BY <1>4, FailureKeepsContent DEF ReportContentFailure
<1>5. ASSUME NEW p \in Peer, LoseContentAnswer(p)
      PROVE  ContentInv' /\ content_in_flight' \subseteq content_in_flight
  <2>1. KeepsSucceeded(content_query')
    BY <1>0, <1>5 DEF LoseContentAnswer, KeepsSucceeded
  <2> QED
    BY <1>0, <1>5, <2>1, KeptIsEnough DEF LoseContentAnswer
<1>6. CASE ContentClockTick
  <2>1. KeepsSucceeded(content_query')
    BY <1>0, <1>6, TickIsExact DEF ContentClockTick, KeepsSucceeded
  <2> QED
    BY <1>0, <1>6, <2>1, KeptIsEnough DEF ContentClockTick
<1>7. CASE UNCHANGED cvars
  <2>1. KeepsSucceeded(content_query')
    BY <1>0, <1>7 DEF cvars, KeepsSucceeded
  <2> QED
    BY <1>0, <1>7, <2>1, KeptIsEnough DEF cvars
<1> QED
  BY <1>1, <1>2, <1>3, <1>4, <1>5, <1>6, <1>7 DEF CNext

LEMMA ContentInvariance == CSpec => []ContentInv
<1>1. CInit => ContentInv
  BY WithConfigIsExact DEF CInit, ContentInv
<1> QED
  BY <1>1, ContentStep, PTL DEF CSpec

\* The content a lookup holds was sent by a peer that succeeded, whatever answers,
\* failures and timeouts come before and after it, and get_nodes_to_poke leaves that
\* peer out.
THEOREM ContentFromItsSource == CSpec => []ContentHasSource
<1>1. ContentInv => ContentHasSource
  <2> SUFFICES ASSUME ContentInv, content # NoContent
               PROVE  content.peer \notin ContentResult.nodes
    BY DEF ContentInv, ContentHasSource
  <2>1. ContentResult.nodes = NodesToPoke(content_query, content.peer)
    BY DEF ContentResult
  <2> QED
    BY <2>1 DEF NodesToPoke, Closest
<1> QED
  BY <1>1, ContentInvariance, PTL

\* The count of waiting peers is exact in a FINDCONTENT lookup as well: none of the
\* asserts of findcontent.rs on num_waiting fails.
THEOREM ContentCountIsExact == CSpec => []Exact(content_query)
BY ContentInvariance, PTL DEF ContentInv

\* A poll of a query that holds content ends it and asks nobody, and no other step
\* sends a request.
THEOREM NobodyAskedAfterContent == CSpec => NoContactAfterContent
<1>1. ContentInv /\ [CNext]_cvars =>
        [content # NoContent => content_in_flight' \subseteq content_in_flight]_cvars
  BY ContentStep
<1> QED
  BY <1>1, ContentInvariance, PTL DEF CSpec, NoContactAfterContent

=============================================================================
