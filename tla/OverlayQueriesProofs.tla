------------------------ MODULE OverlayQueriesProofs ------------------------
(***************************************************************************)
(* Proofs about the lookups of the overlay service (OverlayQueries), for   *)
(* any lookups, peers and bounds.                                          *)
(***************************************************************************)
EXTENDS OverlayQueries, QueryIteratorProofs

-----------------------------------------------------------------------------
(* Lookups.                                                                *)

\* Every query is well typed and counts its waiting peers exactly, and the ENRs
\* at hand cover the peers it knows.
QueryInv ==
    /\ stage \in [Lookup -> {"new", "active", "fetching", "answered"}]
    /\ query \in [Lookup -> Query]
    /\ enrs \in [Lookup -> SUBSET Peer]
    /\ requests \subseteq Lookup \X Peer
    /\ NumWaitingExact
    /\ PeersHaveEnrs

\* While PeersHaveEnrs holds, find_enr finds every peer a query contacts.
LEMMA EnrIsFound ==
    ASSUME QueryInv, NEW l \in Lookup, stage[l] = "active", NEW p \in Peer,
           query[l].peers[p] # "Unknown", NEW elsewhere
    PROVE  FindEnr(p, elsewhere, Active(Lookup))
<1>1. l \in Active(Lookup)
  BY DEF Active
<1>2. p \in Known(query[l])
  BY DEF Known
<1> QED
  BY <1>1, <1>2 DEF QueryInv, PeersHaveEnrs, FindEnr

\* The poll of a lookup, whether or not it holds content.
LEMMA PollOfIsExact ==
    ASSUME QueryInv, NEW l \in Lookup, NEW outcome \in PollOf(l)
    PROVE  /\ outcome.query \in Query /\ Exact(outcome.query)
           /\ Known(outcome.query) = Known(query[l])
           /\ outcome.peer \in Peer \cup {NoPeer}
           /\ outcome.peer # NoPeer => /\ query[l].peers[outcome.peer] = "NotContacted"
                                       /\ outcome.query.peers[outcome.peer] = "Waiting"
<1>1. query[l] \in Query /\ Exact(query[l])
  BY DEF QueryInv, NumWaitingExact, Exact
<1>2. CASE outcome = Outcome(Finish(query[l]), "Finished", NoPeer)
  BY <1>1, <1>2, FinishIsExact DEF Outcome
<1>3. CASE outcome \in Poll(query[l])
  <2>1. /\ outcome.query \in Query /\ Exact(outcome.query)
        /\ Known(outcome.query) = Known(query[l])
        /\ outcome.peer \in Peer \cup {NoPeer} /\ PollMoves(query[l], outcome)
    BY <1>1, <1>3, PollIsExact
  <2> QED
    BY <2>1 DEF PollMoves
<1> QED
  BY <1>2, <1>3 DEF PollOf

\* A step that changes one query, to one whose peers all have ENRs.
LEMMA OneQueryChanges ==
    ASSUME QueryInv, NEW l \in Lookup, NEW q \in Query, Exact(q),
           query' = [query EXCEPT ![l] = q],
           stage' \in [Lookup -> {"new", "active", "fetching", "answered"}],
           enrs' \in [Lookup -> SUBSET Peer],
           requests' \subseteq Lookup \X Peer,
           \A k \in Lookup \ {l} : stage'[k] = stage[k] /\ enrs'[k] = enrs[k],
           stage'[l] = "active" => Known(q) \subseteq enrs'[l]
    PROVE  QueryInv'
<1>1. query' \in [Lookup -> Query]
  BY DEF QueryInv
<1>2. \A k \in Lookup : query'[k] = IF k = l THEN q ELSE query[k]
  BY DEF QueryInv
<1>3. NumWaitingExact'
  <2> SUFFICES ASSUME NEW k \in Lookup
               PROVE  query'[k].num_waiting = Cardinality(WaitingOn(query'[k]))
    BY Zenon DEF NumWaitingExact, WaitingOn
  <2> QED
    BY <1>2 DEF QueryInv, NumWaitingExact, Exact
<1>4. PeersHaveEnrs'
  <2> SUFFICES ASSUME NEW k \in Lookup, stage'[k] = "active"
               PROVE  Known(query'[k]) \subseteq enrs'[k]
    BY DEF PeersHaveEnrs, Active, Known
  <2> QED
    BY <1>2 DEF QueryInv, PeersHaveEnrs, Active
<1> QED
  BY <1>1, <1>3, <1>4 DEF QueryInv

\* A step that leaves every query alone and activates none.
LEMMA NoQueryChanges ==
    ASSUME QueryInv, UNCHANGED <<query, enrs>>,
           stage' \in [Lookup -> {"new", "active", "fetching", "answered"}],
           \A k \in Lookup : stage'[k] = "active" => stage[k] = "active",
           requests' \subseteq Lookup \X Peer
    PROVE  QueryInv'
<1>1. NumWaitingExact'
  BY DEF QueryInv, NumWaitingExact, WaitingOn
<1>2. PeersHaveEnrs'
  BY DEF QueryInv, PeersHaveEnrs, Active, Known
<1> QED
  BY <1>1, <1>2 DEF QueryInv

\* What an answer leaves behind, taken or not.
LEMMA AnswerIsExact ==
    ASSUME NEW q \in Query, Exact(q), NEW p \in Peer, NEW response \in Seq(Peer),
           NEW s, s = IF Answerable(q, p) THEN Incorporate(Settle(q, p, "Succeeded"), response)
                                          ELSE q
    PROVE  s \in Query /\ Exact(s) /\ Known(s) \subseteq Known(q) \cup Reported(response)
<1> DEFINE t == Settle(q, p, "Succeeded")
<1>1. CASE Answerable(q, p)
  <2>1. t \in Query /\ Exact(t) /\ Known(t) = Known(q) /\ t.progress # "Finished"
    BY <1>1, SettleIsExact, Zenon DEF Answerable
  <2> HIDE DEF t
  <2>2. /\ Incorporate(t, response) \in Query /\ Exact(Incorporate(t, response))
        /\ Known(Incorporate(t, response)) = Known(t) \cup Reported(response)
    BY <2>1, IncorporateIsExact, Zenon
  <2>3. s = Incorporate(t, response)
    BY <1>1 DEF t
  <2> QED
    BY <2>1, <2>2, <2>3
<1>2. CASE ~Answerable(q, p)
  BY <1>2
<1> QED
  BY <1>1, <1>2

LEMMA InitQueryInv == Init => QueryInv
<1> SUFFICES ASSUME Init PROVE QueryInv
  OBVIOUS
<1>1. WithConfig({}) \in Query /\ Exact(WithConfig({}))
  BY WithConfigIsExact
<1>2. \A l \in Lookup : query[l] = WithConfig({}) /\ stage[l] = "new"
  BY DEF Init
<1>3. query \in [Lookup -> Query]
  BY <1>1 DEF Init
<1>4. NumWaitingExact
  BY <1>1, <1>2 DEF NumWaitingExact, Exact
<1>5. PeersHaveEnrs
  BY <1>2 DEF PeersHaveEnrs, Active
<1> QED
  BY <1>3, <1>4, <1>5 DEF QueryInv, Init

LEMMA StartKeepsQueryInv ==
    ASSUME QueryInv, NEW l \in Lookup, NEW known \in SUBSET Peer, StartLookup(l, known)
    PROVE  QueryInv'
<1>1. CASE known = {}
  <2>1. /\ UNCHANGED <<query, enrs, requests>>
        /\ stage' = [stage EXCEPT ![l] = "answered"]
    BY <1>1 DEF StartLookup
  <2>2. query[l] \in Query /\ Exact(query[l]) /\ query' = [query EXCEPT ![l] = query[l]]
    BY <2>1 DEF QueryInv, NumWaitingExact, Exact
  <2>3. /\ stage' \in [Lookup -> {"new", "active", "fetching", "answered"}]
        /\ \A k \in Lookup \ {l} : stage'[k] = stage[k]
        /\ stage'[l] = "answered"
    BY <2>1 DEF QueryInv
  <2> QED
    BY <2>1, <2>2, <2>3, OneQueryChanges, Zenon DEF QueryInv
<1>2. CASE known # {}
  <2>1. /\ query' = [query EXCEPT ![l] = WithConfig(known)]
        /\ enrs' = [enrs EXCEPT ![l] = known]
        /\ stage' = [stage EXCEPT ![l] = "active"]
        /\ requests' = requests
    BY <1>2 DEF StartLookup
  <2>2. /\ WithConfig(known) \in Query /\ Exact(WithConfig(known))
        /\ Known(WithConfig(known)) = known
    BY WithConfigIsExact
  <2>3. /\ stage' \in [Lookup -> {"new", "active", "fetching", "answered"}]
        /\ enrs' \in [Lookup -> SUBSET Peer] /\ enrs'[l] = known
        /\ \A k \in Lookup \ {l} : stage'[k] = stage[k] /\ enrs'[k] = enrs[k]
    BY <2>1 DEF QueryInv
  <2> QED
    BY <2>1, <2>2, <2>3, OneQueryChanges, Zenon DEF QueryInv
<1> QED
  BY <1>1, <1>2

LEMMA PollKeepsQueryInv ==
    ASSUME QueryInv, NEW l \in Lookup, PollQuery(l)
    PROVE  QueryInv'
<1>1. PICK outcome \in PollOf(l), elsewhere \in SUBSET Peer :
          \/ Quiet(l, outcome)
          \/ RefuseTarget(l, outcome)
          \/ Contacts(l, outcome, elsewhere)
          \/ Ends(l, outcome, elsewhere)
  BY DEF PollQuery
<1>2. stage[l] = "active" /\ enrs' = enrs /\ enrs' \in [Lookup -> SUBSET Peer]
  BY DEF PollQuery, QueryInv
<1>3. /\ outcome.query \in Query /\ Exact(outcome.query)
      /\ Known(outcome.query) = Known(query[l])
      /\ outcome.peer \in Peer \cup {NoPeer}
      /\ outcome.peer # NoPeer => /\ query[l].peers[outcome.peer] = "NotContacted"
                                  /\ outcome.query.peers[outcome.peer] = "Waiting"
  BY PollOfIsExact
<1>4. Known(query[l]) \subseteq enrs'[l]
  BY <1>2 DEF QueryInv, PeersHaveEnrs, Active
<1>5. CASE Quiet(l, outcome)
  BY <1>2, <1>3, <1>4, <1>5, OneQueryChanges, Zenon DEF Quiet, QueryInv
<1>6. CASE RefuseTarget(l, outcome)
  <2> DEFINE q == OnFailure(outcome.query, 0)
  <2>1. 0 \in Peer
    BY QueryConfigAssumption DEF Peer
  <2>2. q \in Query /\ Exact(q) /\ Known(q) = Known(outcome.query)
    BY <1>3, <2>1, SettleIsExact, Zenon DEF OnFailure
  <2> HIDE DEF q
  <2>3. query' = [query EXCEPT ![l] = q] /\ UNCHANGED <<stage, requests>>
    BY <1>6 DEF RefuseTarget, q
  <2> QED
    BY <1>2, <1>3, <1>4, <2>2, <2>3, OneQueryChanges, Zenon DEF QueryInv
<1>7. CASE Contacts(l, outcome, elsewhere)
  <2>1. outcome.peer \in Peer /\ query[l].peers[outcome.peer] = "NotContacted"
    BY <1>3, <1>7 DEF Contacts
  <2>2. FindEnr(outcome.peer, elsewhere, Active(Lookup))
    BY <1>2, <2>1, EnrIsFound
  <2>3. /\ requests' = requests \cup {<<l, outcome.peer>>}
        /\ query' = [query EXCEPT ![l] = outcome.query]
        /\ stage' = stage
    BY <1>7, <2>2 DEF Contacts
  <2>4. requests' \subseteq Lookup \X Peer
    BY <2>1, <2>3 DEF QueryInv
  <2> QED
    BY <1>2, <1>3, <1>4, <2>3, <2>4, OneQueryChanges, Zenon DEF QueryInv
<1>8. CASE Ends(l, outcome, elsewhere)
  <2>1. /\ stage' \in [Lookup -> {"new", "active", "fetching", "answered"}]
        /\ \A k \in Lookup \ {l} : stage'[k] = stage[k]
        /\ query' = [query EXCEPT ![l] = outcome.query]
        /\ requests' = requests
    BY <1>8 DEF Ends, QueryInv
  <2> QED
    BY <1>2, <1>3, <1>4, <2>1, OneQueryChanges, Zenon DEF QueryInv
<1> QED
  BY <1>1, <1>5, <1>6, <1>7, <1>8

LEMMA AnswerKeepsQueryInv ==
    ASSUME QueryInv, NEW l \in Lookup, NEW k \in Lookup, NEW p \in Peer,
           NEW response \in Responses, ReceiveEnrs(l, k, p, response)
    PROVE  QueryInv'
<1>1. response \in Seq(Peer) /\ Reported(response) \subseteq Peer
  BY OverlayAssumption DEF Reported
<1>2. /\ requests' \subseteq Lookup \X Peer /\ stage' = stage
      /\ query[k] \in Query /\ Exact(query[k])
  BY DEF ReceiveEnrs, QueryInv, NumWaitingExact, Exact
<1>3. CASE stage[k] = "active"
  <2> DEFINE q == IF Answerable(query[k], p)
                  THEN Incorporate(Settle(query[k], p, "Succeeded"), response)
                  ELSE query[k]
  <2>1. q \in Query /\ Exact(q) /\ Known(q) \subseteq Known(query[k]) \cup Reported(response)
    BY <1>1, <1>2, AnswerIsExact
  <2>2. query' = [query EXCEPT ![k] = q]
    BY <1>3 DEF ReceiveEnrs, QueryInv
  <2> HIDE DEF q
  <2>3. /\ enrs' \in [Lookup -> SUBSET Peer]
        /\ enrs'[k] = enrs[k] \cup Reported(response)
        /\ \A j \in Lookup \ {k} : enrs'[j] = enrs[j]
    BY <1>1, <1>3 DEF ReceiveEnrs, QueryInv
  <2>4. Known(query[k]) \subseteq enrs[k]
    BY <1>3 DEF QueryInv, PeersHaveEnrs, Active
  <2> QED
    BY <1>2, <2>1, <2>2, <2>3, <2>4, OneQueryChanges, Zenon DEF QueryInv
<1>4. CASE stage[k] # "active"
  <2>1. UNCHANGED <<query, enrs>>
    BY <1>4 DEF ReceiveEnrs
  <2> QED
    BY <1>2, <2>1, NoQueryChanges DEF QueryInv
<1> QED
  BY <1>3, <1>4

LEMMA ContentKeepsQueryInv ==
    ASSUME QueryInv, NEW l \in Lookup, NEW k \in Lookup, NEW p \in Peer, NEW how,
           ReceiveContent(l, k, p, how)
    PROVE  QueryInv'
<1>1. /\ requests' \subseteq Lookup \X Peer /\ stage' = stage /\ enrs' = enrs
      /\ query[k] \in Query /\ Exact(query[k])
  BY DEF ReceiveContent, QueryInv, NumWaitingExact, Exact
<1>2. CASE stage[k] = "active" /\ Answerable(query[k], p)
  <2> DEFINE q == Settle(query[k], p, "Succeeded")
  <2>1. q \in Query /\ Exact(q) /\ Known(q) = Known(query[k])
    BY <1>1, <1>2, SettleIsExact, Zenon
  <2>2. query' = [query EXCEPT ![k] = q]
    BY <1>2 DEF ReceiveContent
  <2> HIDE DEF q
  <2>3. Known(query[k]) \subseteq enrs[k]
    BY <1>2 DEF QueryInv, PeersHaveEnrs, Active
  <2> QED
    BY <1>1, <2>1, <2>2, <2>3, OneQueryChanges, Zenon DEF QueryInv
<1>3. CASE ~(stage[k] = "active" /\ Answerable(query[k], p))
  <2>1. query' = query
    BY <1>3 DEF ReceiveContent
  <2> QED
    BY <1>1, <2>1, NoQueryChanges DEF QueryInv
<1> QED
  BY <1>2, <1>3

LEMMA TickKeepsQueryInv ==
    ASSUME QueryInv, ClockTick
    PROVE  QueryInv'
<1>1. /\ UNCHANGED <<stage, enrs, requests>>
      /\ \A l \in Lookup : query'[l] = IF stage[l] = "active" THEN Tick(query[l]) ELSE query[l]
  BY DEF ClockTick
<1>2. \A l \in Lookup : query[l] \in Query /\ Exact(query[l])
  BY DEF QueryInv, NumWaitingExact, Exact
<1>3. \A l \in Lookup : /\ query'[l] \in Query /\ Exact(query'[l])
                         /\ Known(query'[l]) = Known(query[l])
  BY <1>1, <1>2, TickIsExact
<1>4. query' \in [Lookup -> Query]
  BY <1>3 DEF ClockTick
<1>5. NumWaitingExact'
  BY <1>3 DEF NumWaitingExact, Exact, WaitingOn
<1>6. PeersHaveEnrs'
  BY <1>1, <1>3 DEF QueryInv, PeersHaveEnrs, Active, Known
<1> QED
  BY <1>1, <1>4, <1>5, <1>6 DEF QueryInv

LEMMA NextQueryInv == QueryInv /\ [Next]_vars => QueryInv'
<1> SUFFICES ASSUME QueryInv, [Next]_vars PROVE QueryInv'
  OBVIOUS
<1>1. CASE UNCHANGED vars
  BY <1>1, NoQueryChanges DEF vars, QueryInv
<1>2. ASSUME NEW l \in Lookup, FetchEnds(l) PROVE QueryInv'
  BY <1>2, NoQueryChanges DEF FetchEnds, QueryInv
<1>3. ASSUME NEW l \in Lookup, NEW p \in Peer, RequestFails(l, p) PROVE QueryInv'
  BY <1>3, NoQueryChanges DEF RequestFails, QueryInv
<1> QED
  BY <1>1, <1>2, <1>3, StartKeepsQueryInv, PollKeepsQueryInv, AnswerKeepsQueryInv,
     ContentKeepsQueryInv, TickKeepsQueryInv DEF Next

\* The service always has the ENR of a peer that one of its queries contacts, so
\* neither "Cannot query peer with unknown ENR" branch runs, however many
\* lookups are active and whatever the routing table forgets in the meantime.
THEOREM EnrsAtHand == Spec => []PeersHaveEnrs
<1>1. QueryInv => PeersHaveEnrs
  BY DEF QueryInv
<1> QED
  BY <1>1, InitQueryInv, NextQueryInv, PTL DEF Spec

\* No assert on num_waiting fails in any query of the two pools.
THEOREM CountsAreExact == Spec => []NumWaitingExact
<1>1. QueryInv => NumWaitingExact
  BY DEF QueryInv
<1> QED
  BY <1>1, InitQueryInv, NextQueryInv, PTL DEF Spec

-----------------------------------------------------------------------------
(* The callback.                                                           *)

AnswerInv ==
    /\ stage \in [Lookup -> {"new", "active", "fetching", "answered"}]
    /\ answers \in [Lookup -> Nat]
    /\ AnsweredOnce

\* A lookup moves on, and its caller is answered as it comes to its end.
LEMMA AnswerStep ==
    ASSUME AnswerInv, NEW l \in Lookup, stage[l] # "answered",
           NEW s \in {"active", "fetching", "answered"},
           stage' = [stage EXCEPT ![l] = s],
           answers' = [answers EXCEPT ![l] = IF s = "answered" THEN answers[l] + 1 ELSE answers[l]]
    PROVE  AnswerInv'
<1>1. /\ stage \in [Lookup -> {"new", "active", "fetching", "answered"}]
      /\ answers \in [Lookup -> Nat]
  BY DEF AnswerInv
<1>2. \A k \in Lookup : answers[k] = IF stage[k] = "answered" THEN 1 ELSE 0
  BY DEF AnswerInv, AnsweredOnce
<1>3. answers[l] = 0
  BY <1>2
<1>4. /\ stage' \in [Lookup -> {"new", "active", "fetching", "answered"}]
      /\ answers' \in [Lookup -> Nat]
  BY <1>1
<1>5. ASSUME NEW k \in Lookup PROVE answers'[k] = IF stage'[k] = "answered" THEN 1 ELSE 0
  <2>1. CASE k = l
    BY <1>1, <1>3, <2>1
  <2>2. CASE k # l
    BY <1>1, <1>2, <2>2
  <2> QED
    BY <2>1, <2>2
<1> QED
  BY <1>4, <1>5 DEF AnswerInv, AnsweredOnce

LEMMA NoAnswerStep ==
    ASSUME AnswerInv, UNCHANGED <<stage, answers>>
    PROVE  AnswerInv'
BY DEF AnswerInv, AnsweredOnce

LEMMA PollAnswers ==
    ASSUME AnswerInv, NEW l \in Lookup, PollQuery(l)
    PROVE  AnswerInv'
<1>1. PICK outcome \in PollOf(l), elsewhere \in SUBSET Peer :
          \/ Quiet(l, outcome)
          \/ RefuseTarget(l, outcome)
          \/ Contacts(l, outcome, elsewhere)
          \/ Ends(l, outcome, elsewhere)
  BY DEF PollQuery
<1>2. CASE Ends(l, outcome, elsewhere)
  <2>1. stage[l] # "answered"
    BY DEF PollQuery
  <2>2. PICK fetches \in BOOLEAN :
          /\ stage' = [stage EXCEPT ![l] = IF fetches THEN "fetching" ELSE "answered"]
          /\ answers' = [answers EXCEPT ![l] = IF fetches THEN answers[l] ELSE answers[l] + 1]
    BY <1>2, Zenon DEF Ends
  <2>3. CASE fetches
    BY <2>1, <2>2, <2>3, AnswerStep, Zenon
  <2>4. CASE ~fetches
    BY <2>1, <2>2, <2>4, AnswerStep, Zenon
  <2> QED
    BY <2>3, <2>4
<1>3. CASE Quiet(l, outcome) \/ RefuseTarget(l, outcome) \/ Contacts(l, outcome, elsewhere)
  <2>1. UNCHANGED <<stage, answers>>
    BY <1>3 DEF Quiet, RefuseTarget, Contacts
  <2> QED
    BY <2>1, NoAnswerStep
<1> QED
  BY <1>1, <1>2, <1>3

LEMMA StartAnswers ==
    ASSUME AnswerInv, NEW l \in Lookup, NEW known, StartLookup(l, known)
    PROVE  AnswerInv'
<1>1. stage[l] # "answered"
  BY DEF StartLookup
<1>2. CASE known = {}
  <2>1. /\ stage' = [stage EXCEPT ![l] = "answered"]
        /\ answers' = [answers EXCEPT ![l] = answers[l] + 1]
    BY <1>2 DEF StartLookup
  <2> QED
    BY <1>1, <2>1, AnswerStep, Zenon
<1>3. CASE known # {}
  <2>1. stage' = [stage EXCEPT ![l] = "active"] /\ answers' = answers
    BY <1>3 DEF StartLookup
  <2>2. answers' = [answers EXCEPT ![l] = answers[l]]
    BY <2>1 DEF AnswerInv
  <2> QED
    BY <1>1, <2>1, <2>2, AnswerStep, Zenon
<1> QED
  BY <1>2, <1>3

LEMMA NextAnswers == AnswerInv /\ [Next]_vars => AnswerInv'
<1> SUFFICES ASSUME AnswerInv, [Next]_vars PROVE AnswerInv'
  OBVIOUS
<1>1. CASE UNCHANGED vars
  BY <1>1, NoAnswerStep DEF vars
<1>2. ASSUME NEW l \in Lookup, FetchEnds(l) PROVE AnswerInv'
  <2>1. /\ stage[l] # "answered" /\ stage' = [stage EXCEPT ![l] = "answered"]
        /\ answers' = [answers EXCEPT ![l] = answers[l] + 1]
    BY <1>2 DEF FetchEnds
  <2> QED
    BY <2>1, AnswerStep, Zenon
<1>3. ASSUME NEW l \in Lookup, NEW p \in Peer, RequestFails(l, p) PROVE AnswerInv'
  BY <1>3, NoAnswerStep DEF RequestFails
<1>4. ASSUME NEW l \in Lookup, NEW k \in Lookup, NEW p \in Peer, NEW response,
             ReceiveEnrs(l, k, p, response)
      PROVE  AnswerInv'
  BY <1>4, NoAnswerStep DEF ReceiveEnrs
<1>5. ASSUME NEW l \in Lookup, NEW k \in Lookup, NEW p \in Peer, NEW how,
             ReceiveContent(l, k, p, how)
      PROVE  AnswerInv'
  BY <1>5, NoAnswerStep DEF ReceiveContent
<1>6. CASE ClockTick
  BY <1>6, NoAnswerStep DEF ClockTick
<1> QED
  BY <1>1, <1>2, <1>3, <1>4, <1>5, <1>6, StartAnswers, PollAnswers DEF Next

\* A caller is answered exactly once, when its lookup has ended and not before.
THEOREM EveryCallerOnce == Spec => []AnsweredOnce
<1>1. Init => AnswerInv
  BY DEF Init, AnswerInv, AnsweredOnce
<1>2. AnswerInv => AnsweredOnce
  BY DEF AnswerInv
<1> QED
  BY <1>1, <1>2, NextAnswers, PTL DEF Spec

=============================================================================
