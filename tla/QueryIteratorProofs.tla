------------------------ MODULE QueryIteratorProofs ------------------------
(***************************************************************************)
(* What the operators of QueryIterator do to a query, for any number of    *)
(* peers and any configuration.  The modules of the lookups cite these     *)
(* lemmas.                                                                 *)
(***************************************************************************)
EXTENDS QueryIterator, FiniteSetTheorems, TLAPS

\* The asserts on num_waiting in on_success, on_failure and poll cannot fail
\* in a query that satisfies this.
Exact(q) == q.num_waiting = Cardinality(WaitingOn(q))

LEMMA PeersAreFinite ==
    ASSUME NEW S \in SUBSET Peer
    PROVE  IsFiniteSet(S) /\ Cardinality(S) \in Nat
<1>1. IsFiniteSet(Peer)
  BY QueryConfigAssumption, FS_Interval DEF Peer
<1>2. IsFiniteSet(S)
  BY <1>1, FS_Subset
<1> QED
  BY <1>2, FS_CardinalityType

\* The updates of a query that keep its type.
LEMMA UpdatePeer ==
    ASSUME NEW q \in Query, NEW p \in Peer, NEW state \in PeerState,
           NEW ticks \in 0..PeerTimeout, NEW n \in Int
    PROVE  [q EXCEPT !.peers[p] = state, !.timer[p] = ticks, !.num_waiting = n] \in Query
BY DEF Query

LEMMA UpdateProgress ==
    ASSUME NEW q \in Query, NEW peers \in [Peer -> PeerState], NEW progress \in Progress,
           NEW n \in 0..(Parallelism - 1)
    PROVE  [q EXCEPT !.peers = peers, !.progress = progress, !.no_progress = n] \in Query
BY DEF Query

LEMMA WithConfigIsExact ==
    ASSUME NEW known \in SUBSET Peer
    PROVE  /\ WithConfig(known) \in Query
           /\ Known(WithConfig(known)) = known
           /\ Exact(WithConfig(known))
<1>1. WithConfig(known) \in Query
  BY QueryConfigAssumption DEF WithConfig, Query, PeerState, Progress
<1>2. Known(WithConfig(known)) = known
  BY DEF WithConfig, Known
<1>3. WaitingOn(WithConfig(known)) = {}
  BY DEF WithConfig, WaitingOn
<1> QED
  BY <1>1, <1>2, <1>3, FS_EmptySet DEF Exact, WithConfig

\* Answers and failures: on_success and on_failure uncount a peer exactly if it
\* was counted.
LEMMA SettleIsExact ==
    ASSUME NEW q \in Query, NEW p \in Peer, Answerable(q, p), Exact(q),
           NEW state \in {"Failed", "Succeeded"}
    PROVE  /\ Settle(q, p, state) \in Query
           /\ Settle(q, p, state).peers = [q.peers EXCEPT ![p] = state]
           /\ Settle(q, p, state).progress = q.progress
           /\ Known(Settle(q, p, state)) = Known(q)
           /\ Exact(Settle(q, p, state))
<1> DEFINE s == Settle(q, p, state)
<1>1. s \in Query
  <2> DEFINE n == IF q.peers[p] = "Waiting" THEN q.num_waiting - 1 ELSE q.num_waiting
  <2>1. n \in Int /\ 0 \in 0..PeerTimeout /\ state \in PeerState
    BY QueryConfigAssumption DEF Query, PeerState
  <2>2. s = [q EXCEPT !.peers[p] = state, !.timer[p] = 0, !.num_waiting = n]
    BY DEF Settle
  <2> HIDE DEF s, n
  <2> QED
    BY <2>1, <2>2, UpdatePeer
<1>2. s.peers = [q.peers EXCEPT ![p] = state] /\ s.progress = q.progress
  BY DEF Settle, Query
<1>3. Known(s) = Known(q)
  BY <1>2 DEF Known, Query, Answerable
<1>4. WaitingOn(s) = WaitingOn(q) \ {p}
  BY <1>2 DEF WaitingOn, Query
<1>5. s.num_waiting = IF p \in WaitingOn(q) THEN q.num_waiting - 1 ELSE q.num_waiting
  BY DEF Settle, Query, WaitingOn
<1>6. IsFiniteSet(WaitingOn(q))
  BY PeersAreFinite DEF WaitingOn
<1>7. Exact(s)
  <2>1. CASE p \in WaitingOn(q)
    <3>1. Cardinality(WaitingOn(q) \ {p}) = Cardinality(WaitingOn(q)) - 1
      BY <1>6, <2>1, FS_RemoveElement
    <3> QED
      BY <1>4, <1>5, <2>1, <3>1 DEF Exact
  <2>2. CASE p \notin WaitingOn(q)
    <3>1. WaitingOn(s) = WaitingOn(q)
      BY <1>4, <2>2
    <3> QED
      BY <1>5, <2>2, <3>1 DEF Exact
  <2> QED
    BY <2>1, <2>2
<1> QED
  BY <1>1, <1>2, <1>3, <1>7, SMTT(20)

LEMMA IncorporateIsExact ==
    ASSUME NEW q \in Query, NEW response \in Seq(Peer), q.progress # "Finished", Exact(q)
    PROVE  /\ Incorporate(q, response) \in Query
           /\ Incorporate(q, response).peers =
                [p \in Peer |-> IF p \in Reported(response) /\ q.peers[p] = "Unknown"
                                THEN "NotContacted" ELSE q.peers[p]]
           /\ Incorporate(q, response).progress # "Finished"
           /\ Known(Incorporate(q, response)) = Known(q) \cup Reported(response)
           /\ Exact(Incorporate(q, response))
<1> DEFINE s == Incorporate(q, response)
<1>1. s \in Query
  <2> DEFINE progress == MakesProgress(q, response)
             stalls   == /\ ~progress
                         /\ q.progress = "Iterating" => q.no_progress + 1 >= Parallelism
             peers    == [p \in Peer |-> IF p \in Reported(response) /\ q.peers[p] = "Unknown"
                                         THEN "NotContacted" ELSE q.peers[p]]
             no_progress == IF stalls \/ progress THEN 0 ELSE q.no_progress + 1
  <2>1. s = [q EXCEPT !.peers = peers,
                      !.progress = IF stalls THEN "Stalled" ELSE "Iterating",
                      !.no_progress = no_progress]
    BY DEF Incorporate
  <2>2. peers \in [Peer -> PeerState]
    BY DEF Query, PeerState
  <2>3. no_progress \in 0..(Parallelism - 1)
    BY QueryConfigAssumption DEF Query, Progress
  <2>4. (IF stalls THEN "Stalled" ELSE "Iterating") \in Progress
    BY DEF Progress
  <2> HIDE DEF s, peers, no_progress, stalls
  <2> QED
    BY <2>1, <2>2, <2>3, <2>4, UpdateProgress
<1>2. /\ s.peers = [p \in Peer |-> IF p \in Reported(response) /\ q.peers[p] = "Unknown"
                                   THEN "NotContacted" ELSE q.peers[p]]
      /\ s.num_waiting = q.num_waiting
      /\ s.progress # "Finished"
  BY DEF Incorporate, Query
<1>3. Reported(response) \subseteq Peer
  BY DEF Reported
<1>4. Known(s) = Known(q) \cup Reported(response)
  BY <1>2, <1>3 DEF Known
<1>5. WaitingOn(s) = WaitingOn(q)
  BY <1>2 DEF WaitingOn
<1> QED
  BY <1>1, <1>2, <1>4, <1>5 DEF Exact

LEMMA TickIsExact ==
    ASSUME NEW q \in Query
    PROVE  /\ Tick(q) \in Query
           /\ Tick(q).peers = q.peers
           /\ Tick(q).progress = q.progress
           /\ Known(Tick(q)) = Known(q)
           /\ Exact(q) => Exact(Tick(q))
<1>1. /\ Tick(q).peers = q.peers
      /\ Tick(q).progress = q.progress
      /\ Tick(q).num_waiting = q.num_waiting
  BY DEF Tick, Query
<1>2. Tick(q) \in Query
  BY QueryConfigAssumption DEF Tick, Query
<1> QED
  BY <1>1, <1>2 DEF Known, Exact, WaitingOn

-----------------------------------------------------------------------------
(* Polling.                                                                *)

\* Taking a subset away.
LEMMA SubsetDifference ==
    ASSUME NEW S, NEW T, T \subseteq S, IsFiniteSet(S)
    PROVE  Cardinality(S \ T) = Cardinality(S) - Cardinality(T)
<1>1. S \cap T = T
  OBVIOUS
<1>2. Cardinality(S \ T) = Cardinality(S) - Cardinality(S \cap T)
  BY FS_Difference
<1> QED
  BY <1>1, <1>2

LEMMA SweepIsExact ==
    ASSUME NEW q \in Query, Exact(q)
    PROVE  /\ Sweep(q) \in Query
           /\ Sweep(q).peers = [p \in Peer |-> IF p \in TimedOut(q) THEN "Unresponsive"
                                                                    ELSE q.peers[p]]
           /\ Sweep(q).progress = q.progress
           /\ WaitingOn(Sweep(q)) = WaitingOn(q) \ TimedOut(q)
           /\ Known(Sweep(q)) = Known(q)
           /\ Exact(Sweep(q))
<1>1. TimedOut(q) \subseteq WaitingOn(q) /\ WaitingOn(q) \subseteq Peer
  BY DEF TimedOut, Expired, WaitingOn
<1>2. /\ IsFiniteSet(WaitingOn(q)) /\ Cardinality(WaitingOn(q)) \in Nat
      /\ IsFiniteSet(TimedOut(q)) /\ Cardinality(TimedOut(q)) \in Nat
  BY <1>1, PeersAreFinite
<1>3. /\ Sweep(q).peers = [p \in Peer |-> IF p \in TimedOut(q) THEN "Unresponsive"
                                                               ELSE q.peers[p]]
      /\ Sweep(q).num_waiting = q.num_waiting - Cardinality(TimedOut(q))
      /\ Sweep(q).progress = q.progress
  BY DEF Sweep, Query
<1>4. Sweep(q) \in Query
  <2> DEFINE peers == [p \in Peer |-> IF p \in TimedOut(q) THEN "Unresponsive" ELSE q.peers[p]]
             n     == q.num_waiting - Cardinality(TimedOut(q))
  <2>1. Sweep(q) = [q EXCEPT !.peers = peers, !.num_waiting = n]
    BY DEF Sweep
  <2>2. peers \in [Peer -> PeerState] /\ n \in Int
    BY <1>2 DEF Query, PeerState
  <2> HIDE DEF peers, n
  <2>3. [q EXCEPT !.peers = peers, !.num_waiting = n] \in Query
    BY <2>2 DEF Query
  <2> QED
    BY <2>1, <2>3
<1>5. WaitingOn(Sweep(q)) = WaitingOn(q) \ TimedOut(q)
  BY <1>3 DEF WaitingOn
<1>6. Known(Sweep(q)) = Known(q)
  BY <1>1, <1>3 DEF Known, WaitingOn
<1>7. Cardinality(WaitingOn(q) \ TimedOut(q))
        = Cardinality(WaitingOn(q)) - Cardinality(TimedOut(q))
  BY <1>1, <1>2, SubsetDifference
<1> QED
  BY <1>3, <1>4, <1>5, <1>6, <1>7 DEF Exact

LEMMA ContactIsExact ==
    ASSUME NEW q \in Query, Exact(q), NEW p \in Peer, q.peers[p] = "NotContacted"
    PROVE  /\ Contact(q, p) \in Query
           /\ Contact(q, p).peers = [q.peers EXCEPT ![p] = "Waiting"]
           /\ Contact(q, p).progress = q.progress
           /\ Known(Contact(q, p)) = Known(q)
           /\ Exact(Contact(q, p))
<1>1. Contact(q, p) \in Query
  <2>1. PeerTimeout \in 0..PeerTimeout /\ q.num_waiting + 1 \in Int /\ "Waiting" \in PeerState
    BY QueryConfigAssumption DEF Query, PeerState
  <2> QED
    BY <2>1, UpdatePeer DEF Contact
<1>2. /\ Contact(q, p).peers = [q.peers EXCEPT ![p] = "Waiting"]
      /\ Contact(q, p).num_waiting = q.num_waiting + 1
      /\ Contact(q, p).progress = q.progress
  BY DEF Contact, Query
<1>3. WaitingOn(Contact(q, p)) = WaitingOn(q) \cup {p} /\ p \notin WaitingOn(q)
  BY <1>2 DEF WaitingOn, Query
<1>4. Known(Contact(q, p)) = Known(q)
  BY <1>2 DEF Known, Query
<1>5. IsFiniteSet(WaitingOn(q))
  BY PeersAreFinite DEF WaitingOn
<1>6. Cardinality(WaitingOn(q) \cup {p}) = Cardinality(WaitingOn(q)) + 1
  BY <1>3, <1>5, FS_AddElement
<1> QED
  BY <1>1, <1>2, <1>3, <1>4, <1>6 DEF Exact

LEMMA FinishIsExact ==
    ASSUME NEW q \in Query, Exact(q)
    PROVE  /\ Finish(q) \in Query
           /\ Finish(q).peers = q.peers
           /\ Finish(q).progress = "Finished"
           /\ Known(Finish(q)) = Known(q)
           /\ Exact(Finish(q))
<1>1. /\ Finish(q).peers = q.peers
      /\ Finish(q).num_waiting = q.num_waiting
      /\ Finish(q).progress = "Finished"
  BY DEF Finish, Query
<1>2. Finish(q) \in Query
  <2>1. "Finished" \in Progress /\ 0 \in 0..(Parallelism - 1)
    BY QueryConfigAssumption DEF Progress
  <2> QED
    BY <2>1 DEF Finish, Query
<1> QED
  BY <1>1, <1>2 DEF Known, Exact, WaitingOn

\* What one poll may do to the states of the peers: give up expired ones and
\* contact one that was not contacted.
PollMoves(q, outcome) ==
    \A p \in Peer :
        \/ outcome.query.peers[p] = q.peers[p] /\ p # outcome.peer
        \/ q.peers[p] = "Waiting" /\ outcome.query.peers[p] = "Unresponsive" /\ p # outcome.peer
        \/ q.peers[p] = "NotContacted" /\ outcome.query.peers[p] = "Waiting" /\ p = outcome.peer

LEMMA PollIsExact ==
    ASSUME NEW q \in Query, Exact(q), NEW outcome \in Poll(q)
    PROVE  /\ outcome.query \in Query
           /\ Exact(outcome.query)
           /\ Known(outcome.query) = Known(q)
           /\ outcome.peer \in Peer \cup {NoPeer}
           /\ PollMoves(q, outcome)
<1> DEFINE s == Sweep(q)
<1> USE DEF Outcome
<1>0. NoPeer \notin Peer
  BY DEF NoPeer, Peer
<1>1. /\ s \in Query /\ Exact(s) /\ Known(s) = Known(q)
      /\ s.peers = [p \in Peer |-> IF p \in TimedOut(q) THEN "Unresponsive" ELSE q.peers[p]]
      /\ \A p \in TimedOut(q) : q.peers[p] = "Waiting"
  BY SweepIsExact DEF TimedOut, Expired
<1>2. /\ Finish(s) \in Query /\ Exact(Finish(s)) /\ Known(Finish(s)) = Known(q)
      /\ Finish(s).peers = s.peers
  BY <1>1, FinishIsExact
<1> HIDE DEF s
<1>3. CASE outcome = Outcome(q, "Finished", NoPeer)
  BY <1>0, <1>3 DEF PollMoves
<1>4. ASSUME NEW state, outcome = Outcome(s, state, NoPeer)
      PROVE  /\ outcome.query \in Query /\ Exact(outcome.query)
             /\ Known(outcome.query) = Known(q) /\ outcome.peer = NoPeer
             /\ PollMoves(q, outcome)
  BY <1>0, <1>1, <1>4 DEF PollMoves
<1>5. CASE outcome = Outcome(Finish(s), "Finished", NoPeer)
  BY <1>0, <1>1, <1>2, <1>5 DEF PollMoves
<1>6. ASSUME NEW p \in Peer, q.peers[p] = "NotContacted",
             outcome = Outcome(Contact(s, p), "Waiting", p)
      PROVE  /\ outcome.query \in Query /\ Exact(outcome.query)
             /\ Known(outcome.query) = Known(q) /\ outcome.peer = p
             /\ PollMoves(q, outcome)
  <2>1. s.peers[p] = "NotContacted"
    BY <1>1, <1>6
  <2>2. /\ Contact(s, p) \in Query /\ Exact(Contact(s, p)) /\ Known(Contact(s, p)) = Known(q)
        /\ Contact(s, p).peers = [s.peers EXCEPT ![p] = "Waiting"]
    BY <1>1, <2>1, ContactIsExact
  <2>3. PollMoves(q, outcome)
    BY <1>1, <1>6, <2>2 DEF PollMoves
  <2> QED
    BY <1>6, <2>2, <2>3
<1>7. CASE q.progress = "Finished"
  BY <1>3, <1>7 DEF Poll
<1>8. CASE q.progress # "Finished" /\ Stops(q) = {}
  BY <1>4, <1>5, <1>8 DEF Poll, Exhausted, s
<1>9. CASE q.progress # "Finished" /\ Stops(q) # {}
  <2>1. PICK p \in FirstStop(q) : outcome = AtStop(q, p)
    BY <1>9 DEF Poll
  <2>2. p \in Peer
    BY DEF FirstStop, Stops
  <2> QED
    BY <1>4, <1>5, <1>6, <2>1, <2>2 DEF AtStop, s
<1> QED
  BY <1>7, <1>8, <1>9

=============================================================================
