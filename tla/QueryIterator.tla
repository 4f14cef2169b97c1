--------------------------- MODULE QueryIterator ---------------------------
(***************************************************************************)
(* The iterator that drives one FINDNODES or FINDCONTENT lookup: the part  *)
(* that portalnet/src/find/iterators/findnodes.rs and findcontent.rs have  *)
(* in common, as operators on a query record.                              *)
(*                                                                         *)
(* closest_peers is a BTreeMap keyed by the XOR distance of a peer to the  *)
(* target, so a peer is named by that distance: distance 0 is the target   *)
(* itself.  A peer the map does not hold is "Unknown".  An Instant is      *)
(* replaced by the number of ticks left until it is reached, which keeps   *)
(* the comparison `now >= timeout` exact and the state space finite.       *)
(***************************************************************************)
EXTENDS Integers, FiniteSets, Sequences

CONSTANTS
    MaxDistance,    \* peers are at the distances 0..MaxDistance of the target
    Parallelism,    \* QueryConfig::parallelism
    NumResults,     \* QueryConfig::num_results
    PeerTimeout     \* QueryConfig::peer_timeout, in ticks

ASSUME QueryConfigAssumption ==
    /\ MaxDistance \in Nat
    /\ Parallelism \in Nat \ {0}
    /\ NumResults \in Nat \ {0}
    /\ PeerTimeout \in Nat \ {0}

Peer == 0..MaxDistance

PeerState ==
    {"Unknown", "NotContacted", "Waiting", "Unresponsive", "Failed", "Succeeded"}

Progress == {"Iterating", "Stalled", "Finished"}

\* The fields of FindNodeQuery.  timer[p] is only meaningful while p is
\* Waiting and is 0 otherwise; no_progress is the payload of Iterating and
\* is 0 otherwise.
Query ==
    [peers       : [Peer -> PeerState],
     timer       : [Peer -> 0..PeerTimeout],
     num_waiting : Int,
     progress    : Progress,
     no_progress : 0..(Parallelism - 1)]

Known(q)        == {p \in Peer : q.peers[p] # "Unknown"}
WaitingOn(q)    == {p \in Peer : q.peers[p] = "Waiting"}
SucceededIn(q)  == {p \in Peer : q.peers[p] = "Succeeded"}

\* A query that knows the given peers and has contacted none of them.  The
\* caller hands over at most NumResults peers (`take(config.num_results)`).
WithConfig(known) ==
    [peers       |-> [p \in Peer |-> IF p \in known THEN "NotContacted" ELSE "Unknown"],
     timer       |-> [p \in Peer |-> 0],
     num_waiting |-> 0,
     progress    |-> "Iterating",
     no_progress |-> 0]

AtCapacity(q) ==
    \/ q.progress = "Finished"
    \/ q.progress = "Stalled"   /\ q.num_waiting >= NumResults
    \/ q.progress = "Iterating" /\ q.num_waiting >= Parallelism

-----------------------------------------------------------------------------
(* Answers.                                                                *)

\* Faulty: a finished query still takes answers.
Answerable_Finished(q, p) == q.peers[p] \in {"Waiting", "Unresponsive"}

Answerable(q, p) ==
    /\ q.progress # "Finished"
    /\ q.peers[p] \in {"Waiting", "Unresponsive"}

\* Faulty: also uncounts a peer that a timeout has uncounted already.
Settle_CountsTwice(q, p, state) ==
    [q EXCEPT !.peers[p]    = state,
              !.timer[p]    = 0,
              !.num_waiting = @ - 1]

\* Moves an answerable peer to a final state; only a Waiting one was counted.
Settle(q, p, state) ==
    [q EXCEPT !.peers[p]    = state,
              !.timer[p]    = 0,
              !.num_waiting = IF q.peers[p] = "Waiting" THEN @ - 1 ELSE @]

OnFailure(q, p) ==
    IF Answerable(q, p) THEN Settle(q, p, "Failed") ELSE q

Reported(response) == {response[i] : i \in DOMAIN response}

\* The loop over the reported peers assigns `progress` once per peer, so what
\* survives is the verdict on the LAST of them: is it now the closest known
\* peer, or did the query know fewer than NumResults peers before the loop?
MakesProgress(q, response) ==
    /\ response # <<>>
    /\ \/ \A p \in Known(q) \cup Reported(response) : response[Len(response)] <= p
       \/ Cardinality(Known(q)) < NumResults

\* Faulty: insert instead of entry().or_insert().
Incorporate_Overwrites(q, response) ==
    [q EXCEPT !.peers = [p \in Peer |-> IF p \in Reported(response) THEN "NotContacted"
                                                                   ELSE q.peers[p]],
              !.num_waiting = @ - Cardinality(WaitingOn(q) \cap Reported(response))]

\* Incorporates reported peers: unknown ones become NotContacted.
Incorporate(q, response) ==
    LET progress == MakesProgress(q, response)
        stalls   == /\ ~progress
                    /\ q.progress = "Iterating" => q.no_progress + 1 >= Parallelism
    IN  [q EXCEPT
           !.peers = [p \in Peer |->
                        IF p \in Reported(response) /\ q.peers[p] = "Unknown"
                        THEN "NotContacted" ELSE q.peers[p]],
           !.progress    = IF stalls THEN "Stalled" ELSE "Iterating",
           !.no_progress = IF stalls \/ progress THEN 0 ELSE @ + 1]

-----------------------------------------------------------------------------
(* Polling.  The loop visits the peers by increasing distance and returns  *)
(* at the first one that decides the outcome: the stop.  Capacity is       *)
(* evaluated once, before the loop.                                        *)

Expired(q, p) == q.peers[p] = "Waiting" /\ q.timer[p] = 0
Pending(q, p) == q.peers[p] = "Waiting" /\ q.timer[p] > 0

\* Faulty: a closer pending peer does not reset result_counter.
Decisive_IgnoresPending(q, p) ==
    /\ q.peers[p] = "Succeeded"
    /\ Cardinality({r \in SucceededIn(q) : r <= p}) >= NumResults

\* result_counter, when the loop is at p: how many peers up to p succeeded;
\* it is None as soon as a peer closer than p is still pending.
Decisive(q, p) ==
    /\ q.peers[p] = "Succeeded"
    /\ \A r \in 0..(p - 1) : ~Pending(q, r)
    /\ Cardinality({r \in SucceededIn(q) : r <= p}) >= NumResults

Stops(q) ==
    {p \in Peer : \/ q.peers[p] = "NotContacted"
                  \/ Pending(q, p) /\ AtCapacity(q)
                  \/ Decisive(q, p)}

FirstStop(q) == {s \in Stops(q) : \A r \in Stops(q) : s <= r}

\* The peers whose deadline the loop finds passed before it returns.
TimedOut(q) == {p \in Peer : Expired(q, p) /\ \A s \in Stops(q) : p < s}

Sweep(q) ==
    [q EXCEPT !.peers       = [p \in Peer |-> IF p \in TimedOut(q) THEN "Unresponsive"
                                                                   ELSE q.peers[p]],
              !.num_waiting = @ - Cardinality(TimedOut(q))]

Finish(q) == [q EXCEPT !.progress = "Finished", !.no_progress = 0]

Contact(q, p) ==
    [q EXCEPT !.peers[p]    = "Waiting",
              !.timer[p]    = PeerTimeout,
              !.num_waiting = @ + 1]

NoPeer == -1

\* The QueryState returned by a poll, with the query it leaves behind.
Outcome(q, state, peer) == [query |-> q, state |-> state, peer |-> peer]

AtStop(q, s) ==
    CASE q.peers[s] = "NotContacted" /\ ~AtCapacity(q) ->
           Outcome(Contact(Sweep(q), s), "Waiting", s)
      [] q.peers[s] = "Succeeded" ->
           Outcome(Finish(Sweep(q)), "Finished", NoPeer)
      [] OTHER ->
           Outcome(Sweep(q), "WaitingAtCapacity", NoPeer)

Exhausted(q) ==
    IF Sweep(q).num_waiting > 0
    THEN Outcome(Sweep(q), "Waiting", NoPeer)
    ELSE Outcome(Finish(Sweep(q)), "Finished", NoPeer)

\* The outcomes of a poll: there is exactly one, but writing it as a set
\* spares the choice of a minimum.
Poll(q) ==
    IF q.progress = "Finished" THEN {Outcome(q, "Finished", NoPeer)}
    ELSE IF Stops(q) = {}      THEN {Exhausted(q)}
    ELSE {AtStop(q, s) : s \in FirstStop(q)}

\* One tick of the clock for a query.
Tick(q) == [q EXCEPT !.timer = [p \in Peer |-> IF @[p] > 0 THEN @[p] - 1 ELSE 0]]

=============================================================================
