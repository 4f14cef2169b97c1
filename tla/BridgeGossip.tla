---------------------------- MODULE BridgeGossip ----------------------------
(***************************************************************************)
(* How a bridge hands a piece of content to its portal clients: a client   *)
(* is asked to gossip and to trace it, and when nobody took the content    *)
(* and the network does not have it yet, it is asked again.  An attempt is *)
(* the trace the client answers with, or Failed, and whether the content   *)
(* is found on the network afterwards.                                     *)
(***************************************************************************)
EXTENDS Naturals, Sequences, SequencesExt, Results

CONSTANT
    GOSSIP_RETRY_COUNT

\* The traces of a client are those of trace_gossip (see OverlayApi).
Trace(enrs) ==
    {t \in [offered : SUBSET enrs, accepted : SUBSET enrs, transferred : SUBSET enrs] :
        t.transferred \subseteq t.accepted /\ t.accepted \subseteq t.offered}

Settles(attempt) ==
    \/ attempt.trace # Failed /\ attempt.trace.transferred # {}
    \/ attempt.found

\* The attempts a client makes: up to the one that settles it, or all there are.
HistoryTraceGossip(attempts) ==
    LET stops == {i \in 1..GOSSIP_RETRY_COUNT : Settles(attempts[i])}
        last == IF stops = {} THEN GOSSIP_RETRY_COUNT
                ELSE CHOOSE i \in stops : \A j \in stops : i <= j
        made == SubSeq(attempts, 1, last)
    IN  [traces |-> {made[i].trace : i \in 1..last} \ {Failed},
         retries |-> IF stops = {} THEN last ELSE last - 1]

BeaconTraceGossip(attempts) == HistoryTraceGossip(attempts)

\* What is recorded of a piece of content over all clients: every peer once.
\* No client ends in an error, so no failure is ever counted.
ContentStats(results) ==
    LET traces == UNION {r.traces : r \in ToSet(results)}
    IN  [offered |-> UNION {t.offered : t \in traces},
         accepted |-> UNION {t.accepted : t \in traces},
         transferred |-> UNION {t.transferred : t \in traces},
         retries |-> FoldLeft(LAMBDA sum, r : sum + r.retries, 0, results)]

=============================================================================
