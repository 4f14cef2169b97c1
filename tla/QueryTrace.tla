----------------------------- MODULE QueryTrace -----------------------------
(***************************************************************************)
(* The trace that is kept of a content query: who answered and with whom,  *)
(* from whom the content came, and the newest ENR of every node.  An ENR   *)
(* is its node, its sequence number and its content.                       *)
(***************************************************************************)
EXTENDS Integers, Sequences, FiniteSets, FiniteSetsExt, SequencesExt, TLC

NoNode == 0

NewTrace == [received_from |-> NoNode, responses |-> <<>>, metadata |-> <<>>, cancelled |-> {}]

\* A newer ENR replaces the one that is known, and so does another one with the
\* same number if its node has just answered with it.
AddMetadata(trace, enr, responded) ==
    LET known == trace.metadata[enr.node]
        replaces == \/ enr.node \notin DOMAIN trace.metadata
                    \/ enr.seq > known.seq
                    \/ enr.seq = known.seq /\ responded
    IN  IF replaces THEN [trace EXCEPT !.metadata = enr.node :> enr @@ @] ELSE trace

NodeRespondedWith(trace, enr, enrs) ==
    LET named == FoldLeft(LAMBDA t, e : AddMetadata(t, e, FALSE), trace, enrs)
        ids == [i \in DOMAIN enrs |-> enrs[i].node]
        earlier == IF enr.node \in DOMAIN trace.responses THEN trace.responses[enr.node] ELSE <<>>
    IN  AddMetadata([named EXCEPT !.responses = enr.node :> (earlier \o ids) @@ @], enr, TRUE)

NodeRespondedWithContent(trace, enr) ==
    AddMetadata([trace EXCEPT !.received_from = enr.node,
                              !.responses = enr.node :> <<>> @@ @], enr, TRUE)

\* With every answer the peers that have not answered yet count as cancelled.  Of
\* the ENRs of an answer only those of nodes new to the query are recorded.
TraceNodes(trace, source, enrs, known, pending) ==
    [NodeRespondedWith(trace, source, SelectSeq(enrs, LAMBDA e : e.node \notin known))
        EXCEPT !.cancelled = pending \ {source.node}]

TraceContent(trace, source, pending) ==
    [NodeRespondedWithContent(trace, source) EXCEPT !.cancelled = pending \ {source.node}]

=============================================================================
