----------------------------- MODULE MCOverlay -----------------------------
(***************************************************************************)
(* The service of an overlay: one lookup in each query pool, or two        *)
(* transfers of content, each offer of one key or of two with one of them  *)
(* refused.  And its data: the trace of a query, over every two answers of *)
(* two nodes, and the codecs of the wire, over short payloads.             *)
(***************************************************************************)
EXTENDS OverlayQueries, ContentTransfer, QueryTrace, PortalWire

VARIABLE scope      \* what is exercised: "queries" or "transfers"

mcvars == <<vars, tvars, scope>>

MCInit ==
    /\ Init /\ TInit
    /\ scope \in {"queries", "transfers"}
    /\ scope = "queries" => radius = 0

MCNext ==
    \/ scope = "queries" /\ Next /\ UNCHANGED <<tvars, scope>>
    \/ scope = "transfers" /\ TNext /\ UNCHANGED <<vars, scope>>

\* Where no lookup was started and no offer made, none of the fair steps is enabled.
MCSpec == MCInit /\ [][MCNext]_mcvars /\ Fairness /\ TFairness

\* The transfers alone.
TransfersSpec == MCInit /\ scope = "transfers" /\ [][MCNext]_mcvars

MCOfferedKeys == {<<1>>, <<0, 1>>}

MCResponses == UNION {[1..n -> Peer] : n \in 0..1}

-----------------------------------------------------------------------------
(* The trace of a query.                                                   *)

Enr == [node : 1..2, seq : 1..2, address : 1..2]

TracedAnswer ==
    [source : Enr, content : {FALSE}, enrs : BoundedSeq(Enr, 1)]
    \cup [source : Enr, content : {TRUE}, enrs : {<<>>}]

TraceOf(given) ==
    FoldLeft(LAMBDA t, a : IF a.content THEN TraceContent(t, a.source, {1, 2})
                           ELSE TraceNodes(t, a.source, a.enrs, {}, {1, 2}),
             NewTrace, given)

\* The trace shows every node that was met under its newest ENR, and under the one
\* it answered with if no newer one was named since; and who sent the content answered.
ASSUME TraceIsOfNewestEnrs ==
    \A given \in [1..2 -> TracedAnswer] :
        LET trace == TraceOf(given)
            met == UNION {{a.source} \cup ToSet(a.enrs) : a \in ToSet(given)}
            last == given[2].source
        IN  /\ DOMAIN trace.metadata = {e.node : e \in met}
            /\ \A e \in met : trace.metadata[e.node].seq >= e.seq
            /\ ToSet(trace.metadata) \subseteq met
            /\ (\A e \in met : e.node = last.node => e.seq <= last.seq)
                    => trace.metadata[last.node] = last
            /\ (trace.received_from # NoNode) = (\E i \in 1..2 : given[i].content)
            /\ trace.received_from # NoNode => trace.received_from \in DOMAIN trace.responses
            /\ last.node \notin trace.cancelled

-----------------------------------------------------------------------------
(* The wire.                                                               *)

Byte == 0..(2 * GroupSize - 1)

Bytes(n) == UNION {[1..m -> Byte] : m \in 0..n}

\* The contents that one end puts into a stream are those that the other takes out.
ASSUME PayloadsComeBack ==
    \A contents \in BoundedSeq({[j \in 1..n |-> 1] : n \in 0..(MaxLength + 1)}, 3) :
        LET stream == EncodeContentPayload(contents)
        IN  IF \E i \in DOMAIN contents : Len(contents[i]) > MaxLength THEN stream = Undecodable
            ELSE DecodeContentPayload(stream) = contents

\* Of a stream that is decoded every byte is used, and a length is only sought
\* beyond its end when its last byte says that a number goes on.
ASSUME StreamsAreUsedUp ==
    \A stream \in Bytes(VARINT_BYTES + 1) :
        LET contents == DecodeContentPayload(stream)
        IN  CASE contents = Undecodable -> TRUE
              [] contents = OutOfRange -> Last(stream) >= GroupSize
              [] contents \notin {Undecodable, OutOfRange} ->
                    Len(EncodeContentPayload(contents)) <= Len(stream)

Message == [kind : ToSet(MessageKinds), body : {<<>>, <<1>>, <<1, Undecodable>>}]

Request ==
    [kind : {"ping", "find_nodes", "find_content", "offer"}, body : {<<1>>}]
    \cup [kind : {"populated_offer"}, body : BoundedSeq([key : {1, 2}, content : {3}], 2)]
    \cup [kind : {"populated_offer_with_result"}, body : [key : {1, 2}, content : {3}]]

\* A message is a request or a response and not both; it is decoded as it was sent
\* unless it names a node whose ENR cannot be read.
ASSUME MessagesComeBack ==
    \A message \in Message :
        /\ (RequestTryFrom(message) = Undecodable) # (ResponseTryFrom(message) = Undecodable)
        /\ DecodeMessage(EncodeMessage(message)) =
              IF message.kind = "nodes" /\ Undecodable \in ToSet(message.body) THEN Undecodable
              ELSE message

\* Every request arrives as a request, and contents that go with an offer stay behind.
ASSUME RequestsArrive ==
    \A r \in Request :
        LET message == DecodeMessage(EncodeMessage(FromRequest(r)))
            offered == {"populated_offer", "populated_offer_with_result"}
        IN  /\ RequestTryFrom(message) = message
            /\ r.kind \in offered =>
                  /\ message.kind = "offer"
                  /\ ToSet(message.body) = IF r.kind = "populated_offer"
                                           THEN {r.body[i].key : i \in DOMAIN r.body}
                                           ELSE {r.body.key}

\* What the limits on the lists of ENRs and on contents let pass fits into a packet.
ASSUME RepliesFit ==
    /\ \A sizes \in BoundedSeq({150, 296, 300}, 5) :
          /\ ListSize(sizes) <= MAX_PORTAL_NODES_ENRS_SIZE =>
                NodesSize(sizes) <= MAX_DISCV5_TALK_REQ_PAYLOAD_SIZE
          /\ ListSize(sizes) <= MAX_PORTAL_CONTENT_PAYLOAD_SIZE =>
                ContentSize(ListSize(sizes)) <= MAX_DISCV5_TALK_REQ_PAYLOAD_SIZE
    /\ ContentSize(MAX_PORTAL_CONTENT_PAYLOAD_SIZE) <= MAX_DISCV5_TALK_REQ_PAYLOAD_SIZE

\* Identifiers of connections and of protocols, and radii, are read as they were meant.
ASSUME IdentifiersComeBack ==
    /\ \A id \in 0..(4 * GroupSize * GroupSize - 1) : ToBe(ToBe(id)) = id
    /\ \A p \in DOMAIN ProtocolIdBytes : ProtocolIdFromStr(ProtocolIdBytes[p]) = p
    /\ \A p, q \in DOMAIN ProtocolIdNumber : ProtocolIdNumber[p] = ProtocolIdNumber[q] => p = q
    /\ \A stream \in Bytes(3) :
          LET r == RadiusInJson(stream, 2)
          IN  r # Undecodable => r = stream[1] + 2 * GroupSize * stream[2]

=============================================================================
