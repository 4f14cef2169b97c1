----------------------------- MODULE PortalWire -----------------------------
(***************************************************************************)
(* Messages and payloads on the wire.  A message is encoded as an SSZ      *)
(* union; contents that go over a uTP stream are put one after the other,  *)
(* each behind its length as a LEB128 number.                              *)
(*                                                                         *)
(* A byte has 2 * GroupSize values (2 * 128 in the code): the upper half   *)
(* says that a number goes on.  A length fits VARINT_BYTES bytes, and is   *)
(* at most MaxLength (five bytes and u32::MAX in the code).                *)
(***************************************************************************)
EXTENDS Integers, Sequences, SequencesExt, TLC

CONSTANTS
    GroupSize,
    VARINT_BYTES,
    MaxLength,
    Undecodable,    \* the error of a decoder
    OutOfRange      \* the panic of a slice beyond the end of its bytes

-----------------------------------------------------------------------------
(***************************************************************************)
(* uTP payloads.                                                           *)
(***************************************************************************)
RECURSIVE WriteUnsigned(_)
WriteUnsigned(n) ==
    IF n < GroupSize THEN <<n>> ELSE <<GroupSize + (n % GroupSize)>> \o WriteUnsigned(n \div GroupSize)

EncodeContentPayload(items) ==
    IF \E i \in DOMAIN items : Len(items[i]) > MaxLength THEN Undecodable
    ELSE FlattenSeq([i \in DOMAIN items |-> WriteUnsigned(Len(items[i])) \o items[i]])

\* The number that the first bytes of buf hold, and how many bytes that are.
ReadUnsigned(buf, bytes) ==
    FoldRight(LAMBDA byte, n : (byte % GroupSize) + GroupSize * n, SubSeq(buf, 1, bytes), 0)

\* The attempts with one byte, two and so on end at a byte that is the last of
\* its number; an attempt beyond the end of buf is out of range.
ReadVarint(buf) ==
    LET last == {i \in 1..VARINT_BYTES : i <= Len(buf) /\ buf[i] < GroupSize}
        bytes == CHOOSE i \in last : \A j \in last : i <= j
    IN  CASE last # {} ->
               IF ReadUnsigned(buf, bytes) > MaxLength THEN Undecodable
               ELSE [bytes |-> bytes, varint |-> ReadUnsigned(buf, bytes)]
          [] last = {} /\ Len(buf) < VARINT_BYTES -> OutOfRange
          [] last = {} /\ Len(buf) >= VARINT_BYTES -> Undecodable

RECURSIVE DecodeContentPayload(_)
DecodeContentPayload(payload) ==
    IF payload = <<>> THEN <<>>
    ELSE LET index == ReadVarint(payload)
             end == index.bytes + index.varint
             rest == DecodeContentPayload(SubSeq(payload, end + 1, Len(payload)))
         IN  CASE index \in {Undecodable, OutOfRange} -> index
               [] index \notin {Undecodable, OutOfRange} ->
                    IF end > Len(payload) THEN Undecodable
                    ELSE IF rest \in {Undecodable, OutOfRange} THEN rest
                    ELSE <<SubSeq(payload, index.bytes + 1, end)>> \o rest

-----------------------------------------------------------------------------
(***************************************************************************)
(* Messages: a kind and a body.  The selector of a union is the place of   *)
(* the kind.                                                               *)
(***************************************************************************)
MessageKinds == <<"ping", "pong", "find_nodes", "nodes", "find_content", "content", "offer", "accept">>

\* An offer that carries contents is sent as one of its keys.
FromPopulatedOffer(offer) == [kind |-> "offer", body |-> [i \in DOMAIN offer |-> offer[i].key]]
FromPopulatedOfferWithResult(offer) == [kind |-> "offer", body |-> <<offer.key>>]

FromRequest(request) ==
    CASE request.kind = "populated_offer" -> FromPopulatedOffer(request.body)
      [] request.kind = "populated_offer_with_result" -> FromPopulatedOfferWithResult(request.body)
      [] OTHER -> request

RequestTryFrom(message) ==
    IF message.kind \in {"ping", "find_nodes", "find_content", "offer"} THEN message ELSE Undecodable

ResponseTryFrom(message) ==
    IF message.kind \in {"pong", "nodes", "content", "accept"} THEN message ELSE Undecodable

EncodeMessage(message) ==
    [selector |-> (CHOOSE i \in DOMAIN MessageKinds : MessageKinds[i] = message.kind) - 1,
     body |-> message.body]

\* The ENRs of a NODES message are decoded one by one, and one that is not RLP
\* spoils the message.
DecodeNodes(enrs) == IF \E i \in DOMAIN enrs : enrs[i] = Undecodable THEN Undecodable ELSE enrs

DecodeMessage(bytes) ==
    IF bytes.selector >= Len(MessageKinds) THEN Undecodable
    ELSE LET kind == MessageKinds[bytes.selector + 1]
             body == IF kind = "nodes" THEN DecodeNodes(bytes.body) ELSE bytes.body
         IN  IF body = Undecodable THEN Undecodable ELSE [kind |-> kind, body |-> body]

\* The identifiers of the sub-protocols as they are sent, and how they are counted.
ProtocolIdBytes ==
    [state |-> "0x500A", history |-> "0x500B", transaction_gossip |-> "0x500C",
     canonical_indices |-> "0x500D", beacon |-> "0x501A", utp |-> "0x757470"]

ProtocolIdFromStr(input) ==
    LET named == {p \in DOMAIN ProtocolIdBytes : ProtocolIdBytes[p] = input}
    IN  IF named = {} THEN "invalid" ELSE CHOOSE p \in named : TRUE

ProtocolIdNumber ==
    [state |-> 2, history |-> 0, transaction_gossip |-> 3, canonical_indices |-> 4,
     beacon |-> 1, utp |-> 99]

\* A radius is sent as the payload of a ping, its least significant byte first.  The
\* bytes that are missing are zeros; more than the width of a radius are a panic.
RadiusOf(payload, width) ==
    IF Len(payload) > width THEN OutOfRange
    ELSE FoldRight(LAMBDA byte, n : byte + 2 * GroupSize * n, payload, 0)

\* An answer over JSON-RPC wants a radius of the full width.
RadiusInJson(payload, width) == IF Len(payload) = width THEN RadiusOf(payload, width) ELSE Undecodable

\* The id of a uTP connection is sent with its bytes swapped.
ToBe(id) == (id % (2 * GroupSize)) * 2 * GroupSize + (id \div (2 * GroupSize))

-----------------------------------------------------------------------------
(***************************************************************************)
(* Sizes in bytes, and the room that the limits leave.                     *)
(***************************************************************************)
MAX_DISCV5_PACKET_SIZE == 1280
MAX_DISCV5_TALK_REQ_PAYLOAD_SIZE == MAX_DISCV5_PACKET_SIZE - 16 - 23 - 32 - 16 - 8 - 8 - 6
BYTES_PER_UNION_SELECTOR == 1
BYTES_PER_LENGTH_OFFSET == 4
MAX_PORTAL_NODES_ENRS_SIZE ==
    MAX_DISCV5_TALK_REQ_PAYLOAD_SIZE - BYTES_PER_UNION_SELECTOR - 1 - BYTES_PER_LENGTH_OFFSET
MAX_PORTAL_CONTENT_PAYLOAD_SIZE ==
    MAX_DISCV5_TALK_REQ_PAYLOAD_SIZE - 2 * BYTES_PER_UNION_SELECTOR - BYTES_PER_LENGTH_OFFSET

\* A list of variable items: an offset for each, and the items.
ListSize(sizes) == FoldSeq(LAMBDA size, n : n + BYTES_PER_LENGTH_OFFSET + size, 0, sizes)

NodesSize(sizes) == BYTES_PER_UNION_SELECTOR + 1 + BYTES_PER_LENGTH_OFFSET + ListSize(sizes)
ContentSize(size) == 2 * BYTES_PER_UNION_SELECTOR + size

=============================================================================
