----------------------------- MODULE OverlayApi -----------------------------
(***************************************************************************)
(* What a node can be asked to do on an overlay network                    *)
(* (portalnet/src/overlay.rs, and the traced gossip of                     *)
(* portalnet/src/gossip.rs), as calls of tasks that run at the same time.  *)
(*                                                                         *)
(* A call is a record: stage says what it waits for, got what it has found *)
(* so far, todo and trace belong to a traced gossip, from records that a   *)
(* lookup of an ENR ended with an answer of the node itself, result is what*)
(* it returns.  The overlay service is at the other end of a channel: it   *)
(* answers a request or a query, or drops the sender of the answer, and it *)
(* may stop.  An ENR is an identity and a sequence number; a peer's own ENR*)
(* has the number MaxSeq, copies elsewhere may be older, and a list of ENRs*)
(* a peer sends may be any list.                                           *)
(***************************************************************************)
EXTENDS Gossip, Results

CONSTANTS
    Call,       \* the calls
    Peer,       \* the other nodes, numbered by their distance to the content
    MaxSeq,     \* the sequence number of everybody's latest ENR
    Key,        \* content keys
    MaxRadius,  \* data radii are in 0..MaxRadius
    Text        \* a string, where a value of another type is due

VARIABLES
    call,
    table,      \* the routing table: per peer, the ENR's number (0: not there) and
                \* whether it is connected
    store,      \* the keys of the content store
    service     \* whether the overlay service runs

Local == 0

Node == Peer \cup {Local}

Enr == [id : Node, seq : 1..MaxSeq]

\* The local node is no peer, and an error is no ENR.
ASSUME OverlayAssumption ==
    /\ IsFiniteSet(Peer) /\ Peer \subseteq Nat \ {Local}
    /\ MaxSeq \in Nat \ {0}
    /\ Failed \notin Enr

Latest(n) == [id |-> n, seq |-> MaxSeq]

NoEntry == [seq |-> 0, connected |-> FALSE]

NewestOf(enrs) == {e \in enrs : \A f \in enrs : f.seq <= e.seq}

\* What a FINDNODES or a lookup brings: one ENR per node.
EnrLists == {enrs \in SUBSET Enr : \A d, e \in enrs : d.id = e.id => d = e}

NoTrace == [offered |-> {}, accepted |-> {}, transferred |-> {}]

-----------------------------------------------------------------------------
(* Steps of a call.                                                        *)

\* The call waits: for an answer of the service, for a stream, for the validator.
Await(c, stage) == call' = [call EXCEPT ![c].stage = stage]

AwaitWith(c, stage, got) ==
    call' = [call EXCEPT ![c] = [@ EXCEPT !.stage = stage, !.got = got]]

Answer(c, result) ==
    call' = [call EXCEPT ![c] = [@ EXCEPT !.stage = "answered", !.result = result]]

AnswerOfNode(c, result) ==
    call' = [call EXCEPT ![c] = [@ EXCEPT !.stage = "answered", !.from = "node",
                                          !.result = result]]

\* send_overlay_request and the callbacks of the queries: an answer from the service if
\* it runs, and at any time an error (a request times out, the peer's answer is none to
\* this request, the sender is dropped, or the command channel is closed).
Replies(answers) == (IF service THEN answers ELSE {}) \cup {Failed}

-----------------------------------------------------------------------------
(* The routing table.                                                      *)

\* insert_or_update in the routing table.  A new entry may have to wait for a place, or
\* be refused, and the local node always is.
AddEnr(c) ==
    LET enr == call[c].arg.enr
    IN  \/ /\ enr.id # Local
           /\ table' = [table EXCEPT ![enr.id] = [seq |-> enr.seq, connected |-> TRUE]]
           /\ Answer(c, TRUE)
        \/ /\ enr.id # Local /\ table[enr.id] = NoEntry
           /\ Answer(c, TRUE)
           /\ UNCHANGED table
        \/ Answer(c, Failed) /\ UNCHANGED table

TableEnr(n) ==
    IF n = Local THEN Latest(Local)
    ELSE IF table[n] # NoEntry THEN [id |-> n, seq |-> table[n].seq] ELSE Failed

GetEnr(c) == Answer(c, TableEnr(call[c].arg.node)) /\ UNCHANGED table

DeleteEnr(c) ==
    LET n == call[c].arg.node
    IN  /\ Answer(c, n # Local /\ table[n] # NoEntry)
        /\ table' = IF n = Local THEN table ELSE [table EXCEPT ![n] = NoEntry]

-----------------------------------------------------------------------------
(* Requests to a peer.                                                     *)

ValidateFindNodesDistances(distances) ==
    /\ distances # <<>>
    /\ Len(distances) <= 256
    /\ \A i \in DOMAIN distances : distances[i] <= 256
    /\ Cardinality({distances[i] : i \in DOMAIN distances}) = Len(distances)

SendPing(c) == Await(c, "ping")

\* Faulty: a ping that fails is sent again, also when the service has ended.
ReceivePong_Retries(c) ==
    /\ call[c].stage = "ping"
    /\ \E reply \in Replies({MaxSeq}) :
          IF reply = Failed THEN UNCHANGED call ELSE Answer(c, reply)

\* The number of the peer's ENR and its radius.
ReceivePong(c) ==
    /\ call[c].stage = "ping"
    /\ \E reply \in Replies({MaxSeq}) : Answer(c, reply)

SendFindNodes(c) ==
    IF ValidateFindNodesDistances(call[c].arg.distances) THEN Await(c, "find_nodes")
                                                         ELSE Answer(c, Failed)

ReceiveNodes(c) ==
    /\ call[c].stage = "find_nodes"
    /\ \E reply \in Replies({e \in EnrLists : Cardinality(e) <= 1}) : Answer(c, reply)

SendOffer(c) == Await(c, "offer")

\* Whether the peer wants the content.
ReceiveAccept(c) ==
    /\ call[c].stage = "offer"
    /\ \E reply \in Replies(BOOLEAN) : Answer(c, reply)

SendFindContent(c) == Await(c, "find_content")

\* Content in the answer goes to the validator, a connection id opens a stream.
ReceiveContent(c) ==
    /\ call[c].stage = "find_content"
    /\ \E reply \in Replies({"valid", "invalid", "enrs", "connection_id"}) :
          CASE reply \in {"valid", "invalid"} ->
                  AwaitWith(c, "validate", [content |-> reply, utp |-> FALSE])
            [] reply = "connection_id" -> Await(c, "stream")
            [] reply = "enrs" -> Answer(c, [content |-> "enrs", utp |-> FALSE])
            [] OTHER -> Answer(c, Failed)

\* Faulty: content that came by stream is not validated.
InitFindContentStream_Trusted(c) ==
    /\ call[c].stage = "stream"
    /\ \E read \in {"valid", "invalid"} : Answer(c, [content |-> read, utp |-> TRUE])

\* init_find_content_stream: connects and reads to the end, or fails
InitFindContentStream(c) ==
    /\ call[c].stage = "stream"
    /\ \/ \E read \in {"valid", "invalid"} :
             AwaitWith(c, "validate", [content |-> read, utp |-> TRUE])
       \/ Answer(c, Failed)

\* The validator may also fail for want of a header it looks up.
ValidateContent(c) ==
    /\ call[c].stage = "validate"
    /\ \/ call[c].got.content = "valid" /\ Answer(c, call[c].got)
       \/ Answer(c, Failed)

-----------------------------------------------------------------------------
(* Lookups.                                                                *)

\* lookup_node returns ENRs, or waits for a FindNode query.  discovery.find_enr knows
\* some ENR of a node, or none.
LookupNodeAtOnce(n) ==
    IF n = Local THEN {{Latest(Local)}}
    ELSE IF table[n].connected
    THEN {{}} \cup {{[id |-> n, seq |-> s]} : s \in 1..MaxSeq}
    ELSE {}

\* Faulty: what was looked up is returned even if it is older.
ConcludeLookup_Unordered(c, found, enrs) ==
    IF enrs # {} THEN \E newest \in NewestOf(enrs) : Answer(c, newest) ELSE Answer(c, found)

\* The end of lookup_enr: what was found, unless it is no newer than the table's.
ConcludeLookup(c, found, enrs) ==
    IF enrs # {}
    THEN \E newest \in NewestOf(enrs) :
            Answer(c, IF newest.seq > (IF found = Failed THEN 0 ELSE found.seq) THEN newest
                                                                               ELSE found)
    ELSE Answer(c, found)

\* Going on with a lookup of the node, at once or after a query.
LookupNodeOfEnr(c, found) ==
    LET n == call[c].arg.node
    IN  IF LookupNodeAtOnce(n) = {} THEN AwaitWith(c, "lookup_query", found)
        ELSE \E enrs \in LookupNodeAtOnce(n) : ConcludeLookup(c, found, enrs)

LookupEnr(c) ==
    LET n == call[c].arg.node
    IN  IF n = Local THEN Answer(c, Latest(Local))
        ELSE IF table[n] # NoEntry THEN AwaitWith(c, "lookup_nodes", TableEnr(n))
        ELSE LookupNodeOfEnr(c, Failed)

\* FINDNODES at distance 0 asks the node for its own ENR.  Of the list it answers with,
\* the newest is returned, compared neither with the table's nor with the node asked for.
ReceiveOwnEnr(c) ==
    /\ call[c].stage = "lookup_nodes"
    /\ \E reply \in Replies(EnrLists) :
          IF reply \in {Failed, {}} THEN LookupNodeOfEnr(c, call[c].got)
                                    ELSE \E newest \in NewestOf(reply) : AnswerOfNode(c, newest)

\* The query returns the nodes closest to the one looked up.
ReceiveLookup(c) ==
    /\ call[c].stage = "lookup_query"
    /\ \E reply \in Replies(EnrLists) :
          ConcludeLookup(c, call[c].got, IF reply = Failed THEN {} ELSE reply)

LookupNode(c) ==
    LET n == call[c].arg.node
    IN  IF LookupNodeAtOnce(n) = {} THEN Await(c, "query_nodes")
        ELSE \E enrs \in LookupNodeAtOnce(n) : Answer(c, enrs)

ReceiveQueryNodes(c) ==
    /\ call[c].stage = "query_nodes"
    /\ \E reply \in Replies(EnrLists) : Answer(c, IF reply = Failed THEN {} ELSE reply)

LookupContent(c) == Await(c, "query_content")

NothingFound == [content |-> "absent", utp |-> FALSE, traced |-> FALSE]

\* lookup_content.  A query that was traced has a trace whether or not it found the
\* content; without connected peers no query is made, and there is none.
ContentFound(traced) ==
    {NothingFound} \cup [content : {"valid"}, utp : BOOLEAN, traced : {traced}]
                   \cup [content : {"absent"}, utp : {FALSE}, traced : {traced}]

-----------------------------------------------------------------------------
(* Gossip.                                                                 *)

Connected == {n \in Peer : table[n].connected}

\* The radii are those of the table, and could be any.
Recipients ==
    UNION {CalculateInterestedEnrs(Connected, [n \in Peer |-> n], radius) :
              radius \in [Peer -> 0..MaxRadius]}

\* propagate_gossip: the number of peers that are sent an offer, heard of no more
PropagateGossip(c) == \E to \in Recipients : Answer(c, Len(to))

\* The offer to the next peer, or the report.  When the command channel is closed the
\* peers that are left are passed over, and do not count as offered.
OfferNext(c, todo, trace) ==
    IF todo = <<>> \/ ~service
    THEN Answer(c, trace)
    ELSE call' = [call EXCEPT ![c] = [@ EXCEPT
                    !.stage = "gossip_offer", !.todo = todo,
                    !.trace = [trace EXCEPT !.offered = @ \cup {Head(todo)}]]]

PropagateGossipTrace(c) == \E to \in Recipients : OfferNext(c, to, NoTrace)

\* Faulty: that a peer accepted is not noted.
GossipAnswered_Any(c) ==
    /\ call[c].stage = "gossip_offer"
    /\ \E reply \in Replies(BOOLEAN) :
          IF reply = Failed
          THEN OfferNext(c, Tail(call[c].todo), call[c].trace)
          ELSE call' = [call EXCEPT ![c].stage = "gossip_result", ![c].got = reply]

\* The peer accepts (TRUE), wants nothing (FALSE), or the request fails.
GossipAnswered(c) ==
    /\ call[c].stage = "gossip_offer"
    /\ \E reply \in Replies(BOOLEAN) :
          IF reply = Failed
          THEN OfferNext(c, Tail(call[c].todo), call[c].trace)
          ELSE LET took == IF reply THEN {Head(call[c].todo)} ELSE {}
                   trace == [call[c].trace EXCEPT !.accepted = @ \cup took]
               IN  call' = [call EXCEPT ![c] = [@ EXCEPT !.stage = "gossip_result",
                                                         !.got = reply, !.trace = trace]]

\* The outcome of the transfer.  process_accept reports a failure for an offer of which
\* nothing was accepted, and drops the sender if the task of the transfer is lost.
GossipTransferred(c) ==
    /\ call[c].stage = "gossip_result"
    /\ \E success \in IF call[c].got THEN {TRUE, FALSE} ELSE {FALSE} :
          OfferNext(c, Tail(call[c].todo),
                    [call[c].trace EXCEPT
                       !.transferred = IF success THEN @ \cup {Head(call[c].todo)} ELSE @])

=============================================================================
