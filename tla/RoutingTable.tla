---------------------------- MODULE RoutingTable ----------------------------
(***************************************************************************)
(* The upkeep of an overlay's routing table                                *)
(* (portalnet/src/overlay_service.rs): which nodes are in it, whether they *)
(* count as connected, what is known of their ENR and radius, and which of *)
(* them are pinged from time to time.                                      *)
(*                                                                         *)
(* The table itself is discv5's KBucketsTable, which is external.  One     *)
(* bucket of it is modelled, with the place for a pending node that waits  *)
(* for a disconnected one to be replaced; which disconnected node that is  *)
(* is left open.  Filters are off and the limit on incoming nodes is the   *)
(* bucket's size, as in the default configuration.  An ENR is named by its *)
(* sequence number.  A request is a command in the queue of the service or *)
(* an active request; two equal ones are not told apart.                   *)
(***************************************************************************)
EXTENDS Integers, FiniteSets

CONSTANTS
    Node,           \* the nodes whose ids fall into the bucket
    Reliable,       \* those of them that answer all requests and ping this node
    BucketSize,
    MaxSeq,         \* a bound on how often a node changes its ENR
    MaxRadius,      \* Distance::MAX
    MaxRequests     \* a bound on the requests a node is made to answer at a time

ASSUME RoutingAssumption ==
    /\ Reliable \subseteq Node
    /\ BucketSize \in Nat \ {0}
    /\ MaxSeq \in Nat \ {0}
    /\ MaxRadius \in Nat
    /\ MaxRequests \in Nat

EnrSeq == 1..MaxSeq
Radius == 0..MaxRadius

Entry ==
    [place : {"present", "pending"}, seq : EnrSeq, radius : Radius, connected : BOOLEAN]

NoEntry == [place |-> "absent", seq |-> 0, radius |-> MaxRadius, connected |-> FALSE]

Request == [kind : {"Ping", "RequestNode", "Lookup"}, dest : Node, seq : EnrSeq]

VARIABLES
    table,      \* the service: entry (the bucket), to_ping (peers_to_ping) and requests
    peer,       \* what the ENR and the radius of a node really are
    failed      \* nodes that left a request unanswered since they entered the bucket

rvars == <<table, peer, failed>>

Present(t)   == {n \in Node : t.entry[n].place = "present"}
PendingIn(t) == {n \in Node : t.entry[n].place = "pending"}
Absent(t)    == {n \in Node : t.entry[n].place = "absent"}
Full(t) == Cardinality(Present(t)) >= BucketSize
Replaceable(t) == {n \in Present(t) : ~t.entry[n].connected}

RTypeOK ==
    /\ table.entry \in [Node -> Entry \cup {NoEntry}]
    /\ table.to_ping \subseteq Node
    /\ table.requests \subseteq Request
    /\ peer \in [Node -> [seq : EnrSeq, radius : Radius]]
    /\ failed \subseteq Node
    /\ Cardinality(Present(table)) <= BucketSize
    /\ Cardinality(PendingIn(table)) <= 1
    /\ \A n \in Node : table.entry[n].seq <= peer[n].seq

-----------------------------------------------------------------------------
(* Parts of the handlers, as functions of the service's state.             *)

SetEntry(t, n, e) == [t EXCEPT !.entry[n] = e]
Queued(t, n)      == [t EXCEPT !.to_ping = @ \cup {n}]
Unqueued(t, n)    == [t EXCEPT !.to_ping = @ \ {n}]

Sent(t, kind, n) ==
    [t EXCEPT !.requests = @ \cup {[kind |-> kind, dest |-> n, seq |-> t.entry[n].seq]}]

\* update_node_connection_state: a node that is not there is not inserted.
WithStatus(t, n, connected) ==
    IF n \in Absent(t) THEN t ELSE [t EXCEPT !.entry[n].connected = connected]

\* connect_node.  insert_or_update updates a node that is there; in a full bucket
\* a new node becomes pending if no other one is and a node can be replaced.
ConnectNode(t, n, seq, radius) ==
    LET e == [place |-> "present", seq |-> seq, radius |-> radius, connected |-> TRUE] IN
    IF n \in Present(t) THEN
        {IF t.entry[n].connected THEN SetEntry(t, n, e) ELSE Queued(SetEntry(t, n, e), n)}
    ELSE IF ~Full(t) THEN
        {Queued(SetEntry(t, n, e), n)}
    ELSE IF PendingIn(t) = {} /\ Replaceable(t) # {} THEN
        {Sent(SetEntry(t, n, [e EXCEPT !.place = "pending"]), "Ping", d) : d \in Replaceable(t)}
    ELSE {Unqueued(t, n)}

\* register_node_activity: an unknown node is only connected to if discv5's
\* cache has its ENR, which may be an old one.
RegisterNodeActivity(t, n) ==
    IF n \in Absent(t)
    THEN {t} \cup UNION {ConnectNode(t, n, seq, MaxRadius) : seq \in 1..peer[n].seq}
    ELSE {WithStatus(t, n, TRUE)}

\* Faulty: the ENR is not asked for.
ProcessPing_NoRequest(t, n) ==
    IF n \in Absent(t) THEN t ELSE [t EXCEPT !.entry[n].radius = peer[n].radius]

\* process_ping: both messages carry the sender's sequence number and radius.
ProcessPing(t, n) ==
    IF n \in Absent(t) THEN t
    ELSE LET asked == IF t.entry[n].seq < peer[n].seq THEN Sent(t, "RequestNode", n) ELSE t
         IN  [asked EXCEPT !.entry[n].radius = peer[n].radius]

\* process_pong: with a new radius the entry also takes the ENR that the ping
\* was sent to.
ProcessPong(t, n, seq) ==
    IF n \in Absent(t) THEN t
    ELSE LET asked == IF t.entry[n].seq < peer[n].seq THEN Sent(t, "RequestNode", n) ELSE t
         IN  IF t.entry[n].radius = peer[n].radius THEN asked
             ELSE [asked EXCEPT !.entry[n].radius = peer[n].radius, !.entry[n].seq = seq]

\* Faulty: leaves the ping queue alone.
ProcessDiscoveredEnr_NoPing(t, n, seq) ==
    IF n \in Absent(t)
    THEN IF Full(t) THEN t
         ELSE SetEntry(t, n, [place |-> "present", seq |-> seq, radius |-> MaxRadius,
                              connected |-> FALSE])
    ELSE IF t.entry[n].seq < seq THEN [t EXCEPT !.entry[n].seq = seq] ELSE t

\* process_discovered_enrs, for one ENR
ProcessDiscoveredEnr(t, n, seq) ==
    IF n \in Absent(t)
    THEN IF Full(t) THEN t
         ELSE Queued(SetEntry(t, n, [place |-> "present", seq |-> seq, radius |-> MaxRadius,
                                     connected |-> FALSE]), n)
    ELSE IF t.entry[n].seq < seq THEN [t EXCEPT !.entry[n].seq = seq] ELSE t

\* process_response, before the response is looked at.
ProcessResponse(t, n, seq) ==
    LET e == t.entry[n] IN
    IF e.connected THEN {t}
    ELSE IF n \in Absent(t) THEN ConnectNode(t, n, seq, MaxRadius)
    ELSE ConnectNode(t, n, e.seq, e.radius)

-----------------------------------------------------------------------------
(* The steps of the service.                                               *)

\* A node that enters the bucket by an insertion starts with a clean slate.
Entered == {n \in Absent(table) : n \in Present(table')}
Remember(nodes) == failed' = (failed \cup nodes) \ Entered

\* add_bootnodes
RInit ==
    /\ peer = [n \in Node |-> [seq |-> 1, radius |-> MaxRadius]]
    /\ failed = {}
    /\ \E bootnodes \in SUBSET Node :
          /\ Cardinality(bootnodes) <= BucketSize
          /\ table = [entry    |-> [n \in Node |->
                                      IF n \in bootnodes
                                      THEN [NoEntry EXCEPT !.place = "present", !.seq = 1]
                                      ELSE NoEntry],
                      to_ping  |-> bootnodes,
                      requests |-> {}]

MaySend == Cardinality(table.requests) < MaxRequests

\* process_request of an incoming ping, and of any other request.
IncomingPing(n) ==
    /\ \E t \in RegisterNodeActivity(table, n) : table' = ProcessPing(t, n)
    /\ Remember({})
    /\ UNCHANGED peer

IncomingRequest(n) ==
    /\ MaySend
    /\ table' \in RegisterNodeActivity(table, n)
    /\ Remember({})
    /\ UNCHANGED peer

\* An entry of the ping queue expires.
PingQueue(n) ==
    /\ MaySend
    /\ n \in table.to_ping
    /\ table' = IF n \in Present(table) THEN Sent(table, "Ping", n) ELSE Unqueued(table, n)
    /\ UNCHANGED <<peer, failed>>

\* A lookup asks a node it has an ENR of, which need not be in the table.
SendLookup(n, seq) ==
    /\ MaySend
    /\ seq <= peer[n].seq
    /\ table' = [table EXCEPT !.requests =
                    @ \cup {[kind |-> "Lookup", dest |-> n, seq |-> seq]}]
    /\ UNCHANGED <<peer, failed>>

\* The table after the answered request has been taken out.
Answered(r) == [table EXCEPT !.requests = @ \ {r}]

ReceivePong(r) ==
    /\ r \in table.requests /\ r.kind = "Ping"
    /\ \E t \in ProcessResponse(Answered(r), r.dest, r.seq) :
          table' = ProcessPong(t, r.dest, r.seq)
    /\ Remember({})
    /\ UNCHANGED peer

\* The answer to request_node is the node's own ENR.
ReceiveOwnEnr(r) ==
    /\ r \in table.requests /\ r.kind = "RequestNode"
    /\ \E t \in ProcessResponse(Answered(r), r.dest, r.seq) :
          table' = ProcessDiscoveredEnr(t, r.dest, peer[r.dest].seq)
    /\ Remember({})
    /\ UNCHANGED peer

\* The answer to a lookup is some ENR, perhaps an old one.
ReceiveNodes(r, n, seq) ==
    /\ r \in table.requests /\ r.kind = "Lookup"
    /\ seq <= peer[n].seq
    /\ \E t \in ProcessResponse(Answered(r), r.dest, r.seq) :
          table' = ProcessDiscoveredEnr(t, n, seq)
    /\ Remember({})
    /\ UNCHANGED peer

\* A node of another bucket answers, and names a node of this one.
DiscoverNode(n, seq) ==
    /\ seq <= peer[n].seq
    /\ table' = ProcessDiscoveredEnr(table, n, seq)
    /\ Remember({})
    /\ UNCHANGED peer

ProcessRequestFailure(r) ==
    /\ r \in table.requests
    /\ r.dest \notin Reliable
    /\ table' = Unqueued(WithStatus(Answered(r), r.dest, FALSE), r.dest)
    /\ Remember({r.dest})
    /\ UNCHANGED peer

\* OverlayProtocol::add_enr, which leaves the ping queue alone.
AddEnr(n, seq) ==
    /\ seq <= peer[n].seq
    /\ \E t \in ConnectNode(table, n, seq, MaxRadius) :
          table' = [table EXCEPT !.entry = t.entry]
    /\ Remember({})
    /\ UNCHANGED peer

\* OverlayProtocol::delete_enr, which leaves the ping queue, the requests on their way
\* and a pending node alone.  MaxRequests bounds how many requests it leaves behind.
DeleteEnr(n) ==
    /\ Cardinality(table.requests) <= MaxRequests
    /\ n \in Present(table)
    /\ table' = SetEntry(table, n, NoEntry)
    /\ UNCHANGED <<peer, failed>>

\* The time of the pending node has come, or discv5 drops it since a node it waits
\* for is connected again; bucket_maintenance_poll only logs what was applied.  The
\* bucket is full unless a node has been deleted.
ApplyPending(n) ==
    /\ n \in PendingIn(table)
    /\ \/ Present(table) # Replaceable(table) /\ table' = SetEntry(table, n, NoEntry)
       \/ ~Full(table) /\ table' = [table EXCEPT !.entry[n].place = "present"]
       \/ \E d \in Replaceable(table) :
             /\ Full(table)
             /\ table' = [table EXCEPT !.entry[n].place = "present", !.entry[d] = NoEntry]
    /\ UNCHANGED <<peer, failed>>

\* A node changes its ENR or its radius.
PeerChanges(n) ==
    /\ \/ peer[n].seq < MaxSeq /\ peer' = [peer EXCEPT ![n].seq = @ + 1]
       \/ \E radius \in Radius \ {peer[n].radius} : peer' = [peer EXCEPT ![n].radius = radius]
    /\ UNCHANGED <<table, failed>>

RNext ==
    \/ \E n \in Node :
          \/ IncomingPing(n) \/ IncomingRequest(n) \/ PingQueue(n) \/ ApplyPending(n)
          \/ DeleteEnr(n) \/ PeerChanges(n)
          \/ \E seq \in EnrSeq : SendLookup(n, seq) \/ DiscoverNode(n, seq) \/ AddEnr(n, seq)
    \/ \E r \in Request :
          \/ ReceivePong(r) \/ ReceiveOwnEnr(r) \/ ProcessRequestFailure(r)
          \/ \E n \in Node, seq \in EnrSeq : ReceiveNodes(r, n, seq)

RSpec == RInit /\ [][RNext]_rvars

\* Nothing is assumed of nodes other than the reliable ones.
RFairSpec ==
    /\ RSpec
    /\ \A n \in Reliable :
          /\ WF_rvars(IncomingPing(n))
          /\ WF_rvars(\E r \in table.requests : r.dest = n /\ ReceiveOwnEnr(r))

-----------------------------------------------------------------------------
(* Properties.                                                             *)

\* A node that was put into the table unconnected, as a bootnode or because a
\* lookup discovered it, will be pinged, unless it has failed a request since:
\* "A subsequent ping will establish connectivity with the node."
UnconnectedIsPinged ==
    \A n \in Present(table) :
        ~table.entry[n].connected => n \in table.to_ping \/ n \in failed

\* The table catches up with a node that changes its ENR, as long as the node
\* pings and answers: late pongs that bring back an older ENR, lookups that report
\* old ENRs and the node's way through the pending place do not prevent it.
EnrIsLearnt ==
    \A n \in Reliable :
        table.entry[n].seq # peer[n].seq ~>
            (n \in Absent(table) \/ table.entry[n].seq = peer[n].seq)

=============================================================================
