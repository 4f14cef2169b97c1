---------------------------- MODULE TalkRequests ----------------------------
(***************************************************************************)
(* The path of a request from discv5 to its reply in a node that starts:   *)
(* the discovery loop, which also keeps the cache of node addresses, the   *)
(* bounded channel to the dispatcher, the queue of every sub-network, the  *)
(* task spawned for a request, the commands of the overlay service and the *)
(* answers it builds, and the uTP socket.  A TALKREQ that is dropped is    *)
(* answered with an empty TALKRESP by discv5 (external).                   *)
(*                                                                         *)
(* The event stream of discv5 is a bounded channel, external as well:      *)
(* discv5 does not wait for a place in it, and an event that finds none is *)
(* lost, be it a session or a request.                                     *)
(*                                                                         *)
(* A peer is its distance from the local node, whose id is 0.  The ENRs of *)
(* a reply are counted, not measured: EnrLimit of them fit.                *)
(***************************************************************************)
EXTENDS Discovery, Sequences, Functions

CONSTANTS
    Peer,                       \* the peers, positive numbers
    Request,                    \* the requests that arrive, numbers apart from the peers
    EventStreamSize,            \* external: how many events the stream of discv5 holds
    TALKREQ_CHANNEL_BUFFER,     \* length of the channel to the dispatcher
    NodeAddrCacheCapacity,      \* size of the cache of node addresses
    FIND_NODES_MAX_NODES,
    FIND_CONTENT_MAX_NODES,
    EnrLimit,                   \* how many ENRs fit into a reply
    MaxSessions                 \* bound on the sessions that are established

ASSUME TalkAssumption ==
    Peer \cap Request = {} /\ NodeAddrCacheCapacity \in Nat /\ EventStreamSize \in Nat

VARIABLES
    enabled,        \* the sub-networks that were selected (constant)
    request,        \* the sender, protocol and body of every request (constant)
    table,          \* the connected and the other peers of the table (constant)
    events,         \* the event stream of discv5
    sessions,       \* how many sessions each peer has established
    heard,          \* history: the peers of which the stream took a session, and the
                    \* requests that came after that of their sender
    cache,          \* the node address cache, last used first
    evicted,        \* history: the peers the cache has pushed out
    talk_req,       \* the channel to the dispatcher
    queue,          \* the request queue of every sub-network
    utp_talk_reqs,  \* the queue of the uTP socket
    tasks,          \* the spawned requests that are not yet submitted
    commands,       \* the command queue of every overlay service
    alive,          \* is the overlay service running?
    reply           \* the answer of every request, None before it

tvars == <<enabled, request, table, events, sessions, heard, cache, evicted, talk_req,
           queue, utp_talk_reqs, tasks, commands, alive, reply>>

Network == {"history", "beacon", "state"}

\* A content key is "small" or "large", stored with content of that size,
\* "absent", in the radius and not stored, or "unknown", which does not decode.
Answer(kind, enrs) == [kind |-> kind, enrs |-> enrs]
Empty(why) == Answer(why, <<>>)

-----------------------------------------------------------------------------
(* The replies of the overlay service. *)

Log2Distance(n) == CHOOSE i \in 1..n : 2^(i - 1) <= n /\ n < 2^i

\* The elements of a set in an order, and the first of a sequence.
InOrder(S, Before(_, _)) ==
    CHOOSE s \in Injection(1..Cardinality(S), S) :
        \A i, j \in DOMAIN s : i < j => Before(s[i], s[j])

First(s, n) == SubSeq(s, 1, IF Len(s) < n THEN Len(s) ELSE n)

\* External: the bucket of each distance, up to a number of nodes in all.
NodesByDistances(distances) ==
    First(InOrder({p \in table.connected \cup table.others : Log2Distance(p) \in distances},
                  LAMBDA a, b : a < b),
          FIND_NODES_MAX_NODES)

\* The distances are sorted and each is looked up once; 0 is the local node.
NodesByDistance(distances) ==
    LET asked == Range(distances)
    IN  (IF 0 \in asked THEN <<0>> ELSE <<>>)
        \o SelectSeq(NodesByDistances(asked \ {0}), LAMBDA p : p \in table.connected)

PopWhileSszBytesLenGt(enrs) == First(enrs, EnrLimit)

HandleFindNodes(distances, source) ==
    PopWhileSszBytesLenGt(SelectSeq(NodesByDistance(distances), LAMBDA p : p # source))

ContentId(key) == CASE key = "small" -> 1 [] key = "large" -> 2 [] OTHER -> 3

\* XorMetric: of two ids the one is closer that agrees with the target in the
\* highest bit in which they differ.
Closer(a, b, target) ==
    LET bit(n, i) == (n \div 2^i) % 2
    IN  \E i \in 0..a + b : /\ bit(a, i) = bit(target, i) /\ bit(b, i) # bit(target, i)
                            /\ \A j \in i + 1..a + b : bit(a, j) = bit(b, j)

\* The closest nodes to the content are taken before the source is left out.
FindNodesCloseToContent(key) ==
    First(InOrder(table.connected, LAMBDA a, b : Closer(a, b, ContentId(key))),
          FIND_CONTENT_MAX_NODES)

CachedNodeAddr(p) == p \in Range(cache)

HandleFindContent(key, source) ==
    CASE key = "unknown" -> Empty("invalid")
      [] key = "small" -> Answer("content", <<>>)
      [] key = "large" -> IF CachedNodeAddr(source) THEN Answer("connection", <<>>)
                          ELSE Empty("no address")
      [] OTHER -> Answer("enrs", PopWhileSszBytesLenGt(
                        SelectSeq(FindNodesCloseToContent(key), LAMBDA p : p # source)))

\* The absent content is in the radius; nothing is accepted of what is stored.
HandleOffer(key, source) ==
    CASE key = "unknown" -> Empty("invalid")
      [] key \in {"small", "large"} -> Answer("accept none", <<>>)
      [] OTHER -> IF CachedNodeAddr(source) THEN Answer("accept", <<>>)
                  ELSE Empty("no address")

\* The store of the state network is not implemented: whatever reaches it panics.
UsesStore(body) ==
    \/ body.kind = "ping"
    \/ body.kind \in {"find_content", "offer"} /\ body.key # "unknown"

HandleRequest(body, source) ==
    CASE body.kind = "ping" -> Answer("pong", <<>>)
      [] body.kind = "find_nodes" -> Answer("nodes", HandleFindNodes(body.distances, source))
      [] body.kind = "find_content" -> HandleFindContent(body.key, source)
      [] OTHER -> HandleOffer(body.key, source)

\* The cache is touched by a reply that looks the sender up in it.
LooksUpAddress(body) ==
    \/ body.kind = "find_content" /\ body.key = "large"
    \/ body.kind = "offer" /\ body.key = "absent"

\* The LRU cache with a peer in front; no peer is in it twice.
Used(p) ==
    LET k == CHOOSE i \in DOMAIN cache : cache[i] = p
    IN  <<p>> \o (IF CachedNodeAddr(p)
                  THEN SubSeq(cache, 1, k - 1) \o SubSeq(cache, k + 1, Len(cache)) ELSE cache)

-----------------------------------------------------------------------------
(* The steps of a request. *)

\* There may be sessions from before the loop asked discv5 for the stream.
TInit ==
    /\ events = <<>>
    /\ sessions \in [Peer -> 0..MaxSessions]
    /\ heard = {}
    /\ cache = <<>>
    /\ evicted = {}
    /\ talk_req = <<>>
    /\ queue = [n \in Network |-> <<>>]
    /\ utp_talk_reqs = <<>>
    /\ tasks = {}
    /\ commands = [n \in Network |-> <<>>]
    /\ alive = [n \in Network |-> n \in enabled]
    /\ reply = [r \in Request |-> None]

Held == Range(events) \cup Range(talk_req)
        \cup (UNION {Range(queue[n]) : n \in Network}) \cup Range(utp_talk_reqs)
        \cup tasks \cup (UNION {Range(commands[n]) : n \in Network})

ReplyTo(rs, answer) ==
    reply' = [r \in Request |-> IF r \in rs THEN answer ELSE reply[r]]

\* External: try_send.  The loop may have taken the first of the events and wait with it.
StreamHasRoom == Len(events) <= EventStreamSize
StreamMayBeFull == Len(events) >= EventStreamSize

\* External: a session with a peer, again after its peer has restarted.
Discv5Session(p) ==
    /\ phase \in Up
    /\ sessions[p] < MaxSessions
    /\ sessions' = [sessions EXCEPT ![p] = @ + 1]
    /\ \/ /\ StreamHasRoom
          /\ events' = Append(events, p)
          /\ heard' = heard \cup {p}
       \/ /\ StreamMayBeFull
          /\ UNCHANGED <<events, heard>>
    /\ UNCHANGED <<dvars, enabled, request, table, cache, evicted, talk_req, queue,
                   utp_talk_reqs, tasks, commands, alive, reply>>

\* External: a request comes in on a session; one that is lost is answered empty.
Discv5TalkRequest(r) ==
    /\ phase \in Up
    /\ reply[r] = None /\ r \notin Held
    /\ sessions[request[r].from] > 0
    /\ \/ /\ StreamHasRoom
          /\ events' = Append(events, r)
          /\ heard' = IF request[r].from \in heard THEN heard \cup {r} ELSE heard
          /\ UNCHANGED reply
       \/ /\ StreamMayBeFull
          /\ ReplyTo({r}, Empty("dropped"))
          /\ UNCHANGED <<events, heard>>
    /\ UNCHANGED <<dvars, enabled, request, table, sessions, cache, evicted, talk_req,
                   queue, utp_talk_reqs, tasks, commands, alive>>

\* Faulty: a cache that is full takes no other peer.
PutCachedNodeAddr_Full(p) ==
    LET new == IF CachedNodeAddr(p) THEN cache ELSE Append(cache, p)
        kept == First(new, NodeAddrCacheCapacity)
    IN  /\ cache' = kept
        /\ evicted' = evicted \cup (Range(cache) \ Range(kept))

PutCachedNodeAddr(p) ==
    LET new == Used(p)
        kept == First(new, NodeAddrCacheCapacity)
    IN  /\ cache' = kept
        /\ evicted' = evicted \cup (Range(new) \ Range(kept))

\* The loop waits while the channel of the dispatcher is full; without a
\* dispatcher (it ends at once when no network is selected) the request is dropped.
DiscoveryLoop ==
    /\ events # <<>>
    /\ events' = Tail(events)
    /\ LET e == Head(events)
       IN  \/ /\ e \in Peer
              /\ PutCachedNodeAddr(e)
              /\ UNCHANGED <<talk_req, reply>>
           \/ /\ e \in Request
              /\ ~(phase = "running" /\ enabled = {})
              /\ Len(talk_req) < TALKREQ_CHANNEL_BUFFER
              /\ talk_req' = Append(talk_req, e)
              /\ UNCHANGED <<cache, evicted, reply>>
           \/ /\ e \in Request
              /\ phase = "running" /\ enabled = {}
              /\ ReplyTo({e}, Empty("dropped"))
              /\ UNCHANGED <<cache, evicted, talk_req>>
    /\ UNCHANGED <<dvars, enabled, request, table, sessions, heard, queue, utp_talk_reqs, tasks,
                   commands, alive>>

\* The dispatcher of a node without networks panics, which closes the channel.
DispatcherPanics ==
    /\ phase = "running" /\ enabled = {}
    /\ talk_req # <<>>
    /\ talk_req' = <<>>
    /\ ReplyTo(Range(talk_req), Empty("dropped"))
    /\ UNCHANGED <<dvars, enabled, request, table, events, sessions, heard, cache, evicted,
                   queue, utp_talk_reqs, tasks, commands, alive>>

\* Faulty: a request for a network that was not selected is kept.
DispatchDiscv5TalkReq_Keeps ==
    /\ phase = "running" /\ enabled # {}
    /\ talk_req # <<>>
    /\ LET n == request[Head(talk_req)].protocol
       IN  /\ n \in enabled
           /\ queue' = [queue EXCEPT ![n] = Append(@, Head(talk_req))]
           /\ talk_req' = Tail(talk_req)
    /\ UNCHANGED <<dvars, enabled, request, table, events, sessions, heard, cache, evicted,
                   utp_talk_reqs, tasks, commands, alive, reply>>

DispatchDiscv5TalkReq ==
    /\ phase = "running" /\ enabled # {}
    /\ talk_req # <<>>
    /\ talk_req' = Tail(talk_req)
    /\ LET r == Head(talk_req)
           n == request[r].protocol
       IN  \/ /\ n \in enabled
              /\ queue' = [queue EXCEPT ![n] = Append(@, r)]
              /\ UNCHANGED <<utp_talk_reqs, reply>>
           \/ /\ n = "utp"
              /\ utp_talk_reqs' = Append(utp_talk_reqs, r)
              /\ UNCHANGED <<queue, reply>>
           \/ /\ n \notin enabled \cup {"utp"}
              /\ ReplyTo({r}, Empty("dropped"))
              /\ UNCHANGED <<queue, utp_talk_reqs>>
    /\ UNCHANGED <<dvars, enabled, request, table, events, sessions, heard, cache, evicted,
                   tasks, commands, alive>>

\* A task for every request.
HandleMessage(n) ==
    /\ queue[n] # <<>>
    /\ queue' = [queue EXCEPT ![n] = Tail(@)]
    /\ tasks' = tasks \cup {Head(queue[n])}
    /\ UNCHANGED <<dvars, enabled, request, table, events, sessions, heard, cache, evicted,
                   talk_req, utp_talk_reqs, commands, alive, reply>>

HandleHistoryMessage == HandleMessage("history")
HandleBeaconMessage == HandleMessage("beacon")
HandleStateMessage == HandleMessage("state")

\* What is no request is answered empty, as is one whose service has ended.
ProcessOneRequest(r) ==
    /\ r \in tasks
    /\ tasks' = tasks \ {r}
    /\ LET n == request[r].protocol
           kind == request[r].body.kind
       IN  \/ /\ kind \in {"garbage", "packet", "response"}
              /\ ReplyTo({r}, Empty(IF kind = "response" THEN "invalid" ELSE "undecodable"))
              /\ UNCHANGED commands
           \/ /\ kind \notin {"garbage", "packet", "response"}
              /\ alive[n]
              /\ commands' = [commands EXCEPT ![n] = Append(@, r)]
              /\ UNCHANGED reply
           \/ /\ kind \notin {"garbage", "packet", "response"}
              /\ ~alive[n]
              /\ ReplyTo({r}, Empty("panic"))
              /\ UNCHANGED commands
    /\ UNCHANGED <<dvars, enabled, request, table, events, sessions, heard, cache, evicted,
                   talk_req, queue, utp_talk_reqs, alive>>

\* process_request for an incoming one: the answer is built and sent.
ProcessIncoming(n) ==
    /\ alive[n]
    /\ commands[n] # <<>>
    /\ LET r == Head(commands[n])
           source == request[r].from
           body == request[r].body
       IN  /\ ~(n = "state" /\ UsesStore(body))
           /\ ReplyTo({r}, HandleRequest(body, source))
           /\ cache' = IF LooksUpAddress(body) /\ CachedNodeAddr(source)
                       THEN Used(source) ELSE cache
    /\ commands' = [commands EXCEPT ![n] = Tail(@)]
    /\ UNCHANGED <<dvars, enabled, request, table, events, sessions, heard, evicted, talk_req,
                   queue, utp_talk_reqs, tasks, alive>>

\* The panic ends the overlay service and drops all that wait for it.
ServicePanics(n) ==
    /\ n = "state"
    /\ alive[n]
    /\ commands[n] # <<>>
    /\ UsesStore(request[Head(commands[n])].body)
    /\ alive' = [alive EXCEPT ![n] = FALSE]
    /\ commands' = [commands EXCEPT ![n] = <<>>]
    /\ ReplyTo(Range(commands[n]), Empty("panic"))
    /\ UNCHANGED <<dvars, enabled, request, table, events, sessions, heard, cache, evicted,
                   talk_req, queue, utp_talk_reqs, tasks>>

\* Discv5UdpSocket: a packet is for the uTP socket when the ENR of its sender is
\* known to discv5 or in the cache; both ways its TALKREQ is answered empty.
RecvFrom(known) ==
    /\ utp_talk_reqs # <<>>
    /\ utp_talk_reqs' = Tail(utp_talk_reqs)
    /\ LET r == Head(utp_talk_reqs)
           p == request[r].from
       IN  /\ ReplyTo({r}, Empty(IF known \/ CachedNodeAddr(p) THEN "utp" ELSE "no address"))
           /\ cache' = IF ~known /\ CachedNodeAddr(p) THEN Used(p) ELSE cache
    /\ UNCHANGED <<dvars, enabled, request, table, events, sessions, heard, evicted, talk_req,
                   queue, tasks, commands, alive>>

TNext ==
    \/ \E p \in Peer : Discv5Session(p)
    \/ \E r \in Request : Discv5TalkRequest(r) \/ ProcessOneRequest(r)
    \/ DiscoveryLoop
    \/ DispatcherPanics
    \/ DispatchDiscv5TalkReq
    \/ HandleHistoryMessage
    \/ HandleBeaconMessage
    \/ HandleStateMessage
    \/ \E n \in Network : ProcessIncoming(n) \/ ServicePanics(n)
    \/ \E known \in BOOLEAN : RecvFrom(known)

\* The start goes on while requests arrive.
StartGoesOn ==
    /\ RunTrin \/ InitializeStateNetwork \/ InitializeBeaconNetwork
          \/ InitializeHistoryNetwork \/ LaunchJsonRpcServer
    /\ UNCHANGED tvars

TalkSpec ==
    /\ TInit
    /\ \A r \in Request : request[r].from \in Peer
    /\ [][TNext \/ StartGoesOn]_<<dvars, tvars>>

\* Every loop and every task is scheduled by the runtime, and the start goes on.
TFairness ==
    /\ WF_<<dvars, tvars>>(StartGoesOn)
    /\ WF_<<dvars, tvars>>(DiscoveryLoop)
    /\ WF_<<dvars, tvars>>(DispatcherPanics \/ DispatchDiscv5TalkReq)
    /\ WF_<<dvars, tvars>>(HandleHistoryMessage)
    /\ WF_<<dvars, tvars>>(HandleBeaconMessage)
    /\ WF_<<dvars, tvars>>(HandleStateMessage)
    /\ \A n \in Network :
          WF_<<dvars, tvars>>(ProcessIncoming(n) \/ ServicePanics(n))
    /\ \A r \in Request : WF_<<dvars, tvars>>(ProcessOneRequest(r))
    /\ WF_<<dvars, tvars>>(\E known \in BOOLEAN : RecvFrom(known))

-----------------------------------------------------------------------------
\* Every request that discv5 hands over is answered, also the ones that come
\* while the node still starts and fill the channel, that are for a network that
\* is not selected, or that wait for a service that has ended (Discovery::start,
\* PortalnetEvents::start, handle_talk_request).
TalkRequestsAnswered ==
    \A r \in Request : r \in Range(events) ~> reply[r] # None

\* A request that comes in after a session of its sender was put into the stream finds
\* the sender's address, unless the cache has pushed it out for others: the loop takes
\* events in order, and no request overtakes the session it came on, however long the
\* loop waits for the dispatcher.  An OFFER, a FINDCONTENT for large content and a uTP
\* packet need the address; it is also missing when the stream had no room for the
\* session (Discovery::start, put_cached_node_addr).
AddressOfHeardPeer ==
    \A r \in Request :
        /\ r \in heard
        /\ reply[r] # None
        /\ reply[r].kind = "no address"
        => request[r].from \in evicted

=============================================================================
