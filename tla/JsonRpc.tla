------------------------------- MODULE JsonRpc -------------------------------
(***************************************************************************)
(* The JSON-RPC methods of a node: the API objects that take a call and    *)
(* pass it to a network (rpc/src/history_rpc.rs, beacon_rpc.rs, eth_rpc.rs,*)
(* discv5_rpc.rs, web3_rpc.rs, fetch.rs), the request handlers of the      *)
(* networks (trin-history/src/jsonrpc.rs, trin-beacon/src/jsonrpc.rs) and, *)
(* from OverlayApi, what those do on the overlay.                          *)
(*                                                                         *)
(* One network is looked at: the networks share nothing on this path.  A   *)
(* call goes from its API task ("idle") into the network's channel         *)
(* ("queued"), is given a task of its own ("spawned"), waits for the       *)
(* overlay, is "answered" on its response channel and "returned" to the    *)
(* client.  The calls are those of one client of many; the routing table   *)
(* also changes because of the traffic with peers.                         *)
(***************************************************************************)
EXTENDS OverlayApi, RpcServer

CONSTANTS
    Method,     \* the methods each call may be of (a function of the call)
    Distances,  \* lists of distances a FindNodes call may ask for
    MaxChanges  \* bound: changes of the routing table made by the traffic

VARIABLES
    setup,      \* the set-up of the server: what it was given and what came of it
    net,        \* the network: "history" or "beacon"
    queue,      \* its request channel (history_rx, beacon_rx)
    changes     \* changes of the table so far

node == <<setup, net>>

vars == <<call, table, store, service, setup, net, queue, changes>>

\* The endpoints about peers and about content.
PeerEndpoints ==
    {"RoutingTableInfo", "AddEnr", "GetEnr", "DeleteEnr", "LookupEnr", "Ping", "FindNodes",
     "RecursiveFindNodes", "DataRadius"}

ContentEndpoints ==
    {"FindContent", "RecursiveFindContent", "TraceRecursiveFindContent",
     "PaginateLocalContentKeys", "Gossip", "TraceGossip", "Offer", "Store", "LocalContent"}

HistoryEndpoint == PeerEndpoints \cup ContentEndpoints

\* The beacon network's endpoints are the same ones.
BeaconEndpoint == HistoryEndpoint

NoArg == [node |-> Local, enr |-> Latest(Local), key |-> None, distances |-> <<>>,
          hydrated |-> FALSE]

\* What the parameters of a method may be, among those the model tells apart.
Args(m) ==
    CASE m = "AddEnr" -> [node : {Local}, enr : Enr, key : {None}, distances : {<<>>},
                          hydrated : {FALSE}]
      [] m \in {"GetEnr", "DeleteEnr", "LookupEnr", "RecursiveFindNodes"} ->
            {[NoArg EXCEPT !.node = n] : n \in Node}
      [] m = "FindNodes" -> {[NoArg EXCEPT !.distances = d] : d \in Distances}
      [] m \in {"LocalContent", "Store", "RecursiveFindContent", "TraceRecursiveFindContent"} ->
            {[NoArg EXCEPT !.key = k] : k \in Key}
      [] m = "GetBlockByHash" -> {[NoArg EXCEPT !.hydrated = h] : h \in BOOLEAN}
      [] OTHER -> {NoArg}

NewCall == [method |-> None, stage |-> "idle", arg |-> NoArg, got |-> None, todo |-> <<>>,
            trace |-> NoTrace, from |-> None, header |-> None, result |-> None]

\* The server as launch_jsonrpc_server sets it up for the options of a node.
Launched(trin, in_use) ==
    [config  |-> TransportConfig(trin), server |-> ServerConfig(trin),
     started |-> LaunchJsonrpcServer(trin, Handlers(trin.networks), in_use)]

Served == UNION {setup.started[t] : t \in {u \in Transports : setup.started[u] # None}}

Init ==
    /\ net \in {"history", "beacon"}
    /\ setup = Launched([networks |-> {net}, transport |-> "HTTP", ws |-> FALSE,
                         http_addr |-> None, ws_addr |-> None], {})
    /\ call = [c \in Call |-> NewCall]
    /\ queue = <<>>
    /\ table \in [Peer -> {NoEntry, [seq |-> 1, connected |-> TRUE],
                           [seq |-> MaxSeq, connected |-> FALSE]}]
    /\ store \in SUBSET Key
    /\ service = TRUE
    /\ changes = 0

-----------------------------------------------------------------------------
(* The API objects.                                                        *)

\* proxy_query_to_history_subnet: the endpoint goes into the network's channel
Proxy(c, m, arg) ==
    /\ call' = [call EXCEPT ![c] = [NewCall EXCEPT !.method = m, !.stage = "queued", !.arg = arg,
                                                   !.header = call[c].header]]
    /\ queue' = Append(queue, c)

InvokeNetwork(c, endpoints) ==
    \E m \in endpoints \cap Method[c] : \E arg \in Args(m) : Proxy(c, m, arg)

\* The methods of HistoryNetworkApi ...
HistoryPeerApi(c) ==
    "history" \in Served /\ InvokeNetwork(c, HistoryEndpoint \cap PeerEndpoints)

HistoryContentApi(c) ==
    "history" \in Served /\ InvokeNetwork(c, HistoryEndpoint \cap ContentEndpoints)

\* ... and those of BeaconNetworkApi.
BeaconPeerApi(c) ==
    "beacon" \in Served /\ InvokeNetwork(c, BeaconEndpoint \cap PeerEndpoints)

BeaconContentApi(c) ==
    "beacon" \in Served /\ InvokeNetwork(c, BeaconEndpoint \cap ContentEndpoints)

\* Web3Api, Discv5Api and eth_chainId answer by themselves; of Discv5Api only the node
\* and the table information are there.
Web3Api == {"web3_clientVersion"}

Discv5Api == {"discv5_nodeInfo", "discv5_routingTableInfo"}

Discv5NotFound == {"discv5_updateNodeInfo", "discv5_addEnr", "discv5_getEnr",
                   "discv5_deleteEnr", "discv5_lookupEnr"}

InvokeLocal(c) ==
    /\ \E m \in (Web3Api \cup Discv5Api \cup Discv5NotFound \cup {"eth_chainId"}) \cap Method[c] :
          call' = [call EXCEPT ![c] = [NewCall EXCEPT !.method = m, !.stage = "returned",
                                          !.result = IF m \in Discv5NotFound THEN Failed ELSE m]]
    /\ UNCHANGED queue

\* eth_getBlockByHash: the header, then the body, each by a RecursiveFindContent
GetBlockByHash(c) ==
    /\ "eth" \in Served /\ "GetBlockByHash" \in Method[c]
    /\ \E arg \in Args("GetBlockByHash") :
          IF arg.hydrated
          THEN /\ call' = [call EXCEPT ![c] = [NewCall EXCEPT !.method = "GetBlockByHash",
                                                   !.stage = "returned", !.result = Failed]]
               /\ UNCHANGED queue
          ELSE Proxy(c, "GetBlockByHash", [arg EXCEPT !.key = "header"])

Invoke(c) ==
    /\ call[c].stage = "idle"
    /\ \/ HistoryPeerApi(c) \/ HistoryContentApi(c)
       \/ BeaconPeerApi(c) \/ BeaconContentApi(c)
       \/ InvokeLocal(c) \/ GetBlockByHash(c)
    /\ UNCHANGED <<table, store, service, node, changes>>

-----------------------------------------------------------------------------
(* The request handler of the network.                                     *)

\* handle_client_queries: one task per request
HandleClientQueries ==
    /\ queue # <<>>
    /\ queue' = Tail(queue)
    /\ call' = [call EXCEPT ![Head(queue)].stage = "spawned"]
    /\ UNCHANGED <<table, store, service, node, changes>>

LocalContent(c) ==
    \/ Answer(c, [content |-> IF call[c].arg.key \in store THEN "stored" ELSE "absent",
                  utp |-> FALSE])
    \/ Answer(c, Failed)

\* The beacon store has no listing.
PaginateLocalContentKeys(c) ==
    \/ net = "history" /\ Answer(c, store)
    \/ Answer(c, Failed)

\* An error of the database is given back as a string, in place of the Boolean.
Store(c) ==
    \/ Answer(c, TRUE) /\ store' = store \cup {call[c].arg.key}
    \/ Answer(c, Text) /\ UNCHANGED store

\* Without a trace there is no answer to a call that asks for one.
ContentResult(c, found, traced) ==
    Answer(c, IF traced /\ ~found.traced THEN Failed
              ELSE [content |-> found.content, utp |-> found.utp])

IsTrace(c) == call[c].method = "TraceRecursiveFindContent"

\* Content that is stored is not looked up; an error of the database is taken for absence.
RecursiveFindContent(c) ==
    \/ /\ call[c].arg.key \in store
       /\ ContentResult(c, [content |-> "stored", utp |-> FALSE, traced |-> IsTrace(c)], IsTrace(c))
    \/ LookupContent(c)

ReceiveQueryContent(c) ==
    /\ call[c].stage = "query_content"
    /\ \E reply \in Replies(ContentFound(IsTrace(c))) :
          ContentResult(c, IF reply = Failed THEN NothingFound ELSE reply, IsTrace(c))

\* The endpoints about peers ...
PeerEndpoint(c) ==
    LET m == call[c].method
    IN  /\ \/ m = "AddEnr" /\ AddEnr(c)
           \/ m = "GetEnr" /\ GetEnr(c)
           \/ m = "DeleteEnr" /\ DeleteEnr(c)
           \/ /\ \/ m = "LookupEnr" /\ LookupEnr(c)
                 \/ m = "RecursiveFindNodes" /\ LookupNode(c)
                 \/ m = "Ping" /\ SendPing(c)
                 \/ m = "FindNodes" /\ SendFindNodes(c)
                 \/ m = "DataRadius" /\ Answer(c, "radius")
                 \/ m = "RoutingTableInfo" /\ Answer(c, table)
              /\ UNCHANGED table
        /\ UNCHANGED store

\* ... and about content; a block is looked up as its header and its body.
ContentEndpoint(c) ==
    LET m == call[c].method
    IN  /\ \/ m = "Store" /\ Store(c)
           \/ /\ \/ m = "LocalContent" /\ LocalContent(c)
                 \/ m = "PaginateLocalContentKeys" /\ PaginateLocalContentKeys(c)
                 \/ m = "FindContent" /\ SendFindContent(c)
                 \/ m = "Offer" /\ SendOffer(c)
                 \/ m = "Gossip" /\ PropagateGossip(c)
                 \/ m = "TraceGossip" /\ PropagateGossipTrace(c)
                 \/ m \in {"RecursiveFindContent", "TraceRecursiveFindContent", "GetBlockByHash"}
                       /\ RecursiveFindContent(c)
              /\ UNCHANGED store
        /\ UNCHANGED table

\* complete_request of the history network
CompleteRequest(c) == net = "history" /\ (PeerEndpoint(c) \/ ContentEndpoint(c))

\* The beacon network's functions are the same, on its own overlay and store.
BeaconPeerEndpoint(c) == PeerEndpoint(c)

BeaconContentEndpoint(c) == ContentEndpoint(c)

CompleteBeaconRequest(c) ==
    net = "beacon" /\ (BeaconPeerEndpoint(c) \/ BeaconContentEndpoint(c))

\* What the call's task does next.
Resume(c) ==
    \/ ReceivePong(c) \/ ReceiveNodes(c) \/ ReceiveAccept(c) \/ ReceiveContent(c)
    \/ InitFindContentStream(c) \/ ValidateContent(c)
    \/ ReceiveOwnEnr(c) \/ ReceiveLookup(c) \/ ReceiveQueryNodes(c) \/ ReceiveQueryContent(c)
    \/ GossipAnswered(c) \/ GossipTransferred(c)

Task(c) ==
    /\ \/ call[c].stage = "spawned" /\ (CompleteRequest(c) \/ CompleteBeaconRequest(c))
       \/ Resume(c) /\ UNCHANGED <<table, store>>
    /\ UNCHANGED <<service, node, queue, changes>>

\* find_content_by_hash: no content is an error.  Decoded without its key, the content
\* may turn out to be of another kind, which is an error as well.
FindContentByHash(c) ==
    LET found == call[c].result
        Return(result) == /\ call' = [call EXCEPT ![c] = [@ EXCEPT !.stage = "returned",
                                                                   !.result = result]]
                          /\ UNCHANGED queue
    IN  IF found = Failed \/ found.content = "absent" THEN Return(Failed)
        ELSE \/ Return(Failed)
             \/ IF call[c].arg.key = "header"
                THEN /\ call' = [call EXCEPT
                            ![c] = [NewCall EXCEPT !.method = "GetBlockByHash",
                                       !.stage = "queued", !.header = found.content,
                                       !.arg = [call[c].arg EXCEPT !.key = "body"]]]
                     /\ queue' = Append(queue, c)
                ELSE Return([header |-> call[c].header, body |-> found.content])

\* The answer is converted to the type the method returns.
FromValue(m, result) ==
    CASE m \in {"Store", "AddEnr", "DeleteEnr"} -> IF result \in {TRUE, FALSE} THEN result ELSE Failed
      [] OTHER -> result

Return(c) ==
    /\ call[c].stage = "answered"
    /\ IF call[c].method = "GetBlockByHash"
       THEN FindContentByHash(c)
       ELSE /\ call' = [call EXCEPT ![c] =
                   [@ EXCEPT !.stage = "returned",
                             !.result = FromValue(call[c].method, call[c].result)]]
            /\ UNCHANGED queue
    /\ UNCHANGED <<table, store, service, node, changes>>

-----------------------------------------------------------------------------
(* The environment.                                                        *)

\* The traffic with peers changes the routing table.
TableChanges ==
    /\ changes < MaxChanges
    /\ changes' = changes + 1
    /\ \E n \in Peer : \E e \in {NoEntry} \cup [seq : 1..MaxSeq, connected : BOOLEAN] :
          /\ e # table[n]
          /\ table' = [table EXCEPT ![n] = e]
    /\ UNCHANGED <<call, store, service, node, queue>>

\* The overlay service ends (its task panics): its command channel is closed.
ServiceStops ==
    /\ service /\ changes < MaxChanges
    /\ service' = FALSE
    /\ changes' = changes + 1
    /\ UNCHANGED <<call, table, store, node, queue>>

Done == /\ \A c \in Call : call[c].stage = "returned"
        /\ UNCHANGED vars

Next ==
    \/ \E c \in Call : Invoke(c) \/ Task(c) \/ Return(c)
    \/ HandleClientQueries
    \/ TableChanges
    \/ ServiceStops
    \/ Done

Spec == Init /\ [][Next]_vars

\* Tasks are scheduled; requests, queries and streams end, with an error if need be, by
\* the timeouts of discv5, of the query pools and of uTP.
Fairness ==
    /\ WF_vars(HandleClientQueries)
    /\ \A c \in Call : WF_vars(Task(c)) /\ WF_vars(Return(c))

-----------------------------------------------------------------------------
(* Properties.                                                             *)

\* Every call that was made returns to its client, with a result or with an error, even
\* if the overlay service stops while the call waits for it: send_overlay_request,
\* lookup_node, lookup_content and the traced gossip end when the sender of the answer
\* is dropped.
CallsReturn == \A c \in Call : call[c].stage = "queued" ~> call[c].stage = "returned"

\* FindContent returns no content that the validator has not accepted, whether it came
\* in the answer or by stream (OverlayProtocol::send_find_content).
FoundContentIsValid ==
    \A c \in Call :
        /\ call[c].method = "FindContent"
        /\ call[c].stage \in {"answered", "returned"}
        /\ call[c].result # Failed
        => call[c].result.content \in {"valid", "enrs"}

\* A lookup of an ENR that began with one in the table and has ended.
LookedUp(c) ==
    /\ call[c].method = "LookupEnr"
    /\ call[c].stage \in {"answered", "returned"}
    /\ call[c].got \notin {None, Failed}

\* LookupEnr of a node that was in the table returns an ENR, also if the node is dropped
\* from the table, does not answer, or the service ends while the lookup waits; and what
\* discovery or the query find replaces the table's ENR only if it is newer.  Only the
\* list with which the node itself answers is not compared (OverlayProtocol::lookup_enr).
LookupKeepsKnownEnr ==
    \A c \in Call :
        LookedUp(c) => /\ call[c].result # Failed
                       /\ call[c].from # "node" => call[c].result.seq >= call[c].got.seq

\* A lookup of an ENR never returns one older than the table's, as the comment on the
\* request says ("try to find more up to date enr", OverlayProtocol::lookup_enr).
LookupEnrNotOlder ==
    \A c \in Call :
        LookedUp(c) => call[c].result # Failed /\ call[c].result.seq >= call[c].got.seq

\* In the report of a traced gossip, who was sent the content had accepted it, who
\* accepted it had been offered it, and only peers were (trace_propagate_gossip).
TraceGossipConsistent ==
    \A c \in Call :
        /\ call[c].method = "TraceGossip"
        /\ call[c].stage \in {"answered", "returned"}
        => LET report == call[c].result
           IN  /\ report.transferred \subseteq report.accepted
               /\ report.accepted \subseteq report.offered
               /\ report.offered \subseteq Peer
               /\ Cardinality(report.offered) <= NUM_CLOSEST_NODES + NUM_FARTHER_NODES

=============================================================================
