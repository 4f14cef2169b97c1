----------------------------- MODULE RpcServer -----------------------------
(***************************************************************************)
(* The JSON-RPC server of a node as it is put together at start-up         *)
(* (rpc/src/lib.rs, rpc/src/builder.rs, rpc/src/rpc_server.rs,             *)
(* rpc/src/cors.rs): which namespaces each transport is asked to serve,    *)
(* which methods are built for them, and which listeners come up.          *)
(*                                                                         *)
(* jsonrpsee and reth_ipc are external: a listener binds its address or    *)
(* the address is in use.                                                  *)
(***************************************************************************)
EXTENDS Results

CONSTANT Panic  \* a panic, in place of the value a step of the set-up returns

\* The namespaces: beacon, discv5, eth, history and web3.
PortalRpcModule == {"beacon", "discv5", "eth", "history", "web3"}

Transports == {"http", "ws", "ipc"}

-----------------------------------------------------------------------------
(* The selection of namespaces per transport.                              *)

\* RpcModuleSelection: all of them, the standard ones (the same five), or a list.
All      == {"all"}
Standard == {"standard"}

IntoSelection(sel) == IF sel \in {All, Standard} THEN PortalRpcModule ELSE sel

SelectionIsEmpty(sel) == sel \notin {All, Standard} /\ sel = {}

AreIdentical(http, ws) ==
    CASE http # None /\ ws # None -> IntoSelection(http) = IntoSelection(ws)
      [] http # None /\ ws = None -> SelectionIsEmpty(http)
      [] http = None /\ ws # None -> SelectionIsEmpty(ws)
      [] OTHER -> TRUE

\* TransportRpcModuleConfig and its with_ functions
NoTransport == [http |-> None, ws |-> None, ipc |-> None]

With(config, transport, sel) == [config EXCEPT ![transport] = sel]

EnsureWsHttpIdentical(config) == AreIdentical(config.http, config.ws)

-----------------------------------------------------------------------------
(* The methods behind the namespaces.  handlers are the networks that have *)
(* handed in the sender of their request channel.                          *)

\* The network whose sender the methods of a namespace hold; asking for one that was
\* never handed in is a panic ("History protocol not initialized").
NetworkOf(namespace) ==
    CASE namespace \in {"eth", "history"} -> "history"
      [] namespace = "beacon" -> "beacon"
      [] OTHER -> None

PortalMethods(handlers, namespaces) ==
    IF \A n \in namespaces : NetworkOf(n) \in handlers \cup {None} THEN namespaces
                                                                   ELSE Panic

MaybeModule(handlers, sel) ==
    IF sel = None THEN None ELSE PortalMethods(handlers, IntoSelection(sel))

\* RpcModuleBuilder::build
Build(handlers, config) == [t \in Transports |-> MaybeModule(handlers, config[t])]

-----------------------------------------------------------------------------
(* The listeners.  A server configuration has, for http and ws, whether    *)
(* the server is configured, its address (None for the default one) and    *)
(* its CORS domains, and whether there is an IPC server.                   *)

DefaultAddress(kind) == IF kind = "http" THEN "default_http" ELSE "default_ws"

AddressOf(server, kind) ==
    IF server[kind].addr = None THEN DefaultAddress(kind) ELSE server[kind].addr

\* create_cors_layer: a wildcard is refused inside a list.  A value is the set of
\* origins it names.
CorsLayerOk(cors) == cors = None \/ cors = {"*"} \/ "*" \notin cors

\* WsHttpServerKind::build
BuildServer(addr, cors, in_use) == IF CorsLayerOk(cors) /\ addr \notin in_use THEN addr ELSE Failed

\* Both on one address: one listener, and the CORS domains must not differ.
SameAddress(server) ==
    /\ server.http.addr = server.ws.addr
    /\ server.http.configured
    /\ server.ws.configured

MergedCors(server) ==
    CASE server.http.cors # None /\ server.ws.cors # None ->
            IF server.http.cors = server.ws.cors THEN server.ws.cors ELSE Failed
      [] server.http.cors = None -> server.ws.cors
      [] OTHER -> server.http.cors

\* build_ws_http: the websocket listener is bound first, so it holds its address when
\* the http listener is bound.
BuildWsHttp(server, in_use) ==
    IF SameAddress(server)
    THEN LET cors  == MergedCors(server)
             bound == IF cors = Failed THEN Failed
                                       ELSE BuildServer(AddressOf(server, "http"), cors, in_use)
         IN  IF bound = Failed THEN Failed
                               ELSE [shared |-> TRUE, http |-> bound, ws |-> bound]
    ELSE LET Bind(kind, used) == IF server[kind].configured
                                 THEN BuildServer(AddressOf(server, kind), server[kind].cors, used)
                                 ELSE None
             ws   == Bind("ws", in_use)
             http == Bind("http", in_use \cup {ws})
         IN  IF Failed \in {ws, http} THEN Failed
                                      ELSE [shared |-> FALSE, http |-> http, ws |-> ws]

\* WsHttpServers::start: the namespaces served on http and on ws
StartWsHttp(bound, modules, config) ==
    IF bound.shared
    THEN IF ~EnsureWsHttpIdentical(config) THEN Failed
         ELSE LET module == IF modules.http # None THEN modules.http ELSE modules.ws
              IN  [http |-> module, ws |-> module]
    ELSE [http |-> IF bound.http = None THEN None ELSE modules.http,
          ws   |-> IF bound.ws = None THEN None ELSE modules.ws]

\* RpcServerConfig::build and RpcServer::start: the namespaces each transport serves
\* (RpcServerHandle), or an error, which drops the listeners that were bound
StartServer(server, modules, config, in_use) ==
    LET bound == BuildWsHttp(server, in_use)
    IN  IF bound = Failed THEN Failed
        ELSE LET started == StartWsHttp(bound, modules, config)
             IN  IF started = Failed THEN Failed
                 ELSE IF ~server.ipc
                 THEN [http |-> started.http, ws |-> started.ws, ipc |-> None]
                 ELSE IF "ipc" \in in_use THEN Failed
                 ELSE [http |-> started.http, ws |-> started.ws, ipc |-> modules.ipc]

-----------------------------------------------------------------------------
(* launch_jsonrpc_server                                                   *)

NoServer == [configured |-> FALSE, addr |-> None, cors |-> None]

ServerAt(addr) == [configured |-> TRUE, addr |-> addr, cors |-> None]

\* Discv5 and Web3 come with every network, nothing with the state network.
ModulesFor(networks) ==
    {"discv5", "web3"}
      \cup (IF "history" \in networks THEN {"history", "eth"} ELSE {})
      \cup (IF "beacon" \in networks THEN {"beacon"} ELSE {})

\* The networks whose senders are handed to the builder (with_history, with_beacon, ...);
\* no namespace uses that of the state network.
Handlers(networks) == networks \cap {"history", "beacon"}

TransportConfig(trin) ==
    LET modules == ModulesFor(trin.networks)
        ws      == IF trin.ws THEN With(NoTransport, "ws", modules) ELSE NoTransport
    IN  IF trin.transport = "IPC" THEN With(NoTransport, "ipc", modules)
                                  ELSE With(ws, "http", modules)

\* A websocket server listens on the unspecified address.
ServerConfig(trin) ==
    IF trin.transport = "IPC"
    THEN [http |-> NoServer, ws |-> NoServer, ipc |-> TRUE]
    ELSE [http |-> ServerAt(trin.http_addr),
          ws |-> IF trin.ws THEN ServerAt(trin.ws_addr) ELSE NoServer, ipc |-> FALSE]

LaunchJsonrpcServer(trin, handlers, in_use) ==
    LET config  == TransportConfig(trin)
        modules == Build(handlers, config)
    IN  IF \E t \in Transports : modules[t] = Panic THEN Panic
        ELSE StartServer(ServerConfig(trin), modules, config, in_use)

=============================================================================
