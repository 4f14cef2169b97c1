------------------------------ MODULE MCJsonRpc ------------------------------
(***************************************************************************)
(* An instance of JsonRpc for TLC: one call of any method next to one that *)
(* stores content; and the set-up of the server, for every configuration   *)
(* of a small set.                                                         *)
(***************************************************************************)
EXTENDS JsonRpc, TLC

CONSTANTS c1, c2

AllMethods ==
    HistoryEndpoint \cup {"GetBlockByHash", "eth_chainId"} \cup Web3Api \cup Discv5Api
                    \cup {"discv5_addEnr"}

MCMethod == (c1 :> AllMethods) @@ (c2 :> {"Store"})

MCDistances == {<<0>>, <<255, 256>>, <<>>, <<1, 1>>, <<257>>}

-----------------------------------------------------------------------------
(* The set-up of the server.                                               *)

Networks == {{"history"}, {"beacon", "state"}, {"history", "beacon"}}

\* As launch_jsonrpc_server does it ...
Launches ==
    {Launched(trin, used) :
        trin \in [networks : Networks, transport : {"IPC", "HTTP"}, ws : BOOLEAN,
                  http_addr : {"a", "b"}, ws_addr : {"a", "b"}],
        used \in {{}, {"b"}, {"ipc"}}}

\* ... and as any user of the builder may, with a selection for each transport.
Selections == {None, {}, {"web3"}, {"history", "web3"}, All, Standard}

Servers == {NoServer, ServerAt("a"), ServerAt(None),
            [ServerAt("a") EXCEPT !.cors = {"*"}], [ServerAt("a") EXCEPT !.cors = {"*", "o"}]}

Builds ==
    {LET config == With(With(NoTransport, "http", h), "ws", w)
         server == [http |-> hs, ws |-> ws, ipc |-> FALSE]
     IN  [config |-> config, server |-> server,
          started |-> StartServer(server, Build({"history", "beacon"}, config), config, {})] :
        h \in Selections, w \in Selections, hs \in Servers, ws \in Servers}

Namespaces(served) == IF served = None THEN {} ELSE served

Wanted(sel) == IF sel = None THEN {} ELSE IntoSelection(sel)

\* A server that comes up serves on each transport it listens on exactly the namespaces
\* selected for that transport, also when http and ws share a listener, and setting it
\* up never panics for want of a network (RpcModuleBuilder::build, WsHttpServers::start).
ASSUME ServedIsSelected ==
    \A s \in Launches \cup Builds :
        /\ s.started # Panic
        /\ s.started # Failed =>
              /\ s.server.http.configured => Namespaces(s.started.http) = Wanted(s.config.http)
              /\ s.server.ws.configured => Namespaces(s.started.ws) = Wanted(s.config.ws)
              /\ s.server.ipc => Namespaces(s.started.ipc) = Wanted(s.config.ipc)

-----------------------------------------------------------------------------
(* The calls.                                                              *)

\* Some of the tables and stores the calls may find.
MCInit ==
    /\ Init
    /\ store \in {{}, {"header"}}
    /\ table[2].connected
    /\ net = "beacon" => store = {} /\ table[1] = NoEntry

MCSpec == MCInit /\ [][Next]_vars /\ Fairness

=============================================================================
