------------------------------- MODULE MCNode -------------------------------
(***************************************************************************)
(* Two instances in one: a node that is started, fails, crashes and is     *)
(* started again, with no requests, and a node whose discovery has just    *)
(* started, to which requests come.                                        *)
(***************************************************************************)
EXTENDS TalkRequests, TLC

VARIABLE scope

mcvars == <<dvars, tvars, scope>>

Packet(kind) == [kind |-> kind]
FindNodes(distances) == [kind |-> "find_nodes", distances |-> distances]
OfKey(kind, key) == [kind |-> kind, key |-> key]

Bodies ==
    {Packet("ping"), Packet("response"), Packet("garbage")}
    \cup {FindNodes(d) : d \in {<<>>, <<0>>, <<2, 1, 2>>, <<2, 0, 1>>}}
    \cup {OfKey("find_content", k) : k \in {"small", "large", "absent", "unknown"}}
    \cup {OfKey("offer", k) : k \in {"small", "absent", "unknown"}}

TalkReq(from, protocols, bodies) == [from : {from}, protocol : protocols, body : bodies]

\* The first request is any, the second crowds the channel and the queues.
MCRequests ==
    {(11 :> a) @@ (12 :> b) :
        a \in TalkReq(1, {"history"}, Bodies)
             \cup TalkReq(1, {"beacon", "utp", "other"}, {Packet("packet")})
             \cup TalkReq(1, {"state"}, {FindNodes(<<0>>)}),
        b \in TalkReq(2, {"state"}, {Packet("ping")})
             \cup TalkReq(2, {"history"}, {OfKey("offer", "absent")})}

\* The second table is for the requests that are answered from it.
MCTables == {[connected |-> {1, 2, 3}, others |-> {4}], [connected |-> {3}, others |-> {1, 2}]}

FirstEnr == [key |-> CHOOSE k \in PrivateKey : TRUE, seq |-> 1,
             socket |-> [ip |-> None, port |-> CHOOSE p \in Port : TRUE]]

\* A node whose discovery has just started.
StartedInit ==
    /\ phase = "services"
    /\ config = [key |-> FirstEnr.key, ephemeral |-> FALSE, external_addr |-> None,
                 no_stun |-> TRUE, no_upnp |-> TRUE, listen_port |-> FirstEnr.socket.port]
    /\ key_file = None
    /\ enr_file = [k \in PrivateKey |-> IF k = FirstEnr.key THEN FirstEnr ELSE None]
    /\ enr = FirstEnr
    /\ spoken = {FirstEnr}
    /\ clean = TRUE

MCInit ==
    /\ \/ /\ scope = "restarts"
          /\ DInit
          /\ request = [r \in Request |-> None]
          /\ table = None
          /\ enabled = {}
       \/ /\ scope = "requests"
          /\ StartedInit
          /\ request \in MCRequests
          /\ table \in MCTables
          /\ request[11].body.kind \notin {"find_nodes", "find_content"} => 1 \in table.connected
          /\ enabled \in {{}, {"history"}, {"history", "beacon", "state"}}
    /\ TInit
    /\ sessions[2] = 0 /\ (scope = "restarts" => sessions[1] = 0)

\* The restarts are followed as long as the claim about them applies.
MCNext ==
    \/ scope = "restarts" /\ clean /\ DNext /\ UNCHANGED <<tvars, scope>>
    \/ scope = "requests" /\ StartGoesOn /\ UNCHANGED scope
    \/ scope = "requests" /\ TNext /\ UNCHANGED scope

MCSpec == MCInit /\ [][MCNext]_mcvars /\ (scope = "requests" => TFairness)

=============================================================================
