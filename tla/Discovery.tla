------------------------------ MODULE Discovery ------------------------------
(***************************************************************************)
(* The start of a node (run_trin) around the discovery protocol: the       *)
(* arguments, the data directory with the private key and the ENR file,    *)
(* the address that the ENR advertises, and the order in which discovery,  *)
(* the sub-networks, the RPC server and the dispatcher come up.  A node    *)
(* may fail in every step and may crash at any point; the two files        *)
(* survive.                                                                *)
(*                                                                         *)
(* An ENR is the key that signs it, its sequence number and its content,   *)
(* the socket it advertises: the client version in it is the program's     *)
(* own and the same in every run.                                          *)
(***************************************************************************)
EXTENDS Naturals, FiniteSets, Results

CONSTANTS
    PrivateKey,     \* the private keys that are given or generated
    Ip,             \* the external addresses
    Port,           \* the ports
    MaxSeq,         \* bound on the sequence number of an ENR
    Torn            \* what a crash in the middle of a write leaves of a file

Socket == [ip : Ip \cup {None}, port : Port]
Enr == [key : PrivateKey, socket : Socket, seq : Nat]

\* A file that is not there, or torn, is not read as an ENR.
ASSUME EnrAssumption == MaxSeq \in Nat /\ None \notin Enr /\ Torn \notin Enr

VARIABLES
    phase,          \* how far run_trin got
    config,         \* the arguments of this run, its private key resolved
    key_file,       \* unsafe_private_key.hex: None, a key or Torn
    enr_file,       \* for every key, trin.enr in its directory: None, an ENR or Torn
    enr,            \* the local ENR, None while the node is down
    spoken,         \* history: the ENRs this node has shown to the network
    clean           \* history: no ENR was made without the file of the ones before

dvars == <<phase, config, key_file, enr_file, enr, spoken, clean>>

\* The phases in which discv5 runs, in order.
Up == {"services", "state", "beacon", "history", "rpc", "running"}

Config == [key : PrivateKey \cup {None}, ephemeral : BOOLEAN,
           external_addr : [ip : Ip, port : Port] \cup {None},
           no_stun : BOOLEAN, no_upnp : BOOLEAN, listen_port : Port]

\* The options --external-address and --no-stun are one group of which the
\* command line takes at most one; the conflicts of the JSON-RPC options are
\* those of RpcServer.
NewFrom(c) == ~(c.external_addr # None /\ c.no_stun)

\* External: a UDP query of a STUN server, which may fail.
StunForExternal == [ip : Ip, port : Port] \cup {None}

\* The gateway maps the port the node listens on to the same external port.
UpnpForExternal(gateway, port) ==
    IF gateway = None THEN None ELSE [ip |-> gateway, port |-> port]

\* The socket the ENR advertises: the configured one, else the one STUN finds,
\* else only the port; UPnP, which is not tried when that address is one of the
\* host's own, has the last word, but a configured address must be the gateway's.
EnrSocket(c, stun, gateway, local) ==
    LET external == IF c.no_stun THEN None
                    ELSE IF c.external_addr # None THEN c.external_addr ELSE stun
        known == IF external # None THEN external ELSE [ip |-> None, port |-> c.listen_port]
        upnp == UpnpForExternal(gateway, c.listen_port)
    IN  IF c.no_upnp \/ known.ip \in local \/ upnp = None THEN known
        ELSE IF known.ip # None /\ known.ip # upnp.ip /\ c.external_addr # None
             THEN Failed
        ELSE upnp

DInit ==
    /\ phase = "down"
    /\ config = None
    /\ key_file = None
    /\ enr_file = [k \in PrivateKey |-> None]
    /\ enr = None
    /\ spoken = {}
    /\ clean = TRUE

Exit ==
    /\ phase' = "down"
    /\ config' = None
    /\ enr' = None

Fail ==
    /\ Exit
    /\ UNCHANGED <<key_file, enr_file, spoken, clean>>

\* configure_trin_data_dir and configure_node_data_dir: a temporary directory
\* holds neither a key nor an ENR; the key is the given one, the stored one or a
\* new one that is stored.  A torn key file is an error.
ConfigureNodeDataDir(c) ==
    /\ phase = "down"
    /\ NewFrom(c)
    /\ \/ /\ c.key # None
          /\ phase' = "discovery"
          /\ config' = c
          /\ UNCHANGED key_file
       \/ /\ c.key = None
          /\ c.ephemeral \/ key_file = None
          /\ \E k \in PrivateKey :
                /\ enr_file[k] = None /\ \A e \in spoken : e.key # k
                /\ config' = [c EXCEPT !.key = k]
                /\ phase' = "discovery"
                /\ key_file' = IF c.ephemeral THEN key_file ELSE k
       \/ /\ c.key = None
          /\ ~c.ephemeral
          /\ key_file \in PrivateKey
          /\ config' = [c EXCEPT !.key = key_file]
          /\ phase' = "discovery"
          /\ UNCHANGED key_file
    /\ UNCHANGED <<enr_file, enr, spoken, clean>>

\* The crash while get_application_private_key writes the file.
CrashWritingKey(c) ==
    /\ phase = "down"
    /\ NewFrom(c)
    /\ c.key = None
    /\ ~c.ephemeral
    /\ key_file = None
    /\ key_file' = Torn
    /\ UNCHANGED <<phase, config, enr_file, enr, spoken, clean>>

OldEnr == IF config.ephemeral THEN None ELSE enr_file[config.key]

\* Faulty: the sequence number of the old record is kept whatever the content.
NewSeq_Same(old, socket) == old.seq

\* The sequence number goes up when the content is another one.
NewSeq(old, socket) == IF old.socket = socket THEN old.seq ELSE old.seq + 1

\* Discovery::new: a torn ENR file is a panic, an address conflict an error; a
\* record with the old content is the old record, another one is written first.
NewDiscovery(stun, gateway, local) ==
    /\ phase = "discovery"
    /\ LET socket == EnrSocket(config, stun, gateway, local)
           new == [key |-> config.key, socket |-> socket,
                   seq |-> IF OldEnr = None THEN 1 ELSE NewSeq(OldEnr, socket)]
       IN  IF socket = Failed \/ OldEnr = Torn
           THEN Fail
           ELSE /\ new.seq <= MaxSeq
                /\ enr' = new
                /\ phase' = IF OldEnr # None /\ OldEnr.socket = socket
                            THEN "discv5" ELSE "write"
                /\ clean' = (clean /\ ~config.ephemeral)
                /\ UNCHANGED <<config, key_file, enr_file, spoken>>

WriteEnr ==
    /\ phase = "write"
    /\ phase' = "discv5"
    /\ enr_file' = IF config.ephemeral THEN enr_file
                   ELSE [enr_file EXCEPT ![config.key] = enr]
    /\ UNCHANGED <<config, key_file, enr, spoken, clean>>

\* fs::write empties the file before it fills it.
Crash ==
    /\ phase # "down"
    /\ Exit
    /\ \/ UNCHANGED enr_file
       \/ /\ phase = "write"
          /\ ~config.ephemeral
          /\ \E left \in {Torn, enr} :
                enr_file' = [enr_file EXCEPT ![config.key] = left]
    /\ UNCHANGED <<key_file, spoken, clean>>

\* Discovery::start; from here on the node answers requests for its ENR.
StartDiscv5 ==
    /\ phase = "discv5"
    /\ phase' = "services"
    /\ spoken' = spoken \cup {enr}
    /\ UNCHANGED <<config, key_file, enr_file, enr, clean>>

\* External: discv5 puts the address its peers see into the ENR, in memory only.
Discv5UpdatesEnr(socket) ==
    /\ phase \in Up
    /\ socket # enr.socket
    /\ enr.seq < MaxSeq
    /\ enr' = [key |-> enr.key, socket |-> socket, seq |-> enr.seq + 1]
    /\ spoken' = spoken \cup {enr'}
    /\ clean' = FALSE
    /\ UNCHANGED <<phase, config, key_file, enr_file>>

Goes(from, to) ==
    /\ phase = from
    /\ phase' = to
    /\ UNCHANGED <<config, key_file, enr_file, enr, spoken, clean>>

\* Metrics, uTP socket, storage directory and accumulator, then the selected
\* sub-networks: the store and the overlay service of each, its request loop.
RunTrin == Goes("services", "state")
InitializeStateNetwork == Goes("state", "beacon")
InitializeBeaconNetwork == Goes("beacon", "history")
InitializeHistoryNetwork == Goes("history", "rpc")

\* The RPC server is launched, then the handlers and the dispatcher are spawned.
LaunchJsonRpcServer == Goes("rpc", "running")

\* The errors of discv5, of a network or of the server end run_trin.
StepFails == phase \in {"discv5"} \cup (Up \ {"running"}) /\ Fail

DNext ==
    \/ \E c \in Config : ConfigureNodeDataDir(c) \/ CrashWritingKey(c)
    \/ \E stun \in StunForExternal, gateway \in Ip \cup {None}, local \in SUBSET Ip :
          NewDiscovery(stun, gateway, local)
    \/ WriteEnr
    \/ StartDiscv5
    \/ \E socket \in [ip : Ip, port : Port] : Discv5UpdatesEnr(socket)
    \/ RunTrin
    \/ InitializeStateNetwork
    \/ InitializeBeaconNetwork
    \/ InitializeHistoryNetwork
    \/ LaunchJsonRpcServer
    \/ StepFails
    \/ Crash

DSpec == DInit /\ [][DNext]_dvars

-----------------------------------------------------------------------------
\* A node that is up shows the newest of the ENRs it ever showed under its key:
\* every other one has a smaller sequence number, so its peers take the new one,
\* over any series of restarts, failed starts and crashes in the middle of the
\* write of the ENR file (Discovery::new, "Check if we have an old version of our
\* Enr and if we do, increase our sequence number").  The two ways to make an ENR
\* without the file of the earlier ones are left out: a temporary directory, and
\* an address that discv5 changed in memory.
EnrIsNewest ==
    clean /\ phase \in Up =>
        \A e \in spoken : e.key = enr.key /\ e # enr => e.seq < enr.seq

=============================================================================
