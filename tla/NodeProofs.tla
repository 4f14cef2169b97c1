----------------------------- MODULE NodeProofs -----------------------------
(***************************************************************************)
(* Proofs about a node that starts (Discovery) and serves (TalkRequests).  *)
(*                                                                         *)
(* The ENR a node shows is its newest, for any set of keys, addresses and  *)
(* sequence numbers, through any series of starts, failures and crashes.   *)
(* EnrIsNewest speaks of the ENR in memory, which a crash takes away.      *)
(* What carries it over a restart is the file: while no ENR was made       *)
(* without it, it holds the newest ENR shown under its key, or nothing if  *)
(* none was shown, or it is torn and no start gets past it.                *)
(*                                                                         *)
(* The address of a sender whose session the event stream took before the  *)
(* request is at hand when the request is, or was evicted, for any peers,  *)
(* requests, stream, channel and cache: the session is before the request  *)
(* in the stream, and only one loop reads the stream.                      *)
(***************************************************************************)
EXTENDS TalkRequests, TLAPS

-----------------------------------------------------------------------------
(* The start of the node.                                                  *)

DTypeOK ==
    /\ phase \in {"down", "discovery", "write", "discv5"} \cup Up
    /\ phase # "down" => config \in Config /\ config.key \in PrivateKey
    /\ enr_file \in [PrivateKey -> Enr \cup {None, Torn}]
    /\ phase \in {"write", "discv5"} \cup Up => enr \in Enr
    /\ spoken \subseteq Enr
    /\ clean \in BOOLEAN

\* The ENR file of k has the newest ENR that was shown under k.
FileIsNewest(k) ==
    \/ enr_file[k] = Torn
    \/ enr_file[k] = None /\ \A e \in spoken : e.key # k
    \/ /\ enr_file[k] \in Enr /\ enr_file[k].key = k
       /\ \A e \in spoken : e.key = k => e = enr_file[k] \/ e.seq < enr_file[k].seq

\* The ENR that is about to be written is newer than all that were shown.
WriteIsNewer ==
    phase = "write" =>
        /\ ~config.ephemeral /\ enr.key = config.key
        /\ \A e \in spoken : e.key = enr.key => e.seq < enr.seq

\* From then on it is the one in the file.
EnrIsInFile ==
    phase \in {"discv5"} \cup Up =>
        ~config.ephemeral /\ enr.key = config.key /\ enr_file[enr.key] = enr

EnrInv ==
    /\ DTypeOK
    /\ clean => (\A k \in PrivateKey : FileIsNewest(k)) /\ WriteIsNewer /\ EnrIsInFile

-----------------------------------------------------------------------------
LEMMA EnrSocketType ==
    ASSUME NEW c \in Config, NEW stun \in StunForExternal, NEW gateway \in Ip \cup {None},
           NEW local
    PROVE  EnrSocket(c, stun, gateway, local) \in Socket \cup {Failed}
<1> DEFINE external == IF c.no_stun THEN None
                       ELSE IF c.external_addr # None THEN c.external_addr ELSE stun
           known == IF external # None THEN external ELSE [ip |-> None, port |-> c.listen_port]
           upnp == UpnpForExternal(gateway, c.listen_port)
<1>1. c.listen_port \in Port /\ c.external_addr \in [ip : Ip, port : Port] \cup {None}
  BY DEF Config
<1>2. external \in [ip : Ip, port : Port] \cup {None}
  BY <1>1 DEF StunForExternal
<1>3. [ip : Ip, port : Port] \subseteq Socket
  BY DEF Socket
<1>4. known \in Socket
  <2>1. [ip |-> None, port |-> c.listen_port] \in Socket
    BY <1>1 DEF Socket
  <2> QED
    BY <1>2, <1>3, <2>1
<1>5. upnp = None \/ upnp \in Socket
  BY <1>1 DEF UpnpForExternal, Socket
<1> QED
  BY <1>4, <1>5 DEF EnrSocket

-----------------------------------------------------------------------------
(* One lemma for each group of actions.                                    *)

\* Whatever ends a run leaves the invariant, if it leaves the files.
LEMMA ExitKeepsInv ==
    ASSUME EnrInv, Exit, UNCHANGED <<enr_file, spoken, clean>>
    PROVE  EnrInv'
BY DEF EnrInv, DTypeOK, Exit, FileIsNewest, WriteIsNewer, EnrIsInFile, Up

LEMMA ConfigureKeepsInv ==
    ASSUME EnrInv, NEW c \in Config, ConfigureNodeDataDir(c)
    PROVE  EnrInv'
<1>1. phase' = "discovery" /\ UNCHANGED <<enr_file, enr, spoken, clean>>
  BY DEF ConfigureNodeDataDir
<1>2. config' \in Config /\ config'.key \in PrivateKey
  <2>1. CASE c.key # None /\ config' = c
    BY <2>1 DEF Config
  <2>2. ASSUME NEW k \in PrivateKey, config' = [c EXCEPT !.key = k]
        PROVE  config' \in Config /\ config'.key \in PrivateKey
    BY <2>2 DEF Config
  <2> QED
    BY <2>1, <2>2 DEF ConfigureNodeDataDir
<1> QED
  BY <1>1, <1>2 DEF EnrInv, DTypeOK, FileIsNewest, WriteIsNewer, EnrIsInFile, Up

LEMMA NewDiscoveryKeepsInv ==
    ASSUME EnrInv, NEW stun \in StunForExternal, NEW gateway \in Ip \cup {None}, NEW local,
           NewDiscovery(stun, gateway, local)
    PROVE  EnrInv'
<1> DEFINE socket == EnrSocket(config, stun, gateway, local)
           new == [key |-> config.key, socket |-> socket,
                   seq |-> IF OldEnr = None THEN 1 ELSE NewSeq(OldEnr, socket)]
<1>1. config \in Config /\ config.key \in PrivateKey
  BY DEF EnrInv, DTypeOK, NewDiscovery
<1>2. socket \in Socket \cup {Failed}
  BY <1>1, EnrSocketType
<1>3. CASE socket = Failed \/ OldEnr = Torn
  <2>1. Fail
    BY <1>3 DEF NewDiscovery
  <2> QED
    BY <2>1, ExitKeepsInv DEF Fail
<1>4. CASE ~(socket = Failed \/ OldEnr = Torn)
  <2>1. /\ enr' = new
        /\ phase' = IF OldEnr # None /\ OldEnr.socket = socket THEN "discv5" ELSE "write"
        /\ clean' = (clean /\ ~config.ephemeral)
        /\ UNCHANGED <<config, key_file, enr_file, spoken>>
    BY <1>4 DEF NewDiscovery
  <2>2. OldEnr \in Enr \cup {None}
    BY <1>1, <1>4 DEF OldEnr, EnrInv, DTypeOK
  <2>3. /\ new.key = config.key /\ new.socket = socket
        /\ new.seq = IF OldEnr = None THEN 1 ELSE NewSeq(OldEnr, socket)
    OBVIOUS
  <2>4. new.seq \in Nat
    BY <2>2, <2>3 DEF NewSeq, Enr
  <2>5. new \in Enr
    BY <1>1, <1>2, <1>4, <2>4 DEF Enr
  <2> HIDE DEF socket, new
  <2>6. DTypeOK'
    BY <1>1, <2>1, <2>5 DEF EnrInv, DTypeOK, Up
  <2>7. ASSUME clean' PROVE (\A k \in PrivateKey : FileIsNewest(k))' /\ WriteIsNewer' /\ EnrIsInFile'
    <3>1. clean /\ ~config.ephemeral /\ OldEnr = enr_file[config.key]
      BY <2>1, <2>7, Zenon DEF OldEnr, EnrInv, DTypeOK
    <3>2. \A k \in PrivateKey : FileIsNewest(k)
      BY <3>1 DEF EnrInv
    <3>3. (\A k \in PrivateKey : FileIsNewest(k))'
      BY <2>1, <3>2 DEF FileIsNewest
    <3>4. CASE OldEnr = None
      <4>1. phase' = "write" /\ \A e \in spoken : e.key # config.key
        BY <1>1, <1>4, <2>1, <3>1, <3>2, <3>4, EnrAssumption, Zenon DEF FileIsNewest
      <4> QED
        BY <2>1, <2>3, <3>1, <3>3, <4>1 DEF WriteIsNewer, EnrIsInFile, Up
    <3>5. CASE OldEnr # None
      <4>1. /\ OldEnr \in Enr /\ OldEnr.key = config.key
            /\ \A e \in spoken : e.key = config.key => e = OldEnr \/ e.seq < OldEnr.seq
        BY <1>1, <1>4, <3>1, <3>2, <3>5 DEF FileIsNewest
      <4>2. CASE OldEnr.socket = socket
        <5>1. new.seq = OldEnr.seq
          BY <2>3, <3>5, <4>2 DEF NewSeq
        <5>2. new = OldEnr
          BY <2>3, <2>5, <4>1, <4>2, <5>1 DEF Enr
        <5>3. phase' = "discv5"
          BY <2>1, <3>5, <4>2
        <5> QED
          BY <2>1, <2>3, <3>1, <3>3, <5>2, <5>3 DEF WriteIsNewer, EnrIsInFile
      <4>3. CASE OldEnr.socket # socket
        <5>1. new.seq = OldEnr.seq + 1
          BY <2>3, <3>5, <4>3 DEF NewSeq
        <5>2. \A e \in spoken : e.key = config.key => e.seq < new.seq
          <6>1. OldEnr.seq \in Nat /\ \A e \in spoken : e.seq \in Nat
            BY <4>1 DEF EnrInv, DTypeOK, Enr
          <6> QED
            BY <4>1, <5>1, <6>1
        <5>3. phase' = "write"
          BY <2>1, <4>3
        <5> QED
          BY <2>1, <2>3, <3>1, <3>3, <5>2, <5>3 DEF WriteIsNewer, EnrIsInFile, Up
      <4> QED
        BY <4>2, <4>3
    <3> QED
      BY <3>4, <3>5
  <2> QED
    BY <2>6, <2>7 DEF EnrInv
<1> QED
  BY <1>3, <1>4

\* The file of the key of this run gets the new ENR, or is torn.
LEMMA FileWrittenIsNewest ==
    ASSUME EnrInv, clean, phase = "write", NEW left \in {Torn, enr},
           enr_file' = [enr_file EXCEPT ![config.key] = left], UNCHANGED spoken
    PROVE  (\A k \in PrivateKey : FileIsNewest(k))'
<1>1. /\ config.key \in PrivateKey /\ enr \in Enr /\ enr.key = config.key
      /\ \A e \in spoken : e.key = enr.key => e.seq < enr.seq
      /\ enr_file \in [PrivateKey -> Enr \cup {None, Torn}]
      /\ \A k \in PrivateKey : FileIsNewest(k)
  BY DEF EnrInv, DTypeOK, WriteIsNewer
<1> SUFFICES ASSUME NEW k \in PrivateKey PROVE FileIsNewest(k)'
  OBVIOUS
<1>2. CASE k = config.key
  <2>1. enr_file'[k] = left
    BY <1>1, <1>2
  <2> QED
    BY <1>1, <1>2, <2>1 DEF FileIsNewest
<1>3. CASE k # config.key
  <2>1. enr_file'[k] = enr_file[k]
    BY <1>1, <1>3
  <2> QED
    BY <1>1, <2>1 DEF FileIsNewest
<1> QED
  BY <1>2, <1>3

LEMMA WriteKeepsInv ==
    ASSUME EnrInv, WriteEnr
    PROVE  EnrInv'
<1>1. /\ phase = "write" /\ phase' = "discv5" /\ UNCHANGED <<config, key_file, enr, spoken, clean>>
      /\ enr_file' = IF config.ephemeral THEN enr_file
                     ELSE [enr_file EXCEPT ![config.key] = enr]
  BY DEF WriteEnr
<1>2. /\ config \in Config /\ config.key \in PrivateKey /\ enr \in Enr
      /\ enr_file \in [PrivateKey -> Enr \cup {None, Torn}]
  BY <1>1 DEF EnrInv, DTypeOK
<1>3. DTypeOK'
  BY <1>1, <1>2 DEF EnrInv, DTypeOK
<1>4. ASSUME clean PROVE (\A k \in PrivateKey : FileIsNewest(k))' /\ WriteIsNewer' /\ EnrIsInFile'
  <2>1. ~config.ephemeral /\ enr.key = config.key
    BY <1>1, <1>4 DEF EnrInv, WriteIsNewer
  <2>2. (\A k \in PrivateKey : FileIsNewest(k))'
    BY <1>1, <1>4, <2>1, FileWrittenIsNewest
  <2>3. enr_file'[enr.key] = enr
    BY <1>1, <1>2, <2>1
  <2> QED
    BY <1>1, <2>1, <2>2, <2>3 DEF WriteIsNewer, EnrIsInFile
<1> QED
  BY <1>1, <1>3, <1>4 DEF EnrInv

LEMMA CrashKeepsInv ==
    ASSUME EnrInv, Crash
    PROVE  EnrInv'
<1>1. Exit /\ UNCHANGED <<spoken, clean>>
  BY DEF Crash
<1>2. CASE UNCHANGED enr_file
  BY <1>1, <1>2, ExitKeepsInv
<1>3. ASSUME phase = "write", NEW left \in {Torn, enr},
             enr_file' = [enr_file EXCEPT ![config.key] = left]
      PROVE  EnrInv'
  <2>1. DTypeOK'
    BY <1>1, <1>3 DEF EnrInv, DTypeOK, Exit, Up
  <2>2. ASSUME clean PROVE (\A k \in PrivateKey : FileIsNewest(k))'
    BY <1>1, <1>3, <2>2, FileWrittenIsNewest, Zenon
  <2> QED
    BY <1>1, <2>1, <2>2 DEF EnrInv, Exit, WriteIsNewer, EnrIsInFile, Up
<1> QED
  BY <1>2, <1>3 DEF Crash

\* Once the ENR is shown, it is the one in the file.
LEMMA StartKeepsInv ==
    ASSUME EnrInv, StartDiscv5
    PROVE  EnrInv'
<1>1. /\ phase = "discv5" /\ phase' = "services" /\ spoken' = spoken \cup {enr}
      /\ UNCHANGED <<config, key_file, enr_file, enr, clean>>
  BY DEF StartDiscv5
<1>2. enr \in Enr
  BY <1>1 DEF EnrInv, DTypeOK
<1>3. DTypeOK'
  BY <1>1, <1>2 DEF EnrInv, DTypeOK, Up
<1>4. ASSUME clean PROVE (\A k \in PrivateKey : FileIsNewest(k))' /\ WriteIsNewer' /\ EnrIsInFile'
  <2>1. ~config.ephemeral /\ enr.key = config.key /\ enr_file[enr.key] = enr
    BY <1>1, <1>4 DEF EnrInv, EnrIsInFile
  <2>2. ASSUME NEW k \in PrivateKey PROVE FileIsNewest(k)'
    <3>1. FileIsNewest(k)
      BY <1>4 DEF EnrInv
    <3>2. CASE k = enr.key
      BY <1>1, <1>2, <2>1, <3>1, <3>2, EnrAssumption DEF FileIsNewest
    <3>3. CASE k # enr.key
      BY <1>1, <3>1, <3>3 DEF FileIsNewest
    <3> QED
      BY <3>2, <3>3
  <2> QED
    BY <1>1, <2>1, <2>2 DEF WriteIsNewer, EnrIsInFile
<1> QED
  BY <1>1, <1>3, <1>4 DEF EnrInv

LEMMA UpdateKeepsInv ==
    ASSUME EnrInv, NEW socket \in [ip : Ip, port : Port], Discv5UpdatesEnr(socket)
    PROVE  EnrInv'
<1>1. /\ phase \in Up /\ enr' = [key |-> enr.key, socket |-> socket, seq |-> enr.seq + 1]
      /\ spoken' = spoken \cup {enr'} /\ clean' = FALSE
      /\ UNCHANGED <<phase, config, key_file, enr_file>>
  BY DEF Discv5UpdatesEnr
<1>2. enr \in Enr
  BY <1>1 DEF EnrInv, DTypeOK
<1>3. enr' \in Enr
  BY <1>1, <1>2 DEF Enr, Socket
<1> QED
  BY <1>1, <1>3, Zenon DEF EnrInv, DTypeOK

LEMMA GoesKeepsInv ==
    ASSUME EnrInv, NEW from \in Up, NEW to \in Up, Goes(from, to)
    PROVE  EnrInv'
BY DEF EnrInv, DTypeOK, Goes, FileIsNewest, WriteIsNewer, EnrIsInFile, Up

LEMMA UnchangedKeepsInv ==
    ASSUME EnrInv, UNCHANGED <<phase, config, enr_file, enr, spoken, clean>>
    PROVE  EnrInv'
BY DEF EnrInv, DTypeOK, FileIsNewest, WriteIsNewer, EnrIsInFile

LEMMA EnrInvStep == EnrInv /\ [DNext]_dvars => EnrInv'
<1> SUFFICES ASSUME EnrInv, [DNext]_dvars PROVE EnrInv'
  OBVIOUS
<1>1. ASSUME NEW c \in Config, CrashWritingKey(c) PROVE EnrInv'
  BY <1>1, UnchangedKeepsInv DEF CrashWritingKey
<1>2. CASE RunTrin \/ InitializeStateNetwork \/ InitializeBeaconNetwork
           \/ InitializeHistoryNetwork \/ LaunchJsonRpcServer
  BY <1>2, GoesKeepsInv DEF RunTrin, InitializeStateNetwork, InitializeBeaconNetwork,
       InitializeHistoryNetwork, LaunchJsonRpcServer, Up
<1>3. CASE StepFails
  BY <1>3, ExitKeepsInv DEF StepFails, Fail
<1>4. CASE UNCHANGED dvars
  BY <1>4, UnchangedKeepsInv DEF dvars
<1> QED
  BY <1>1, <1>2, <1>3, <1>4, ConfigureKeepsInv, NewDiscoveryKeepsInv, WriteKeepsInv,
     CrashKeepsInv, StartKeepsInv, UpdateKeepsInv DEF DNext

-----------------------------------------------------------------------------
\* A node that is up shows the newest ENR it ever showed under its key
\* (Discovery::new), however often it failed, crashed and was started before.
THEOREM ShowsNewestEnr == DSpec => []EnrIsNewest
<1>1. DInit => EnrInv
  BY DEF DInit, EnrInv, DTypeOK, FileIsNewest, WriteIsNewer, EnrIsInFile, Up
<1>2. EnrInv /\ [DNext]_dvars => EnrInv'
  BY EnrInvStep
<1>3. EnrInv => EnrIsNewest
  <2> SUFFICES ASSUME EnrInv, clean, phase \in Up, NEW e \in spoken, e.key = enr.key, e # enr
               PROVE  e.seq < enr.seq
    BY DEF EnrIsNewest
  <2>1. enr \in Enr /\ enr_file[enr.key] = enr /\ enr.key \in PrivateKey
    BY DEF EnrInv, DTypeOK, EnrIsInFile, Enr
  <2>2. FileIsNewest(enr.key)
    BY <2>1 DEF EnrInv
  <2> QED
    BY <2>1, <2>2, EnrAssumption DEF FileIsNewest
<1> QED
  BY <1>1, <1>2, <1>3, PTL DEF DSpec

-----------------------------------------------------------------------------
(* Requests.                                                               *)

TalkTypes ==
    /\ \A r \in Request : request[r].from \in Peer
    /\ events \in Seq(Peer \cup Request)
    /\ cache \in Seq(Peer)
    /\ talk_req \in Seq(Request)
    /\ queue \in [Network -> Seq(Request)]
    /\ utp_talk_reqs \in Seq(Request)
    /\ tasks \subseteq Request
    /\ commands \in [Network -> Seq(Request)]

\* The cache has the peer, or has had to give it up.
Settled(p) == p \in Range(cache) \/ p \in evicted

\* The requests on their way behind the discovery loop.
OnTheirWay ==
    Range(talk_req) \cup Range(utp_talk_reqs) \cup tasks
    \cup (UNION {Range(queue[n]) : n \in Network})
    \cup (UNION {Range(commands[n]) : n \in Network})

\* A session that the stream took is in it before the requests that come after it.
SessionFirst ==
    /\ \A p \in Peer \cap heard : Settled(p) \/ p \in Range(events)
    /\ \A i \in DOMAIN events : events[i] \in Request \cap heard =>
          \/ Settled(request[events[i]].from)
          \/ \E j \in 1..i - 1 : events[j] = request[events[i]].from
    /\ \A r \in Request \cap heard : request[r].from \in heard

TalkInv ==
    /\ TalkTypes
    /\ SessionFirst
    /\ \A r \in OnTheirWay \cap heard : Settled(request[r].from)
    /\ AddressOfHeardPeer

\* The elements of the sequences that the steps build.
LEMMA SequenceElements ==
    ASSUME NEW S, NEW s \in Seq(S), NEW x \in S
    PROVE  /\ Range(Append(s, x)) = Range(s) \cup {x} /\ Append(s, x) \in Seq(S)
           /\ s # <<>> => /\ Head(s) \in Range(s) /\ Head(s) \in S
                          /\ Range(Tail(s)) \subseteq Range(s) /\ Tail(s) \in Seq(S)
           /\ Range(s) \subseteq S
<1>1. /\ Append(s, x) \in Seq(S) /\ DOMAIN Append(s, x) = 1..Len(s) + 1 /\ DOMAIN s = 1..Len(s)
      /\ Append(s, x)[Len(s) + 1] = x /\ Len(s) \in Nat
      /\ \A i \in 1..Len(s) : Append(s, x)[i] = s[i]
  OBVIOUS
<1>2. Range(Append(s, x)) \subseteq Range(s) \cup {x}
  <2> SUFFICES ASSUME NEW i \in 1..Len(s) + 1
               PROVE  Append(s, x)[i] \in Range(s) \cup {x}
    BY <1>1 DEF Range
  <2>1. CASE i = Len(s) + 1
    BY <1>1, <2>1
  <2>2. CASE i # Len(s) + 1
    <3>1. i \in 1..Len(s)
      BY <1>1, <2>2
    <3> QED
      BY <1>1, <3>1 DEF Range
  <2> QED
    BY <2>1, <2>2
<1>3. Range(s) \cup {x} \subseteq Range(Append(s, x))
  <2>1. ASSUME NEW y \in Range(s)
        PROVE  y \in Range(Append(s, x))
    <3>1. PICK i \in 1..Len(s) : s[i] = y
      BY <1>1 DEF Range
    <3>2. i \in DOMAIN Append(s, x) /\ Append(s, x)[i] = y
      BY <1>1, <3>1
    <3> QED
      BY <3>2 DEF Range
  <2>2. x \in Range(Append(s, x))
    <3>1. Len(s) + 1 \in DOMAIN Append(s, x)
      BY <1>1
    <3> QED
      BY <1>1, <3>1 DEF Range
  <2> QED
    BY <2>1, <2>2
<1>4. ASSUME s # <<>>
      PROVE  /\ Head(s) \in Range(s) /\ Head(s) \in S
             /\ Range(Tail(s)) \subseteq Range(s) /\ Tail(s) \in Seq(S)
  <2>1. Head(s) = s[1] /\ 1 \in DOMAIN s
    BY <1>4
  <2>2. /\ DOMAIN Tail(s) = 1..Len(s) - 1 /\ Tail(s) \in Seq(S)
        /\ \A i \in 1..Len(s) - 1 : Tail(s)[i] = s[i + 1] /\ i + 1 \in DOMAIN s
    BY <1>4
  <2> QED
    BY <2>1, <2>2 DEF Range
<1>5. Range(s) \subseteq S
  BY DEF Range
<1> QED
  BY <1>1, <1>2, <1>3, <1>4, <1>5

\* A sequence without one of its elements.
Without(s, k) == SubSeq(s, 1, k - 1) \o SubSeq(s, k + 1, Len(s))

LEMMA WithoutElement ==
    ASSUME NEW S, NEW s \in Seq(S), NEW k \in 1..Len(s)
    PROVE  /\ Without(s, k) \in Seq(S) /\ DOMAIN Without(s, k) = 1..Len(s) - 1
           /\ \A i \in 1..k - 1 : Without(s, k)[i] = s[i]
           /\ \A i \in k..Len(s) - 1 : Without(s, k)[i] = s[i + 1]
<1> DEFINE a == SubSeq(s, 1, k - 1)
           b == SubSeq(s, k + 1, Len(s))
<1>1. a \in Seq(S) /\ Len(a) = k - 1
  OBVIOUS
<1>2. \A i \in 1..k - 1 : a[i] = s[i]
  OBVIOUS
<1>3. b \in Seq(S) /\ Len(b) = Len(s) - k
  OBVIOUS
<1>4. \A i \in 1..Len(s) - k : b[i] = s[k + i]
  OBVIOUS
<1>5. Without(s, k) = a \o b
  BY DEF Without
<1> HIDE DEF a, b
<1>6. a \o b \in Seq(S) /\ Len(a \o b) = Len(s) - 1 /\ DOMAIN (a \o b) = 1..Len(s) - 1
  BY <1>1, <1>3
<1>7. \A i \in 1..k - 1 : (a \o b)[i] = a[i]
  BY <1>1, <1>3
<1>8. ASSUME NEW i \in k..Len(s) - 1
      PROVE  (a \o b)[i] = s[i + 1]
  <2> DEFINE j == i - (k - 1)
  <2>1. (a \o b)[i] = b[j] /\ j \in 1..Len(s) - k /\ k + j = i + 1
    BY <1>1, <1>3
  <2> HIDE DEF j
  <2> QED
    BY <1>4, <2>1
<1> QED
  BY <1>2, <1>5, <1>6, <1>7, <1>8, Zenon

\* Using an entry of the cache keeps all of its peers, and adds the one used.
LEMMA UsedKeepsPeers ==
    ASSUME cache \in Seq(Peer), NEW p \in Peer
    PROVE  Used(p) \in Seq(Peer) /\ Range(Used(p)) = Range(cache) \cup {p}
<1>1. ASSUME NEW s \in Seq(Peer)
      PROVE  <<p>> \o s \in Seq(Peer) /\ Range(<<p>> \o s) = Range(s) \cup {p}
  <2>1. /\ <<p>> \o s \in Seq(Peer) /\ DOMAIN (<<p>> \o s) = 1..Len(s) + 1
        /\ DOMAIN s = 1..Len(s) /\ Len(s) \in Nat
        /\ (<<p>> \o s)[1] = p
        /\ \A i \in 1..Len(s) : (<<p>> \o s)[i + 1] = s[i]
    OBVIOUS
  <2>2. ASSUME NEW y \in Range(s) \cup {p}
        PROVE  y \in Range(<<p>> \o s)
    <3>1. CASE y = p
      BY <2>1, <3>1 DEF Range
    <3>2. CASE y \in Range(s)
      <4>1. PICK i \in 1..Len(s) : s[i] = y
        BY <2>1, <3>2 DEF Range
      <4>2. i + 1 \in DOMAIN (<<p>> \o s) /\ (<<p>> \o s)[i + 1] = y
        BY <2>1, <4>1
      <4> QED
        BY <4>2, Zenon DEF Range
    <3> QED
      BY <2>2, <3>1, <3>2
  <2>3. ASSUME NEW i \in 1..Len(s) + 1
        PROVE  (<<p>> \o s)[i] \in Range(s) \cup {p}
    <3>1. CASE i = 1
      BY <2>1, <3>1
    <3>2. CASE i # 1
      <4>1. i - 1 \in 1..Len(s) /\ (i - 1) + 1 = i
        BY <2>1, <3>2
      <4>2. (<<p>> \o s)[i] = s[i - 1]
        BY <2>1, <4>1
      <4> QED
        BY <2>1, <4>1, <4>2, Zenon DEF Range
    <3> QED
      BY <2>1, <3>1, <3>2
  <2>4. Range(<<p>> \o s) \subseteq Range(s) \cup {p}
    BY <2>1, <2>3 DEF Range
  <2> QED
    BY <2>1, <2>2, <2>4
<1>2. CASE ~CachedNodeAddr(p)
  BY <1>1, <1>2 DEF Used
<1>3. CASE CachedNodeAddr(p)
  <2> DEFINE k == CHOOSE i \in DOMAIN cache : cache[i] = p
             s == Without(cache, k)
  <2>1. k \in 1..Len(cache) /\ cache[k] = p /\ DOMAIN cache = 1..Len(cache) /\ Len(cache) \in Nat
    BY <1>3 DEF CachedNodeAddr, Range
  <2>2. Used(p) = <<p>> \o s
    BY <1>3, Zenon DEF Used, Without
  <2> HIDE DEF k
  <2>3. /\ s \in Seq(Peer) /\ DOMAIN s = 1..Len(cache) - 1
        /\ \A i \in 1..k - 1 : s[i] = cache[i]
        /\ \A i \in k..Len(cache) - 1 : s[i] = cache[i + 1]
    BY <2>1, WithoutElement, Zenon
  <2> HIDE DEF s
  <2>4. Range(s) \subseteq Range(cache)
    <3> SUFFICES ASSUME NEW i \in DOMAIN s
                 PROVE  s[i] \in Range(cache)
      BY DEF Range
    <3>1. CASE i < k
      <4>1. s[i] = cache[i] /\ i \in DOMAIN cache
        BY <2>1, <2>3, <3>1
      <4> QED
        BY <4>1 DEF Range
    <3>2. CASE i >= k
      <4>1. s[i] = cache[i + 1] /\ i + 1 \in DOMAIN cache
        BY <2>1, <2>3, <3>2
      <4> QED
        BY <4>1 DEF Range
    <3> QED
      BY <2>1, <2>3, <3>1, <3>2
  <2>5. Range(cache) \subseteq Range(s) \cup {p}
    <3> SUFFICES ASSUME NEW i \in DOMAIN cache, cache[i] # p
                 PROVE  cache[i] \in Range(s)
      BY DEF Range
    <3>1. CASE i < k
      <4>1. s[i] = cache[i] /\ i \in DOMAIN s
        BY <2>1, <2>3, <3>1
      <4> QED
        BY <4>1 DEF Range
    <3>2. CASE i > k
      <4>1. i - 1 \in k..Len(cache) - 1 /\ (i - 1) + 1 = i /\ i - 1 \in DOMAIN s
        BY <2>1, <2>3, <3>2
      <4>2. s[i - 1] = cache[i]
        BY <2>3, <4>1
      <4> QED
        BY <4>1, <4>2 DEF Range
    <3> QED
      BY <2>1, <3>1, <3>2
  <2> QED
    BY <1>1, <1>3, <2>2, <2>3, <2>4, <2>5 DEF CachedNodeAddr
<1> QED
  BY <1>2, <1>3
\* Only a reply whose sender is not in the cache lacks the address.
LEMMA AnswerNeedsAddress ==
    ASSUME NEW body, NEW source, HandleRequest(body, source).kind = "no address"
    PROVE  ~CachedNodeAddr(source)
<1> DEFINE found == PopWhileSszBytesLenGt(
                       SelectSeq(FindNodesCloseToContent(body.key), LAMBDA p : p # source))
           nodes == HandleFindNodes(body.distances, source)
           answer == HandleRequest(body, source)
<1>1. \/ answer = Answer("pong", <<>>) \/ answer = Answer("nodes", nodes)
      \/ answer = HandleFindContent(body.key, source)
      \/ answer = HandleOffer(body.key, source)
  BY DEF HandleRequest
<1>2. \A kind, enrs : Answer(kind, enrs).kind = kind
  BY DEF Answer
<1>3. ASSUME CachedNodeAddr(source)
      PROVE  HandleFindContent(body.key, source).kind # "no address"
  <2> DEFINE given == HandleFindContent(body.key, source)
  <2>1. \/ given = Answer("invalid", <<>>) \/ given = Answer("content", <<>>)
        \/ given = Answer("connection", <<>>) \/ given = Answer("enrs", found)
    BY <1>3 DEF HandleFindContent, Empty
  <2> HIDE DEF given, found
  <2>2. given.kind \in {"invalid", "content", "connection", "enrs"}
    BY <1>2, <2>1
  <2> QED
    BY <2>2 DEF given
<1>4. ASSUME CachedNodeAddr(source)
      PROVE  HandleOffer(body.key, source).kind # "no address"
  <2> DEFINE given == HandleOffer(body.key, source)
  <2>1. \/ given = Answer("invalid", <<>>) \/ given = Answer("accept none", <<>>)
        \/ given = Answer("accept", <<>>)
    BY <1>4 DEF HandleOffer, Empty
  <2> HIDE DEF given
  <2>2. given.kind \in {"invalid", "accept none", "accept"}
    BY <1>2, <2>1
  <2> QED
    BY <2>2 DEF given
<1>5. answer.kind = "no address"
  OBVIOUS
<1> HIDE DEF found, nodes, answer
<1>6. CASE answer = Answer("pong", <<>>) \/ answer = Answer("nodes", nodes)
  <2>1. answer.kind \in {"pong", "nodes"}
    BY <1>2, <1>6
  <2> QED
    BY <1>5, <2>1
<1> QED
  BY <1>1, <1>3, <1>4, <1>5, <1>6

\* A step behind the discovery loop: it keeps the cache's peers, brings no
\* request of its own, and answers "no address" only for a peer pushed out.
LEMMA QuietStep ==
    ASSUME TalkInv, TalkTypes', UNCHANGED <<request, events, heard>>,
           Range(cache) \subseteq Range(cache'), evicted \subseteq evicted',
           OnTheirWay' \subseteq OnTheirWay,
           \A r \in Request :
              \/ reply'[r] = reply[r]
              \/ reply'[r].kind = "no address" /\ r \in heard => request[r].from \in evicted
    PROVE  TalkInv'
<1>1. \A p : Settled(p) => Settled(p)'
  BY DEF Settled
<1>2. SessionFirst'
  BY <1>1 DEF TalkInv, SessionFirst
<1>3. \A r \in OnTheirWay' \cap heard' : Settled(request[r].from)'
  BY <1>1 DEF TalkInv
<1>4. AddressOfHeardPeer'
  BY DEF TalkInv, AddressOfHeardPeer
<1> QED
  BY <1>2, <1>3, <1>4 DEF TalkInv

\* What is on its way, with queues that change.
LEMMA OnTheirWayShrinks ==
    ASSUME TalkTypes, tasks' \subseteq OnTheirWay, Range(talk_req)' \subseteq OnTheirWay,
           Range(utp_talk_reqs)' \subseteq OnTheirWay,
           \A n \in Network : /\ Range(queue[n])' \subseteq OnTheirWay
                              /\ Range(commands[n])' \subseteq OnTheirWay
    PROVE  OnTheirWay' \subseteq OnTheirWay
<1> DEFINE q == UNION {Range(queue'[n]) : n \in Network}
           c == UNION {Range(commands'[n]) : n \in Network}
<1>1. q \subseteq OnTheirWay
  OBVIOUS
<1>2. c \subseteq OnTheirWay
  OBVIOUS
<1>3. OnTheirWay' = Range(talk_req)' \cup Range(utp_talk_reqs)' \cup tasks' \cup q \cup c
  BY DEF OnTheirWay
<1> HIDE DEF q, c
<1> QED
  BY <1>1, <1>2, <1>3

\* The parts of what is on its way.
LEMMA OnTheirWayParts ==
    /\ tasks \subseteq OnTheirWay /\ Range(talk_req) \subseteq OnTheirWay
    /\ Range(utp_talk_reqs) \subseteq OnTheirWay
    /\ \A n \in Network : /\ Range(queue[n]) \subseteq OnTheirWay
                          /\ Range(commands[n]) \subseteq OnTheirWay
<1> DEFINE q == UNION {Range(queue[n]) : n \in Network}
           c == UNION {Range(commands[n]) : n \in Network}
<1>1. \A n \in Network : Range(queue[n]) \subseteq q /\ Range(commands[n]) \subseteq c
  OBVIOUS
<1>2. OnTheirWay = Range(talk_req) \cup Range(utp_talk_reqs) \cup tasks \cup q \cup c
  BY DEF OnTheirWay
<1> HIDE DEF q, c
<1> QED
  BY <1>1, <1>2
\* Answers that do not speak of an address.
LEMMA RepliedWithout ==
    ASSUME NEW rs, NEW kind, kind # "no address", ReplyTo(rs, Empty(kind))
    PROVE  \A r \in Request : \/ reply'[r] = reply[r]
                              \/ reply'[r].kind = "no address" /\ r \in heard => request[r].from \in evicted
<1>1. Empty(kind).kind = kind
  BY DEF Empty, Answer
<1>2. \A r \in Request : reply'[r] = IF r \in rs THEN Empty(kind) ELSE reply[r]
  BY DEF ReplyTo
<1> QED
  BY <1>1, <1>2

LEMMA PanicKeepsInv ==
    ASSUME TalkInv, DispatcherPanics
    PROVE  TalkInv'
<1>1. TalkTypes'
  BY DEF TalkInv, TalkTypes, DispatcherPanics
<1>2. OnTheirWay' \subseteq OnTheirWay
  <2>1. /\ talk_req' = <<>> /\ utp_talk_reqs' = utp_talk_reqs /\ queue' = queue
        /\ tasks' = tasks /\ commands' = commands
    BY DEF DispatcherPanics
  <2>2. Range(<<>>) = {}
    BY DEF Range
  <2>3. Range(talk_req)' \subseteq OnTheirWay
    BY <2>1, <2>2
  <2>4. TalkTypes
    BY DEF TalkInv
  <2> QED
    BY <2>1, <2>3, <2>4, OnTheirWayShrinks, OnTheirWayParts
<1>3. ReplyTo(Range(talk_req), Empty("dropped"))
  BY DEF DispatcherPanics
<1> QED
  BY <1>1, <1>2, <1>3, QuietStep, RepliedWithout DEF DispatcherPanics

LEMMA DispatchKeepsInv ==
    ASSUME TalkInv, DispatchDiscv5TalkReq
    PROVE  TalkInv'
<1> DEFINE r == Head(talk_req)
           n == request[r].protocol
<1>1. /\ r \in Request /\ r \in Range(talk_req) /\ r \in OnTheirWay
      /\ Tail(talk_req) \in Seq(Request) /\ Range(Tail(talk_req)) \subseteq Range(talk_req)
  <2>1. talk_req \in Seq(Request) /\ talk_req # <<>>
    BY Zenon DEF TalkInv, TalkTypes, DispatchDiscv5TalkReq
  <2>2. r \in Request
    BY <2>1
  <2> QED
    BY <2>1, <2>2, SequenceElements, OnTheirWayParts, Zenon
<1>2. /\ talk_req' = Tail(talk_req)
      /\ UNCHANGED <<dvars, enabled, request, table, events, heard, cache, evicted,
                     tasks, commands, alive>>
      /\ \/ queue' = [queue EXCEPT ![n] = Append(@, r)] /\ UNCHANGED <<utp_talk_reqs, reply>>
         \/ utp_talk_reqs' = Append(utp_talk_reqs, r) /\ UNCHANGED <<queue, reply>>
         \/ ReplyTo({r}, Empty("dropped")) /\ UNCHANGED <<queue, utp_talk_reqs>>
  BY Zenon DEF DispatchDiscv5TalkReq
<1> HIDE DEF r, n
<1>3. Range(talk_req)' \subseteq OnTheirWay
  BY <1>1, <1>2, OnTheirWayParts
<1>4. CASE queue' = [queue EXCEPT ![n] = Append(@, r)] /\ UNCHANGED <<utp_talk_reqs, reply>>
  <2>1. queue' \in [Network -> Seq(Request)]
    BY <1>1, <1>4, SequenceElements, Zenon DEF TalkInv, TalkTypes
  <2>2. ASSUME NEW m \in Network
        PROVE  Range(queue[m])' \subseteq OnTheirWay
    <3>1. queue[m] \in Seq(Request)
      BY DEF TalkInv, TalkTypes
    <3>2. queue'[m] = queue[m] \/ queue'[m] = Append(queue[m], r)
      BY <1>4, Zenon DEF TalkInv, TalkTypes
    <3>3. Range(Append(queue[m], r)) = Range(queue[m]) \cup {r}
      BY <1>1, <3>1, SequenceElements
    <3> QED
      BY <1>1, <3>2, <3>3, OnTheirWayParts, Zenon
  <2>3. TalkTypes'
    BY <1>1, <1>2, <1>4, <2>1 DEF TalkInv, TalkTypes
  <2>4. OnTheirWay' \subseteq OnTheirWay
    BY <1>2, <1>3, <1>4, <2>2, OnTheirWayShrinks, OnTheirWayParts, Zenon DEF TalkInv
  <2> QED
    BY <1>2, <1>4, <2>3, <2>4, QuietStep
<1>5. CASE utp_talk_reqs' = Append(utp_talk_reqs, r) /\ UNCHANGED <<queue, reply>>
  <2>1. /\ utp_talk_reqs' \in Seq(Request)
        /\ Range(utp_talk_reqs)' = Range(utp_talk_reqs) \cup {r}
    BY <1>1, <1>5, SequenceElements DEF TalkInv, TalkTypes
  <2>2. TalkTypes'
    BY <1>1, <1>2, <1>5, <2>1, Zenon DEF TalkInv, TalkTypes
  <2>3. OnTheirWay' \subseteq OnTheirWay
    BY <1>1, <1>2, <1>3, <1>5, <2>1, OnTheirWayShrinks, OnTheirWayParts, Zenon DEF TalkInv
  <2> QED
    BY <1>2, <1>5, <2>2, <2>3, QuietStep
<1>6. CASE ReplyTo({r}, Empty("dropped")) /\ UNCHANGED <<queue, utp_talk_reqs>>
  <2>1. TalkTypes'
    BY <1>1, <1>2, <1>6 DEF TalkInv, TalkTypes
  <2>2. OnTheirWay' \subseteq OnTheirWay
    BY <1>2, <1>3, <1>6, OnTheirWayShrinks, OnTheirWayParts, Zenon DEF TalkInv
  <2> QED
    BY <1>2, <1>6, <2>1, <2>2, QuietStep, RepliedWithout
<1> QED
  BY <1>2, <1>4, <1>5, <1>6

LEMMA HandleMessageKeepsInv ==
    ASSUME TalkInv, NEW n \in Network, HandleMessage(n)
    PROVE  TalkInv'
<1> DEFINE r == Head(queue[n])
<1>1. /\ r \in Request /\ r \in OnTheirWay
      /\ Tail(queue[n]) \in Seq(Request) /\ Range(Tail(queue[n])) \subseteq Range(queue[n])
  <2>1. queue[n] \in Seq(Request) /\ queue[n] # <<>>
    BY DEF TalkInv, TalkTypes, HandleMessage
  <2>2. r \in Request
    BY <2>1
  <2> QED
    BY <2>1, <2>2, SequenceElements, OnTheirWayParts
<1>2. /\ queue' = [queue EXCEPT ![n] = Tail(queue[n])] /\ tasks' = tasks \cup {r}
      /\ UNCHANGED <<request, events, heard, cache, evicted, talk_req, utp_talk_reqs,
                     commands, reply>>
  BY DEF HandleMessage
<1> HIDE DEF r
<1>3. TalkTypes'
  BY <1>1, <1>2 DEF TalkInv, TalkTypes
<1>4. \A m \in Network : Range(queue[m])' \subseteq Range(queue[m])
  BY <1>1, <1>2 DEF TalkInv, TalkTypes
<1>5. OnTheirWay' \subseteq OnTheirWay
  BY <1>1, <1>2, <1>4, OnTheirWayShrinks, OnTheirWayParts, Zenon DEF TalkInv
<1> QED
  BY <1>2, <1>3, <1>5, QuietStep
LEMMA ProcessOneRequestKeepsInv ==
    ASSUME TalkInv, NEW r \in Request, ProcessOneRequest(r)
    PROVE  TalkInv'
<1> DEFINE n == request[r].protocol
           given == Empty(IF request[r].body.kind = "response" THEN "invalid" ELSE "undecodable")
<1>1. /\ tasks' = tasks \ {r} /\ r \in tasks
      /\ UNCHANGED <<request, events, heard, cache, evicted, talk_req, queue, utp_talk_reqs>>
      /\ \/ commands' = [commands EXCEPT ![n] = Append(@, r)] /\ UNCHANGED reply
         \/ ReplyTo({r}, given) /\ UNCHANGED commands
         \/ ReplyTo({r}, Empty("panic")) /\ UNCHANGED commands
  BY Zenon DEF ProcessOneRequest
<1>2. given = Empty("invalid") \/ given = Empty("undecodable")
  BY Zenon
<1>3. r \in OnTheirWay
  BY <1>1, OnTheirWayParts
<1> HIDE DEF n, given
<1>4. CASE commands' = [commands EXCEPT ![n] = Append(@, r)] /\ UNCHANGED reply
  <2>1. commands' \in [Network -> Seq(Request)]
    BY <1>4, SequenceElements, Zenon DEF TalkInv, TalkTypes
  <2>2. ASSUME NEW m \in Network
        PROVE  Range(commands[m])' \subseteq OnTheirWay
    <3>1. commands[m] \in Seq(Request)
      BY DEF TalkInv, TalkTypes
    <3>2. commands'[m] = commands[m] \/ commands'[m] = Append(commands[m], r)
      BY <1>4 DEF TalkInv, TalkTypes
    <3>3. Range(Append(commands[m], r)) = Range(commands[m]) \cup {r}
      BY <3>1, SequenceElements
    <3> QED
      BY <1>3, <3>2, <3>3, OnTheirWayParts, Zenon
  <2>3. TalkTypes'
    BY <1>1, <2>1 DEF TalkInv, TalkTypes
  <2>4. OnTheirWay' \subseteq OnTheirWay
    BY <1>1, <2>2, OnTheirWayShrinks, OnTheirWayParts DEF TalkInv
  <2> QED
    BY <1>1, <1>4, <2>3, <2>4, QuietStep, Zenon
<1>5. CASE (ReplyTo({r}, given) \/ ReplyTo({r}, Empty("panic"))) /\ UNCHANGED commands
  <2>1. PICK kind \in {"invalid", "undecodable", "panic"} : ReplyTo({r}, Empty(kind))
    BY <1>2, <1>5
  <2>2. TalkTypes'
    BY <1>1, <1>5 DEF TalkInv, TalkTypes
  <2>3. OnTheirWay' \subseteq OnTheirWay
    BY <1>1, <1>5, OnTheirWayShrinks, OnTheirWayParts DEF TalkInv
  <2>4. kind # "no address"
    OBVIOUS
  <2> QED
    BY <1>1, <2>1, <2>2, <2>3, <2>4, QuietStep, RepliedWithout, Zenon
<1> QED
  BY <1>1, <1>4, <1>5

\* An entry of the cache that is used stays in it.
LEMMA LookupKeepsCache ==
    ASSUME TalkInv, NEW p \in Peer, cache' = cache \/ cache' = Used(p)
    PROVE  cache' \in Seq(Peer) /\ Range(cache) \subseteq Range(cache')
BY UsedKeepsPeers DEF TalkInv, TalkTypes

\* A request on its way whose sender is not in the cache was pushed out.
LEMMA MissingIsEvicted ==
    ASSUME TalkInv, NEW r \in OnTheirWay \cap heard, ~CachedNodeAddr(request[r].from)
    PROVE  request[r].from \in evicted
BY Zenon DEF TalkInv, Settled, CachedNodeAddr

LEMMA ProcessIncomingKeepsInv ==
    ASSUME TalkInv, NEW n \in Network, ProcessIncoming(n)
    PROVE  TalkInv'
<1> DEFINE r == Head(commands[n])
           source == request[r].from
           body == request[r].body
           answer == HandleRequest(body, source)
<1>1. /\ r \in Request /\ r \in OnTheirWay
      /\ Tail(commands[n]) \in Seq(Request)
      /\ Range(Tail(commands[n])) \subseteq Range(commands[n])
  <2>1. commands[n] \in Seq(Request) /\ commands[n] # <<>>
    BY Zenon DEF TalkInv, TalkTypes, ProcessIncoming
  <2>2. r \in Request
    BY <2>1
  <2> QED
    BY <2>1, <2>2, SequenceElements, OnTheirWayParts
<1>2. /\ ReplyTo({r}, answer) /\ (cache' = cache \/ cache' = Used(source))
      /\ commands' = [commands EXCEPT ![n] = Tail(commands[n])]
      /\ UNCHANGED <<request, events, heard, evicted, talk_req, queue, utp_talk_reqs, tasks>>
  BY DEF ProcessIncoming
<1>3. answer.kind = "no address" => ~CachedNodeAddr(source)
  BY AnswerNeedsAddress
<1>4. source \in Peer
  BY <1>1 DEF TalkInv, TalkTypes
<1>5. ~CachedNodeAddr(source) /\ r \in heard => source \in evicted
  BY <1>1, MissingIsEvicted
<1>6. source = request[r].from
  OBVIOUS
<1> HIDE DEF r, source, body, answer
<1>7. cache' \in Seq(Peer) /\ Range(cache) \subseteq Range(cache')
  BY <1>2, <1>4, LookupKeepsCache
<1>8. TalkTypes'
  BY <1>1, <1>2, <1>7 DEF TalkInv, TalkTypes
<1>9. \A m \in Network : Range(commands[m])' \subseteq Range(commands[m])
  BY <1>1, <1>2 DEF TalkInv, TalkTypes
<1>10. OnTheirWay' \subseteq OnTheirWay
  BY <1>2, <1>9, OnTheirWayShrinks, OnTheirWayParts DEF TalkInv
<1>11. \A q \in Request : \/ reply'[q] = reply[q]
                          \/ reply'[q].kind = "no address" /\ q \in heard => request[q].from \in evicted
  BY <1>2, <1>3, <1>5, <1>6, Zenon DEF ReplyTo
<1> QED
  BY <1>2, <1>7, <1>8, <1>10, <1>11, QuietStep, Zenon

LEMMA ServicePanicsKeepsInv ==
    ASSUME TalkInv, NEW n \in Network, ServicePanics(n)
    PROVE  TalkInv'
<1>1. /\ commands' = [commands EXCEPT ![n] = <<>>]
      /\ ReplyTo(Range(commands[n]), Empty("panic"))
      /\ UNCHANGED <<request, events, heard, cache, evicted, talk_req, queue,
                     utp_talk_reqs, tasks>>
  BY DEF ServicePanics
<1>2. TalkTypes'
  BY <1>1 DEF TalkInv, TalkTypes
<1>3. \A m \in Network : Range(commands[m])' \subseteq Range(commands[m])
  BY <1>1, SMTT(20) DEF TalkInv, TalkTypes, Range
<1>4. OnTheirWay' \subseteq OnTheirWay
  BY <1>1, <1>3, OnTheirWayShrinks, OnTheirWayParts DEF TalkInv
<1> QED
  BY <1>1, <1>2, <1>4, QuietStep, RepliedWithout, Zenon

LEMMA RecvFromKeepsInv ==
    ASSUME TalkInv, NEW known \in BOOLEAN, RecvFrom(known)
    PROVE  TalkInv'
<1> DEFINE r == Head(utp_talk_reqs)
           p == request[r].from
           answer == Empty(IF known \/ CachedNodeAddr(p) THEN "utp" ELSE "no address")
<1>1. /\ r \in Request /\ r \in OnTheirWay
      /\ Tail(utp_talk_reqs) \in Seq(Request)
      /\ Range(Tail(utp_talk_reqs)) \subseteq Range(utp_talk_reqs)
  <2>1. utp_talk_reqs \in Seq(Request) /\ utp_talk_reqs # <<>>
    BY DEF TalkInv, TalkTypes, RecvFrom
  <2>2. r \in Request
    BY <2>1
  <2> QED
    BY <2>1, <2>2, SequenceElements, OnTheirWayParts
<1>2. /\ ReplyTo({r}, answer) /\ (cache' = cache \/ cache' = Used(p))
      /\ utp_talk_reqs' = Tail(utp_talk_reqs)
      /\ UNCHANGED <<request, events, heard, evicted, talk_req, queue, tasks, commands>>
  BY DEF RecvFrom
<1>3. answer.kind = "no address" => ~CachedNodeAddr(p)
  BY DEF Empty, Answer
<1>4. p \in Peer
  BY <1>1 DEF TalkInv, TalkTypes
<1>5. ~CachedNodeAddr(p) /\ r \in heard => p \in evicted
  BY <1>1, MissingIsEvicted
<1>6. p = request[r].from
  OBVIOUS
<1> HIDE DEF r, p, answer
<1>7. cache' \in Seq(Peer) /\ Range(cache) \subseteq Range(cache')
  BY <1>2, <1>4, LookupKeepsCache
<1>8. TalkTypes'
  BY <1>1, <1>2, <1>7 DEF TalkInv, TalkTypes
<1>9. OnTheirWay' \subseteq OnTheirWay
  BY <1>1, <1>2, OnTheirWayShrinks, OnTheirWayParts, Zenon DEF TalkInv
<1>10. \A q \in Request : \/ reply'[q] = reply[q]
                          \/ reply'[q].kind = "no address" /\ q \in heard => request[q].from \in evicted
  BY <1>2, <1>3, <1>5, <1>6 DEF ReplyTo
<1> QED
  BY <1>2, <1>7, <1>8, <1>9, <1>10, QuietStep, ZenonT(30)
\* The event stream with one event more.
LEMMA LongerStream ==
    ASSUME TalkInv, NEW e \in Peer \cup Request, events' = Append(events, e)
    PROVE  /\ events' \in Seq(Peer \cup Request) /\ Range(events') = Range(events) \cup {e}
           /\ Len(events) \in Nat /\ DOMAIN events = 1..Len(events)
           /\ DOMAIN events' = 1..Len(events) + 1 /\ events'[Len(events) + 1] = e
           /\ \A i \in 1..Len(events) : events'[i] = events[i]
<1>1. events \in Seq(Peer \cup Request)
  BY DEF TalkInv, TalkTypes
<1> HIDE DEF TalkInv
<1> QED
  BY <1>1, SequenceElements

\* A step that only adds to the stream.
LEMMA ArrivalKeepsInv ==
    ASSUME TalkInv, SessionFirst', events' \in Seq(Peer \cup Request),
           \A r \in Request \cap heard' : r \in heard \/ (r \notin OnTheirWay /\ reply[r] = None),
           UNCHANGED <<request, cache, evicted, talk_req, queue, utp_talk_reqs, tasks,
                       commands, reply>>
    PROVE  TalkInv'
<1>1. TalkTypes'
  BY DEF TalkInv, TalkTypes
<1>2. OnTheirWay' = OnTheirWay /\ OnTheirWay \subseteq Request
  <2>1. OnTheirWay' = OnTheirWay
    BY DEF OnTheirWay
  <2>2. \A s \in Seq(Request) : Range(s) \subseteq Request
    BY DEF Range
  <2>3. /\ Range(talk_req) \subseteq Request /\ Range(utp_talk_reqs) \subseteq Request
        /\ tasks \subseteq Request
        /\ \A n \in Network : Range(queue[n]) \subseteq Request /\ Range(commands[n]) \subseteq Request
    BY <2>2, Zenon DEF TalkInv, TalkTypes
  <2>4. /\ UNION {Range(queue[n]) : n \in Network} \subseteq Request
        /\ UNION {Range(commands[n]) : n \in Network} \subseteq Request
    BY <2>3, Zenon
  <2>5. OnTheirWay \subseteq Request
    BY <2>3, <2>4, Zenon DEF OnTheirWay
  <2> QED
    BY <2>1, <2>5
<1>3. \A p : Settled(p)' = Settled(p)
  BY DEF Settled
<1>4. AddressOfHeardPeer'
  BY Zenon DEF TalkInv, AddressOfHeardPeer
<1> QED
  BY <1>1, <1>2, <1>3, <1>4 DEF TalkInv

LEMMA SessionKeepsInv ==
    ASSUME TalkInv, NEW p \in Peer, Discv5Session(p)
    PROVE  TalkInv'
<1>1. /\ UNCHANGED <<request, cache, evicted, talk_req, queue, utp_talk_reqs, tasks,
                     commands, reply>>
      /\ \/ events' = Append(events, p) /\ heard' = heard \cup {p}
         \/ UNCHANGED <<events, heard>>
  BY DEF Discv5Session
<1>2. CASE UNCHANGED <<events, heard>>
  BY <1>1, <1>2, ArrivalKeepsInv, Zenon DEF TalkInv, TalkTypes, SessionFirst, Settled
<1>3. CASE events' = Append(events, p) /\ heard' = heard \cup {p}
  <2>1. /\ events' \in Seq(Peer \cup Request) /\ Range(events') = Range(events) \cup {p}
        /\ Len(events) \in Nat /\ DOMAIN events = 1..Len(events)
        /\ DOMAIN events' = 1..Len(events) + 1 /\ events'[Len(events) + 1] = p
        /\ \A i \in 1..Len(events) : events'[i] = events[i]
    BY <1>3, LongerStream
  <2>2. p \notin Request
    BY TalkAssumption
  <2>3. \A q : Settled(q)' = Settled(q)
    BY <1>1, Zenon DEF Settled
  <2>4. \A q \in Peer \cap heard' : Settled(q)' \/ q \in Range(events')
    BY <1>3, <2>1, <2>3, Zenon DEF TalkInv, SessionFirst
  <2>5. ASSUME NEW i \in DOMAIN events', events'[i] \in Request \cap heard'
        PROVE  \/ Settled(request[events[i]].from)'
               \/ \E j \in 1..i - 1 : events'[j] = request'[events'[i]].from
    <3>1. i \in 1..Len(events)
      BY <2>1, <2>2, <2>5
    <3>2. \/ Settled(request[events[i]].from)
          \/ \E j \in 1..i - 1 : events[j] = request[events[i]].from
      BY <1>3, <2>1, <2>2, <2>5, <3>1 DEF TalkInv, SessionFirst
    <3>3. \A j \in 1..i - 1 : events'[j] = events[j]
      BY <2>1, <3>1, SMTT(20)
    <3> QED
      BY <1>1, <2>1, <2>3, <3>1, <3>2, <3>3
  <2>6. \A r \in Request \cap heard' : request'[r].from \in heard'
    BY <1>1, <1>3, <2>2, Zenon DEF TalkInv, SessionFirst
  <2>7. SessionFirst'
    BY <2>4, <2>5, <2>6 DEF SessionFirst
  <2>8. \A r \in Request \cap heard' : r \in heard
    BY <1>3, <2>2
  <2> QED
    BY <1>1, <2>1, <2>7, <2>8, ArrivalKeepsInv, Zenon
<1> QED
  BY <1>1, <1>2, <1>3

LEMMA TalkRequestKeepsInv ==
    ASSUME TalkInv, NEW r \in Request, Discv5TalkRequest(r)
    PROVE  TalkInv'
<1>1. /\ reply[r] = None /\ r \notin Range(events) /\ r \notin OnTheirWay
      /\ UNCHANGED <<request, cache, evicted, talk_req, queue, utp_talk_reqs, tasks, commands>>
      /\ \/ /\ events' = Append(events, r) /\ UNCHANGED reply
            /\ heard' = IF request[r].from \in heard THEN heard \cup {r} ELSE heard
         \/ ReplyTo({r}, Empty("dropped")) /\ UNCHANGED <<events, heard>>
  BY DEF Discv5TalkRequest, Held, OnTheirWay
<1>2. CASE ReplyTo({r}, Empty("dropped")) /\ UNCHANGED <<events, heard>>
  <2>1. TalkTypes'
    BY <1>1, <1>2 DEF TalkInv, TalkTypes
  <2>2. OnTheirWay' = OnTheirWay
    BY <1>1 DEF OnTheirWay
  <2> QED
    BY <1>1, <1>2, <2>1, <2>2, QuietStep, RepliedWithout
<1>3. CASE /\ events' = Append(events, r) /\ UNCHANGED reply
           /\ heard' = IF request[r].from \in heard THEN heard \cup {r} ELSE heard
  <2>1. /\ events' \in Seq(Peer \cup Request) /\ Range(events') = Range(events) \cup {r}
        /\ Len(events) \in Nat /\ DOMAIN events = 1..Len(events)
        /\ DOMAIN events' = 1..Len(events) + 1 /\ events'[Len(events) + 1] = r
        /\ \A i \in 1..Len(events) : events'[i] = events[i]
    BY <1>3, LongerStream, Zenon
  <2>2. \A q : Settled(q)' = Settled(q)
    BY <1>1 DEF Settled
  <2>3. /\ heard \subseteq heard' /\ heard' \subseteq heard \cup {r}
        /\ r \in heard' => request[r].from \in Peer \cap heard
    BY <1>3 DEF TalkInv, TalkTypes, SessionFirst
  <2>4. \A q \in Peer \cap heard' : Settled(q)' \/ q \in Range(events')
    BY <2>1, <2>2, <2>3, TalkAssumption, Zenon DEF TalkInv, SessionFirst
  <2>5. ASSUME NEW i \in DOMAIN events', events'[i] \in Request \cap heard'
        PROVE  \/ Settled(request[events[i]].from)'
               \/ \E j \in 1..i - 1 : events'[j] = request'[events'[i]].from
    <3>1. CASE i \in 1..Len(events)
      <4>1. events[i] \in Request \cap heard
        BY <1>1, <2>1, <2>3, <2>5, <3>1, Zenon DEF Range
      <4>2. \/ Settled(request[events[i]].from)
            \/ \E j \in 1..i - 1 : events[j] = request[events[i]].from
        BY <2>1, <3>1, <4>1, Zenon DEF TalkInv, SessionFirst
      <4>3. \A j \in 1..i - 1 : events'[j] = events[j]
        BY <2>1, <3>1
      <4> QED
        BY <1>1, <2>1, <2>2, <3>1, <4>2, <4>3, Zenon
    <3>2. CASE i = Len(events) + 1
      <4>1. events'[i] = r /\ 1..i - 1 = 1..Len(events)
        BY <2>1, <3>2
      <4>2. Settled(request[r].from) \/ request[r].from \in Range(events)
        BY <2>3, <2>5, <4>1, Zenon DEF TalkInv, SessionFirst
      <4>3. CASE request[r].from \in Range(events)
        <5>1. PICK j \in 1..Len(events) : events[j] = request[r].from
          BY <2>1, <4>3, Zenon DEF Range
        <5> QED
          BY <1>1, <2>1, <4>1, <5>1, Zenon
      <4> QED
        BY <1>1, <2>2, <4>1, <4>2, <4>3, Zenon
    <3> QED
      BY <2>1, <3>1, <3>2
  <2>6. \A q \in Request \cap heard' : request'[q].from \in heard'
    BY <1>1, <2>3, Zenon DEF TalkInv, SessionFirst
  <2>7. SessionFirst'
    BY <2>4, <2>5, <2>6 DEF SessionFirst
  <2> QED
    BY <1>1, <1>3, <2>1, <2>3, <2>7, ArrivalKeepsInv, Zenon
<1> QED
  BY <1>1, <1>2, <1>3

\* The stream without its first event, when a session of it has been settled.
LEMMA ShorterStream ==
    ASSUME TalkInv, events # <<>>, events' = Tail(events), UNCHANGED <<request, heard>>,
           \A p : Settled(p) => Settled(p)',
           \A p \in Peer : p = Head(events) => Settled(p)'
    PROVE  SessionFirst' /\ events' \in Seq(Peer \cup Request)
<1> DEFINE rest == Tail(events)
<1>1. events \in Seq(Peer \cup Request)
  BY DEF TalkInv, TalkTypes
<1>2. /\ Len(events) \in Nat /\ DOMAIN events = 1..Len(events)
      /\ rest \in Seq(Peer \cup Request) /\ DOMAIN rest = 1..Len(events) - 1
      /\ Head(events) = events[1]
      /\ \A i \in 1..Len(events) - 1 : rest[i] = events[i + 1]
  BY <1>1
<1>3. events' = rest
  OBVIOUS
<1> HIDE DEF rest
<1>4. \A i \in 2..Len(events) : i - 1 \in DOMAIN rest /\ rest[i - 1] = events[i]
  <2> TAKE i \in 2..Len(events)
  <2> DEFINE j == i - 1
  <2>1. j \in 1..Len(events) - 1 /\ j + 1 = i
    BY <1>2
  <2> HIDE DEF j
  <2>2. j \in DOMAIN rest /\ rest[j] = events[i]
    BY <1>2, <2>1
  <2> QED
    BY <2>2 DEF j
<1>5. ASSUME NEW p \in Peer \cap heard'
      PROVE  Settled(p)' \/ p \in Range(events')
  <2>1. Settled(p) \/ p \in Range(events)
    BY <1>5 DEF TalkInv, SessionFirst
  <2>2. CASE p \in Range(events)
    <3>1. PICK i \in 1..Len(events) : events[i] = p
      BY <1>2, <2>2 DEF Range
    <3>2. CASE i = 1
      BY <1>2, <3>1, <3>2
    <3>3. CASE i # 1
      <4>1. i \in 2..Len(events)
        BY <1>2, <3>3, SMTT(20)
      <4> QED
        BY <1>3, <1>4, <3>1, <4>1 DEF Range
    <3> QED
      BY <3>2, <3>3
  <2> QED
    BY <2>1, <2>2
<1>6. ASSUME NEW i \in DOMAIN events', events'[i] \in Request \cap heard'
      PROVE  \/ Settled(request[events[i]].from)'
             \/ \E j \in 1..i - 1 : events'[j] = request'[events'[i]].from
  <2> DEFINE from == request[rest[i]].from
  <2>1. i \in 1..Len(events) - 1 /\ rest[i] = events[i + 1] /\ i + 1 \in DOMAIN events
    BY <1>2, <1>3
  <2>2. Settled(from) \/ \E j \in 1..i : events[j] = from
    <3>1. \/ Settled(request[events[i + 1]].from)
          \/ \E j \in 1..(i + 1) - 1 : events[j] = request[events[i + 1]].from
      BY <1>3, <1>6, <2>1 DEF TalkInv, SessionFirst
    <3>2. (i + 1) - 1 = i
      BY <1>2, <2>1
    <3> QED
      BY <2>1, <3>1, <3>2
  <2>3. from \in Peer
    BY <1>3, <1>6 DEF TalkInv, TalkTypes
  <2>4. CASE \E j \in 1..i : events[j] = from
    <3>1. PICK j \in 1..i : events[j] = from
      BY <2>4
    <3>2. CASE j = 1
      BY <1>2, <1>3, <2>3, <3>1, <3>2
    <3>3. CASE j # 1
      <4>1. j \in 2..Len(events) /\ j - 1 \in 1..i - 1
        BY <1>2, <2>1, <3>3
      <4>2. rest[j - 1] = from
        BY <1>4, <3>1, <4>1, Zenon
      <4> QED
        BY <1>3, <4>1, <4>2, Zenon
    <3> QED
      BY <3>2, <3>3
  <2> QED
    BY <1>3, <2>2, <2>4
<1>7. \A r \in Request \cap heard' : request'[r].from \in heard'
  BY DEF TalkInv, SessionFirst
<1>8. SessionFirst'
  BY <1>5, <1>6, <1>7 DEF SessionFirst
<1> QED
  BY <1>2, <1>3, <1>8, Zenon

\* What enters the cache is in it, or has been pushed out of it.
LEMMA PutSettles ==
    ASSUME TalkInv, NEW p \in Peer, PutCachedNodeAddr(p)
    PROVE  /\ cache' \in Seq(Peer) /\ evicted \subseteq evicted'
           /\ Settled(p)' /\ \A q : Settled(q) => Settled(q)'
<1> DEFINE new == Used(p)
           m == IF Len(new) < NodeAddrCacheCapacity THEN Len(new) ELSE NodeAddrCacheCapacity
           kept == SubSeq(new, 1, m)
<1>1. cache' = kept /\ evicted' = evicted \cup (Range(new) \ Range(kept))
  BY DEF PutCachedNodeAddr, First
<1>2. new \in Seq(Peer) /\ Range(new) = Range(cache) \cup {p}
  BY UsedKeepsPeers DEF TalkInv, TalkTypes
<1> HIDE DEF new
<1>3. m \in 0..Len(new)
  BY <1>2, TalkAssumption
<1> HIDE DEF m
<1>4. kept \in Seq(Peer)
  BY <1>2, <1>3
<1> HIDE DEF kept
<1> QED
  BY <1>1, <1>2, <1>4 DEF Settled

LEMMA DiscoveryLoopKeepsInv ==
    ASSUME TalkInv, DiscoveryLoop
    PROVE  TalkInv'
<1> DEFINE e == Head(events)
<1>1. /\ events # <<>> /\ events' = Tail(events)
      /\ UNCHANGED <<request, heard, queue, utp_talk_reqs, tasks, commands>>
      /\ \/ e \in Peer /\ PutCachedNodeAddr(e) /\ UNCHANGED <<talk_req, reply>>
         \/ e \in Request /\ talk_req' = Append(talk_req, e) /\ UNCHANGED <<cache, evicted, reply>>
         \/ e \in Request /\ ReplyTo({e}, Empty("dropped")) /\ UNCHANGED <<cache, evicted, talk_req>>
  BY DEF DiscoveryLoop
<1>2. e \in Request \cap heard => Settled(request[e].from)
  <2> SUFFICES ASSUME e \in Request \cap heard
               PROVE  Settled(request[e].from)
    OBVIOUS
  <2>1. 1 \in DOMAIN events /\ e = events[1] /\ 1..1 - 1 = {}
    BY <1>1 DEF TalkInv, TalkTypes
  <2> HIDE DEF e
  <2> QED
    BY <2>1 DEF TalkInv, SessionFirst
<1> HIDE DEF e
<1>3. CASE e \in Peer /\ PutCachedNodeAddr(e) /\ UNCHANGED <<talk_req, reply>>
  <2>1. /\ cache' \in Seq(Peer) /\ evicted \subseteq evicted'
        /\ \A q : (Settled(q) => Settled(q)') /\ (q = e => Settled(q)')
    <3>1. PICK p \in Peer : p = e
      BY <1>3
    <3> QED
      BY <1>3, <3>1, PutSettles
  <2>2. SessionFirst' /\ events' \in Seq(Peer \cup Request)
    BY <1>1, <2>1, ShorterStream DEF e
  <2>3. TalkTypes'
    BY <1>1, <1>3, <2>1, <2>2, Zenon DEF TalkInv, TalkTypes
  <2>4. OnTheirWay' = OnTheirWay
    BY <1>1, <1>3 DEF OnTheirWay
  <2>5. \A r \in OnTheirWay' \cap heard' : Settled(request[r].from)'
    BY <1>1, <2>1, <2>4, Zenon DEF TalkInv
  <2>6. AddressOfHeardPeer'
    BY <1>1, <1>3, <2>1 DEF TalkInv, AddressOfHeardPeer
  <2> QED
    BY <2>2, <2>3, <2>5, <2>6 DEF TalkInv
<1>4. CASE e \in Request /\ UNCHANGED <<cache, evicted>>
  <2>1. \A q : Settled(q)' = Settled(q)
    BY <1>4 DEF Settled
  <2>2. e \notin Peer
    BY <1>4, TalkAssumption
  <2>3. SessionFirst' /\ events' \in Seq(Peer \cup Request)
    BY <1>1, <2>1, <2>2, ShorterStream DEF e
  <2>4. CASE talk_req' = Append(talk_req, e) /\ UNCHANGED reply
    <3>1. talk_req' \in Seq(Request) /\ Range(talk_req)' = Range(talk_req) \cup {e}
      BY <1>4, <2>4, SequenceElements DEF TalkInv, TalkTypes
    <3>2. TalkTypes'
      BY <1>1, <1>4, <2>3, <3>1, Zenon DEF TalkInv, TalkTypes
    <3>3. OnTheirWay' \subseteq OnTheirWay \cup {e}
      BY <1>1, <3>1 DEF OnTheirWay
    <3>4. \A r \in OnTheirWay' \cap heard' : Settled(request[r].from)'
      BY <1>1, <1>2, <1>4, <2>1, <3>3, Zenon DEF TalkInv
    <3>5. AddressOfHeardPeer'
      BY <1>1, <1>4, <2>4 DEF TalkInv, AddressOfHeardPeer
    <3> QED
      BY <2>3, <3>2, <3>4, <3>5 DEF TalkInv
  <2>5. CASE ReplyTo({e}, Empty("dropped")) /\ UNCHANGED talk_req
    <3>1. TalkTypes'
      BY <1>1, <1>4, <2>3, <2>5, Zenon DEF TalkInv, TalkTypes
    <3>2. OnTheirWay' = OnTheirWay
      BY <1>1, <2>5 DEF OnTheirWay
    <3>3. \A r \in OnTheirWay' \cap heard' : Settled(request[r].from)'
      BY <1>1, <2>1, <3>2 DEF TalkInv
    <3>4. \A r \in Request : \/ reply'[r] = reply[r]
                             \/ reply'[r].kind = "no address" /\ r \in heard => request[r].from \in evicted
      BY <2>5, RepliedWithout
    <3>5. AddressOfHeardPeer'
      BY <1>1, <1>4, <3>4 DEF TalkInv, AddressOfHeardPeer
    <3> QED
      BY <2>3, <3>1, <3>3, <3>5 DEF TalkInv
  <2> QED
    BY <1>1, <1>4, <2>2, <2>4, <2>5
<1> QED
  BY <1>1, <1>3, <1>4

LEMMA TalkInvStep == TalkInv /\ [TNext \/ StartGoesOn]_<<dvars, tvars>> => TalkInv'
<1> SUFFICES ASSUME TalkInv, [TNext \/ StartGoesOn]_<<dvars, tvars>>
             PROVE  TalkInv'
  OBVIOUS
<1>1. ASSUME UNCHANGED tvars
      PROVE  TalkInv'
  <2>1. UNCHANGED <<request, events, heard, cache, evicted, talk_req, queue, utp_talk_reqs,
                    tasks, commands, reply>>
    BY <1>1 DEF tvars
  <2>2. TalkTypes'
    BY <2>1, Zenon DEF TalkInv, TalkTypes
  <2>3. OnTheirWay' = OnTheirWay
    BY <2>1 DEF OnTheirWay
  <2> QED
    BY <2>1, <2>2, <2>3, QuietStep, Zenon
<1>2. CASE TNext
  <2>1. ASSUME HandleHistoryMessage \/ HandleBeaconMessage \/ HandleStateMessage
        PROVE  TalkInv'
    BY <2>1, HandleMessageKeepsInv
       DEF HandleHistoryMessage, HandleBeaconMessage, HandleStateMessage, Network
  <2> QED
    BY <1>2, <2>1, SessionKeepsInv, TalkRequestKeepsInv, ProcessOneRequestKeepsInv,
       DiscoveryLoopKeepsInv, PanicKeepsInv, DispatchKeepsInv, ProcessIncomingKeepsInv,
       ServicePanicsKeepsInv, RecvFromKeepsInv DEF TNext
<1>3. CASE StartGoesOn
  BY <1>1, <1>3 DEF StartGoesOn
<1> QED
  BY <1>1, <1>2, <1>3

\* The address of a peer whose session the stream took is missing to its later requests
\* only after the cache pushed it out: the loop of Discovery::start caches the address
\* of a session before it hands on any request of it, whatever is lost for want of room
\* in the stream and whatever the other tasks and the start do.
THEOREM SessionBeforeRequest == TalkSpec => []AddressOfHeardPeer
<1>1. TInit /\ (\A r \in Request : request[r].from \in Peer) => TalkInv
  <2> SUFFICES ASSUME TInit, \A r \in Request : request[r].from \in Peer
               PROVE  TalkInv
    OBVIOUS
  <2>1. TalkTypes
    BY DEF TInit, TalkTypes
  <2>2. OnTheirWay = {}
    BY DEF TInit, OnTheirWay, Range
  <2>3. SessionFirst
    BY DEF TInit, SessionFirst
  <2>4. AddressOfHeardPeer
    BY DEF TInit, AddressOfHeardPeer
  <2> QED
    BY <2>1, <2>2, <2>3, <2>4 DEF TalkInv
<1>2. TalkInv => AddressOfHeardPeer
  BY DEF TalkInv
<1> QED
  BY <1>1, <1>2, TalkInvStep, PTL DEF TalkSpec


=============================================================================
