------------------------------ MODULE MCChain ------------------------------
(***************************************************************************)
(* What follows the chain, each in behaviours of its own: the history      *)
(* bridge in a few of its modes, the beacon bridge, and the light client   *)
(* over two sync committee periods; and the choice of a checkpoint, from   *)
(* up to three services and two roots.                                     *)
(***************************************************************************)
EXTENDS HistoryBridge, BeaconBridge, BridgeGossip, ExecutionApi, LightClient, Checkpoints

VARIABLE scope

mcvars == <<hvars, bbvars, vars, scope>>

\* One of each sort of arguments; the head at the launch is low, or where it ends.
MCModes ==
    {[type |-> "latest"], [type |-> "test"],
     [type |-> "backfill", unit |-> "range", at |-> 1, to |-> 3],
     [type |-> "backfill", unit |-> "epoch", at |-> 1],
     [type |-> "single", unit |-> "epoch", at |-> 0],
     [type |-> "single", unit |-> "block", at |-> 4]}

ASSUME MCModesAreRead == MCModes \subseteq Mode

HistoryIdle == HInit /\ mode = [type |-> "latest"] /\ accumulators = {} /\ latest = 0
BeaconIdle == BBInit /\ final = 1 /\ clock = MaxPeriod

LightClientIdle == Init /\ now = 0

MCInit ==
    \/ /\ scope = "history"
       /\ HInit /\ mode \in MCModes /\ latest \in {1, MaxBlock}
       /\ BeaconIdle /\ LightClientIdle
    \/ scope = "beacon" /\ HistoryIdle /\ BBInit /\ LightClientIdle
    \/ scope = "light client" /\ HistoryIdle /\ BeaconIdle /\ Init

MCNext ==
    \/ scope = "history" /\ HNext /\ UNCHANGED <<bbvars, vars, scope>>
    \/ scope = "beacon" /\ BBNext /\ UNCHANGED <<hvars, vars, scope>>
    \/ scope = "light client" /\ Next /\ UNCHANGED <<hvars, bbvars, scope>>

\* Outside its scope the light client is not following yet: its fair step is not enabled.
MCSpec == MCInit /\ [][MCNext]_mcvars /\ (scope = "history" => HFairness) /\ Fairness

\* The history bridge alone.
HistorySpec == MCInit /\ scope = "history" /\ [][MCNext]_mcvars /\ HFairness

-----------------------------------------------------------------------------
(***************************************************************************)
(* The pure parts, evaluated on bounded inputs before the runs.            *)
(***************************************************************************)
Gap(a, b) == LET d == (a + U8 - b) % U8 IN IF d > U8 \div 2 THEN U8 - d ELSE d

\* Clients, as many as may be asked for, share no port, advertise their own, and
\* their node ids are a step of the key space apart, also around its end.
ASSUME ClientsAreApart ==
    \A count \in {CheckNodeCount(val) : val \in 0..255} \ {Failed}, root \in {0, 100, 255} :
        LET handles == [i \in 1..count |-> TrinHandle(Clients(count, root)[i], "ip")]
        IN  \A i, j \in 1..count : i # j =>
                /\ handles[i].rpc_port # handles[j].rpc_port
                /\ handles[i].external[2] # handles[j].external[2]
                /\ Gap(handles[i].prefix, handles[j].prefix) >= 255 \div count

\* The external address of a fluffy client is the one given, if one is.
ASSUME FluffyAddress ==
    \A ip \in {None, "ip"}, stun \in {Failed, "stun"} :
        LET handle == FluffyHandle(Clients(1, 0)[1], stun, ip)
        IN  handle # Failed => handle.external[1] = IF ip = None THEN "stun" ELSE "ip"

\* Answers come in the order of the requests whatever the chunks they are sent
\* in, and there are none unless every chunk got one.
ASSUME BatchesInOrder ==
    \A n \in 0..7, up \in [1..3 -> {<<TRUE, TRUE, TRUE>>, <<FALSE, FALSE, TRUE>>, <<FALSE, FALSE, FALSE>>}] :
        LET requests == [i \in 1..n |-> i]
            sent == DOMAIN Chunks(requests)
            answers == GetTrustedReceipts(requests, up)
        IN  IF \E i \in sent : up[i] = <<FALSE, FALSE, FALSE>> THEN answers = Failed
            ELSE answers = [i \in 1..n |-> [receipt_of |-> i]]

\* A block of an answer is used only when all of it could be read.
ASSUME FullHeadersAreFull ==
    \A val \in [header : {1, Failed}, uncles : {0, Failed}, txs : {0, Failed}, withdrawals : {None, Failed}] :
        GetHeader(<<val>>) # Failed => val = [header |-> 1, uncles |-> 0, txs |-> 0, withdrawals |-> None]

\* The rounds of the beacon bridge begin four seconds into a slot, never in the
\* slot that is running.
ASSUME UpdatesFourSecondsIn ==
    \A genesis \in 0..3, since \in 0..40 :
        LET time == genesis + since
            at == time + DurationUntilNextUpdate(genesis, time)
        IN  /\ (at - genesis) % SECONDS_PER_SLOT = 4
            /\ ExpectedCurrentSlot(genesis, at) = ExpectedCurrentSlot(genesis, time) + 1

\* No bridge starts without a provider that answers, and a bridge that was asked
\* for is not left out.
ASSUME NeedsProvider ==
    \A networks \in SUBSET {"beacon", "history", "state"}, provider \in {"test", "url"},
       answer \in {None, "other", "version"} :
        LET started == Main(networks, provider, answer)
        IN  \/ started = networks \ {"state"}
            \/ started = Failed /\ (answer # "version" \/ provider = "test")

\* A client asks again exactly as long as nobody took the content and nobody has
\* it, and what is recorded holds every peer that took it.
ASSUME GossipUntilSettled ==
    \A attempts \in [1..GOSSIP_RETRY_COUNT -> [trace : Trace({1}) \cup {Failed}, found : BOOLEAN]] :
        LET made == HistoryTraceGossip(attempts)
            taken == \E t \in made.traces : t.transferred # {}
            stats == ContentStats(<<made, BeaconTraceGossip(attempts)>>)
        IN  /\ made.retries \in 0..GOSSIP_RETRY_COUNT
            /\ \A i \in 1..made.retries : ~Settles(attempts[i])
            /\ made.retries < GOSSIP_RETRY_COUNT => taken \/ attempts[made.retries + 1].found
            /\ stats.transferred = {} <=> ~taken
            /\ stats.retries = 2 * made.retries

NamedSlot == [epoch : 1..2, root : 0..2]

Slots == BoundedSeq(NamedSlot, 1) \cup {<<[epoch |-> 2, root |-> NoRoot], s>> : s \in NamedSlot}

Service == [state : BOOLEAN, slots : Slots]

\* A checkpoint that is chosen is named by a service, for an epoch that no other
\* service has passed, and no other root of that epoch by more services; there is
\* one as soon as a service has any.
ASSUME CheckpointIsVoted ==
    \A services \in BoundedSeq([state : {TRUE}, slots : Slots], 3) :
        LET roots == FetchLatestCheckpointFromServices(services)
            First(s) == SlotsWithRoot(s.slots)[1]
            able == SelectSeq(services, LAMBDA s : SlotsWithRoot(s.slots) # <<>>)
            Naming(root, epoch) == SelectSeq(able, LAMBDA s : First(s) = [epoch |-> epoch, root |-> root])
            epoch == IF \E s \in ToSet(able) : First(s).epoch = 2 THEN 2 ELSE 1
        IN  /\ (roots = {}) = (able = <<>>)
            /\ \A r \in roots :
                  /\ Naming(r, epoch) # <<>>
                  /\ \A other \in 1..2 : Len(Naming(other, epoch)) <= Len(Naming(r, epoch))

\* An unhealthy service has no vote, and the services of the other chain neither.
ASSUME OnlyHealthyVote ==
    \A s \in Service, other \in Service :
        FetchLatestCheckpoint([mainnet |-> <<s>>, goerli |-> <<other>>], "mainnet") # {} => s.state

\* The services are asked only if this is wanted, and when the fallback did not help;
\* the client never goes on from a checkpoint it cannot sync from.
ASSUME FallbackComesFirst ==
    \A fallbacks \in BoundedSeq(Service, 1), external \in BOOLEAN, s \in Service, good \in 0..2 :
        LET boot == BootCheckpoints(fallbacks, external, [mainnet |-> <<s>>, goerli |-> <<>>],
                                    "mainnet", {good})
            own == IF fallbacks = <<>> THEN NoRoot ELSE FetchCheckpointFromApi(fallbacks[1])
        IN  /\ boot \subseteq {good} \ {NoRoot}
            /\ own > 0 /\ own = good => boot = {own}
            /\ ~external => boot \subseteq {own}

=============================================================================
