---------------------------- MODULE BridgeInputs ----------------------------
(***************************************************************************)
(* What the bridges start from: the arguments of the program, the portal   *)
(* clients it starts, the providers it connects to, what the body of a     *)
(* block is made of, and when a round of the beacon bridge begins.         *)
(***************************************************************************)
EXTENDS Naturals, Sequences, Functions, Results

CONSTANTS
    MAX_NODE_COUNT,
    MERGE_TIMESTAMP,
    SHANGHAI_TIMESTAMP

U8 == 256
DEFAULT_WEB3_HTTP_PORT == 8545
DEFAULT_DISCOVERY_PORT == 9009

CheckNodeCount(val) == IF val \in 1..MAX_NODE_COUNT THEN val ELSE Failed

(***************************************************************************)
(* A mode argument is its word, the letter after the colon, None without   *)
(* a colon, and the numbers, Failed for one that is none.  The program     *)
(* ends on an argument it cannot read, with an error or a panic.           *)
(***************************************************************************)
ModeTypeFromStr(type, letter, numbers) ==
    CASE letter \in {"e", "b"} /\ Len(numbers) = 1 /\ Failed \notin Range(numbers) ->
            [type |-> type, unit |-> IF letter = "e" THEN "epoch" ELSE "block", at |-> numbers[1]]
      [] letter = "r" /\ Len(numbers) = 2 /\ Failed \notin Range(numbers) ->
            IF numbers[1] > numbers[2] THEN Failed
            ELSE [type |-> type, unit |-> "range", at |-> numbers[1], to |-> numbers[2]]
      [] OTHER -> Failed

BridgeModeFromStr(word, letter, numbers) ==
    CASE word = "latest" /\ letter = None -> [type |-> "latest"]
      [] word \in {"backfill", "single"} /\ letter # None -> ModeTypeFromStr(word, letter, numbers)
      [] word = "test" /\ letter # None -> [type |-> "test"]
      [] OTHER -> Failed

-----------------------------------------------------------------------------
\* The first byte of the node id of the i-th client; the sum wraps around.
SpacedPrefix(count, root, i) == (root + (i - 1) * (255 \div count)) % U8

GenerateSpacedPrivateKeys(count, root) == [i \in 1..count |-> SpacedPrefix(count, root, i)]

\* The client processes: trin and fluffy differ in how the arguments are written.
Clients(count, root) ==
    [i \in 1..count |-> [prefix |-> GenerateSpacedPrivateKeys(count, root)[i],
                         rpc_port |-> DEFAULT_WEB3_HTTP_PORT + i - 1,
                         udp_port |-> DEFAULT_DISCOVERY_PORT + i - 1]]

TrinHandle(client, external_ip) ==
    [rpc_port |-> client.rpc_port, udp_port |-> client.udp_port, prefix |-> client.prefix,
     external |-> IF external_ip = None THEN None ELSE <<external_ip, client.udp_port>>]

\* The address is found by STUN, and has to be; one that is given comes after it.
FluffyHandle(client, stun, external_ip) ==
    IF stun = Failed THEN Failed
    ELSE [rpc_port |-> client.rpc_port, udp_port |-> client.udp_port, prefix |-> client.prefix,
          external |-> <<IF external_ip = None THEN stun ELSE external_ip, client.udp_port>>]

\* A provider is asked for its version: no answer, another one, or a version.
CheckExecutionProvider(answer) == answer = "version"
CheckConsensusProvider(answer) == answer # None

\* The stub is not asked; there is none for the consensus layer.
ExecutionApiNew(provider, answer) == provider = "test" \/ CheckExecutionProvider(answer)
ConsensusApiNew(provider, answer) == provider # "test" /\ CheckConsensusProvider(answer)

\* The beacon bridge is prepared first; an error ends the program with it.
Main(networks, provider, answer) ==
    IF \/ "beacon" \in networks /\ ~ConsensusApiNew(provider, answer)
       \/ "history" \in networks /\ ~ExecutionApiNew(provider, answer)
    THEN Failed ELSE networks \cap {"beacon", "history"}

-----------------------------------------------------------------------------
\* The header of an uncle is parsed from the response instead of its result,
\* which it never is: there is no header when there are uncles.
GetTrustedUncles(uncles) == Failed

\* By the time of the block: what the body is made of, or Failed.
ConstructBlockBody(block) ==
    IF block.time > SHANGHAI_TIMESTAMP
    THEN IF block.uncles > 0 \/ block.withdrawals = None THEN Failed ELSE "shanghai"
    ELSE IF block.time > MERGE_TIMESTAMP
    THEN IF block.uncles > 0 THEN Failed ELSE "merge"
    ELSE IF block.uncles = 0 THEN "legacy" ELSE GetTrustedUncles(block.uncles)

-----------------------------------------------------------------------------
\* When the beacon bridge begins its rounds.
SECONDS_PER_SLOT == 12

ExpectedCurrentSlot(genesis_time, now) == (now - genesis_time) \div SECONDS_PER_SLOT
SlotTimestamp(slot, genesis_time) == slot * SECONDS_PER_SLOT + genesis_time

\* To four seconds into the next slot.
DurationUntilNextUpdate(genesis_time, now) ==
    SlotTimestamp(ExpectedCurrentSlot(genesis_time, now) + 1, genesis_time) - now + 4

=============================================================================
