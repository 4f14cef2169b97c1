---------------------------- MODULE HistoryBridge ----------------------------
(***************************************************************************)
(* The history bridge: it follows the head of the chain or goes through a  *)
(* range of blocks, and serves every block in a task of its own, header    *)
(* first, then body and receipts.  In a range the tasks share a number of  *)
(* permits, and headers up to the merge carry a proof against the          *)
(* accumulator of their epoch, read from a file that may be missing.       *)
(*                                                                         *)
(* A piece of content that was gossiped is its height, its kind and what   *)
(* it is worth: "right" when it is that of the block of that height.  A    *)
(* wrong answer of the provider is one for another block, as in a fork.    *)
(***************************************************************************)
EXTENDS FiniteSets, Epochs, BridgeInputs

CONSTANTS
    GOSSIP_LIMIT,
    Uncled,             \* the heights whose blocks have uncles
    MaxBlock            \* bound on the height of the chain

ASSUME HistoryAssumption ==
    EPOCH_SIZE \in Nat \ {0} /\ MERGE_BLOCK_NUMBER \in Nat /\ MaxBlock \in Nat

VARIABLES
    mode,           \* the arguments of the bridge (constant)
    accumulators,   \* the epochs whose accumulator file is there (constant)
    latest,         \* the head of the chain
    bridge,         \* "launched", "latest", "backfill", "complete" or "exited"
    block_index,    \* the next height to serve
    end_block,      \* the end of the range, exclusive
    epoch_index,    \* the epoch looked up last, None before the first
    epoch_acc,      \* the accumulator at hand: its epoch, or None
    serving,        \* for every height, where its task is
    task_acc,       \* the accumulator each task was given
    hash,           \* the header each task works with: right or wrong
    gossiped        \* what was handed to the portal clients

hvars == <<mode, accumulators, latest, bridge, block_index, end_block, epoch_index,
           epoch_acc, serving, task_acc, hash, gossiped>>

Height == 0..MaxBlock

Mode == {BridgeModeFromStr(word, letter, numbers) :
            word \in {"latest", "backfill", "single", "test"}, letter \in {None, "e", "b", "r"},
            numbers \in {<<i>> : i \in Height} \cup (Height \X Height)} \ {Failed}

\* The block of a height; its time goes with its height.
Block(height) == [time |-> height, uncles |-> IF height \in Uncled THEN 1 ELSE 0,
                  withdrawals |-> IF height > SHANGHAI_TIMESTAMP THEN 0 ELSE None]

Active == {h \in Height : serving[h] \in {"header", "saturate", "body", "receipts"}}

HInit ==
    /\ mode \in Mode
    /\ accumulators \in SUBSET {Epoch(h) : h \in Height}
    /\ latest \in Height
    /\ bridge = "launched"
    /\ block_index = 0
    /\ end_block = 0
    /\ epoch_index = None
    /\ epoch_acc = None
    /\ serving = [h \in Height |-> "none"]
    /\ task_acc = [h \in Height |-> None]
    /\ hash = [h \in Height |-> "right"]
    /\ gossiped = {}

\* External: the chain grows.
NewBlock ==
    /\ latest < MaxBlock
    /\ latest' = latest + 1
    /\ UNCHANGED <<mode, accumulators, bridge, block_index, end_block, epoch_index,
                   epoch_acc, serving, task_acc, hash, gossiped>>

\* A provider without an answer ends the program, in main or in the launch.
LaunchFails ==
    /\ bridge = "launched"
    /\ bridge' = "exited"
    /\ UNCHANGED <<mode, accumulators, latest, block_index, end_block, epoch_index,
                   epoch_acc, serving, task_acc, hash, gossiped>>

\* Every asset of the file is gossiped; a file of another network is a panic.
LaunchTest(assets) ==
    /\ bridge = "launched"
    /\ mode.type = "test"
    /\ bridge' = "exited"
    /\ gossiped' = IF assets = "history"
                   THEN {[height |-> 0, kind |-> "asset", of |-> "right"]} ELSE {}
    /\ UNCHANGED <<mode, accumulators, latest, block_index, end_block, epoch_index,
                   epoch_acc, serving, task_acc, hash>>

LaunchLatest ==
    /\ bridge = "launched"
    /\ mode.type = "latest"
    /\ bridge' = "latest"
    /\ block_index' = latest
    /\ UNCHANGED <<mode, accumulators, latest, end_block, epoch_index, epoch_acc, serving,
                   task_acc, hash, gossiped>>

\* spawn_serve_full_block; the header answer is that of get_header.
Spawn(heights, acc) ==
    /\ serving' = [h \in Height |-> IF h \in heights THEN "header" ELSE serving[h]]
    /\ task_acc' = [h \in Height |-> IF h \in heights THEN acc ELSE task_acc[h]]

\* Every five seconds; an error of the provider is skipped.
PollLatest ==
    /\ bridge = "latest"
    /\ latest > block_index
    /\ Spawn(block_index..latest, None)
    /\ block_index' = latest + 1
    /\ UNCHANGED <<mode, accumulators, latest, bridge, end_block, epoch_index, epoch_acc,
                   hash, gossiped>>

StartBlock == IF mode.unit = "epoch" THEN mode.at * EPOCH_SIZE ELSE mode.at

\* The end is exclusive, and never above the head.
EndBlock ==
    LET end == CASE mode.unit = "range" -> mode.to + 1
                 [] mode.type = "backfill" -> latest
                 [] mode.unit = "epoch" -> (mode.at + 1) * EPOCH_SIZE
                 [] OTHER -> mode.at + 1
    IN  IF end > latest THEN latest ELSE end

LaunchBackfill ==
    /\ bridge = "launched"
    /\ mode.type \in {"backfill", "single"}
    /\ \/ /\ StartBlock <= latest
          /\ bridge' = "backfill"
          /\ block_index' = StartBlock
          /\ end_block' = EndBlock
       \/ /\ StartBlock > latest
          /\ bridge' = "exited"
          /\ UNCHANGED <<block_index, end_block>>
    /\ UNCHANGED <<mode, accumulators, latest, epoch_index, epoch_acc, serving, task_acc,
                   hash, gossiped>>

\* The file of the accumulator can be read.
GetEpochAcc(epoch) == epoch \in accumulators

NeedsEpoch(height) == height <= MERGE_BLOCK_NUMBER /\ epoch_index # Epoch(height)

\* A missing accumulator skips this height only; the one at hand stays as it is.
SkipHeight ==
    /\ bridge = "backfill"
    /\ block_index < end_block
    /\ NeedsEpoch(block_index)
    /\ ~GetEpochAcc(Epoch(block_index))
    /\ epoch_index' = Epoch(block_index)
    /\ block_index' = block_index + 1
    /\ UNCHANGED <<mode, accumulators, latest, bridge, end_block, epoch_acc, serving,
                   task_acc, hash, gossiped>>

\* get_epoch_acc gossips the accumulator that it read, whoever takes it.
FindEpochAcc ==
    /\ bridge = "backfill"
    /\ block_index < end_block
    /\ NeedsEpoch(block_index)
    /\ GetEpochAcc(Epoch(block_index))
    /\ epoch_index' = Epoch(block_index)
    /\ epoch_acc' = Epoch(block_index)
    /\ gossiped' = gossiped \cup {[height |-> Epoch(block_index) * EPOCH_SIZE,
                                   kind |-> "accumulator", of |-> "right"]}
    /\ UNCHANGED <<mode, accumulators, latest, bridge, block_index, end_block, serving,
                   task_acc, hash>>

\* A permit is there for the next height.
ServeHeight ==
    /\ bridge = "backfill"
    /\ block_index < end_block
    /\ ~NeedsEpoch(block_index)
    /\ Cardinality(Active) < GOSSIP_LIMIT
    /\ epoch_acc' = IF block_index > MERGE_BLOCK_NUMBER THEN None ELSE epoch_acc
    /\ Spawn({block_index}, epoch_acc')
    /\ block_index' = block_index + 1
    /\ UNCHANGED <<mode, accumulators, latest, bridge, end_block, epoch_index, hash, gossiped>>

\* Nothing waits for the tasks: the launch returns, then main does.
CompleteBackfill ==
    /\ bridge = "backfill"
    /\ block_index >= end_block
    /\ bridge' = "complete"
    /\ UNCHANGED <<mode, accumulators, latest, block_index, end_block, epoch_index,
                   epoch_acc, serving, task_acc, hash, gossiped>>

\* The runtime drops the tasks that are left when main returns.
Exit ==
    /\ bridge = "complete"
    /\ bridge' = "exited"
    /\ serving' = [h \in Height |-> IF h \in Active THEN "dropped" ELSE serving[h]]
    /\ UNCHANGED <<mode, accumulators, latest, block_index, end_block, epoch_index,
                   epoch_acc, task_acc, hash, gossiped>>

Gossip(height, kind, of) == gossiped' = gossiped \cup {[height |-> height, kind |-> kind, of |-> of]}

\* Faulty: the header is not compared with the record of the accumulator.
HeaderIsInAccumulator_Trusted(height, of) == TRUE

HeaderIsInAccumulator(height, of) == of = "right" /\ task_acc[height] = Epoch(height)

\* get_header and gossip_header: a header before the merge needs an accumulator,
\* and one that has an accumulator must be in it.  The provider may fail.
ServeHeader(height, of) ==
    /\ serving[height] = "header"
    /\ LET acc == IF height <= MERGE_BLOCK_NUMBER THEN task_acc[height] ELSE None
           invalid == \/ acc = None /\ height < MERGE_BLOCK_NUMBER
                      \/ acc # None /\ ~HeaderIsInAccumulator(height, of)
       IN  IF invalid
           THEN /\ serving' = [serving EXCEPT ![height] = "failed"]
                /\ UNCHANGED <<hash, gossiped>>
           ELSE /\ serving' = [serving EXCEPT ![height] = "saturate"]
                /\ hash' = [hash EXCEPT ![height] = of]
                /\ Gossip(height, IF acc = None THEN "header" ELSE "header with proof", of)
    /\ UNCHANGED <<mode, accumulators, latest, bridge, block_index, end_block, epoch_index,
                   epoch_acc, task_acc>>

\* The pause in which the header spreads.
SaturationDelay(height) ==
    /\ serving[height] = "saturate"
    /\ serving' = [serving EXCEPT ![height] = "body"]
    /\ UNCHANGED <<mode, accumulators, latest, bridge, block_index, end_block, epoch_index,
                   epoch_acc, task_acc, hash, gossiped>>

\* A body is checked against the roots of the header, which came with it.
ServeBody(height, of) ==
    /\ serving[height] = "body"
    /\ IF of = hash[height] /\ ConstructBlockBody(Block(height)) # Failed
       THEN /\ serving' = [serving EXCEPT ![height] = "receipts"]
            /\ Gossip(height, "body", of)
       ELSE /\ serving' = [serving EXCEPT ![height] = "failed"]
            /\ UNCHANGED gossiped
    /\ UNCHANGED <<mode, accumulators, latest, bridge, block_index, end_block, epoch_index,
                   epoch_acc, task_acc, hash>>

ServeReceipts(height, of) ==
    /\ serving[height] = "receipts"
    /\ IF of = hash[height]
       THEN /\ serving' = [serving EXCEPT ![height] = "done"]
            /\ Gossip(height, "receipts", of)
       ELSE /\ serving' = [serving EXCEPT ![height] = "failed"]
            /\ UNCHANGED gossiped
    /\ UNCHANGED <<mode, accumulators, latest, bridge, block_index, end_block, epoch_index,
                   epoch_acc, task_acc, hash>>

\* Faulty: a task that runs out of time keeps its permit.
TaskEnds_KeepsPermit(height) ==
    /\ serving[height] = "header"
    /\ UNCHANGED hvars

\* An error of the provider, or SERVE_BLOCK_TIMEOUT: the permit is given back.
TaskEnds(height) ==
    /\ height \in Active
    /\ serving' = [serving EXCEPT ![height] = "failed"]
    /\ UNCHANGED <<mode, accumulators, latest, bridge, block_index, end_block, epoch_index,
                   epoch_acc, task_acc, hash, gossiped>>

TaskStep(height) ==
    \/ SaturationDelay(height)
    \/ \E of \in {"right", "wrong"} :
          ServeHeader(height, of) \/ ServeBody(height, of) \/ ServeReceipts(height, of)

HNext ==
    \/ NewBlock
    \/ LaunchFails
    \/ \E assets \in {"history", "beacon"} : LaunchTest(assets)
    \/ LaunchLatest
    \/ PollLatest
    \/ LaunchBackfill
    \/ SkipHeight
    \/ FindEpochAcc
    \/ ServeHeight
    \/ CompleteBackfill
    \/ Exit
    \/ \E height \in Height : TaskStep(height) \/ TaskEnds(height)

HSpec == HInit /\ [][HNext]_hvars

\* The loops are scheduled, and a task ends by its timeout if by nothing else.
HFairness ==
    /\ WF_hvars(LaunchLatest \/ LaunchBackfill)
    /\ WF_hvars(PollLatest)
    /\ WF_hvars(SkipHeight \/ FindEpochAcc \/ ServeHeight \/ CompleteBackfill \/ Exit)
    /\ \A height \in Height : WF_hvars(TaskEnds(height))

-----------------------------------------------------------------------------
\* What is gossiped for a height is of one block: a header with a proof is the
\* canonical one, proved by the accumulator of its own epoch, whichever epochs
\* are missing and whatever accumulator a task was left with; a header without a
\* proof is from the merge on; body and receipts are those of the header served
\* before them (gossip_header, construct_and_gossip_block_body and _receipt).
GossipedIsConsistent ==
    \A g \in gossiped :
        /\ g.kind = "header with proof" =>
              g.of = "right" /\ task_acc[g.height] = Epoch(g.height)
        /\ g.kind = "header" => g.height >= MERGE_BLOCK_NUMBER
        /\ g.kind \in {"body", "receipts"} =>
              \E h \in gossiped : /\ h.height = g.height
                                  /\ h.kind \in {"header", "header with proof"}
                                  /\ h.of = g.of

\* A backfill comes to its end although more blocks are due than there are
\* permits and the provider may fail or never answer: every task gives its permit
\* back (launch_backfill, spawn_serve_full_block).
BackfillEnds == bridge = "backfill" ~> bridge = "exited"

\* "--mode single:b100: gossip a single block #100" (portal-bridge/README.md):
\* the bridge does not end while a block it started is still being served.
BackfillFinishesBlocks == \A h \in Height : serving[h] # "dropped"

=============================================================================
