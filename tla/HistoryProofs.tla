---------------------------- MODULE HistoryProofs ----------------------------
(***************************************************************************)
(* Proofs about the history network: its store, and the bridge that feeds  *)
(* it.                                                                     *)
(*                                                                         *)
(* HistoryStorage: for every distance space, every prefix length, every    *)
(* content size and capacity, with the beacon network writing, statements  *)
(* failing and the process dying at any point.  The total usage stays      *)
(* opaque: which item is evicted and what becomes of the radius does not   *)
(* depend on how much is stored.                                           *)
(*                                                                         *)
(* HistoryBridge: what is gossiped for a height is of one block, for any   *)
(* chain, range, epoch size, number of permits and set of accumulators.  A *)
(* piece of content is judged by the accumulator its task was given and by *)
(* the header gossiped before it.  Both stay as they are because a height  *)
(* is given to a task only once: the heights served are below block_index, *)
(* and only heights from there on are spawned.                             *)
(***************************************************************************)
EXTENDS HistoryStorage, HistoryBridge, FiniteSetTheorems, TLAPS

-----------------------------------------------------------------------------
(* The store of the history and state networks.                            *)

\* Every variable keeps its type: the radius and farthest_content_id are
\* distances, and a stored item has the size it was inserted with.
THEOREM TypeCorrect == Spec => []TypeOK
<1>1. Init => TypeOK
  BY StorageAssumption DEF Init, TypeOK, Distance, Absent
<1>2. TypeOK /\ [Next]_vars => TypeOK'
  <2> SUFFICES ASSUME TypeOK, [Next]_vars PROVE TypeOK'
    OBVIOUS
  <2> USE StorageAssumption DEF TypeOK
  <2>1. ASSUME NEW bytes \in Capacities, Start(bytes) PROVE TypeOK'
    <3>1. bytes \in Nat /\ Cardinality(Stored) \in Int
      <4>1. Stored \subseteq 0..MaxDistance
        BY DEF Stored, StoredIn, Distance
      <4>2. IsFiniteSet(0..MaxDistance)
        BY FS_Interval
      <4>3. IsFiniteSet(Stored)
        BY <4>1, <4>2, FS_Subset, Zenon
      <4> QED
        BY <4>3, FS_CardinalityType
    <3> QED
      BY <2>1, <3>1 DEF Start, FarthestIn, StoredIn, Distance
  <2>2. ASSUME NEW d \in Distance, NEW size \in Size, Store(d, size) PROVE TypeOK'
    BY <2>2 DEF Store, FarthestIn, StoredIn
  <2>3. CASE PruneDone
    BY <2>3 DEF PruneDone
  <2>4. CASE PruneOverfilled
    BY <2>4 DEF PruneOverfilled
  <2>5. CASE PruneEvict
    BY <2>5 DEF PruneEvict, RadiusReset, FarthestIn, StoredIn, Distance
  <2>6. CASE PruneStaleId
    BY <2>6 DEF PruneStaleId, Fail
  <2>7. CASE PruneEvictError
    BY <2>7 DEF PruneEvictError, RadiusReset, FarthestIn, StoredIn, Distance
  <2>8. CASE PruneError
    BY <2>8 DEF PruneError, Fail
  <2>9. ASSUME NEW size \in Size, BeaconStore(size) PROVE TypeOK'
    BY <2>9 DEF BeaconStore, Size
  <2>10. CASE Crash
    BY <2>10 DEF Crash
  <2>11. CASE UNCHANGED vars
    BY <2>11 DEF vars
  <2>12. CASE PruneEvictThenError
    BY <2>12 DEF PruneEvictThenError
  <2> QED
    BY <2>1, <2>2, <2>3, <2>4, <2>5, <2>6, <2>7, <2>8, <2>9, <2>10, <2>11, <2>12 DEF Next, Prune
<1> QED
  BY <1>1, <1>2, PTL DEF Spec

-----------------------------------------------------------------------------

\* The id that prune_db is about to remove has the greatest prefix of all that
\* is stored, unless nothing is left; it is not stale while something is.
PruneIdIsFarthest ==
    pc \in {"starting", "storing"} => farthest \in FarthestIn(db) \/ Stored = {}

\* What StoredWithinRadius needs to be inductive: the step that stops pruning
\* sets the radius to the id it kept.
RadiusInv == StoredWithinRadius /\ PruneIdIsFarthest

\* Whatever replaces the radius after an eviction attempt covers what is left,
\* and lies within the old radius.
LEMMA RadiusResetCovers ==
    ASSUME TypeOK, StoredWithinRadius, pc # "down",
           NEW content \in [Distance -> {Absent} \cup Size],
           StoredIn(content) \subseteq Stored, RadiusReset(content)
    PROVE  /\ \A d \in StoredIn(content) : Short[d] <= Short[radius']
           /\ farthest' \in FarthestIn(content) \/ StoredIn(content) = {}
           /\ Short[radius'] <= Short[radius]
<1>1. CASE StoredIn(content) = {}
  <2>1. radius' = 0 /\ radius \in Distance /\ 0 \in Distance /\ 0 <= radius
    BY <1>1, StorageAssumption DEF RadiusReset, TypeOK, Distance
  <2> QED
    BY <1>1, <2>1, StorageAssumption
<1>2. CASE StoredIn(content) # {}
  <2>1. PICK d \in FarthestIn(content) : radius' = d /\ farthest' = d
    BY <1>2 DEF RadiusReset
  <2>2. d \in StoredIn(content) /\ \A e \in StoredIn(content) : Short[e] <= Short[d]
    BY DEF FarthestIn
  <2>3. Short[d] <= Short[radius]
    BY <2>2 DEF StoredWithinRadius
  <2> QED
    BY <2>1, <2>2, <2>3
<1> QED
  BY <1>1, <1>2

\* One step keeps RadiusInv and, while the process runs, does not widen the
\* radius.
LEMMA RadiusStep ==
    ASSUME TypeOK, RadiusInv, [Next]_vars
    PROVE  RadiusInv' /\ (pc # "down" => Short[radius'] <= Short[radius])
<1> USE StorageAssumption
<1>0. radius \in Distance /\ Short[radius] \in Nat /\ MaxDistance \in Distance
  BY DEF TypeOK, Distance
<1>1. ASSUME NEW bytes \in Capacities, Start(bytes)
      PROVE  RadiusInv' /\ (pc # "down" => Short[radius'] <= Short[radius])
  <2>1. StoredIn(db') = StoredIn(db) /\ FarthestIn(db') = FarthestIn(db)
    BY <1>1 DEF Start
  <2>2. \A d \in Distance : Short[d] <= Short[MaxDistance]
    BY <1>0 DEF Distance
  <2> QED
    BY <1>1, <2>1, <2>2
    DEF Start, RadiusInv, StoredWithinRadius, PruneIdIsFarthest, Stored, StoredIn
<1>2. ASSUME NEW d \in Distance, NEW size \in Size, Store(d, size)
      PROVE  RadiusInv' /\ (pc # "down" => Short[radius'] <= Short[radius])
  <2>1. \A e \in StoredIn(db') : e = d \/ e \in StoredIn(db)
    BY <1>2 DEF Store, StoredIn, TypeOK
  <2>2. Short[d] <= Short[radius]
    BY <1>0, <1>2 DEF Store
  <2>3. StoredWithinRadius'
    BY <1>2, <2>1, <2>2, Zenon DEF Store, RadiusInv, StoredWithinRadius, Stored
  <2> QED
    BY <1>0, <1>2, <2>3 DEF Store, RadiusInv, PruneIdIsFarthest, Stored
<1>3. CASE PruneOverfilled
  <2>1. farthest \in FarthestIn(db)
    BY <1>3 DEF PruneOverfilled, Pruning, RadiusInv, PruneIdIsFarthest
  <2>2. farthest \in Stored /\ \A d \in Stored : Short[d] <= Short[farthest]
    BY <2>1 DEF FarthestIn, Stored
  <2>3. Stored' = Stored /\ radius' = farthest /\ pc' = "idle" /\ pc # "down"
    BY <1>3 DEF PruneOverfilled, Pruning, Stored, StoredIn
  <2> QED
    BY <2>2, <2>3 DEF RadiusInv, StoredWithinRadius, PruneIdIsFarthest
<1>4. CASE PruneEvict
  <2>1. /\ StoredIn(db') \subseteq Stored
        /\ db' \in [Distance -> {Absent} \cup Size]
        /\ pc # "down" /\ pc' = pc /\ RadiusReset(db')
    BY <1>4 DEF PruneEvict, Pruning, Stored, StoredIn, TypeOK
  <2>2. /\ \A d \in StoredIn(db') : Short[d] <= Short[radius']
        /\ farthest' \in FarthestIn(db') \/ StoredIn(db') = {}
        /\ Short[radius'] <= Short[radius]
    BY <2>1, RadiusResetCovers DEF RadiusInv
  <2> QED
    BY <2>1, <2>2 DEF RadiusInv, StoredWithinRadius, PruneIdIsFarthest, Stored
<1>5. CASE PruneEvictError
  <2>1. db' = db /\ db \in [Distance -> {Absent} \cup Size] /\ StoredIn(db) \subseteq Stored
        /\ pc # "down" /\ pc' = pc /\ RadiusReset(db)
    BY <1>5 DEF PruneEvictError, Pruning, Stored, TypeOK
  <2>2. /\ \A d \in StoredIn(db) : Short[d] <= Short[radius']
        /\ farthest' \in FarthestIn(db) \/ StoredIn(db) = {}
        /\ Short[radius'] <= Short[radius]
    BY <2>1, RadiusResetCovers DEF RadiusInv
  <2> QED
    BY <2>1, <2>2 DEF RadiusInv, StoredWithinRadius, PruneIdIsFarthest, Stored
<1>6. ASSUME UNCHANGED <<db, radius, farthest>>,
             pc' \in {"idle", "down"} \/ pc' = pc, pc' = "idle" => pc # "down"
      PROVE  RadiusInv' /\ (pc # "down" => Short[radius'] <= Short[radius])
  <2>1. Stored' = Stored /\ FarthestIn(db)' = FarthestIn(db)
    BY <1>6 DEF Stored, StoredIn, FarthestIn
  <2> QED
    BY <1>0, <1>6, <2>1 DEF RadiusInv, StoredWithinRadius, PruneIdIsFarthest
<1>7. CASE PruneDone
  BY <1>6, <1>7 DEF PruneDone, Pruning
<1>8. CASE PruneStaleId
  BY <1>6, <1>8 DEF PruneStaleId, Pruning, Fail
<1>9. CASE PruneError
  BY <1>6, <1>9 DEF PruneError, Pruning, Fail
<1>10. ASSUME NEW size \in Size, BeaconStore(size)
       PROVE  RadiusInv' /\ (pc # "down" => Short[radius'] <= Short[radius])
  BY <1>6, <1>10 DEF BeaconStore
<1>11. CASE Crash
  BY <1>6, <1>11 DEF Crash
<1>12. CASE UNCHANGED vars
  BY <1>6, <1>12 DEF vars
<1>13. CASE PruneEvictThenError
  <2>1. /\ StoredIn(db') \subseteq Stored /\ radius' = radius
        /\ pc # "down" /\ pc' = "idle"
    BY <1>13 DEF PruneEvictThenError, Stored, StoredIn, TypeOK
  <2> QED
    BY <1>0, <2>1 DEF RadiusInv, StoredWithinRadius, PruneIdIsFarthest, Stored
<1> QED
  BY <1>1, <1>2, <1>3, <1>4, <1>5, <1>7, <1>8, <1>9, <1>10, <1>11, <1>12, <1>13 DEF Next, Prune

LEMMA RadiusInvariance == Spec => []RadiusInv
<1>1. Init => RadiusInv
  BY DEF Init, RadiusInv, StoredWithinRadius, PruneIdIsFarthest
<1> QED
  BY <1>1, RadiusStep, TypeCorrect, PTL DEF Spec

\* At any moment the process runs, mid-prune included, the radius covers all the
\* stored content to the precision of the prefix the database sorts by.
THEOREM RadiusCoversContent == Spec => []StoredWithinRadius
BY RadiusInvariance, PTL DEF RadiusInv

\* prune_db and store never widen the radius, to the same precision.
THEOREM RadiusOnlyShrinks == Spec => RadiusShrinks
<1>1. TypeOK /\ RadiusInv /\ [Next]_vars
      => [pc # "down" => Short[radius'] <= Short[radius]]_vars
  BY RadiusStep
<1> QED
  BY <1>1, TypeCorrect, RadiusInvariance, PTL DEF Spec, RadiusShrinks

\* A step of the store is a step of the abstract one, or changes nothing it shows.
LEMMA StoreStepSimulates ==
    ASSUME TypeOK, RadiusInv, [Next]_vars
    PROVE  [Promise!Next]_(Promise!vars)
<1> DEFINE Step == [Promise!Next]_(Promise!vars)
<1> USE DEF TypeOK
<1>0. pc # "down" => Short[radius'] <= Short[radius]
  BY RadiusStep
<1>1. ASSUME NEW bytes \in Capacities, Start(bytes) PROVE Step
  <2>1. Promise!Open
    BY <1>1 DEF Start, Promise!Open
  <2> QED
    BY <2>1 DEF Promise!Next
<1>2. ASSUME NEW d \in Distance, NEW size \in Size, Store(d, size) PROVE Step
  <2>1. Short[d] <= Short[radius]
    BY <1>2, StorageAssumption DEF Store
  <2>2. pc # "down" /\ pc' # "down" /\ radius' = radius
    BY <1>2 DEF Store
  <2>3. /\ db[d] # Absent => db'[d] = db[d]
        /\ \A e \in Distance \ {d} : db'[e] = db[e]
    BY <1>2 DEF Store
  <2>4. Promise!Put(d)
    BY <2>1, <2>2, <2>3 DEF Promise!Put
  <2> QED
    BY <2>4 DEF Promise!Next
<1>3. ASSUME pc # "down", pc' # "down",
             \A e \in Distance : db'[e] \in {db[e], Absent}
      PROVE  Step
  <2>1. Promise!GivesUp(Distance)
    BY <1>3 DEF Promise!GivesUp
  <2>2. Promise!Prune
    BY <1>0, <1>3, <2>1 DEF Promise!Prune
  <2> QED
    BY <2>2 DEF Promise!Next
<1>4. ASSUME pc # "down", pc' = "down", db' = db PROVE Step
  <2>1. Promise!GivesUp(Distance \ Distance)
    BY <1>4 DEF Promise!GivesUp
  <2>2. Promise!Close
    BY <1>4, <2>1 DEF Promise!Close
  <2> QED
    BY <2>2 DEF Promise!Next
<1>5. ASSUME db' = db, pc # "down" PROVE Step
  <2>1. CASE pc' = "down"
    BY <1>4, <1>5, <2>1
  <2>2. CASE pc' # "down"
    BY <1>3, <1>5, <2>2
  <2> QED
    BY <2>1, <2>2
<1>6. ASSUME PruneEvict PROVE Step
  <2>1. pc # "down" /\ pc' # "down" /\ db' = [db EXCEPT ![farthest] = Absent]
    BY <1>6 DEF PruneEvict, Pruning
  <2>2. \A e \in Distance : db'[e] \in {db[e], Absent}
    BY <2>1
  <2> QED
    BY <1>3, <2>1, <2>2
<1>7. CASE PruneDone \/ PruneOverfilled \/ PruneStaleId \/ PruneEvictError \/ PruneError
  <2>1. db' = db /\ pc # "down"
    BY <1>7 DEF PruneDone, PruneOverfilled, PruneStaleId, PruneEvictError, PruneError, Pruning
  <2> QED
    BY <1>5, <2>1
<1>8. ASSUME NEW size \in Size, BeaconStore(size) PROVE Step
  <2>1. db' = db /\ pc # "down"
    BY <1>8 DEF BeaconStore
  <2> QED
    BY <1>5, <2>1
<1>9. CASE Crash
  <2>1. db' = db /\ pc # "down"
    BY <1>9 DEF Crash
  <2> QED
    BY <1>5, <2>1
<1>10. CASE UNCHANGED vars
  BY <1>10 DEF vars, Promise!vars
<1>11. ASSUME PruneEvictThenError PROVE Step
  <2>1. pc # "down" /\ pc' # "down" /\ db' = [db EXCEPT ![farthest] = Absent]
    BY <1>11 DEF PruneEvictThenError
  <2>2. \A e \in Distance : db'[e] \in {db[e], Absent}
    BY <2>1
  <2> QED
    BY <1>3, <2>1, <2>2
<1> QED
  BY <1>1, <1>2, <1>6, <1>7, <1>8, <1>9, <1>10, <1>11 DEF Next, Prune

\* The history store implements the abstract content store, for every capacity, radius
\* precision and content, through prunes, failing statements and crashes.
THEOREM StoreKeepsPromise == Spec => KeepsPromise
<1>1. Init => Promise!Init
  BY DEF Init, Promise!Init
<1>2. TypeOK /\ RadiusInv /\ [Next]_vars => [Promise!Next]_(Promise!vars)
  BY StoreStepSimulates
<1> QED
  BY <1>1, <1>2, TypeCorrect, RadiusInvariance, PTL DEF Spec, KeepsPromise, Promise!Spec

-----------------------------------------------------------------------------
(* The history bridge.                                                     *)

HeaderKinds == {"header", "header with proof"}
BlockKinds == HeaderKinds \cup {"body", "receipts"}

HTypeOK ==
    /\ mode \in Mode
    /\ latest \in Height
    /\ block_index \in Nat
    /\ serving \in [Height -> {"none", "header", "saturate", "body", "receipts",
                               "done", "failed", "dropped"}]
    /\ DOMAIN task_acc = Height
    /\ hash \in [Height -> {"right", "wrong"}]

\* Only heights below block_index were given to a task.
ServedOnce ==
    /\ bridge = "launched" => \A h \in Height : serving[h] = "none"
    /\ \A h \in Height : serving[h] # "none" => h < block_index

\* What was gossiped of a block came from the task of its height.
GossipedByTask ==
    \A g \in gossiped : g.kind \in BlockKinds => g.height \in Height /\ serving[g.height] # "none"

\* A task that is past the header has gossiped the one it works with.
HeaderFirst ==
    \A h \in Height : serving[h] \in {"saturate", "body", "receipts"} =>
        \E g \in gossiped : g.height = h /\ g.kind \in HeaderKinds /\ g.of = hash[h]

BridgeInv == HTypeOK /\ ServedOnce /\ GossipedByTask /\ HeaderFirst /\ GossipedIsConsistent

-----------------------------------------------------------------------------
LEMMA ModeAtIsHeight ==
    ASSUME NEW m \in Mode, m.type \in {"backfill", "single"}
    PROVE  m.at \in Nat
<1>1. PICK word \in {"latest", "backfill", "single", "test"}, letter \in {None, "e", "b", "r"},
           numbers \in {<<i>> : i \in Height} \cup (Height \X Height) :
              m = BridgeModeFromStr(word, letter, numbers)
  BY DEF Mode
<1>2. m # Failed
  BY DEF Mode
<1>3. numbers[1] \in Nat
  BY HistoryAssumption DEF Height
<1>4. m = ModeTypeFromStr(word, letter, numbers)
  BY <1>1, <1>2 DEF BridgeModeFromStr
<1>5. m.at = numbers[1]
  BY <1>2, <1>4 DEF ModeTypeFromStr
<1> QED
  BY <1>3, <1>5

\* Steps that change no task; more may be gossiped, but nothing of a block.
LEMMA QuietStep ==
    ASSUME BridgeInv, UNCHANGED <<mode, serving, task_acc, hash>>, latest' \in Height,
           block_index' \in Nat, bridge = "launched" \/ block_index' >= block_index,
           bridge' = "launched" => bridge = "launched",
           gossiped \subseteq gossiped', \A g \in gossiped' \ gossiped : g.kind \notin BlockKinds
    PROVE  BridgeInv'
<1>1. HTypeOK'
  BY DEF BridgeInv, HTypeOK
<1>2. ServedOnce'
  BY HistoryAssumption DEF BridgeInv, HTypeOK, ServedOnce, Height
<1>3. GossipedByTask'
  BY DEF BridgeInv, GossipedByTask
<1>4. HeaderFirst'
  BY DEF BridgeInv, HeaderFirst
<1>5. GossipedIsConsistent'
  <2>1. \A g \in gossiped' :
           g.kind \in {"header", "header with proof", "body", "receipts"} => g \in gossiped
    BY DEF BlockKinds, HeaderKinds
  <2> QED
    BY <2>1 DEF BridgeInv, GossipedIsConsistent
<1> QED
  BY <1>1, <1>2, <1>3, <1>4, <1>5 DEF BridgeInv

\* Heights from block_index on are given to tasks.
LEMMA SpawnStep ==
    ASSUME BridgeInv, NEW heights, NEW acc, Spawn(heights, acc), UNCHANGED <<mode, latest, hash>>,
           \A h \in heights : h >= block_index /\ h < block_index',
           block_index' \in Nat, block_index' >= block_index, bridge' # "launched",
           gossiped' = gossiped
    PROVE  BridgeInv'
<1>1. HTypeOK'
  BY DEF BridgeInv, HTypeOK, Spawn
<1>2. ASSUME NEW h \in Height, serving[h] # "none"
      PROVE  h \notin heights /\ serving'[h] = serving[h] /\ task_acc'[h] = task_acc[h]
  <2>1. h \notin heights
    BY <1>2, HistoryAssumption DEF BridgeInv, HTypeOK, ServedOnce, Height
  <2> QED
    BY <2>1 DEF Spawn
<1>3. ASSUME NEW h \in Height, serving'[h] \notin {"none", "header"}
      PROVE  serving'[h] = serving[h]
  BY <1>3 DEF Spawn
<1>4. ServedOnce'
  <2> SUFFICES ASSUME NEW h \in Height, serving'[h] # "none" PROVE h < block_index'
    BY DEF ServedOnce
  <2>1. CASE h \in heights
    BY <2>1
  <2>2. CASE h \notin heights
    BY <2>2, HistoryAssumption DEF Spawn, BridgeInv, HTypeOK, ServedOnce, Height
  <2> QED
    BY <2>1, <2>2
<1>5. GossipedByTask'
  BY <1>2 DEF BridgeInv, GossipedByTask
<1>6. HeaderFirst'
  BY <1>3 DEF BridgeInv, HeaderFirst
<1>7. GossipedIsConsistent'
  BY <1>2 DEF BridgeInv, GossipedByTask, GossipedIsConsistent, BlockKinds, HeaderKinds
<1> QED
  BY <1>1, <1>4, <1>5, <1>6, <1>7 DEF BridgeInv

\* A task moves on and gossips a piece, which is consistent with what was gossiped
\* before; the header it works with is the one it has, or the one it gossips now.
LEMMA TaskMoves ==
    ASSUME BridgeInv, NEW height \in Height, serving[height] # "none",
           NEW state \in {"saturate", "body", "receipts", "done", "failed"},
           serving' = [serving EXCEPT ![height] = state],
           UNCHANGED <<mode, latest, bridge, block_index, task_acc>>,
           hash' \in [Height -> {"right", "wrong"}],
           \A h \in Height \ {height} : hash'[h] = hash[h],
           gossiped \subseteq gossiped',
           \A g \in gossiped' \ gossiped : g.kind \in BlockKinds => g.height = height,
           state \in {"saturate", "body", "receipts"} =>
               \E g \in gossiped' : g.height = height /\ g.kind \in HeaderKinds /\ g.of = hash'[height],
           GossipedIsConsistent'
    PROVE  BridgeInv'
<1>0. serving \in [Height -> {"none", "header", "saturate", "body", "receipts",
                              "done", "failed", "dropped"}]
  BY DEF BridgeInv, HTypeOK
<1>1. HTypeOK'
  BY Zenon DEF BridgeInv, HTypeOK
<1>2. \A h \in Height : serving'[h] = IF h = height THEN state ELSE serving[h]
  BY <1>0
<1>3. ServedOnce'
  BY <1>2 DEF BridgeInv, ServedOnce
<1>4. GossipedByTask'
  BY <1>2 DEF BridgeInv, GossipedByTask
<1>5. HeaderFirst'
  BY <1>2 DEF BridgeInv, HeaderFirst
<1> QED
  BY <1>1, <1>3, <1>4, <1>5 DEF BridgeInv

\* One more piece that is consistent leaves the pieces before it so.
LEMMA GossipStep ==
    ASSUME GossipedIsConsistent, UNCHANGED task_acc, NEW g, gossiped' = gossiped \cup {g},
           g.kind = "header with proof" => g.of = "right" /\ task_acc[g.height] = Epoch(g.height),
           g.kind = "header" => g.height >= MERGE_BLOCK_NUMBER,
           g.kind \in {"body", "receipts"} =>
               \E h \in gossiped : h.height = g.height /\ h.kind \in HeaderKinds /\ h.of = g.of
    PROVE  GossipedIsConsistent'
<1>1. ASSUME NEW p \in gossiped', p.kind = "header with proof"
      PROVE  p.of = "right" /\ task_acc'[p.height] = Epoch(p.height)
  BY <1>1 DEF GossipedIsConsistent
<1>2. ASSUME NEW p \in gossiped', p.kind = "header"
      PROVE  p.height >= MERGE_BLOCK_NUMBER
  BY <1>2 DEF GossipedIsConsistent
<1>3. ASSUME NEW p \in gossiped', p.kind \in {"body", "receipts"}
      PROVE  \E h \in gossiped' : /\ h.height = p.height
                                  /\ h.kind \in {"header", "header with proof"}
                                  /\ h.of = p.of
  <2>1. PICK h \in gossiped : h.height = p.height /\ h.kind \in HeaderKinds /\ h.of = p.of
    <3>1. CASE p = g
      BY <1>3, <3>1
    <3>2. CASE p \in gossiped
      BY <1>3, <3>2 DEF GossipedIsConsistent, HeaderKinds
    <3> QED
      BY <3>1, <3>2
  <2> QED
    BY <2>1 DEF HeaderKinds
<1> QED
  BY <1>1, <1>2, <1>3, Zenon DEF GossipedIsConsistent, Epoch

-----------------------------------------------------------------------------
(* The tasks.                                                              *)

LEMMA ServeHeaderKeepsInv ==
    ASSUME BridgeInv, NEW height \in Height, NEW of \in {"right", "wrong"}, ServeHeader(height, of)
    PROVE  BridgeInv'
<1> DEFINE acc == IF height <= MERGE_BLOCK_NUMBER THEN task_acc[height] ELSE None
           invalid == \/ acc = None /\ height < MERGE_BLOCK_NUMBER
                      \/ acc # None /\ ~HeaderIsInAccumulator(height, of)
           g == [height |-> height, kind |-> IF acc = None THEN "header" ELSE "header with proof",
                 of |-> of]
<1>1. /\ serving[height] = "header"
      /\ UNCHANGED <<mode, latest, bridge, block_index, task_acc>>
  BY DEF ServeHeader
<1>2. CASE invalid
  <2>1. serving' = [serving EXCEPT ![height] = "failed"] /\ UNCHANGED <<hash, gossiped>>
    BY <1>2 DEF ServeHeader
  <2>2. GossipedIsConsistent' /\ hash \in [Height -> {"right", "wrong"}]
    BY <1>1, <2>1 DEF BridgeInv, GossipedIsConsistent, HTypeOK
  <2> QED
    BY <1>1, <2>1, <2>2, TaskMoves, Zenon
<1>3. CASE ~invalid
  <2>1. /\ serving' = [serving EXCEPT ![height] = "saturate"]
        /\ hash' = [hash EXCEPT ![height] = of]
        /\ gossiped' = gossiped \cup {g}
    BY <1>3 DEF ServeHeader, Gossip
  <2>2. /\ g.height = height /\ g.of = of /\ g.kind \in HeaderKinds
        /\ g.kind = "header" => acc = None
        /\ g.kind = "header with proof" => acc # None
    BY DEF HeaderKinds
  <2>3. g.kind = "header" => height >= MERGE_BLOCK_NUMBER
    <3>1. acc = None => ~(height < MERGE_BLOCK_NUMBER)
      BY <1>3
    <3>2. height \in Int /\ MERGE_BLOCK_NUMBER \in Int
      BY HistoryAssumption DEF Height
    <3> HIDE DEF g, acc
    <3> QED
      BY <2>2, <3>1, <3>2
  <2>4. g.kind = "header with proof" => of = "right" /\ task_acc[height] = Epoch(height)
    BY <1>3, <2>2 DEF HeaderIsInAccumulator
  <2> HIDE DEF g, acc, invalid
  <2>5. GossipedIsConsistent'
    <3>1. GossipedIsConsistent /\ task_acc' = task_acc
      BY <1>1 DEF BridgeInv
    <3>2. g.kind \notin {"body", "receipts"}
      BY <2>2 DEF HeaderKinds
    <3> QED
      BY <2>1, <2>2, <2>3, <2>4, <3>1, <3>2, GossipStep
  <2>6. hash' \in [Height -> {"right", "wrong"}] /\ hash'[height] = of
        /\ \A h \in Height \ {height} : hash'[h] = hash[h]
    <3>1. hash \in [Height -> {"right", "wrong"}]
      BY DEF BridgeInv, HTypeOK
    <3> QED
      BY <2>1, <3>1
  <2> QED
    BY <1>1, <2>1, <2>2, <2>5, <2>6, TaskMoves
<1> QED
  BY <1>2, <1>3

\* A body or receipts: of the header the task works with, or nothing.
LEMMA ServeRestKeepsInv ==
    ASSUME BridgeInv, NEW height \in Height, NEW of \in {"right", "wrong"},
           ServeBody(height, of) \/ ServeReceipts(height, of)
    PROVE  BridgeInv'
<1>1. /\ serving[height] \in {"body", "receipts"}
      /\ UNCHANGED <<mode, latest, bridge, block_index, task_acc, hash>>
  BY Zenon DEF ServeBody, ServeReceipts
<1>2. hash \in [Height -> {"right", "wrong"}] /\ GossipedIsConsistent
  BY DEF BridgeInv, HTypeOK
<1>3. PICK h \in gossiped : h.height = height /\ h.kind \in HeaderKinds /\ h.of = hash[height]
  BY <1>1 DEF BridgeInv, HeaderFirst
<1>4. CASE serving' = [serving EXCEPT ![height] = "failed"] /\ UNCHANGED gossiped
  <2>1. GossipedIsConsistent'
    BY <1>1, <1>2, <1>4 DEF GossipedIsConsistent
  <2> QED
    BY <1>1, <1>2, <1>4, <2>1, TaskMoves, Zenon
<1>5. ASSUME NEW state \in {"receipts", "done"}, NEW kind \in {"body", "receipts"},
             of = hash[height], serving' = [serving EXCEPT ![height] = state],
             Gossip(height, kind, of)
      PROVE  BridgeInv'
  <2> DEFINE g == [height |-> height, kind |-> kind, of |-> of]
  <2>1. gossiped' = gossiped \cup {g}
    BY <1>5 DEF Gossip
  <2>2. g.height = height /\ g.kind = kind /\ g.of = hash[height]
    BY <1>5
  <2> HIDE DEF g
  <2>3. GossipedIsConsistent'
    BY <1>1, <1>2, <1>3, <1>5, <2>1, <2>2, GossipStep
  <2> QED
    BY <1>1, <1>2, <1>3, <1>5, <2>1, <2>2, <2>3, TaskMoves, Zenon
<1> QED
  BY <1>4, <1>5, ZenonT(30) DEF ServeBody, ServeReceipts

LEMMA TaskKeepsInv ==
    ASSUME BridgeInv, NEW height \in Height, SaturationDelay(height) \/ TaskEnds(height)
    PROVE  BridgeInv'
<1>1. /\ serving[height] # "none"
      /\ UNCHANGED <<mode, latest, bridge, block_index, task_acc, hash, gossiped>>
  BY DEF SaturationDelay, TaskEnds, Active
<1>2. GossipedIsConsistent' /\ hash \in [Height -> {"right", "wrong"}]
  BY <1>1 DEF BridgeInv, GossipedIsConsistent, HTypeOK
<1>3. CASE SaturationDelay(height)
  <2>1. \E g \in gossiped : g.height = height /\ g.kind \in HeaderKinds /\ g.of = hash[height]
    BY <1>3 DEF SaturationDelay, BridgeInv, HeaderFirst
  <2> QED
    BY <1>1, <1>2, <1>3, <2>1, TaskMoves, ZenonT(30) DEF SaturationDelay
<1>4. CASE TaskEnds(height)
  BY <1>1, <1>2, <1>4, TaskMoves, Zenon DEF TaskEnds
<1> QED
  BY <1>3, <1>4

-----------------------------------------------------------------------------
(* The loops.                                                              *)

LEMMA LaunchKeepsInv ==
    ASSUME BridgeInv,
           LaunchFails \/ (\E assets \in {"history", "beacon"} : LaunchTest(assets))
           \/ LaunchLatest \/ LaunchBackfill
    PROVE  BridgeInv'
<1>0. mode \in Mode /\ latest \in Height /\ Height \subseteq Nat /\ block_index \in Nat
  BY HistoryAssumption DEF BridgeInv, HTypeOK, Height
<1>1. CASE LaunchFails
  BY <1>0, <1>1, QuietStep DEF LaunchFails
<1>2. ASSUME NEW assets, LaunchTest(assets) PROVE BridgeInv'
  <2>1. /\ bridge = "launched" /\ bridge' = "exited"
        /\ UNCHANGED <<mode, latest, block_index, serving, task_acc, hash>>
        /\ \A g \in gossiped' : g.kind = "asset"
    BY <1>2 DEF LaunchTest
  <2>2. \A h \in Height : serving[h] = "none"
    BY <2>1 DEF BridgeInv, ServedOnce
  <2>3. HTypeOK' /\ ServedOnce'
    <3>1. HTypeOK'
      BY <2>1 DEF BridgeInv, HTypeOK
    <3> QED
      BY <2>1, <2>2, <3>1 DEF ServedOnce
  <2>4. GossipedByTask' /\ HeaderFirst'
    BY <2>1, <2>2 DEF GossipedByTask, HeaderFirst, BlockKinds, HeaderKinds
  <2>5. GossipedIsConsistent'
    BY <2>1 DEF GossipedIsConsistent
  <2> QED
    BY <2>3, <2>4, <2>5 DEF BridgeInv
<1>3. CASE LaunchLatest
  BY <1>0, <1>3, QuietStep DEF LaunchLatest
<1>4. CASE LaunchBackfill
  <2>1. mode.at \in Nat
    BY <1>0, <1>4, ModeAtIsHeight DEF LaunchBackfill
  <2>2. StartBlock \in Nat
    BY <2>1, HistoryAssumption DEF StartBlock
  <2> QED
    BY <1>0, <1>4, <2>2, QuietStep DEF LaunchBackfill
<1> QED
  BY <1>1, <1>2, <1>3, <1>4

LEMMA LoopKeepsInv ==
    ASSUME BridgeInv, NewBlock \/ PollLatest \/ SkipHeight \/ FindEpochAcc \/ ServeHeight
                      \/ CompleteBackfill
    PROVE  BridgeInv'
<1>0. latest \in Nat /\ latest <= MaxBlock /\ block_index \in Nat
  BY HistoryAssumption DEF BridgeInv, HTypeOK, Height
<1>1. CASE NewBlock
  <2>1. latest' \in Height
    BY <1>0, <1>1, HistoryAssumption DEF NewBlock, Height
  <2> QED
    BY <1>0, <1>1, <2>1, QuietStep DEF NewBlock
<1>2. CASE PollLatest
  <2>1. /\ Spawn(block_index..latest, None) /\ UNCHANGED <<mode, latest, bridge, hash, gossiped>>
        /\ block_index' = latest + 1 /\ bridge = "latest" /\ latest > block_index
    BY <1>2 DEF PollLatest
  <2>2. \A h \in block_index..latest : h >= block_index /\ h < block_index'
    BY <1>0, <2>1
  <2>3. block_index' \in Nat /\ block_index' >= block_index
    BY <1>0, <2>1
  <2> QED
    BY <2>1, <2>2, <2>3, SpawnStep, Zenon
<1>3. CASE SkipHeight
  <2>1. latest' \in Height
    BY <1>3 DEF SkipHeight, BridgeInv, HTypeOK
  <2> QED
    BY <1>0, <1>3, <2>1, QuietStep DEF SkipHeight
<1>4. CASE ServeHeight
  <2>1. /\ Spawn({block_index}, epoch_acc') /\ UNCHANGED <<mode, latest, bridge, hash, gossiped>>
        /\ block_index' = block_index + 1 /\ bridge = "backfill"
    BY <1>4 DEF ServeHeight
  <2>2. \A h \in {block_index} : h >= block_index /\ h < block_index'
    BY <1>0, <2>1
  <2>3. block_index' \in Nat /\ block_index' >= block_index
    BY <1>0, <2>1
  <2> QED
    BY <2>1, <2>2, <2>3, SpawnStep
<1>5. CASE CompleteBackfill
  <2>1. latest' \in Height
    BY <1>5 DEF CompleteBackfill, BridgeInv, HTypeOK
  <2> QED
    BY <1>0, <1>5, <2>1, QuietStep DEF CompleteBackfill
<1>6. CASE FindEpochAcc
  <2> DEFINE piece == [height |-> Epoch(block_index) * EPOCH_SIZE, kind |-> "accumulator",
                       of |-> "right"]
  <2>1. /\ gossiped' = gossiped \cup {piece} /\ bridge' = bridge /\ block_index' = block_index
        /\ UNCHANGED <<mode, latest, serving, task_acc, hash>>
    BY <1>6, Zenon DEF FindEpochAcc
  <2>2. piece.kind = "accumulator"
    OBVIOUS
  <2>3. piece.kind \notin BlockKinds
    BY <2>2 DEF BlockKinds, HeaderKinds
  <2> HIDE DEF piece
  <2>4. latest' \in Height
    BY <2>1 DEF BridgeInv, HTypeOK
  <2> QED
    BY <1>0, <2>1, <2>3, <2>4, QuietStep
<1> QED
  BY <1>1, <1>2, <1>3, <1>4, <1>5, <1>6

LEMMA ExitKeepsInv ==
    ASSUME BridgeInv, Exit
    PROVE  BridgeInv'
<1>1. /\ serving' = [h \in Height |-> IF h \in Active THEN "dropped" ELSE serving[h]]
      /\ UNCHANGED <<mode, latest, block_index, task_acc, hash, gossiped>>
      /\ bridge' = "exited"
  BY DEF Exit
<1>2. \A h \in Height : /\ serving'[h] = "none" <=> serving[h] = "none"
                        /\ serving'[h] \notin {"saturate", "body", "receipts"}
  BY <1>1 DEF Active
<1>3. HTypeOK'
  BY <1>1 DEF BridgeInv, HTypeOK
<1>4. ServedOnce'
  BY <1>1, <1>2 DEF BridgeInv, ServedOnce
<1>5. GossipedByTask' /\ HeaderFirst'
  BY <1>1, <1>2 DEF BridgeInv, GossipedByTask, HeaderFirst
<1>6. GossipedIsConsistent'
  BY <1>1 DEF BridgeInv, GossipedIsConsistent
<1> QED
  BY <1>3, <1>4, <1>5, <1>6 DEF BridgeInv

LEMMA BridgeInvStep == BridgeInv /\ [HNext]_hvars => BridgeInv'
<1> SUFFICES ASSUME BridgeInv, [HNext]_hvars PROVE BridgeInv'
  OBVIOUS
<1>1. CASE UNCHANGED hvars
  <2>1. latest \in Height /\ block_index \in Nat
    BY DEF BridgeInv, HTypeOK
  <2> QED
    BY <1>1, <2>1, QuietStep DEF hvars
<1> QED
  BY <1>1, LaunchKeepsInv, LoopKeepsInv, ExitKeepsInv, TaskKeepsInv, ServeHeaderKeepsInv,
     ServeRestKeepsInv DEF HNext, TaskStep

-----------------------------------------------------------------------------
\* What the bridge gossips for a height is of one block (gossip_header,
\* construct_and_gossip_block_body and _receipt), whichever accumulators are missing,
\* whatever the provider answers and however the tasks are interleaved.
THEOREM GossipsOneBlock == HSpec => []GossipedIsConsistent
<1>1. HInit => BridgeInv
  <2> SUFFICES ASSUME HInit PROVE BridgeInv
    OBVIOUS
  <2>1. mode \in Mode /\ latest \in Height /\ block_index = 0 /\ gossiped = {}
    BY DEF HInit
  <2>2. /\ serving = [h \in Height |-> "none"] /\ task_acc = [h \in Height |-> None]
        /\ hash = [h \in Height |-> "right"]
    BY DEF HInit
  <2>3. HTypeOK
    BY <2>1, <2>2 DEF HTypeOK
  <2>4. ServedOnce /\ HeaderFirst
    BY <2>2 DEF ServedOnce, HeaderFirst
  <2>5. GossipedByTask /\ GossipedIsConsistent
    BY <2>1 DEF GossipedByTask, GossipedIsConsistent
  <2> QED
    BY <2>3, <2>4, <2>5 DEF BridgeInv
<1>2. BridgeInv /\ [HNext]_hvars => BridgeInv'
  BY BridgeInvStep
<1>3. BridgeInv => GossipedIsConsistent
  BY DEF BridgeInv
<1> QED
  BY <1>1, <1>2, <1>3, PTL DEF HSpec

=============================================================================
