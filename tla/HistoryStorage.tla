--------------------------- MODULE HistoryStorage ---------------------------
(***************************************************************************)
(* The content store of the history network                                *)
(* (trin-history/src/storage.rs over the SQL of trin-storage/src/sql.rs    *)
(* and utils.rs): inserting content, pruning the farthest content when the *)
(* capacity is exceeded, the data radius that follows from it, and what is *)
(* rebuilt after a restart.                                                *)
(*                                                                         *)
(* A content id is named by its distance to the local node.  The database  *)
(* orders content by the distance of the first four bytes of the id only:  *)
(* Short maps a distance to that prefix.  `put` holds the store's write    *)
(* lock, so the steps of one prune are not mixed with another put; but     *)
(* they are separate SQL statements, so the beacon network, which shares   *)
(* the database, may write between them and the process may die there.     *)
(***************************************************************************)
EXTENDS Integers, FiniteSets, FiniteSetsExt

CONSTANTS
    MaxDistance,     \* Distance::MAX
    Short,           \* a function: the 4-byte prefix of a distance
    MaxSize,         \* content has 1..MaxSize bytes
    Capacities,      \* the values the operator may give to the capacity flag
    BeaconLimit      \* a bound on the bytes the beacon network stores

Distance == 0..MaxDistance
Size == 1..MaxSize

ASSUME StorageAssumption ==
    /\ MaxDistance \in Nat
    /\ Short \in [Distance -> Nat]
    /\ \A d, e \in Distance : d <= e => Short[d] <= Short[e]
    /\ MaxSize \in Nat
    /\ Capacities \subseteq Nat
    /\ BeaconLimit \in Nat

Absent == 0

VARIABLES
    db,             \* the size of the stored content, per id
    beacon,         \* bytes the beacon network has in the same table
    capacity,       \* storage_capacity_in_bytes
    radius,
    pc,             \* down, starting (prune_db in new), idle, storing (prune_db in store)
    farthest,       \* the local variable farthest_content_id of prune_db
    alone           \* does the store have a database that works to itself?

vars == <<db, beacon, capacity, radius, pc, farthest, alone>>

StoredIn(content) == {d \in Distance : content[d] # Absent}
Stored == StoredIn(db)

TypeOK ==
    /\ db \in [Distance -> {Absent} \cup Size]
    /\ beacon \in 0..BeaconLimit
    /\ capacity \in Nat
    /\ radius \in Distance
    /\ pc \in {"down", "starting", "idle", "storing"}
    /\ farthest \in Distance
    /\ alone \in BOOLEAN

\* TOTAL_DATA_SIZE_QUERY_DB: the content of every network in the table.
Usage == beacon + MapThenSumSet(LAMBDA d : db[d], Distance)

CapacityReached == Usage > capacity

\* Faulty: an item is removed whatever that does to the usage.
EvictionCausesUnderCapacity_Never(d) == FALSE

\* does_eviction_cause_under_capacity
EvictionCausesUnderCapacity(d) == Usage - db[d] < capacity

\* Faulty: sorts in ascending order.
FarthestIn_Nearest(content) ==
    {d \in StoredIn(content) : \A e \in StoredIn(content) : Short[d] <= Short[e]}

\* XOR_FIND_FARTHEST_QUERY_NETWORK: any of the ids with the greatest prefix.
FarthestIn(content) ==
    {d \in StoredIn(content) : \A e \in StoredIn(content) : Short[e] <= Short[d]}

Init ==
    /\ db = [d \in Distance |-> Absent]
    /\ beacon = 0
    /\ capacity = 0
    /\ radius = MaxDistance
    /\ pc = "down"
    /\ farthest = 0
    /\ alone \in BOOLEAN

-----------------------------------------------------------------------------
(* HistoryStorage::new up to the loop of prune_db.                         *)

Start(bytes) ==
    /\ pc = "down"
    /\ capacity' = bytes
    /\ IF Stored = {}
       THEN /\ radius' = IF bytes = 0 THEN 0 ELSE MaxDistance
            /\ pc' = "idle"
            /\ UNCHANGED farthest
       ELSE /\ radius' = MaxDistance
            /\ farthest' \in FarthestIn(db)
            /\ pc' = "starting"
    /\ UNCHANGED <<db, beacon, alone>>

-----------------------------------------------------------------------------
(* HistoryStorage::store up to the loop of prune_db.  A put outside the    *)
(* radius is refused and changes nothing.                                  *)

\* Faulty: the size of content that is stored again is added.
Store_Accumulates(d, size) ==
    /\ pc = "idle"
    /\ d <= radius
    /\ db' = [db EXCEPT ![d] = @ + size]
    /\ farthest' \in FarthestIn(db')
    /\ pc' = "storing"
    /\ UNCHANGED <<beacon, capacity, radius, alone>>

Store(d, size) ==
    /\ pc = "idle"
    /\ d <= radius
    /\ db' = [db EXCEPT ![d] = IF @ = Absent THEN size ELSE @]
    /\ farthest' \in FarthestIn(db')
    /\ pc' = "storing"
    /\ UNCHANGED <<beacon, capacity, radius, alone>>

-----------------------------------------------------------------------------
(* The loop of prune_db.                                                   *)

Pruning == pc \in {"starting", "storing"}

\* prune_db returns an error: `new` fails with it, `store` reports it.
Fail == pc' = IF pc = "starting" THEN "down" ELSE "idle"

PruneDone ==
    /\ Pruning
    /\ ~CapacityReached
    /\ pc' = "idle"
    /\ UNCHANGED <<db, beacon, capacity, radius, farthest, alone>>

\* Faulty: the loop is not left.
PruneOverfilled_NoBreak ==
    /\ Pruning
    /\ CapacityReached
    /\ farthest \in Stored
    /\ EvictionCausesUnderCapacity(farthest)
    /\ radius' = farthest
    /\ UNCHANGED <<db, beacon, capacity, pc, farthest, alone>>

PruneOverfilled ==
    /\ Pruning
    /\ CapacityReached
    /\ farthest \in Stored
    /\ EvictionCausesUnderCapacity(farthest)
    /\ radius' = farthest
    /\ pc' = "idle"
    /\ UNCHANGED <<db, beacon, capacity, farthest, alone>>

\* Faulty: an empty store falls back to the default radius.
RadiusReset_ToMax(content) ==
    IF StoredIn(content) = {}
    THEN radius' = MaxDistance /\ UNCHANGED farthest
    ELSE \E d \in FarthestIn(content) : radius' = d /\ farthest' = d

\* The end of the loop body: a new farthest id and a new radius.  When nothing
\* is left, farthest_content_id keeps its old value.
RadiusReset(content) ==
    IF StoredIn(content) = {}
    THEN radius' = 0 /\ UNCHANGED farthest
    ELSE \E d \in FarthestIn(content) : radius' = d /\ farthest' = d

PruneEvict ==
    /\ Pruning
    /\ CapacityReached
    /\ farthest \in Stored
    /\ ~EvictionCausesUnderCapacity(farthest)
    /\ db' = [db EXCEPT ![farthest] = Absent]
    /\ RadiusReset(db')
    /\ UNCHANGED <<beacon, capacity, pc, alone>>

\* An eviction that fails is logged and the loop goes on.
PruneEvictError ==
    /\ ~alone
    /\ Pruning
    /\ CapacityReached
    /\ farthest \in Stored
    /\ ~EvictionCausesUnderCapacity(farthest)
    /\ RadiusReset(db)
    /\ UNCHANGED <<db, beacon, capacity, pc, alone>>

\* get_content_size finds no row for an id that is no longer stored.
PruneStaleId ==
    /\ Pruning
    /\ CapacityReached
    /\ farthest \notin Stored
    /\ Fail
    /\ UNCHANGED <<db, beacon, capacity, radius, farthest, alone>>

\* The farthest id cannot be read after an eviction: the radius stays the old one.  (In
\* new only the database outlives that error, as after PruneEvict and a crash.)
PruneEvictThenError ==
    /\ ~alone
    /\ pc = "storing"
    /\ CapacityReached
    /\ farthest \in Stored
    /\ ~EvictionCausesUnderCapacity(farthest)
    /\ db' = [db EXCEPT ![farthest] = Absent]
    /\ pc' = "idle"
    /\ UNCHANGED <<beacon, capacity, radius, farthest, alone>>

\* Any other statement of the loop fails.
PruneError ==
    /\ ~alone
    /\ Pruning
    /\ Fail
    /\ UNCHANGED <<db, beacon, capacity, radius, farthest, alone>>

Prune == PruneDone \/ PruneOverfilled \/ PruneEvict \/ PruneStaleId

-----------------------------------------------------------------------------
(* The environment.                                                        *)

\* BeaconStorage::db_insert: the beacon network never prunes.
BeaconStore(size) ==
    /\ ~alone
    /\ pc # "down"
    /\ beacon + size <= BeaconLimit
    /\ beacon' = beacon + size
    /\ UNCHANGED <<db, capacity, radius, pc, farthest, alone>>

\* The process ends, at any point; only the database survives.
Crash ==
    /\ pc # "down"
    /\ pc' = "down"
    /\ UNCHANGED <<db, beacon, capacity, radius, farthest, alone>>

Next ==
    \/ \E bytes \in Capacities : Start(bytes)
    \/ \E d \in Distance, size \in Size : Store(d, size)
    \/ Prune
    \/ PruneEvictError
    \/ PruneEvictThenError
    \/ PruneError
    \/ \E size \in Size : BeaconStore(size)
    \/ Crash

Spec == Init /\ [][Next]_vars

\* A prune that has begun goes on.
Fairness == WF_vars(Prune)

-----------------------------------------------------------------------------
(* Properties.                                                             *)

\* The radius the node advertises covers all that it stores, to the precision
\* the database can tell apart, also in the middle of a prune, after failed
\* statements and after a restart from any crash.
StoredWithinRadius ==
    pc # "down" => \A d \in Stored : Short[d] <= Short[radius]

\* While the process runs the radius never grows again, to the same precision:
\* content that was refused as too far is never accepted later.
RadiusShrinks ==
    [][pc # "down" => Short[radius'] <= Short[radius]]_vars

\* Pruning gives up no more than it must: evictions never take a store that is
\* alone below its capacity, through any number of prunes and restarts.
PruneKeepsFull ==
    [][alone /\ db' # db /\ pc \in {"starting", "storing"} => Usage' >= capacity]_vars

\* Every prune of a store that is alone ends, with the store open again or the
\* error reported.
PruneEnds == alone /\ pc \in {"starting", "storing"} ~> pc \in {"idle", "down"}

Promise == INSTANCE ContentStore WITH
    Item     <- Distance,
    Nothing  <- Absent,
    Lasting  <- Distance,
    Place    <- Short,
    contents <- db,
    radius   <- Short[radius],
    open     <- pc # "down"

\* The history store keeps the promise of a content store: what it holds was put within
\* the radius, is not changed by later puts, by prunes, by the other network or by a
\* crash, and the radius it tells its peers only shrinks while it is open.
KeepsPromise == Promise!Spec

=============================================================================
