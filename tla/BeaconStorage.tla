---------------------------- MODULE BeaconStorage ----------------------------
(***************************************************************************)
(* The content store of the beacon network (trin-beacon/src/storage.rs):   *)
(* bootstraps in the content table, light client updates in a table of     *)
(* their own, one row per period, and the latest finality and optimistic   *)
(* updates in memory only.                                                 *)
(*                                                                         *)
(* `put` holds the store's write lock, but a range of updates is written   *)
(* row by row: a row may fail, which is logged, and the process may die    *)
(* between two rows.  The beacon network validates nothing, so a value     *)
(* need not fit its key: a range may come with fewer or more updates, and  *)
(* an update of any slot.                                                  *)
(***************************************************************************)
EXTENDS Integers, Sequences

CONSTANTS
    Root,           \* block roots, the keys of bootstraps
    LastPeriod,     \* sync committee periods are 0..LastPeriod
    LastUpdateSlot, \* slots are 1..LastUpdateSlot
    Blob            \* the values bootstraps and updates by range may have

ASSUME PeriodAssumption == LastPeriod \in Nat

UpdatePeriod == 0..LastPeriod
UpdateSlot == 1..LastUpdateSlot

Missing == 0

VARIABLES
    bootstraps,     \* content_data: the value per root
    lc_update,      \* lc_update: the value per period
    finality,       \* BeaconStorageCache: the finalized slot of the cached update,
    optimistic,     \* and the signature slot
    bpc,            \* down, idle, storing (a range)
    rows            \* the rows still to be written

bvars == <<bootstraps, lc_update, finality, optimistic, bpc, rows>>

BInit ==
    /\ bootstraps = [r \in Root |-> Missing]
    /\ lc_update = [p \in UpdatePeriod |-> Missing]
    /\ finality = Missing
    /\ optimistic = Missing
    /\ bpc = "down"
    /\ rows = <<>>

\* BeaconContentKey; the periods of a range are start .. start + count - 1.
Ranges == {r \in [start : UpdatePeriod, count : 0..LastPeriod + 1] : r.start + r.count <= LastPeriod + 1}

Periods(range) == range.start .. range.start + range.count - 1

-----------------------------------------------------------------------------
(* Reading.                                                                *)

\* BeaconStorageCache::get_finality_update: one at least as late will do ...
GetFinalityUpdate(cached, slot) ==
    IF cached # Missing /\ cached >= slot THEN cached ELSE Missing

\* ... but get_optimistic_update wants the very slot.
GetOptimisticUpdate(cached, slot) == IF cached = slot THEN cached ELSE Missing

\* The updates of a range if every one of them is there: the set of that one
\* sequence, or the empty set.
GetRange(updates, range) ==
    IF \A p \in Periods(range) : updates[p] # Missing
    THEN {[i \in 1..range.count |-> updates[range.start + i - 1]]}
    ELSE {}

\* is_key_within_radius_and_unavailable for a range
ShouldWeStoreRange(updates, range) ==
    IF \E p \in Periods(range) : updates[p] # Missing THEN "AlreadyStored" ELSE "Store"

\* ... and for the other keys
ShouldWeStore(found) == IF found # Missing THEN "AlreadyStored" ELSE "Store"

-----------------------------------------------------------------------------
(* Writing.                                                                *)

\* BeaconStorage::new: the cache is empty
StartBeacon ==
    /\ bpc = "down"
    /\ bpc' = "idle"
    /\ finality' = Missing /\ optimistic' = Missing
    /\ UNCHANGED <<bootstraps, lc_update, rows>>

\* Faulty: INSERT OR REPLACE
StoreBootstrap_Replaces(root, value) ==
    /\ bpc = "idle"
    /\ bootstraps' = [bootstraps EXCEPT ![root] = value]
    /\ UNCHANGED <<lc_update, finality, optimistic, bpc, rows>>

\* INSERT_QUERY_NETWORK leaves a row that is there as it is.
StoreBootstrap(root, value) ==
    /\ bpc = "idle"
    /\ bootstraps' = [bootstraps EXCEPT ![root] = IF @ = Missing THEN value ELSE @]
    /\ UNCHANGED <<lc_update, finality, optimistic, bpc, rows>>

\* The periods of the key are paired with the updates of the value, as far as both go.
StoreRange(range, values) ==
    LET n == IF range.count < Len(values) THEN range.count ELSE Len(values)
    IN  /\ bpc = "idle"
        /\ rows' = [i \in 1..n |-> <<range.start + i - 1, values[i]>>]
        /\ bpc' = "storing"
        /\ UNCHANGED <<bootstraps, lc_update, finality, optimistic>>

\* INSERT_LC_UPDATE_QUERY for the next row; an error is logged.
InsertRow ==
    /\ bpc = "storing" /\ rows # <<>>
    /\ rows' = Tail(rows)
    /\ LET p == Head(rows)[1]
       IN  \/ lc_update' = [lc_update EXCEPT ![p] = IF @ = Missing THEN Head(rows)[2] ELSE @]
           \/ UNCHANGED lc_update
    /\ UNCHANGED <<bootstraps, finality, optimistic, bpc>>

RangeStored ==
    /\ bpc = "storing" /\ rows = <<>>
    /\ bpc' = "idle"
    /\ UNCHANGED <<bootstraps, lc_update, finality, optimistic, rows>>

\* set_finality_update and set_optimistic_update replace what is cached.
StoreFinalityUpdate(slot) ==
    /\ bpc = "idle"
    /\ finality' = slot
    /\ UNCHANGED <<bootstraps, lc_update, optimistic, bpc, rows>>

StoreOptimisticUpdate(slot) ==
    /\ bpc = "idle"
    /\ optimistic' = slot
    /\ UNCHANGED <<bootstraps, lc_update, finality, bpc, rows>>

\* The process ends, at any point; the cache is lost.
CrashBeacon ==
    /\ bpc # "down"
    /\ bpc' = "down"
    /\ rows' = <<>>
    /\ finality' = Missing /\ optimistic' = Missing
    /\ UNCHANGED <<bootstraps, lc_update>>

Values == UNION {[1..n -> Blob] : n \in 0..LastPeriod + 1}

BNext ==
    \/ StartBeacon
    \/ \E root \in Root, value \in Blob : StoreBootstrap(root, value)
    \/ \E range \in Ranges, values \in Values : StoreRange(range, values)
    \/ InsertRow
    \/ RangeStored
    \/ \E slot \in UpdateSlot : StoreFinalityUpdate(slot) \/ StoreOptimisticUpdate(slot)
    \/ CrashBeacon

BSpec == BInit /\ [][BNext]_bvars

-----------------------------------------------------------------------------
(* Properties.                                                             *)

\* The types of the state.
BeaconTypeOK ==
    /\ bootstraps \in [Root -> Blob \cup {Missing}]
    /\ lc_update \in [UpdatePeriod -> Blob \cup {Missing}]
    /\ finality \in UpdateSlot \cup {Missing}
    /\ optimistic \in UpdateSlot \cup {Missing}
    /\ bpc \in {"down", "idle", "storing"}
    /\ rows \in Seq(UpdatePeriod \X Blob)

\* The store's items: a row of a table each, and the two slots of the cache.
BeaconItem ==
    {<<"bootstrap", r>> : r \in Root} \cup {<<"period", p>> : p \in UpdatePeriod}
      \cup {<<"finality", 0>>, <<"optimistic", 0>>}

BeaconContents ==
    [i \in BeaconItem |->
        CASE i[1] = "bootstrap" -> bootstraps[i[2]]
          [] i[1] = "period"    -> lc_update[i[2]]
          [] i[1] = "finality"  -> finality
          [] OTHER              -> optimistic]

BeaconPromise == INSTANCE ContentStore WITH
    Item     <- BeaconItem,
    Nothing  <- Missing,
    Lasting  <- {i \in BeaconItem : i[1] \in {"bootstrap", "period"}},
    Place    <- [i \in BeaconItem |-> 0],
    contents <- BeaconContents,
    radius   <- 0,
    open     <- bpc # "down"

\* The beacon store keeps the promise of a content store: what is on disk is written by
\* a put of that very item and never changes again, whatever is put later, in whatever
\* order, with rows that fail and crashes in the middle of a range.
BeaconKeepsPromise == BeaconPromise!Spec

=============================================================================
