---------------------------- MODULE BeaconProofs -----------------------------
(***************************************************************************)
(* Proofs about the beacon network: its store, the bridge that feeds it and *)
(* the light client that follows it.                                       *)
(*                                                                         *)
(* BeaconStorage: for any number of roots, periods and values.  The steps  *)
(* that write a table leave the rows that are there alone, and what a crash *)
(* takes is the cache, which does not last.                                *)
(*                                                                         *)
(* BeaconBridge: what is gossiped is in order, for any number of periods,  *)
(* slots and rounds.  A task compares with what is known, and writes what is *)
(* known only through the result of its round; the two agree on the part a *)
(* task is about for as long as that task runs.                            *)
(*                                                                         *)
(* LightClient: it keeps the right committees, a head that is in time and  *)
(* headers that never go back, for any length of periods and epochs and any *)
(* size of the committee.                                                  *)
(***************************************************************************)
EXTENDS BeaconStorage, BeaconBridge, LightClient, TLAPS

-----------------------------------------------------------------------------
(* The store of the beacon network.                                        *)

\* The cache of a store that is not open is empty.
CacheIsOfOpenStore == bpc = "down" => finality = Missing /\ optimistic = Missing

BeaconInv == BeaconTypeOK /\ CacheIsOfOpenStore

\* The rows of a range are pairs of a period and a value.
LEMMA RowsAreTyped ==
    ASSUME NEW range \in Ranges, NEW values \in Values, StoreRange(range, values)
    PROVE  rows' \in Seq(UpdatePeriod \X Blob)
<1> DEFINE n == IF range.count < Len(values) THEN range.count ELSE Len(values)
<1>1. PICK m \in 0..LastPeriod + 1 : values \in [1..m -> Blob]
  BY DEF Values
<1>2. /\ range.start \in Nat /\ range.count \in Nat
      /\ range.start + range.count <= LastPeriod + 1
  BY PeriodAssumption DEF Ranges, UpdatePeriod
<1>3. Len(values) = m /\ m \in Nat
  BY <1>1, PeriodAssumption
<1>4. n \in Nat /\ n <= range.count /\ n <= m
  BY <1>2, <1>3
<1>5. ASSUME NEW i \in 1..n PROVE <<range.start + i - 1, values[i]>> \in UpdatePeriod \X Blob
  <2> HIDE DEF n
  <2>1. range.start + i - 1 \in UpdatePeriod
    <3>1. ASSUME NEW start \in Nat, NEW count \in Nat, NEW j \in Nat, j >= 1, j <= count,
                 start + count <= LastPeriod + 1
          PROVE  start + j - 1 \in 0..LastPeriod
      BY <3>1, PeriodAssumption
    <3>2. i \in Nat /\ i >= 1 /\ i <= range.count
      BY <1>2, <1>4
    <3> QED
      BY <1>2, <3>1, <3>2 DEF UpdatePeriod
  <2>2. values[i] \in Blob
    BY <1>1, <1>3, <1>4
  <2> QED
    BY <2>1, <2>2
<1>6. rows' = [i \in 1..n |-> <<range.start + i - 1, values[i]>>]
  BY DEF StoreRange
<1>7. rows' \in [1..n -> UpdatePeriod \X Blob]
  BY <1>5, <1>6
<1> HIDE DEF n
<1> QED
  BY <1>4, <1>7

\* The row that is written next has a period of the table.
LEMMA NextRowIsTyped ==
    ASSUME BeaconTypeOK, rows # <<>>
    PROVE  /\ Head(rows)[1] \in UpdatePeriod
           /\ Head(rows)[2] \in Blob
           /\ Tail(rows) \in Seq(UpdatePeriod \X Blob)
<1>1. rows \in Seq(UpdatePeriod \X Blob)
  BY DEF BeaconTypeOK
<1>2. Head(rows) \in UpdatePeriod \X Blob /\ Tail(rows) \in Seq(UpdatePeriod \X Blob)
  BY <1>1
<1> QED
  BY <1>2

\* The invariant is inductive.
LEMMA BeaconInvStep == BeaconInv /\ [BNext]_bvars => BeaconInv'
<1> SUFFICES ASSUME BeaconInv, [BNext]_bvars PROVE BeaconInv'
  OBVIOUS
<1> USE DEF BeaconInv, BeaconTypeOK, CacheIsOfOpenStore
<1>1. CASE StartBeacon
  BY <1>1 DEF StartBeacon
<1>2. ASSUME NEW root \in Root, NEW value \in Blob, StoreBootstrap(root, value)
      PROVE  BeaconInv'
  BY <1>2 DEF StoreBootstrap
<1>3. ASSUME NEW range \in Ranges, NEW values \in Values, StoreRange(range, values)
      PROVE  BeaconInv'
  <2>1. rows' \in Seq(UpdatePeriod \X Blob)
    BY <1>3, RowsAreTyped
  <2> QED
    BY <1>3, <2>1 DEF StoreRange
<1>4. CASE InsertRow
  <2>1. /\ Head(rows)[1] \in UpdatePeriod /\ Head(rows)[2] \in Blob
        /\ rows' \in Seq(UpdatePeriod \X Blob)
    BY <1>4, NextRowIsTyped DEF InsertRow
  <2>2. lc_update' \in [UpdatePeriod -> Blob \cup {Missing}]
    BY <1>4, <2>1, Zenon DEF InsertRow
  <2> QED
    BY <1>4, <2>1, <2>2 DEF InsertRow
<1>5. CASE RangeStored
  BY <1>5 DEF RangeStored
<1>6. ASSUME NEW slot \in UpdateSlot, StoreFinalityUpdate(slot) \/ StoreOptimisticUpdate(slot)
      PROVE  BeaconInv'
  BY <1>6 DEF StoreFinalityUpdate, StoreOptimisticUpdate
<1>7. CASE CrashBeacon
  BY <1>7 DEF CrashBeacon
<1>8. CASE UNCHANGED bvars
  BY <1>8 DEF bvars
<1> QED
  BY <1>1, <1>2, <1>3, <1>4, <1>5, <1>6, <1>7, <1>8 DEF BNext

\* The store stays well typed, and a closed store has no cache.
LEMMA BeaconInvariance == BSpec => []BeaconInv
<1>1. BInit => BeaconInv
  BY DEF BInit, BeaconInv, BeaconTypeOK, CacheIsOfOpenStore
<1> QED
  BY <1>1, BeaconInvStep, PTL DEF BSpec

-----------------------------------------------------------------------------
(* The refinement.                                                         *)

\* What an item holds, by its kind.
LEMMA ContentsOfItems ==
    /\ \A r \in Root : /\ <<"bootstrap", r>> \in BeaconItem
                       /\ BeaconContents[<<"bootstrap", r>>] = bootstraps[r]
    /\ \A p \in UpdatePeriod : /\ <<"period", p>> \in BeaconItem
                         /\ BeaconContents[<<"period", p>>] = lc_update[p]
    /\ BeaconContents[<<"finality", 0>>] = finality
    /\ BeaconContents[<<"optimistic", 0>>] = optimistic
    /\ <<"finality", 0>> \in BeaconItem /\ <<"optimistic", 0>> \in BeaconItem
BY DEF BeaconItem, BeaconContents

\* An item changes only if the variable that holds it does.
LEMMA ItemsOfVariables ==
    ASSUME NEW i \in BeaconItem
    PROVE  \/ \E r \in Root :
                 /\ i = <<"bootstrap", r>>
                 /\ bootstraps'[r] = bootstraps[r] => BeaconContents'[i] = BeaconContents[i]
           \/ \E p \in UpdatePeriod :
                 /\ i = <<"period", p>>
                 /\ lc_update'[p] = lc_update[p] => BeaconContents'[i] = BeaconContents[i]
           \/ /\ i = <<"finality", 0>>
              /\ BeaconContents[i] = finality /\ BeaconContents'[i] = finality'
           \/ /\ i = <<"optimistic", 0>>
              /\ BeaconContents[i] = optimistic /\ BeaconContents'[i] = optimistic'
BY DEF BeaconItem, BeaconContents

\* Every step of the beacon store is one of the abstract store.
LEMMA BeaconStepSimulates ==
    BeaconInv /\ [BNext]_bvars => [BeaconPromise!Next]_(BeaconPromise!vars)
<1> DEFINE Lasting == {i \in BeaconItem : i[1] \in {"bootstrap", "period"}}
           Step == [BeaconPromise!Next]_(BeaconPromise!vars)
<1> SUFFICES ASSUME BeaconInv, [BNext]_bvars PROVE Step
  OBVIOUS
<1>0. bootstraps \in [Root -> Blob \cup {Missing}] /\ lc_update \in [UpdatePeriod -> Blob \cup {Missing}]
  BY DEF BeaconInv, BeaconTypeOK
\* A put of one item.
<1>1. ASSUME NEW i \in BeaconItem, bpc # "down", bpc' # "down",
             i \in Lasting /\ BeaconContents[i] # Missing => BeaconContents'[i] = BeaconContents[i],
             \A j \in BeaconItem \ {i} : BeaconContents'[j] = BeaconContents[j]
      PROVE  Step
  <2>1. BeaconPromise!Put(i)
    BY <1>1 DEF BeaconPromise!Put
  <2> QED
    BY <2>1 DEF BeaconPromise!Next
\* A step that leaves the contents and the store open.
<1>2. ASSUME bpc # "down", bpc' # "down", BeaconContents' = BeaconContents PROVE Step
  BY <1>2 DEF BeaconPromise!vars
<1>3. CASE StartBeacon
  <2>1. BeaconContents' = BeaconContents
    BY <1>3 DEF StartBeacon, BeaconContents, BeaconInv, CacheIsOfOpenStore
  <2>2. BeaconPromise!Open
    BY <1>3, <2>1 DEF StartBeacon, BeaconPromise!Open
  <2> QED
    BY <2>2 DEF BeaconPromise!Next
<1>4. ASSUME NEW root \in Root, NEW value \in Blob, StoreBootstrap(root, value) PROVE Step
  <2> DEFINE item == <<"bootstrap", root>>
  <2>1. /\ bootstraps[root] # Missing => bootstraps'[root] = bootstraps[root]
        /\ \A r \in Root \ {root} : bootstraps'[r] = bootstraps[r]
        /\ lc_update' = lc_update /\ finality' = finality /\ optimistic' = optimistic
        /\ bpc # "down" /\ bpc' # "down"
    BY <1>0, <1>4 DEF StoreBootstrap
  <2>2. item \in BeaconItem /\ BeaconContents[item] = bootstraps[root]
    BY ContentsOfItems
  <2>3. BeaconContents[item] # Missing => BeaconContents'[item] = BeaconContents[item]
    BY <2>1, <2>2, ItemsOfVariables
  <2>4. ASSUME NEW j \in BeaconItem \ {item} PROVE BeaconContents'[j] = BeaconContents[j]
    BY <2>1, ItemsOfVariables
  <2> QED
    BY <1>1, <2>1, <2>2, <2>3, <2>4
<1>5. ASSUME NEW range \in Ranges, NEW values \in Values, StoreRange(range, values) PROVE Step
  BY <1>2, <1>5 DEF StoreRange, BeaconContents
<1>6. CASE InsertRow
  <2> DEFINE p == Head(rows)[1]
             item == <<"period", p>>
  <2>1. p \in UpdatePeriod
    BY <1>6, NextRowIsTyped DEF InsertRow, BeaconInv
  <2>2. /\ lc_update[p] # Missing => lc_update'[p] = lc_update[p]
        /\ \A q \in UpdatePeriod \ {p} : lc_update'[q] = lc_update[q]
        /\ bootstraps' = bootstraps /\ finality' = finality /\ optimistic' = optimistic
        /\ bpc # "down" /\ bpc' # "down"
    BY <1>0, <1>6, <2>1 DEF InsertRow
  <2> HIDE DEF p
  <2>3. item \in BeaconItem /\ BeaconContents[item] = lc_update[p]
    BY <2>1, ContentsOfItems
  <2>4. BeaconContents[item] # Missing => BeaconContents'[item] = BeaconContents[item]
    BY <2>2, <2>3, ItemsOfVariables
  <2>5. ASSUME NEW j \in BeaconItem \ {item} PROVE BeaconContents'[j] = BeaconContents[j]
    BY <2>2, ItemsOfVariables
  <2> QED
    BY <1>1, <2>2, <2>3, <2>4, <2>5
<1>7. CASE RangeStored
  BY <1>2, <1>7 DEF RangeStored, BeaconContents
<1>8. ASSUME NEW slot \in UpdateSlot, StoreFinalityUpdate(slot) PROVE Step
  <2> DEFINE item == <<"finality", 0>>
  <2>1. /\ bootstraps' = bootstraps /\ lc_update' = lc_update /\ optimistic' = optimistic
        /\ bpc # "down" /\ bpc' # "down"
    BY <1>8 DEF StoreFinalityUpdate
  <2>2. item \in BeaconItem /\ item \notin Lasting
    BY ContentsOfItems
  <2>3. ASSUME NEW j \in BeaconItem \ {item} PROVE BeaconContents'[j] = BeaconContents[j]
    BY <2>1, ItemsOfVariables
  <2> QED
    BY <1>1, <2>1, <2>2, <2>3
<1>9. ASSUME NEW slot \in UpdateSlot, StoreOptimisticUpdate(slot) PROVE Step
  <2> DEFINE item == <<"optimistic", 0>>
  <2>1. /\ bootstraps' = bootstraps /\ lc_update' = lc_update /\ finality' = finality
        /\ bpc # "down" /\ bpc' # "down"
    BY <1>9 DEF StoreOptimisticUpdate
  <2>2. item \in BeaconItem /\ item \notin Lasting
    BY ContentsOfItems
  <2>3. ASSUME NEW j \in BeaconItem \ {item} PROVE BeaconContents'[j] = BeaconContents[j]
    BY <2>1, ItemsOfVariables
  <2> QED
    BY <1>1, <2>1, <2>2, <2>3
<1>10. CASE CrashBeacon
  <2>1. /\ bootstraps' = bootstraps /\ lc_update' = lc_update
        /\ finality' = Missing /\ optimistic' = Missing
        /\ bpc # "down" /\ bpc' = "down"
    BY <1>10 DEF CrashBeacon
  <2>2. ASSUME NEW j \in BeaconItem
        PROVE  /\ BeaconContents'[j] \in {BeaconContents[j], Missing}
               /\ j \in Lasting => BeaconContents'[j] = BeaconContents[j]
    BY <2>1, ItemsOfVariables
  <2>3. BeaconPromise!GivesUp(BeaconItem \ Lasting)
    BY <2>2 DEF BeaconPromise!GivesUp
  <2>4. BeaconPromise!Close
    BY <2>1, <2>3 DEF BeaconPromise!Close
  <2> QED
    BY <2>4 DEF BeaconPromise!Next
<1>11. CASE UNCHANGED bvars
  BY <1>11 DEF bvars, BeaconContents, BeaconPromise!vars
<1> QED
  BY <1>3, <1>4, <1>5, <1>6, <1>7, <1>8, <1>9, <1>10, <1>11 DEF BNext

\* The beacon store implements the abstract content store, for every number of periods,
\* roots and values, through rows that fail and crashes in the middle of a range.
THEOREM BeaconStoreKeepsPromise == BSpec => BeaconKeepsPromise
<1>1. BInit => BeaconPromise!Init
  BY DEF BInit, BeaconPromise!Init, BeaconContents, BeaconItem
<1>2. BeaconInv /\ [BNext]_bvars => [BeaconPromise!Next]_(BeaconPromise!vars)
  BY BeaconStepSimulates
<1> QED
  BY <1>1, <1>2, BeaconInvariance, PTL DEF BSpec, BeaconKeepsPromise, BeaconPromise!Spec

-----------------------------------------------------------------------------
(* The beacon bridge.                                                      *)

Known == [period : Nat, root : Nat \cup {None}, slot : Nat]

Item == [key : Nat, slot : Nat, complete : BOOLEAN]

BeaconTypes ==
    /\ clock \in Nat /\ final \in Nat
    /\ known \in Known /\ result \in Known
    /\ running \subseteq Task
    /\ expected \in Nat \cup {None}
    /\ served \in [Task -> Seq(Item)]

\* The result of the round has what is known, where the task has not ended; and a
\* period that is asked for is a new one.
ResultIsKnown ==
    /\ "update" \in running => result.period = known.period
    /\ "finality" \in running => result.slot = known.slot
    /\ expected # None => "update" \in running /\ expected > known.period

\* What was handed to all clients is not beyond the mark ...
UpTo(list, mark) == \A i \in DOMAIN list : list[i].complete => list[i].key <= mark

\* ... and nothing older comes after it.
InOrder(list) ==
    \A i, j \in DOMAIN list : i < j /\ list[i].complete => list[i].key < list[j].key

ServedUpToResult ==
    UpTo(served["update"], result.period) /\ UpTo(served["finality"], result.slot)

BeaconBridgeInv == BeaconTypes /\ ResultIsKnown /\ ServedUpToResult /\ BeaconServedInOrder

LEMMA OrderIsOfLists ==
    BeaconServedInOrder <=>
        /\ \A i \in DOMAIN served["update"] :
              PeriodOf(served["update"][i].slot) = served["update"][i].key
        /\ InOrder(served["update"]) /\ InOrder(served["finality"])
BY DEF BeaconServedInOrder, InOrder

\* A list that grows by an item ahead of its mark.
LEMMA ListGrows ==
    ASSUME NEW list \in Seq(Item), NEW c \in Item, NEW mark \in Nat, NEW new \in Nat,
           UpTo(list, mark), InOrder(list), c.key > mark, mark <= new, c.complete => c.key <= new
    PROVE  UpTo(list \o <<c>>, new) /\ InOrder(list \o <<c>>)
<1> DEFINE longer == list \o <<c>>
<1>1. /\ DOMAIN longer = 1..Len(list) + 1 /\ DOMAIN list = 1..Len(list) /\ Len(list) \in Nat
      /\ longer[Len(list) + 1] = c /\ \A i \in 1..Len(list) : longer[i] = list[i]
  OBVIOUS
<1> HIDE DEF longer
<1>2. \A i \in DOMAIN list : list[i].key \in Nat
  <2>1. \A x \in Item : x.key \in Nat
    BY DEF Item
  <2>2. \A i \in DOMAIN list : list[i] \in Item
    OBVIOUS
  <2> QED
    BY <2>1, <2>2, Zenon
<1>3. c.key \in Nat
  BY DEF Item
<1>4. \A i \in DOMAIN longer :
          i = Len(list) + 1 \/ (i \in DOMAIN list /\ longer[i] = list[i])
  BY <1>1
<1>5. UpTo(longer, new)
  <2> SUFFICES ASSUME NEW i \in DOMAIN longer, longer[i].complete
               PROVE  longer[i].key <= new
    BY DEF UpTo
  <2>1. CASE i = Len(list) + 1
    BY <1>1, <2>1
  <2>2. CASE i \in DOMAIN list /\ longer[i] = list[i]
    <3>1. list[i].key <= mark /\ list[i].key \in Nat
      BY <1>2, <2>2 DEF UpTo
    <3> QED
      BY <2>2, <3>1
  <2> QED
    BY <1>4, <2>1, <2>2
<1>6. InOrder(longer)
  <2> SUFFICES ASSUME NEW i \in DOMAIN longer, NEW j \in DOMAIN longer, i < j, longer[i].complete
               PROVE  longer[i].key < longer[j].key
    BY DEF InOrder
  <2>1. i \in DOMAIN list /\ longer[i] = list[i]
    BY <1>1
  <2>2. CASE j = Len(list) + 1
    <3>1. list[i].key <= mark /\ list[i].key \in Nat
      BY <1>2, <2>1 DEF UpTo
    <3> QED
      BY <1>1, <1>3, <2>1, <2>2, <3>1
  <2>3. CASE j \in DOMAIN list /\ longer[j] = list[j]
    BY <2>1, <2>3 DEF InOrder
  <2> QED
    BY <1>4, <2>2, <2>3
<1> QED
  BY <1>5, <1>6 DEF longer

\* What an end does to the variables that no list is part of.
LEMMA EndsTypes ==
    ASSUME BeaconBridgeInv, NEW t \in Task, NEW new \in Known, NEW contents \in Seq(Item),
           Ends(t, new, contents),
           t # "update" => new.period = result.period,
           t # "finality" => new.slot = result.slot
    PROVE  BeaconTypes' /\ ResultIsKnown'
<1>1. /\ result' = new /\ running' = running \ {t} /\ UNCHANGED <<clock, final, known>>
      /\ expected' = (IF t = "update" THEN None ELSE expected)
      /\ served' = [served EXCEPT ![t] = @ \o contents]
  BY DEF Ends
<1>2. /\ clock \in Nat /\ final \in Nat /\ known \in Known /\ running \subseteq Task
      /\ expected \in Nat \cup {None} /\ served \in [Task -> Seq(Item)]
  BY DEF BeaconBridgeInv, BeaconTypes
<1>3. served' \in [Task -> Seq(Item)]
  <2>1. served[t] \o contents \in Seq(Item)
    BY <1>2
  <2> QED
    BY <1>1, <1>2, <2>1, Zenon
<1>4. BeaconTypes'
  BY <1>1, <1>2, <1>3 DEF BeaconTypes
<1>5. ResultIsKnown'
  BY <1>1 DEF BeaconBridgeInv, ResultIsKnown
<1> QED
  BY <1>4, <1>5

\* A task ends without serving anything.
LEMMA EndsSilently ==
    ASSUME BeaconBridgeInv, NEW t \in Task, Ends(t, result, <<>>)
    PROVE  BeaconBridgeInv'
<1>1. result \in Known /\ served \in [Task -> Seq(Item)]
  BY DEF BeaconBridgeInv, BeaconTypes
<1>2. BeaconTypes' /\ ResultIsKnown'
  <2>1. <<>> \in Seq(Item)
    OBVIOUS
  <2> QED
    BY <1>1, <2>1, EndsTypes
<1>3. served' = served /\ result' = result
  <2>1. served[t] \o <<>> = served[t]
    <3>1. served[t] \in Seq(Item)
      BY <1>1
    <3> QED
      BY <3>1
  <2> QED
    BY <1>1, <2>1, Zenon DEF Ends
<1> QED
  BY <1>2, <1>3 DEF BeaconBridgeInv, ServedUpToResult, UpTo, BeaconServedInOrder, PeriodOf

\* A task ends with content that is ahead of all that was handed to the clients, and the
\* result takes note of it if it is handed to all of them.
LEMMA EndsServing ==
    ASSUME BeaconBridgeInv, NEW t \in Task, NEW new \in Known, NEW key \in Nat, NEW slot \in Nat,
           NEW complete \in BOOLEAN, Ends(t, new, <<Content(key, slot, complete)>>),
           t = "update" => /\ PeriodOf(slot) = key /\ key > result.period
                           /\ new.period = (IF complete THEN key ELSE result.period),
           t = "finality" => /\ key > result.slot
                             /\ new.slot = (IF complete THEN key ELSE result.slot),
           t # "update" => new.period = result.period,
           t # "finality" => new.slot = result.slot
    PROVE  BeaconBridgeInv'
<1> DEFINE c == Content(key, slot, complete)
<1>1. c \in Item /\ c.key = key /\ c.slot = slot /\ c.complete = complete
  BY DEF Content, Item
<1>2. result' = new /\ served' = [served EXCEPT ![t] = @ \o <<c>>]
  BY DEF Ends
<1> HIDE DEF c
<1>3. BeaconTypes' /\ ResultIsKnown'
  <2>1. <<c>> \in Seq(Item)
    BY <1>1
  <2> QED
    BY <2>1, EndsTypes DEF c
<1>4. /\ served \in [Task -> Seq(Item)]
      /\ result.period \in Nat /\ result.slot \in Nat /\ new.period \in Nat /\ new.slot \in Nat
  BY DEF BeaconBridgeInv, BeaconTypes, Known
<1>5. /\ UpTo(served["update"], result.period) /\ UpTo(served["finality"], result.slot)
      /\ InOrder(served["update"]) /\ InOrder(served["finality"])
      /\ \A i \in DOMAIN served["update"] :
            PeriodOf(served["update"][i].slot) = served["update"][i].key
  BY OrderIsOfLists DEF BeaconBridgeInv, ServedUpToResult
<1>6. /\ "update" \in Task /\ "finality" \in Task
      /\ served'[t] = served[t] \o <<c>> /\ \A u \in Task \ {t} : served'[u] = served[u]
  BY <1>2, <1>4 DEF Task
<1>7. UpTo(served'["update"], new.period) /\ InOrder(served'["update"])
  <2>1. CASE t = "update"
    <3>1. served["update"] \in Seq(Item) /\ served'["update"] = served["update"] \o <<c>>
      BY <1>4, <1>6, <2>1
    <3>2. c.key > result.period /\ result.period <= new.period /\ (c.complete => c.key <= new.period)
      BY <1>1, <1>4, <2>1
    <3> QED
      BY <1>1, <1>4, <1>5, <3>1, <3>2, ListGrows
  <2>2. CASE t # "update"
    <3>1. served'["update"] = served["update"]
      BY <1>6, <2>2
    <3> QED
      BY <1>5, <2>2, <3>1, Zenon
  <2> QED
    BY <2>1, <2>2
<1>8. UpTo(served'["finality"], new.slot) /\ InOrder(served'["finality"])
  <2>1. CASE t = "finality"
    <3>1. served["finality"] \in Seq(Item) /\ served'["finality"] = served["finality"] \o <<c>>
      BY <1>4, <1>6, <2>1
    <3>2. c.key > result.slot /\ result.slot <= new.slot /\ (c.complete => c.key <= new.slot)
      BY <1>1, <1>4, <2>1
    <3> QED
      BY <1>1, <1>4, <1>5, <3>1, <3>2, ListGrows
  <2>2. CASE t # "finality"
    <3>1. served'["finality"] = served["finality"]
      BY <1>6, <2>2
    <3> QED
      BY <1>5, <2>2, <3>1, Zenon
  <2> QED
    BY <2>1, <2>2
<1>9. \A i \in DOMAIN served'["update"] :
          PeriodOf(served'["update"][i].slot) = served'["update"][i].key
  <2>1. CASE t = "update"
    <3> DEFINE list == served["update"]
    <3>1. list \in Seq(Item) /\ served'["update"] = list \o <<c>>
      BY <1>4, <1>6, <2>1
    <3>2. \A i \in DOMAIN list : PeriodOf(list[i].slot) = list[i].key
      BY <1>5
    <3>3. PeriodOf(c.slot) = c.key
      BY <1>1, <2>1
    <3> HIDE DEF list
    <3>4. \A i \in DOMAIN (list \o <<c>>) :
              (list \o <<c>>)[i] = c \/ (i \in DOMAIN list /\ (list \o <<c>>)[i] = list[i])
      BY <3>1
    <3> QED
      BY <3>1, <3>2, <3>3, <3>4, Zenon
  <2>2. CASE t # "update"
    <3>1. served'["update"] = served["update"]
      BY <1>6, <2>2
    <3> QED
      BY <1>5, <3>1, Zenon
  <2> QED
    BY <2>1, <2>2
<1>10. BeaconServedInOrder' /\ ServedUpToResult'
  BY <1>2, <1>7, <1>8, <1>9 DEF BeaconServedInOrder, ServedUpToResult, InOrder, UpTo, PeriodOf
<1> QED
  BY <1>3, <1>10 DEF BeaconBridgeInv

LEMMA RoundKeepsInv ==
    ASSUME BeaconBridgeInv, Finalize \/ ServeLatest \/ Joined \/ ExpectPeriod
    PROVE  BeaconBridgeInv'
<1>1. CASE "update" \in running /\ Ends("update", result, <<>>)
  BY <1>1, EndsSilently DEF Task
<1>2. ASSUME UNCHANGED <<result, served>>
      PROVE  BeaconServedInOrder' /\ ServedUpToResult'
  BY <1>2 DEF BeaconBridgeInv, BeaconServedInOrder, ServedUpToResult, UpTo, PeriodOf
<1>3. CASE Finalize
  <2>1. clock' \in Nat /\ final' \in Nat
    BY <1>3, BeaconAssumption DEF Finalize, BeaconBridgeInv, BeaconTypes
  <2> QED
    BY <1>2, <1>3, <2>1 DEF Finalize, BeaconBridgeInv, BeaconTypes, ResultIsKnown
<1>4. CASE ServeLatest
  BY <1>2, <1>4 DEF ServeLatest, BeaconBridgeInv, BeaconTypes, ResultIsKnown
<1>5. CASE Joined
  BY <1>2, <1>5 DEF Joined, BeaconBridgeInv, BeaconTypes, ResultIsKnown
<1>6. CASE /\ "update" \in running /\ clock > known.period /\ expected' = clock
           /\ UNCHANGED <<clock, final, known, running, result, round, served>>
  BY <1>2, <1>6 DEF BeaconBridgeInv, BeaconTypes, ResultIsKnown
<1> QED
  BY <1>1, <1>3, <1>4, <1>5, <1>6 DEF ExpectPeriod

\* A task gossips: all of it, or it fails halfway.
LEMMA GossipsKeepsInv ==
    ASSUME BeaconBridgeInv, NEW t \in Task, NEW new \in Known, NEW key \in Nat, NEW slot \in Nat,
           Gossips(t, new, key, slot),
           t = "update" => PeriodOf(slot) = key /\ key > result.period /\ new.period = key,
           t = "finality" => key > result.slot /\ new.slot = key,
           t # "update" => new.period = result.period,
           t # "finality" => new.slot = result.slot
    PROVE  BeaconBridgeInv'
<1>1. CASE Ends(t, new, <<Content(key, slot, TRUE)>>)
  BY <1>1, EndsServing
<1>2. CASE Ends(t, result, <<Content(key, slot, FALSE)>>)
  <2>1. result \in Known
    BY DEF BeaconBridgeInv, BeaconTypes
  <2> QED
    BY <1>2, <2>1, EndsServing
<1> QED
  BY <1>1, <1>2 DEF Gossips

LEMMA ServeKeepsInv ==
    ASSUME BeaconBridgeInv, NEW slot \in 1..final,
           \/ ServeLightClientBootstrap(slot)
           \/ ServeLightClientUpdate(slot)
           \/ ServeLightClientFinalityUpdate(slot)
    PROVE  BeaconBridgeInv'
<1>1. slot \in Nat /\ known \in Known /\ result \in Known /\ expected \in Nat \cup {None}
  BY DEF BeaconBridgeInv, BeaconTypes
<1>2. "bootstrap" \in Task /\ "update" \in Task /\ "finality" \in Task
  BY DEF Task
<1>3. ASSUME NEW t \in Task, Ends(t, result, <<>>)
      PROVE  BeaconBridgeInv'
  BY <1>3, EndsSilently
<1>4. CASE Gossips("bootstrap", [result EXCEPT !.root = slot], slot, slot)
  <2> DEFINE new == [result EXCEPT !.root = slot]
  <2>1. new \in Known /\ new.period = result.period /\ new.slot = result.slot
    BY <1>1 DEF Known
  <2> HIDE DEF new
  <2> QED
    BY <1>1, <1>2, <1>4, <2>1, GossipsKeepsInv, Zenon DEF new
<1>5. CASE /\ expected # None /\ PeriodOf(slot) = expected
           /\ Gossips("update", [result EXCEPT !.period = expected], expected, slot)
  <2> DEFINE new == [result EXCEPT !.period = expected]
  <2>1. new \in Known /\ new.period = expected /\ new.slot = result.slot /\ expected \in Nat
    BY <1>1, <1>5 DEF Known
  <2>2. expected > result.period
    BY <1>5 DEF BeaconBridgeInv, ResultIsKnown
  <2> HIDE DEF new
  <2>3. Gossips("update", new, expected, slot)
    BY <1>5 DEF new
  <2> QED
    BY <1>1, <1>2, <1>5, <2>1, <2>2, <2>3, GossipsKeepsInv
<1>6. CASE /\ slot > known.slot
           /\ Gossips("finality", [result EXCEPT !.slot = slot], slot, slot)
  <2> DEFINE new == [result EXCEPT !.slot = slot]
  <2>1. new \in Known /\ new.slot = slot /\ new.period = result.period
    BY <1>1 DEF Known
  <2>2. result.slot = known.slot
    BY <1>6 DEF Gossips, Ends, BeaconBridgeInv, ResultIsKnown
  <2> HIDE DEF new
  <2>3. Gossips("finality", new, slot, slot)
    BY <1>6 DEF new
  <2> QED
    BY <1>1, <1>2, <1>6, <2>1, <2>2, <2>3, GossipsKeepsInv
<1> QED
  BY <1>2, <1>3, <1>4, <1>5, <1>6
     DEF ServeLightClientBootstrap, ServeLightClientUpdate, ServeLightClientFinalityUpdate

\* Light client updates are gossiped in the period they are filed under, and once an
\* update or a finality update was handed to all portal clients no older one is gossiped,
\* also when the provider lags behind what was served, the clock moves on while it is
\* asked, or a gossip fails halfway (serve_light_client_update,
\* serve_light_client_finality_update).
THEOREM BeaconGossipsInOrder == BBSpec => []BeaconServedInOrder
<1>1. BBInit => BeaconBridgeInv
  <2> SUFFICES ASSUME BBInit
               PROVE  BeaconBridgeInv
    OBVIOUS
  <2>1. final \in Nat /\ clock \in Nat
    <3>1. final \in Nat
      BY BeaconAssumption DEF BBInit, LastSlot
    <3>2. PeriodOf(final) \in Nat
      BY <3>1, BeaconAssumption DEF PeriodOf
    <3> QED
      BY <3>1, <3>2, BeaconAssumption DEF BBInit
  <2>2. known \in Known /\ result \in Known
    BY DEF BBInit, Known
  <2>3. /\ served \in [Task -> Seq(Item)]
        /\ served["update"] = <<>> /\ served["finality"] = <<>>
    BY DEF BBInit, Task
  <2>4. BeaconTypes
    BY <2>1, <2>2, <2>3 DEF BBInit, BeaconTypes
  <2>5. ServedUpToResult /\ BeaconServedInOrder
    BY <2>3 DEF ServedUpToResult, UpTo, BeaconServedInOrder
  <2> QED
    BY <2>4, <2>5 DEF BBInit, BeaconBridgeInv, ResultIsKnown
<1>2. BeaconBridgeInv /\ [BBNext]_bbvars => BeaconBridgeInv'
  <2> SUFFICES ASSUME BeaconBridgeInv, [BBNext]_bbvars
               PROVE  BeaconBridgeInv'
    OBVIOUS
  <2>1. CASE UNCHANGED bbvars
    BY <2>1 DEF bbvars, BeaconBridgeInv, BeaconTypes, ResultIsKnown, ServedUpToResult, UpTo,
                BeaconServedInOrder, Known, PeriodOf
  <2>2. CASE ServeLightClientOptimisticUpdate(final)
    <3>1. final \in Nat
      BY DEF BeaconBridgeInv, BeaconTypes
    <3>2. "optimistic" \in Task /\ result \in Known
      BY DEF Task, BeaconBridgeInv, BeaconTypes
    <3> QED
      BY <2>2, <3>1, <3>2, GossipsKeepsInv DEF ServeLightClientOptimisticUpdate
  <2> QED
    BY <2>1, <2>2, RoundKeepsInv, ServeKeepsInv, EndsSilently DEF BBNext, TaskFails
<1>3. BeaconBridgeInv => BeaconServedInOrder
  BY DEF BeaconBridgeInv
<1> QED
  BY <1>1, <1>2, <1>3, PTL DEF BBSpec

-----------------------------------------------------------------------------
(* Periods.                                                                *)

\* A slot has a period.
LEMMA PeriodType == ASSUME NEW s \in Slot PROVE Period(s) \in Nat
  BY LightClientAssumption DEF Period, Slot

\* Later slots are in the same or a later period.
LEMMA PeriodMonotone ==
  ASSUME NEW s \in Slot, NEW t \in Slot, s <= t PROVE Period(s) <= Period(t)
  BY LightClientAssumption DEF Period, Slot

-----------------------------------------------------------------------------
(* Updates of the fields of the store.                                     *)

WithHeaders(r, a, b) == [r EXCEPT !.finalized = a, !.optimistic = b]

WithParticipation(r, n, b) == [r EXCEPT !.current_max = n, !.optimistic = b]

Rotated(r, a, b, m, n) ==
    [r EXCEPT !.current = a, !.next = b, !.previous_max = m, !.current_max = n]

LEMMA SetParticipation ==
  ASSUME NEW r \in LightClientStore, NEW n \in 0..CommitteeSize, NEW b \in Slot
  PROVE  /\ WithParticipation(r, n, b) \in LightClientStore
         /\ WithParticipation(r, n, b).finalized = r.finalized
         /\ WithParticipation(r, n, b).optimistic = b
         /\ WithParticipation(r, n, b).current = r.current
         /\ WithParticipation(r, n, b).next = r.next
  BY Zenon DEF LightClientStore, WithParticipation

LEMMA SetCommittees ==
  ASSUME NEW r \in LightClientStore, NEW a \in Committee, NEW b \in Committee,
         NEW m \in 0..CommitteeSize, NEW n \in 0..CommitteeSize
  PROVE  /\ Rotated(r, a, b, m, n) \in LightClientStore
         /\ Rotated(r, a, b, m, n).finalized = r.finalized
         /\ Rotated(r, a, b, m, n).optimistic = r.optimistic
         /\ Rotated(r, a, b, m, n).current = a
         /\ Rotated(r, a, b, m, n).next = b
  BY ZenonT(30) DEF LightClientStore, Rotated

\* A store that takes over a finalized header.
LEMMA FinalizedTaken ==
  ASSUME NEW r \in LightClientStore, NEW a \in Slot, a <= now, r.optimistic <= now, now \in Slot,
         NEW t, t = WithHeaders(r, a, Larger(r.optimistic, a))
  PROVE  /\ t \in LightClientStore
         /\ t.finalized = a /\ t.current = r.current /\ t.next = r.next
         /\ t.optimistic >= r.optimistic /\ t.optimistic <= now /\ a <= t.optimistic
<1> DEFINE h == Larger(r.optimistic, a)
<1>1. h \in Slot /\ h >= r.optimistic /\ h <= now /\ a <= h
  BY DEF LightClientStore, Larger, Slot
<1> HIDE DEF h
<1>2. t = WithHeaders(r, a, h)
  BY DEF h
<1>3. /\ t \in LightClientStore
      /\ t.finalized = a /\ t.optimistic = h /\ t.current = r.current /\ t.next = r.next
  BY <1>1, <1>2, Zenon DEF LightClientStore, WithHeaders
<1> QED
  BY <1>1, <1>3

-----------------------------------------------------------------------------
(* One update.                                                             *)

\* An update of any of the three kinds.
IsUpdate(u) ==
    /\ u.attested \in Slot
    /\ u.signature \in Slot
    /\ u.finalized \in Slot \cup {Absent}
    /\ u.bits \in 0..CommitteeSize
    /\ u.genuine \in BOOLEAN
    /\ u.next \in {Absent, NextOf(u.attested, u.genuine)}

\* What a bootstrapped store is at all times.
Sound(s) ==
    /\ s \in LightClientStore
    /\ s.current = Period(s.finalized)
    /\ s.next \in {Absent, Period(s.finalized) + 1}
    /\ s.finalized <= s.optimistic
    /\ s.optimistic <= now

\* What the network delivers are updates.
LEMMA DeliveredUpdates ==
  /\ \A u \in Updates : IsUpdate(u)
  /\ \A u \in FinalityUpdates : IsUpdate(u)
  /\ \A u \in OptimisticUpdates : IsUpdate(u)
  BY DEF Updates, FinalityUpdates, OptimisticUpdates, IsUpdate

\* Applying a verified update to a sound store gives a sound store whose headers
\* are not older.
LEMMA AppliedIsSound ==
  ASSUME NEW s, Sound(s), now \in Slot, NEW u, IsUpdate(u), Verified(s, u)
  PROVE  LET t == Applied(s, u)
         IN  Sound(t) /\ t.finalized >= s.finalized /\ t.optimistic >= s.optimistic
<1> DEFINE o == WithOptimistic(s, u)
           c == WithCommittees(o, u)
           f == WithFinalized(c, u)
           fin == FinalizedSlot(u)
<1>1. /\ fin \in Slot
      /\ fin <= u.attested /\ u.attested < u.signature /\ u.signature <= now
  BY LightClientAssumption DEF Verified, ValidTime, IsUpdate, FinalizedSlot, Slot, Absent
<1>2. /\ Period(fin) \in Nat /\ Period(u.attested) \in Nat /\ Period(u.signature) \in Nat
      /\ Period(s.finalized) \in Nat
      /\ Period(fin) <= Period(u.attested) /\ Period(u.attested) <= Period(u.signature)
  <2>1. u.attested <= u.signature
    BY <1>1 DEF IsUpdate, Slot
  <2> QED
    BY <1>1, <2>1, PeriodType, PeriodMonotone DEF IsUpdate, Sound, LightClientStore
<1>3. /\ o \in LightClientStore
      /\ o.finalized = s.finalized /\ o.current = s.current /\ o.next = s.next
      /\ o.optimistic >= s.optimistic /\ o.optimistic <= now
  <2>1. /\ Larger(s.current_max, u.bits) \in 0..CommitteeSize
        /\ Larger(s.optimistic, u.attested) \in Slot
        /\ Larger(s.optimistic, u.attested) >= s.optimistic
        /\ Larger(s.optimistic, u.attested) <= now
    BY <1>1, LightClientAssumption DEF Larger, IsUpdate, Sound, LightClientStore, Slot
  <2> DEFINE max == Larger(s.current_max, u.bits)
             head == IF u.bits > Larger(max, s.previous_max) \div 2
                     THEN Larger(s.optimistic, u.attested) ELSE s.optimistic
  <2>2. o = WithParticipation(s, max, head)
    BY DEF WithOptimistic, WithParticipation
  <2>3. head \in Slot /\ head >= s.optimistic /\ head <= now
    BY <2>1 DEF Sound, LightClientStore, Slot
  <2> HIDE DEF o, max, head
  <2> QED
    BY <2>1, <2>2, <2>3, SetParticipation, ZenonT(30) DEF Sound, max
<1>4. CASE ~ShouldApply(s, u)
  <2>1. Applied(s, u) = o
    BY <1>4 DEF Applied
  <2>2. Sound(o)
    BY <1>3, LightClientAssumption DEF Sound, LightClientStore, Slot
  <2> QED
    BY <1>3, <2>1, <2>2 DEF Sound, LightClientStore, Slot
<1>5. CASE ShouldApply(s, u)
  <2>1. Applied(s, u) = f
    BY <1>5 DEF Applied
  <2>2. u.next \in {Absent, Period(u.attested) + 1}
    BY DEF IsUpdate, Verified, SignatureValid, NextOf
  <2>3. fin > s.finalized => Period(s.finalized) <= Period(fin)
    BY <1>1, PeriodMonotone DEF Sound, LightClientStore, Slot
  <2>4. u.attested > s.finalized => Period(s.finalized) <= Period(u.attested)
    BY PeriodMonotone DEF Sound, LightClientStore, Slot, IsUpdate
  <2> HIDE DEF o
  <2>5. CASE s.next = Absent
    <3>1. Period(u.attested) = Period(s.finalized)
      BY <1>2, <2>4, <2>5 DEF Verified, ValidPeriod, Relevant
    <3>2. c = [o EXCEPT !.next = u.next]
      BY <1>3, <2>5 DEF WithCommittees
    <3>3. /\ c \in LightClientStore
          /\ c.finalized = s.finalized /\ c.current = s.current /\ c.next = u.next
          /\ c.optimistic = o.optimistic
      BY <1>2, <1>3, <2>2, <3>2 DEF LightClientStore, Committee
    <3> HIDE DEF c
    <3>4. CASE fin > s.finalized
      <4>1. f = WithHeaders(c, fin, Larger(c.optimistic, fin))
        BY <3>3, <3>4 DEF WithFinalized, WithHeaders
      <4>2. Period(fin) = Period(s.finalized)
        BY <1>2, <2>3, <3>1, <3>4
      <4>3. /\ f \in LightClientStore
            /\ f.finalized = fin /\ f.current = s.current /\ f.next = u.next
            /\ f.optimistic >= o.optimistic /\ f.optimistic <= now /\ fin <= f.optimistic
        <5>1. fin \in Slot /\ fin <= now /\ c \in LightClientStore /\ c.optimistic <= now
          BY <1>1, <1>3, <3>3 DEF Slot, IsUpdate
        <5> HIDE DEF f, fin
        <5> QED
          BY <3>3, <4>1, <5>1, FinalizedTaken
      <4> QED
        BY <1>1, <1>3, <2>1, <2>2, <3>1, <3>4, <4>2, <4>3 DEF Sound, LightClientStore, Slot
    <3>5. CASE ~(fin > s.finalized)
      <4>1. f = c
        BY <3>3, <3>5 DEF WithFinalized
      <4> QED
        BY <1>3, <2>1, <2>2, <3>1, <3>3, <4>1 DEF Sound, LightClientStore, Slot
    <3> QED
      BY <3>4, <3>5
  <2>6. CASE s.next # Absent
    <3>1. fin > s.finalized
      BY <1>5, <2>6, Zenon DEF ShouldApply, HasFinalizedNextCommittee
    <3>2. CASE Period(fin) = Period(s.finalized) + 1
      <4>1. /\ Period(u.attested) = Period(s.finalized) + 1
            /\ s.next = Period(fin)
        BY <1>2, <2>6, <3>2 DEF Verified, ValidPeriod, Sound
      <4>2. c = Rotated(o, o.next, u.next, o.current_max, 0)
        BY <1>3, <2>6, <3>2 DEF WithCommittees, Rotated
      <4>3. /\ c \in LightClientStore
            /\ c.finalized = s.finalized /\ c.current = s.next /\ c.next = u.next
            /\ c.optimistic = o.optimistic
        <5>1. o.next \in Committee /\ u.next \in Committee
              /\ o.current_max \in 0..CommitteeSize /\ 0 \in 0..CommitteeSize
          BY <1>2, <1>3, <2>2, LightClientAssumption DEF LightClientStore, Committee
        <5> DEFINE a == o.next
                   b == u.next
                   m == o.current_max
        <5>2. /\ c = Rotated(o, a, b, m, 0) /\ o \in LightClientStore
              /\ a \in Committee /\ b \in Committee
              /\ m \in 0..CommitteeSize /\ 0 \in 0..CommitteeSize
          BY <1>3, <4>2, <5>1, Zenon
        <5> HIDE DEF a, b, m, c
        <5>3. /\ c \in LightClientStore
              /\ c.finalized = o.finalized /\ c.optimistic = o.optimistic
              /\ c.current = a /\ c.next = b
          BY <5>2, SetCommittees, SMTT(30)
        <5> QED
          BY <1>3, <5>3, Zenon DEF a, b
      <4> HIDE DEF c
      <4>4. f = WithHeaders(c, fin, Larger(c.optimistic, fin))
        BY <3>1, <4>3 DEF WithFinalized, WithHeaders
      <4>5. /\ f \in LightClientStore
            /\ f.finalized = fin /\ f.current = s.next /\ f.next = u.next
            /\ f.optimistic >= o.optimistic /\ f.optimistic <= now /\ fin <= f.optimistic
        <5>1. fin \in Slot /\ fin <= now /\ c \in LightClientStore /\ c.optimistic <= now
          BY <1>1, <1>3, <4>3 DEF Slot, IsUpdate
        <5> HIDE DEF f, fin
        <5> QED
          BY <4>3, <4>4, <5>1, FinalizedTaken
      <4> QED
        BY <1>1, <1>3, <2>1, <2>2, <3>1, <3>2, <4>1, <4>5 DEF Sound, LightClientStore, Slot
    <3>3. CASE Period(fin) # Period(s.finalized) + 1
      <4>1. Period(fin) = Period(s.finalized)
        BY <1>2, <2>3, <3>1, <3>3 DEF Verified, ValidPeriod
      <4>2. c = o
        BY <1>3, <2>6, <3>3 DEF WithCommittees
      <4> HIDE DEF c
      <4>3. f = WithHeaders(o, fin, Larger(o.optimistic, fin))
        BY <1>3, <3>1, <4>2 DEF WithFinalized, WithHeaders
      <4>4. /\ f \in LightClientStore
            /\ f.finalized = fin /\ f.current = s.current /\ f.next = s.next
            /\ f.optimistic >= o.optimistic /\ f.optimistic <= now /\ fin <= f.optimistic
        <5>1. fin \in Slot /\ fin <= now /\ o \in LightClientStore /\ o.optimistic <= now
          BY <1>1, <1>3 DEF Slot, IsUpdate
        <5> HIDE DEF f, fin
        <5> QED
          BY <1>3, <4>3, <5>1, FinalizedTaken
      <4> QED
        BY <1>1, <1>3, <2>1, <3>1, <4>1, <4>4 DEF Sound, LightClientStore, Slot
    <3> QED
      BY <3>2, <3>3
  <2> QED
    BY <2>5, <2>6
<1> QED
  BY <1>4, <1>5

-----------------------------------------------------------------------------
(* The inductive invariant: the checkpoints are in order with each other   *)
(* and with the clock, and a store that is in use starts at its checkpoint.*)

Ready == phase \notin {"down", "bootstrap"}

Checkpoints ==
    /\ checkpoint <= now /\ saved <= now /\ default <= now
    /\ last_checkpoint # Absent => checkpoint <= last_checkpoint /\ last_checkpoint <= now
    /\ phase # "down" => saved <= checkpoint

Inv ==
    /\ TypeOK
    /\ CommitteesMatch
    /\ HeadInTime
    /\ Ready => Bootstrapped /\ checkpoint <= store.finalized
    /\ Checkpoints

\* The initial states have it.
LEMMA InitInv == Init => Inv
<1> SUFFICES ASSUME Init PROVE Inv
  OBVIOUS
<1>1. TypeOK
  BY LightClientAssumption
  DEF Init, TypeOK, Slot, DefaultStore, LightClientStore, Committee, Absent, Unknown
<1> QED
  BY <1>1, LightClientAssumption
  DEF Init, Inv, CommitteesMatch, HeadInTime, Ready, Bootstrapped, Checkpoints, Slot, DefaultStore

\* What applying a verified update does to the state.
LEMMA ApplyStep ==
  ASSUME Inv, Ready, NEW u, IsUpdate(u), Verified(store, u), Apply(u)
  PROVE  /\ Sound(store') /\ store'.current # Unknown
         /\ store'.finalized >= store.finalized /\ store'.optimistic >= store.optimistic
         /\ checkpoint <= store'.finalized
         /\ last_checkpoint' \in Slot \cup {Absent}
         /\ last_checkpoint' # Absent => checkpoint <= last_checkpoint' /\ last_checkpoint' <= now
<1>1. Sound(store) /\ now \in Slot
  BY DEF Inv, TypeOK, CommitteesMatch, HeadInTime, Sound
<1>2. /\ Sound(store')
      /\ store'.finalized >= store.finalized /\ store'.optimistic >= store.optimistic
  BY <1>1, AppliedIsSound DEF Apply
<1>3. store.finalized \in Slot /\ store'.finalized \in Slot /\ store'.optimistic \in Slot
  BY <1>1, <1>2 DEF Sound, LightClientStore
<1>4. store'.finalized <= now
  BY <1>1, <1>2, <1>3 DEF Sound, Slot
<1>5. checkpoint \in Slot /\ checkpoint <= store.finalized
  BY DEF Inv, TypeOK
<1>6. checkpoint <= store'.finalized
  BY <1>2, <1>3, <1>5 DEF Slot
<1>7. last_checkpoint' \in {store'.finalized, last_checkpoint}
  BY DEF Apply, NewCheckpoint
<1>8. Period(store'.finalized) # Unknown
  BY <1>3, PeriodType DEF Unknown
<1> QED
  BY <1>2, <1>3, <1>4, <1>6, <1>7, <1>8 DEF Inv, TypeOK, Checkpoints, Sound

\* Such a step, whatever phase of sync or advance comes after it, keeps the
\* invariant; and so does one that only changes the phase.
LEMMA UpdateKeepsInv ==
  ASSUME Inv, Ready, NEW u, IsUpdate(u), Verified(store, u), Apply(u),
         phase' \in {"updates", "optimistic", "committee", "idle"},
         syncing' \in BOOLEAN, fetched' \in 0..MaxUpdates,
         UNCHANGED <<now, checkpoint, saved, default>>
  PROVE  Inv'
<1>1. /\ Sound(store') /\ store'.current # Unknown
      /\ checkpoint <= store'.finalized
      /\ last_checkpoint' \in Slot \cup {Absent}
      /\ last_checkpoint' # Absent => checkpoint <= last_checkpoint' /\ last_checkpoint' <= now
  BY ApplyStep
<1>2. TypeOK'
  BY <1>1 DEF Inv, TypeOK, Sound
<1>3. CommitteesMatch' /\ HeadInTime'
  BY <1>1 DEF CommitteesMatch, HeadInTime, Sound
<1>4. (Ready => Bootstrapped /\ checkpoint <= store.finalized)'
  BY <1>1 DEF Bootstrapped
<1>5. Checkpoints'
  BY <1>1 DEF Inv, Checkpoints, Ready
<1> QED
  BY <1>2, <1>3, <1>4, <1>5 DEF Inv

LEMMA PhaseKeepsInv ==
  ASSUME Inv,
         \/ Ready /\ phase' \in {"bootstrap", "updates", "finality", "optimistic", "committee", "idle"}
         \/ phase' = "down" /\ saved' \in {saved, default, last_checkpoint} \ {Absent},
         phase' # "down" => saved' = saved,
         syncing' \in BOOLEAN, fetched' \in 0..MaxUpdates,
         UNCHANGED <<now, store, checkpoint, last_checkpoint, default>>
  PROVE  Inv'
<1>1. TypeOK'
  BY DEF Inv, TypeOK, Ready
<1>2. CommitteesMatch' /\ HeadInTime'
  BY DEF Inv, CommitteesMatch, HeadInTime, Bootstrapped
<1>3. (Ready => Bootstrapped /\ checkpoint <= store.finalized)'
  BY DEF Inv, Ready, Bootstrapped
<1>4. Checkpoints'
  BY DEF Inv, Checkpoints, Ready
<1> QED
  BY <1>1, <1>2, <1>3, <1>4 DEF Inv

\* Every step keeps the invariant.
LEMMA NextInv == Inv /\ [Next]_vars => Inv'
<1> SUFFICES ASSUME Inv, [Next]_vars PROVE Inv'
  OBVIOUS
<1> USE DEF Ready
<1>0. /\ syncing \in BOOLEAN /\ fetched \in 0..MaxUpdates /\ 0 \in 0..MaxUpdates
      /\ (fetched > 0 => fetched - 1 \in 0..MaxUpdates)
  BY LightClientAssumption DEF Inv, TypeOK
<1>1. CASE Bootstrap
  <2>1. checkpoint \in Slot /\ Period(checkpoint) \in Nat
    BY PeriodType DEF Inv, TypeOK
  <2>2. store' = [finalized |-> checkpoint, optimistic |-> checkpoint,
                  current |-> Period(checkpoint), next |-> Absent,
                  previous_max |-> 0, current_max |-> 0]
    BY <1>1, Zenon DEF Bootstrap, DefaultStore
  <2>3. store' \in LightClientStore
    BY <2>1, <2>2, LightClientAssumption DEF LightClientStore, Committee
  <2>4. TypeOK'
    BY <1>1, <2>3 DEF Bootstrap, Inv, TypeOK
  <2>5. CommitteesMatch' /\ HeadInTime' /\ Bootstrapped' /\ (checkpoint <= store.finalized)'
    <3>1. checkpoint' = checkpoint /\ now' = now /\ checkpoint <= now
      BY <1>1 DEF Bootstrap, Inv, Checkpoints
    <3>2. /\ store'.finalized = checkpoint /\ store'.optimistic = checkpoint
          /\ store'.current = Period(checkpoint) /\ store'.next = Absent
      BY <2>2
    <3>3. checkpoint <= checkpoint /\ Period(checkpoint) # Unknown
      BY <2>1, LightClientAssumption DEF Slot, Unknown
    <3> QED
      BY <3>1, <3>2, <3>3 DEF CommitteesMatch, HeadInTime, Bootstrapped
  <2>6. Checkpoints'
    BY <1>1 DEF Bootstrap, Inv, Checkpoints
  <2> QED
    BY <2>4, <2>5, <2>6 DEF Inv
<1>2. CASE Fallback
  <2>1. /\ checkpoint' \in Slot /\ checkpoint <= checkpoint' /\ checkpoint' <= now
    BY <1>2, LightClientAssumption DEF Fallback, Inv, TypeOK, Slot
  <2>2. store' \in LightClientStore
    BY <1>2, LightClientAssumption
    DEF Fallback, DefaultStore, LightClientStore, Committee, Absent, Unknown, Slot
  <2>3. TypeOK'
    BY <1>2, <2>1, <2>2 DEF Fallback, Inv, TypeOK
  <2>4. CommitteesMatch' /\ HeadInTime'
    BY <1>2 DEF Fallback, Inv, TypeOK, CommitteesMatch, HeadInTime, Bootstrapped, DefaultStore, Slot
  <2>5. Checkpoints'
    BY <1>2, <2>1 DEF Fallback, Inv, Checkpoints, TypeOK, Slot
  <2> QED
    BY <1>2, <2>3, <2>4, <2>5 DEF Inv, Fallback
<1>3. ASSUME NEW n \in 0..MaxUpdates, FetchUpdates(n) PROVE Inv'
  BY <1>0, <1>3, PhaseKeepsInv DEF FetchUpdates
<1>4. CASE FetchFails
  BY <1>0, <1>4, PhaseKeepsInv DEF FetchFails, Fail
<1>5. CASE UpdatesApplied
  BY <1>0, <1>5, PhaseKeepsInv DEF UpdatesApplied
<1>6. ASSUME NEW u \in Updates, ApplyUpdate(u) PROVE Inv'
  <2>1. CASE Verified(store, u)
    BY <1>0, <1>6, <2>1, UpdateKeepsInv, DeliveredUpdates DEF ApplyUpdate
  <2>2. CASE ~Verified(store, u)
    BY <1>0, <1>6, <2>2, PhaseKeepsInv DEF ApplyUpdate, Fail
  <2> QED
    BY <2>1, <2>2
<1>7. ASSUME NEW u \in FinalityUpdates, FinalityUpdate(u) PROVE Inv'
  <2>1. CASE Verified(store, u)
    BY <1>0, <1>7, <2>1, UpdateKeepsInv, DeliveredUpdates DEF FinalityUpdate
  <2>2. CASE ~Verified(store, u)
    BY <1>0, <1>7, <2>2, PhaseKeepsInv DEF FinalityUpdate, Fail
  <2> QED
    BY <2>1, <2>2
<1>8. CASE NoFinalityUpdate
  BY <1>0, <1>8, PhaseKeepsInv DEF NoFinalityUpdate
<1>9. ASSUME NEW u \in OptimisticUpdates, OptimisticUpdate(u) PROVE Inv'
  <2>1. CASE Verified(store, u)
    BY <1>0, <1>9, <2>1, UpdateKeepsInv, DeliveredUpdates, ZenonT(30) DEF OptimisticUpdate
  <2>2. CASE ~Verified(store, u)
    BY <1>0, <1>9, <2>2, PhaseKeepsInv DEF OptimisticUpdate, Fail
  <2> QED
    BY <2>1, <2>2
<1>10. CASE NoOptimisticUpdate
  BY <1>0, <1>10, PhaseKeepsInv DEF NoOptimisticUpdate, Fail
<1>11. CASE Advance
  BY <1>0, <1>11, PhaseKeepsInv DEF Advance
<1>12. ASSUME NEW u \in Updates, CommitteeUpdate(u) PROVE Inv'
  <2>1. CASE Verified(store, u)
    BY <1>0, <1>12, <2>1, UpdateKeepsInv, DeliveredUpdates DEF CommitteeUpdate
  <2>2. CASE ~Verified(store, u)
    BY <1>0, <1>12, <2>2, PhaseKeepsInv DEF CommitteeUpdate
  <2> QED
    BY <2>1, <2>2
<1>13. CASE NoCommitteeUpdate
  BY <1>0, <1>13, PhaseKeepsInv DEF NoCommitteeUpdate
<1>14. CASE Shutdown \/ TornShutdown \/ Crash
  <2>1. saved # Absent /\ default # Absent
    BY DEF Inv, TypeOK, Slot, Absent
  <2> QED
    BY <1>0, <1>14, <2>1, PhaseKeepsInv DEF Shutdown, TornShutdown, Crash
<1>15. CASE Start
  <2>1. store' \in LightClientStore
    BY <1>15, LightClientAssumption
    DEF Start, DefaultStore, LightClientStore, Committee, Absent, Unknown, Slot
  <2>2. TypeOK'
    BY <1>0, <1>15, <2>1 DEF Start, Inv, TypeOK
  <2>3. CommitteesMatch' /\ HeadInTime'
    BY <1>15
    DEF Start, Inv, TypeOK, CommitteesMatch, HeadInTime, Bootstrapped, DefaultStore, Slot
  <2>4. Checkpoints'
    BY <1>15 DEF Start, Inv, Checkpoints, TypeOK, Slot
  <2> QED
    BY <1>15, <2>2, <2>3, <2>4 DEF Inv, Start
<1>16. CASE Tick
  <2>1. now' \in Slot /\ now < now'
    BY <1>16, LightClientAssumption DEF Tick, Inv, TypeOK, Slot
  <2>2. TypeOK'
    BY <1>16, <2>1 DEF Tick, Inv, TypeOK
  <2>3. CommitteesMatch' /\ HeadInTime'
    <3>1. store.optimistic \in Slot /\ now \in Slot
      BY DEF Inv, TypeOK, LightClientStore
    <3>2. store' = store /\ CommitteesMatch /\ HeadInTime
      BY <1>16 DEF Tick, Inv
    <3> QED
      BY <2>1, <3>1, <3>2, LightClientAssumption
      DEF CommitteesMatch, HeadInTime, Bootstrapped, Slot
  <2>4. Checkpoints'
    BY <1>16, <2>1 DEF Tick, Inv, Checkpoints, TypeOK, Slot, Absent
  <2> QED
    BY <1>16, <2>2, <2>3, <2>4 DEF Inv, Tick, Bootstrapped
<1>17. CASE UNCHANGED vars
  BY <1>17
  DEF vars, Inv, TypeOK, CommitteesMatch, HeadInTime, Bootstrapped, Checkpoints
<1> QED
  BY <1>1, <1>2, <1>3, <1>4, <1>5, <1>6, <1>7, <1>8, <1>9, <1>10, <1>11, <1>12, <1>13, <1>14,
     <1>15, <1>16, <1>17
  DEF Next, SyncStep, FollowStep

-----------------------------------------------------------------------------
(* The theorems.                                                           *)

THEOREM InvAlways == Spec => []Inv
  BY InitInv, NextInv, PTL DEF Spec

\* Type correctness.
THEOREM TypeCorrect == Spec => []TypeOK
<1>1. Inv => TypeOK
  BY DEF Inv
<1> QED
  BY <1>1, InvAlways, PTL

\* The store always verifies with the committees of the chain: the rotation of
\* apply_generic_update and the checks of verify_generic_update together keep
\* current_sync_committee and next_sync_committee in step with finalized_header.
THEOREM RightCommittees == Spec => []CommitteesMatch
<1>1. Inv => CommitteesMatch
  BY DEF Inv
<1> QED
  BY <1>1, InvAlways, PTL

\* The subtraction in check_head_age never wraps around.
THEOREM HeadAlwaysInTime == Spec => []HeadInTime
<1>1. Inv => HeadInTime
  BY DEF Inv
<1> QED
  BY <1>1, InvAlways, PTL

\* No update, however old, takes a header of a running client back.
THEOREM NoReorg == Spec => HeadersAdvance
<1> DEFINE Forward == Ready => /\ store'.finalized >= store.finalized
                               /\ store'.optimistic >= store.optimistic
<1>1. Inv /\ [Next]_vars => Forward
  <2> SUFFICES ASSUME Inv, [Next]_vars, Ready PROVE Forward
    OBVIOUS
  <2>1. CASE store' = store
    BY <2>1 DEF Inv, TypeOK, LightClientStore, Slot
  <2>2. ASSUME NEW u, IsUpdate(u), Verified(store, u), Apply(u) PROVE Forward
    BY <2>2, ApplyStep
  <2>3. \/ store' = store
        \/ \E u \in Updates : Verified(store, u) /\ Apply(u)
        \/ \E u \in FinalityUpdates : Verified(store, u) /\ Apply(u)
        \/ \E u \in OptimisticUpdates : Verified(store, u) /\ Apply(u)
    BY DEF Next, SyncStep, FollowStep, vars, Ready, Bootstrap, FetchFails, FetchUpdates,
           UpdatesApplied, ApplyUpdate, NoFinalityUpdate, FinalityUpdate, NoOptimisticUpdate,
           OptimisticUpdate, NoCommitteeUpdate, CommitteeUpdate, Fallback, Advance, Shutdown,
           TornShutdown, Crash, Start, Tick
  <2> QED
    BY <2>1, <2>2, <2>3, DeliveredUpdates
<1>2. Inv /\ [Next]_vars => [phase \notin {"down", "bootstrap"} =>
                                /\ store'.finalized >= store.finalized
                                /\ store'.optimistic >= store.optimistic]_vars
  BY <1>1 DEF Ready
<1> QED
  BY <1>2, InvAlways, PTL DEF Spec, HeadersAdvance

\* A restart never begins before the checkpoint of an earlier run, except at the
\* default after a torn write.
THEOREM SavedForward == Spec => SavedAdvances
<1>1. Inv /\ [Next]_vars => [saved' >= saved \/ saved' = default]_vars
  <2> SUFFICES ASSUME Inv, [Next]_vars PROVE saved' >= saved \/ saved' = default
    OBVIOUS
  <2>1. \/ saved' = saved
        \/ saved' = default
        \/ phase = "idle" /\ last_checkpoint # Absent /\ saved' = last_checkpoint
    BY DEF Next, SyncStep, FollowStep, vars, Bootstrap, FetchFails, FetchUpdates,
           UpdatesApplied, ApplyUpdate, NoFinalityUpdate, FinalityUpdate, NoOptimisticUpdate,
           OptimisticUpdate, NoCommitteeUpdate, CommitteeUpdate, Fallback, Advance, Shutdown,
           TornShutdown, Crash, Start, Tick
  <2> QED
    BY <2>1 DEF Inv, Checkpoints, TypeOK, Slot
<1> QED
  BY <1>1, InvAlways, PTL DEF Spec, SavedAdvances

=============================================================================
