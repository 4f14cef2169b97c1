---------------------------- MODULE LightClient ----------------------------
(***************************************************************************)
(* The consensus light client (light-client/src/consensus and client.rs):  *)
(* syncing from a checkpoint, following the head, rotating the sync        *)
(* committees, and the checkpoint that survives a restart.                 *)
(*                                                                         *)
(* The beacon chain is external: its header at a slot is named by the slot *)
(* and the sync committee of a period by the period.  Merkle branches and  *)
(* signatures are abstracted to whether they are genuine; a genuine        *)
(* signature is that of the committee of the update's signature slot.      *)
(* The node's lock is held through a whole sync or advance, but both wait  *)
(* for the network between their steps and time goes on.                   *)
(***************************************************************************)
EXTENDS Integers

CONSTANTS
    SlotsPerPeriod,  \* 8192 in the code
    SlotsPerEpoch,   \* 32 in the code
    CommitteeSize,   \* 512 in the code
    MaxSlot,         \* a bound on the slots of the chain
    MaxUpdates       \* a bound on the updates fetched in one sync

Slot == 0..MaxSlot

ASSUME LightClientAssumption ==
    /\ SlotsPerPeriod \in Nat \ {0}
    /\ SlotsPerEpoch \in Nat \ {0}
    /\ CommitteeSize \in Nat
    /\ MaxSlot \in Nat
    /\ MaxUpdates \in Nat

\* calc_sync_period
Period(slot) == slot \div SlotsPerPeriod

Absent == -1     \* a header, committee or checkpoint that is not there
Unknown == -2    \* the default committee, or one that is not the chain's

Committee == {Absent, Unknown} \cup Nat

LightClientStore ==
    [finalized : Slot, optimistic : Slot, current : Committee, next : Committee,
     previous_max : 0..CommitteeSize, current_max : 0..CommitteeSize]

VARIABLES
    now,               \* expected_current_slot
    store,
    phase,             \* down, or the step of sync or advance that comes next; idle
    syncing,           \* is it a step of sync?
    fetched,           \* updates of this sync that are still to be applied
    checkpoint,        \* initial_checkpoint
    last_checkpoint,
    saved,             \* the checkpoint that load_checkpoint finds
    default            \* default_checkpoint of the configuration

vars == <<now, store, phase, syncing, fetched, checkpoint, last_checkpoint, saved, default>>

TypeOK ==
    /\ now \in Slot
    /\ store \in LightClientStore
    /\ phase \in {"down", "bootstrap", "fetch", "updates", "finality", "optimistic",
                  "committee", "idle"}
    /\ syncing \in BOOLEAN
    /\ fetched \in 0..MaxUpdates
    /\ checkpoint \in Slot
    /\ last_checkpoint \in Slot \cup {Absent}
    /\ saved \in Slot
    /\ default \in Slot

DefaultStore ==
    [finalized |-> 0, optimistic |-> 0, current |-> Unknown, next |-> Absent,
     previous_max |-> 0, current_max |-> 0]

-----------------------------------------------------------------------------
(* verify_generic_update and apply_generic_update.                         *)

FinalizedSlot(u) == IF u.finalized = Absent THEN 0 ELSE u.finalized

\* Faulty: does not compare the signature slot with the clock.
ValidTime_AnyTime(u) == u.signature > u.attested /\ u.attested >= FinalizedSlot(u)

ValidTime(u) ==
    /\ now >= u.signature
    /\ u.signature > u.attested
    /\ u.attested >= FinalizedSlot(u)

ValidPeriod(s, u) ==
    \/ Period(u.signature) = Period(s.finalized)
    \/ s.next # Absent /\ Period(u.signature) = Period(s.finalized) + 1

\* Faulty: a next committee makes any update relevant.
Relevant_AnyPeriod(s, u) ==
    \/ u.attested > s.finalized
    \/ s.next = Absent /\ u.next # Absent

Relevant(s, u) ==
    \/ u.attested > s.finalized
    \/ s.next = Absent /\ u.next # Absent /\ Period(u.attested) = Period(s.finalized)

\* get_participating_keys and the signature check, with the committee in charge
SignatureValid(s, u) ==
    /\ u.genuine
    /\ Period(u.signature) = IF Period(u.signature) = Period(s.finalized) THEN s.current ELSE s.next

Verified(s, u) ==
    u.bits # 0 /\ ValidTime(u) /\ ValidPeriod(s, u) /\ Relevant(s, u) /\ SignatureValid(s, u)

Larger(a, b) == IF a > b THEN a ELSE b

HasFinalizedNextCommittee(s, u) ==
    /\ s.next = Absent /\ u.next # Absent /\ u.finalized # Absent
    /\ Period(FinalizedSlot(u)) = Period(u.attested)

ShouldApply(s, u) ==
    /\ u.bits * 3 >= CommitteeSize * 2
    /\ FinalizedSlot(u) > s.finalized \/ HasFinalizedNextCommittee(s, u)

\* Participation first: the safety threshold already counts this update.
WithOptimistic(s, u) ==
    LET max == Larger(s.current_max, u.bits)
        safety_threshold == Larger(max, s.previous_max) \div 2
    IN  [s EXCEPT !.current_max = max,
                  !.optimistic = IF u.bits > safety_threshold THEN Larger(@, u.attested) ELSE @]

\* The first committee that is found, or the rotation into the next period.
WithCommittees(s, u) ==
    IF s.next = Absent
    THEN [s EXCEPT !.next = u.next]
    ELSE IF Period(FinalizedSlot(u)) = Period(s.finalized) + 1
    THEN [s EXCEPT !.current = s.next, !.next = u.next,
                   !.previous_max = s.current_max, !.current_max = 0]
    ELSE s

\* Faulty: takes the finalized header of an update as it is.
WithFinalized_Always(s, u) ==
    [s EXCEPT !.finalized = FinalizedSlot(u), !.optimistic = Larger(@, FinalizedSlot(u))]

WithFinalized(s, u) ==
    IF FinalizedSlot(u) > s.finalized
    THEN [s EXCEPT !.finalized = FinalizedSlot(u), !.optimistic = Larger(@, FinalizedSlot(u))]
    ELSE s

Applied(s, u) ==
    LET t == WithOptimistic(s, u)
    IN  IF ShouldApply(s, u) THEN WithFinalized(WithCommittees(t, u), u) ELSE t

\* Only a finalized header at an epoch boundary can serve as a checkpoint.
NewCheckpoint(s, t) ==
    IF t.finalized > s.finalized /\ t.finalized % SlotsPerEpoch = 0 THEN t.finalized
                                                                    ELSE last_checkpoint

Apply(u) ==
    /\ store' = Applied(store, u)
    /\ last_checkpoint' = NewCheckpoint(store, store')

-----------------------------------------------------------------------------
(* What the network may deliver.                                           *)

\* The committee that an update of this kind brings along: its proof is
\* against the attested header.
NextOf(attested, genuine) == IF genuine THEN Period(attested) + 1 ELSE Unknown

Updates ==
    {u \in [attested : Slot, signature : Slot, finalized : Slot, next : {Absent, Unknown} \cup
               {Period(s) + 1 : s \in Slot}, bits : 0..CommitteeSize, genuine : BOOLEAN] :
       u.next = NextOf(u.attested, u.genuine)}

FinalityUpdates ==
    [attested : Slot, signature : Slot, finalized : Slot, next : {Absent},
     bits : 0..CommitteeSize, genuine : BOOLEAN]

OptimisticUpdates ==
    [attested : Slot, signature : Slot, finalized : {Absent}, next : {Absent},
     bits : 0..CommitteeSize, genuine : BOOLEAN]

-----------------------------------------------------------------------------
(* sync.                                                                   *)

Init ==
    /\ now \in Slot
    /\ store = DefaultStore
    /\ phase = "bootstrap"
    /\ syncing = TRUE
    /\ fetched = 0
    /\ checkpoint \in 0..now
    /\ last_checkpoint = Absent
    /\ saved = checkpoint
    /\ default = checkpoint

\* An error ends the operation: a sync is begun again, an advance waits for
\* the next slot.
Fail == phase' = IF syncing THEN "bootstrap" ELSE "idle"

\* bootstrap: the header is the one the checkpoint is the hash of, and its
\* committee has a valid proof.  Anything else changes nothing and is an error.
Bootstrap ==
    /\ phase = "bootstrap"
    /\ store' = [DefaultStore EXCEPT !.finalized = checkpoint, !.optimistic = checkpoint,
                                     !.current = Period(checkpoint)]
    /\ phase' = "fetch"
    /\ UNCHANGED <<now, syncing, fetched, checkpoint, last_checkpoint, saved, default>>

\* boot_from_fallback and boot_from_external_fallbacks: the checkpoint is too old;
\* a service names a more recent one and the client is built anew.
Fallback ==
    /\ phase = "bootstrap"
    /\ \E h \in checkpoint..now : checkpoint' = h
    /\ store' = DefaultStore
    /\ last_checkpoint' = Absent
    /\ UNCHANGED <<now, phase, syncing, fetched, saved, default>>

\* All updates are fetched before the first one is applied.
FetchUpdates(n) ==
    /\ phase = "fetch"
    /\ fetched' = n
    /\ phase' = "updates"
    /\ UNCHANGED <<now, store, syncing, checkpoint, last_checkpoint, saved, default>>

FetchFails ==
    /\ phase = "fetch"
    /\ Fail
    /\ UNCHANGED <<now, store, syncing, fetched, checkpoint, last_checkpoint, saved, default>>

ApplyUpdate(u) ==
    /\ phase = "updates"
    /\ fetched > 0
    /\ IF Verified(store, u)
       THEN Apply(u) /\ fetched' = fetched - 1 /\ UNCHANGED phase
       ELSE Fail /\ fetched' = 0 /\ UNCHANGED <<store, last_checkpoint>>
    /\ UNCHANGED <<now, syncing, checkpoint, saved, default>>

UpdatesApplied ==
    /\ phase = "updates"
    /\ fetched = 0
    /\ phase' = "finality"
    /\ UNCHANGED <<now, store, syncing, fetched, checkpoint, last_checkpoint, saved, default>>

-----------------------------------------------------------------------------
(* The steps that sync and advance share.                                  *)

FinalityUpdate(u) ==
    /\ phase = "finality"
    /\ IF Verified(store, u) THEN Apply(u) /\ phase' = "optimistic"
                             ELSE Fail /\ UNCHANGED <<store, last_checkpoint>>
    /\ UNCHANGED <<now, syncing, fetched, checkpoint, saved, default>>

\* A finality update that is not found is passed over.
NoFinalityUpdate ==
    /\ phase = "finality"
    /\ phase' = "optimistic"
    /\ UNCHANGED <<now, store, syncing, fetched, checkpoint, last_checkpoint, saved, default>>

OptimisticUpdate(u) ==
    /\ phase = "optimistic"
    /\ IF Verified(store, u)
       THEN /\ Apply(u)
            /\ phase' = IF ~syncing /\ store'.next = Absent THEN "committee" ELSE "idle"
            /\ syncing' = FALSE
       ELSE Fail /\ UNCHANGED <<store, last_checkpoint, syncing>>
    /\ UNCHANGED <<now, fetched, checkpoint, saved, default>>

\* Faulty: tries again at once.
NoOptimisticUpdate_Retries ==
    /\ phase = "optimistic"
    /\ phase' = "finality"
    /\ UNCHANGED <<now, store, syncing, fetched, checkpoint, last_checkpoint, saved, default>>

\* An optimistic update that is not found is an error.
NoOptimisticUpdate ==
    /\ phase = "optimistic"
    /\ Fail
    /\ UNCHANGED <<now, store, syncing, fetched, checkpoint, last_checkpoint, saved, default>>

-----------------------------------------------------------------------------
(* advance, and the life of the client.                                    *)

Advance ==
    /\ phase = "idle"
    /\ phase' = "finality"
    /\ UNCHANGED <<now, store, syncing, fetched, checkpoint, last_checkpoint, saved, default>>

\* The update is applied if it is valid, and not an error if it is not.
CommitteeUpdate(u) ==
    /\ phase = "committee"
    /\ phase' = "idle"
    /\ IF Verified(store, u) THEN Apply(u) ELSE UNCHANGED <<store, last_checkpoint>>
    /\ UNCHANGED <<now, syncing, fetched, checkpoint, saved, default>>

NoCommitteeUpdate ==
    /\ phase = "committee"
    /\ phase' = "idle"
    /\ UNCHANGED <<now, store, syncing, fetched, checkpoint, last_checkpoint, saved, default>>

\* Faulty: without a new checkpoint the file is emptied.
Shutdown_Empties ==
    /\ phase = "idle"
    /\ phase' = "down"
    /\ saved' = IF last_checkpoint = Absent THEN 0 ELSE last_checkpoint
    /\ UNCHANGED <<now, store, syncing, fetched, checkpoint, last_checkpoint, default>>

\* shutdown reads the node, so it waits for a running sync or advance.
Shutdown ==
    /\ phase = "idle"
    /\ phase' = "down"
    /\ saved' = IF last_checkpoint = Absent THEN saved ELSE last_checkpoint
    /\ UNCHANGED <<now, store, syncing, fetched, checkpoint, last_checkpoint, default>>

\* save_checkpoint truncates the file before it writes; a process that dies between
\* leaves a file that load_checkpoint passes over for the default.
TornShutdown ==
    /\ phase = "idle"
    /\ last_checkpoint # Absent
    /\ phase' = "down"
    /\ saved' = default
    /\ UNCHANGED <<now, store, syncing, fetched, checkpoint, last_checkpoint, default>>

Crash ==
    /\ phase # "down"
    /\ phase' = "down"
    /\ UNCHANGED <<now, store, syncing, fetched, checkpoint, last_checkpoint, saved, default>>

\* Client::new without a checkpoint in its configuration
Start ==
    /\ phase = "down"
    /\ phase' = "bootstrap"
    /\ store' = DefaultStore
    /\ checkpoint' = saved
    /\ last_checkpoint' = Absent
    /\ syncing' = TRUE
    /\ fetched' = 0
    /\ UNCHANGED <<now, saved, default>>

Tick ==
    /\ now < MaxSlot
    /\ now' = now + 1
    /\ UNCHANGED <<store, phase, syncing, fetched, checkpoint, last_checkpoint, saved, default>>

SyncStep ==
    \/ Bootstrap
    \/ FetchFails \/ \E n \in 0..MaxUpdates : FetchUpdates(n)
    \/ UpdatesApplied \/ (fetched > 0 /\ \E u \in Updates : ApplyUpdate(u))

\* A finality, optimistic or committee update is asked for, in this order.
Following == phase \in {"finality", "optimistic", "committee"}

FollowStep ==
    /\ Following
    /\ \/ NoFinalityUpdate \/ \E u \in FinalityUpdates : FinalityUpdate(u)
       \/ NoOptimisticUpdate \/ \E u \in OptimisticUpdates : OptimisticUpdate(u)
       \/ NoCommitteeUpdate \/ \E u \in Updates : CommitteeUpdate(u)

Next == SyncStep \/ FollowStep \/ Fallback \/ Advance \/ Shutdown \/ TornShutdown \/ Crash \/ Start \/ Tick

Spec == Init /\ [][Next]_vars

\* Every fetch of an advance is answered, with an update or an error.
Fairness == WF_vars(FollowStep)

-----------------------------------------------------------------------------
(* Properties.                                                             *)

Bootstrapped == store.current # Unknown

\* The committees the store verifies signatures with are those of the period of
\* its finalized header and of the one after it, through every rotation, update at
\* a period boundary, failed sync and restart.
CommitteesMatch ==
    Bootstrapped =>
        /\ store.current = Period(store.finalized)
        /\ store.next \in {Absent, Period(store.finalized) + 1}

\* The head is never behind the finalized header and never ahead of the clock, so
\* the unsigned subtraction of check_head_age cannot wrap.
HeadInTime == store.finalized <= store.optimistic /\ store.optimistic <= now

\* Within one sync and all the advances after it neither header goes back,
\* however old the updates are that the network delivers.
HeadersAdvance ==
    [][phase \notin {"down", "bootstrap"} =>
          /\ store'.finalized >= store.finalized
          /\ store'.optimistic >= store.optimistic]_vars

\* Across shutdowns, crashes and fallbacks the checkpoint on disk only moves
\* forward, except that a torn write takes it back to the default.
SavedAdvances == [][saved' >= saved \/ saved' = default]_vars

\* An advance gives back the lock on the node, whatever is found on the network.
AdvanceEnds == Following ~> phase \in {"idle", "bootstrap", "down"}

=============================================================================
