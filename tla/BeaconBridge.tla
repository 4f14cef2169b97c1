---------------------------- MODULE BeaconBridge ----------------------------
(***************************************************************************)
(* The beacon bridge: once a slot it asks its consensus provider for the   *)
(* newest light client data, in four concurrent tasks, gossips what it has *)
(* not served yet, and remembers the period, the finalized root and the    *)
(* finalized slot that it served.  The round ends when all four tasks do.  *)
(* The provider may fail, and may answer from behind, as one does that     *)
(* balances over several nodes.  A block root is the slot of its block.    *)
(* A task that gossips may fail after some portal clients had the content: *)
(* it then returns what it was given, and a later round serves again.      *)
(***************************************************************************)
EXTENDS Naturals, Sequences, FiniteSets, Results

CONSTANTS
    MaxPeriod,          \* bound on the clock
    SLOTS_PER_PERIOD,
    MaxRounds,          \* bound on the rounds
    MaxPartial          \* bound on how often the gossip of a task fails halfway

ASSUME BeaconAssumption == MaxPeriod \in Nat /\ SLOTS_PER_PERIOD \in Nat \ {0}

VARIABLES
    clock,      \* the current period by the clock of the host
    final,      \* the finalized slot of the chain
    known,      \* the period, the root and the finalized slot served last
    running,    \* the tasks of the round that have not ended
    expected,   \* the period the update task read off the clock, None before
    result,     \* what the tasks of the round return
    round,      \* how many rounds were begun
    served      \* what each task gossiped, in order: its key, the slot it is about, and
                \* whether all portal clients had it

bbvars == <<clock, final, known, running, expected, result, round, served>>

Task == {"bootstrap", "update", "finality", "optimistic"}
PeriodOf(slot) == slot \div SLOTS_PER_PERIOD
LastSlot == (MaxPeriod + 1) * SLOTS_PER_PERIOD - 1

\* serve_latest is first called with the empty root and zeros.
BBInit ==
    /\ final \in 1..LastSlot
    /\ clock \in PeriodOf(final)..MaxPeriod
    /\ known = [period |-> 0, root |-> None, slot |-> 0]
    /\ running = {}
    /\ expected = None
    /\ result = known
    /\ round = 0
    /\ served = [t \in Task |-> <<>>]

\* External: the chain finalizes; the clock is in its period or ahead of it.
Finalize ==
    /\ final < LastSlot
    /\ final' = final + 1
    /\ clock' \in {p \in clock..MaxPeriod : p >= PeriodOf(final')}
    /\ UNCHANGED <<known, running, expected, result, round, served>>

ServeLatest ==
    /\ running = {}
    /\ result = known
    /\ round < MaxRounds
    /\ round' = round + 1
    /\ running' = Task
    /\ UNCHANGED <<clock, final, known, expected, result, served>>

\* All four are awaited, then what they return is what is known.
Joined ==
    /\ running = {}
    /\ result # known
    /\ known' = result
    /\ UNCHANGED <<clock, final, running, expected, result, round, served>>

Content(key, slot, complete) == [key |-> key, slot |-> slot, complete |-> complete]

Ends(t, new, contents) ==
    /\ t \in running
    /\ running' = running \ {t}
    /\ expected' = IF t = "update" THEN None ELSE expected
    /\ result' = new
    /\ served' = [served EXCEPT ![t] = @ \o contents]
    /\ UNCHANGED <<clock, final, known, round>>

\* A task whose request fails returns what it was given.
TaskFails(t) == Ends(t, result, <<>>)

\* gossip_beacon_content asks one client after the other, and the task takes over what
\* it served once it has asked them all.
Gossips(t, new, key, slot) ==
    \/ Ends(t, new, <<Content(key, slot, TRUE)>>)
    \/ /\ Cardinality({i \in DOMAIN served[t] : ~served[t][i].complete}) < MaxPartial
       /\ Ends(t, result, <<Content(key, slot, FALSE)>>)

\* A bootstrap is served when the root is another one than the one known.
ServeLightClientBootstrap(root) ==
    \/ known.root = root /\ Ends("bootstrap", result, <<>>)
    \/ known.root # root /\ Gossips("bootstrap", [result EXCEPT !.root = root], root, root)

\* The update task reads the clock before it asks, and asks for a new period only.
ExpectPeriod ==
    /\ "update" \in running /\ expected = None
    /\ \/ clock <= known.period /\ Ends("update", result, <<>>)
       \/ /\ clock > known.period /\ expected' = clock
          /\ UNCHANGED <<clock, final, known, running, result, round, served>>

\* Faulty: the update is served whatever period it finalizes in.
ServeLightClientUpdate_AnyPeriod(slot) ==
    /\ expected # None
    /\ Gossips("update", [result EXCEPT !.period = expected], expected, slot)

\* The update for the period that was read, once it finalizes in that period.
ServeLightClientUpdate(slot) ==
    /\ expected # None
    /\ \/ PeriodOf(slot) # expected /\ Ends("update", result, <<>>)
       \/ /\ PeriodOf(slot) = expected
          /\ Gossips("update", [result EXCEPT !.period = expected], expected, slot)

\* A finalized slot below the known one is an error.
ServeLightClientFinalityUpdate(slot) ==
    \/ slot <= known.slot /\ Ends("finality", result, <<>>)
    \/ slot > known.slot /\ Gossips("finality", [result EXCEPT !.slot = slot], slot, slot)

ServeLightClientOptimisticUpdate(slot) == Gossips("optimistic", result, slot, slot)

BBNext ==
    \/ Finalize
    \/ ServeLatest
    \/ Joined
    \/ \E t \in Task : TaskFails(t)
    \/ ExpectPeriod
    \/ \E slot \in 1..final : \/ ServeLightClientBootstrap(slot)
                              \/ ServeLightClientUpdate(slot)
                              \/ ServeLightClientFinalityUpdate(slot)
    \/ ServeLightClientOptimisticUpdate(final)

BBSpec == BBInit /\ [][BBNext]_bbvars

-----------------------------------------------------------------------------
\* A light client that follows the bridge is never led astray: the updates that
\* are gossiped are each in the period they are filed under, also when the clock
\* moves on while the provider is asked; and once an update or a finality update
\* was handed to all portal clients, neither it nor an older one is gossiped again,
\* however the provider lags and whichever gossip failed halfway
\* (serve_light_client_update, serve_light_client_finality_update).
BeaconServedInOrder ==
    /\ \A i \in DOMAIN served["update"] :
            PeriodOf(served["update"][i].slot) = served["update"][i].key
    /\ \A t \in {"update", "finality"} : \A i, j \in DOMAIN served[t] :
            i < j /\ served[t][i].complete => served[t][i].key < served[t][j].key

=============================================================================
