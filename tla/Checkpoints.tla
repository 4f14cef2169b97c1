---------------------------- MODULE Checkpoints ----------------------------
(***************************************************************************)
(* Where the light client takes a checkpoint from when its own is too old: *)
(* the service that was configured, or else the healthy ones of a public   *)
(* list, by a vote.                                                        *)
(*                                                                         *)
(* A service answers with slots, newest first: an epoch and the root of    *)
(* its block, or NoRoot.  A service of the list that cannot be reached has *)
(* no slots; the state of one that was configured tells if it is reached.  *)
(***************************************************************************)
EXTENDS Integers, Sequences, FiniteSets, SequencesExt, FiniteSetsExt

NoRoot == 0
Panics == -1

HealthyServices(services) == SelectSeq(services, LAMBDA s : s.state)

\* The first slot of an answer that has a root.
SlotsWithRoot(slots) == SelectSeq(slots, LAMBDA s : s.root # NoRoot)

\* The roots that may be returned: of those that most services name for the
\* newest epoch, the one that the hash map yields last; none is an error.
FetchLatestCheckpointFromServices(services) ==
    LET voting == {i \in DOMAIN services : SlotsWithRoot(services[i].slots) # <<>>}
        vote == [i \in voting |-> Head(SlotsWithRoot(services[i].slots))]
        newest == {i \in voting : \A j \in voting : vote[j].epoch <= vote[i].epoch}
        Votes(root) == Cardinality({i \in newest : vote[i].root = root})
        named == {vote[i].root : i \in newest}
    IN  {r \in named : \A q \in named : Votes(q) <= Votes(r)}

\* The list is built from a document with the services of both networks.
FetchLatestCheckpoint(document, chain) ==
    IF {"mainnet", "goerli"} \subseteq DOMAIN document
    THEN FetchLatestCheckpointFromServices(HealthyServices(document[chain])) ELSE {}

\* The first slot decides, and there has to be one.
FetchCheckpointFromApi(service) ==
    CASE ~service.state -> NoRoot
      [] service.state /\ service.slots = <<>> -> Panics
      [] service.state /\ service.slots # <<>> -> service.slots[1].root

\* The checkpoints that a client whose own is too old may go on with: that of its
\* fallbacks (at most one), and if this fails, one of the services.  synced are
\* the checkpoints that a client can sync from.
BootCheckpoints(fallbacks, external, document, chain, synced) ==
    LET own == IF fallbacks = <<>> THEN NoRoot ELSE FetchCheckpointFromApi(fallbacks[1])
    IN  CASE own = Panics -> {}
          [] own # Panics /\ own # NoRoot /\ own \in synced -> {own}
          [] own # Panics /\ (own = NoRoot \/ own \notin synced) ->
                IF external THEN FetchLatestCheckpoint(document, chain) \cap synced ELSE {}

=============================================================================
