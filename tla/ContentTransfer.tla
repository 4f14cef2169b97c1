-------------------------- MODULE ContentTransfer --------------------------
(***************************************************************************)
(* OFFER, ACCEPT and the uTP transfer that follows                         *)
(* (portalnet/src/overlay_service.rs): offers of content that reach one    *)
(* node at the same time, each with the task that offers and the tasks the *)
(* node spawns to receive, validate, store and pass on what it accepted.   *)
(*                                                                         *)
(* A content key is named by its distance to the accepting node.  uTP and  *)
(* discv5 are external: a request gets one answer or an error, a           *)
(* connection is made or not, a payload arrives whole or not at all.       *)
(***************************************************************************)
EXTENDS Integers, FiniteSets, Sequences, Functions

CONSTANTS
    MaxContentDistance,     \* content keys are at the distances 0..MaxContentDistance
    Offers,                 \* the offers made to the node
    OfferedKeys             \* the sequences of content keys an offer may name

Content == 0..MaxContentDistance

ASSUME TransferAssumption ==
    /\ MaxContentDistance \in Nat
    /\ OfferedKeys \subseteq Seq(Content)

\* A populated offer carries its content, and one with a result also a channel for
\* the outcome.  Request::Offer takes the content from the store once it is
\* accepted; it stands with PopulatedOffer, as SendFails covers content that is gone.
Kinds == {"PopulatedOffer", "PopulatedOfferWithResult"}

\* A value that is not the content its key asks for.
Junk == -1

VARIABLES
    radius,     \* of the accepting node
    stored,     \* the keys in its store
    kind,       \* of an offer: the request
    keys,       \* the content keys of the request
    items,      \* what the offering node has for these keys
    out,        \* the offering side: new, waiting, connecting, sending, closed
    inb,        \* the accepting side: idle, checking, answered, listening,
                \* reading, received, storing, dropped, done
    bits,       \* requested_keys, as far as they are set
    reply,      \* the answer to the request: none, accept or error
    payload,    \* the values that arrived
    task,       \* per value: validate, check, put, valid or invalid
    results,    \* what was sent on result_tx
    propagated  \* the content handed to the gossip

tvars == <<radius, stored, kind, keys, items, out, inb, bits, reply, payload, task,
           results, propagated>>

request  == <<kind, keys, items>>
transfer == <<payload, task, propagated>>

TTypeOK ==
    /\ radius \in Content
    /\ stored \subseteq Content
    /\ \A o \in Offers :
          /\ kind[o] \in Kinds
          /\ keys[o] \in Seq(Content)
          /\ items[o] \in Seq(Content \cup {Junk}) /\ Len(items[o]) = Len(keys[o])
          /\ out[o] \in {"new", "waiting", "connecting", "sending", "closed"}
          /\ inb[o] \in {"idle", "checking", "answered", "listening", "reading",
                         "received", "storing", "dropped", "done"}
          /\ bits[o] \in Seq(BOOLEAN) /\ Len(bits[o]) <= Len(keys[o])
          /\ reply[o] \in {"none", "accept", "error"}
          /\ payload[o] \in Seq(Content \cup {Junk})
          /\ DOMAIN task[o] \subseteq DOMAIN keys[o]
          /\ Range(task[o]) \subseteq {"validate", "check", "put", "valid", "invalid"}
          /\ results[o] \in Seq(BOOLEAN)
          /\ propagated[o] \subseteq Content

TInit ==
    /\ radius \in Content
    /\ stored = {}
    /\ kind = [o \in Offers |-> "PopulatedOffer"]
    /\ keys = [o \in Offers |-> <<>>]
    /\ items = [o \in Offers |-> <<>>]
    /\ out = [o \in Offers |-> "new"]
    /\ inb = [o \in Offers |-> "idle"]
    /\ bits = [o \in Offers |-> <<>>]
    /\ reply = [o \in Offers |-> "none"]
    /\ payload = [o \in Offers |-> <<>>]
    /\ task = [o \in Offers |-> <<>>]
    /\ results = [o \in Offers |-> <<>>]
    /\ propagated = [o \in Offers |-> {}]

-----------------------------------------------------------------------------
(* The request and its answer.                                             *)

\* An OFFER is sent.  Nothing validates content that a caller asks to gossip,
\* so what the offering node has need not be what the key asks for.
SendOffer(o, k, ks, genuine) ==
    /\ out[o] = "new"
    /\ k = "PopulatedOfferWithResult" => Len(ks) = 1
    /\ kind' = [kind EXCEPT ![o] = k]
    /\ keys' = [keys EXCEPT ![o] = ks]
    /\ items' = [items EXCEPT ![o] = [i \in DOMAIN ks |-> IF ks[i] \in genuine THEN ks[i]
                                                                            ELSE Junk]]
    /\ out' = [out EXCEPT ![o] = "waiting"]
    /\ inb' = [inb EXCEPT ![o] = "checking"]
    /\ UNCHANGED <<radius, stored, bits, reply, results, transfer>>

\* is_key_within_radius_and_unavailable
Wanted(d) == d <= radius /\ d \notin stored

\* handle_offer decides key by key, each under a read lock of its own.
CheckKey(o) ==
    /\ inb[o] = "checking"
    /\ Len(bits[o]) < Len(keys[o])
    /\ bits' = [bits EXCEPT ![o] = Append(@, Wanted(keys[o][Len(@) + 1]))]
    /\ UNCHANGED <<radius, stored, request, out, inb, reply, results, transfer>>

\* The answer: nothing is wanted, or a task listens for the connection.
AnswerOffer(o) ==
    /\ inb[o] = "checking"
    /\ Len(bits[o]) = Len(keys[o])
    /\ reply' = [reply EXCEPT ![o] = "accept"]
    /\ inb' = [inb EXCEPT ![o] = IF TRUE \in Range(bits[o]) THEN "listening" ELSE "answered"]
    /\ UNCHANGED <<radius, stored, request, out, bits, results, transfer>>

\* A key cannot be decoded, the store cannot be read, or the ENR of the offering
\* node is not at hand.
RefuseOffer(o) ==
    /\ inb[o] = "checking"
    /\ reply' = [reply EXCEPT ![o] = "error"]
    /\ inb' = [inb EXCEPT ![o] = "answered"]
    /\ UNCHANGED <<radius, stored, request, out, bits, results, transfer>>

\* gossip_result_tx, where the request has one
SendResult(o, success) ==
    results' = [results EXCEPT
                  ![o] = IF kind[o] = "PopulatedOfferWithResult" THEN Append(@, success) ELSE @]

\* process_accept up to the task it spawns
ProcessAccept(o) ==
    /\ out[o] = "waiting"
    /\ reply[o] = "accept"
    /\ IF TRUE \in Range(bits[o])
       THEN out' = [out EXCEPT ![o] = "connecting"] /\ UNCHANGED results
       ELSE out' = [out EXCEPT ![o] = "closed"] /\ SendResult(o, FALSE)
    /\ UNCHANGED <<radius, stored, request, inb, bits, reply, transfer>>

\* process_request_failure: an error came back, or nothing did in time.
OfferFails(o) ==
    /\ out[o] = "waiting"
    /\ out' = [out EXCEPT ![o] = "closed"]
    /\ UNCHANGED <<radius, stored, request, inb, bits, reply, results, transfer>>

-----------------------------------------------------------------------------
(* The connection.                                                         *)

Connect(o) ==
    /\ out[o] = "connecting" /\ inb[o] = "listening"
    /\ out' = [out EXCEPT ![o] = "sending"]
    /\ inb' = [inb EXCEPT ![o] = "reading"]
    /\ UNCHANGED <<radius, stored, request, bits, reply, results, transfer>>

ConnectFails(o) ==
    /\ out[o] = "connecting"
    /\ out' = [out EXCEPT ![o] = "closed"]
    /\ SendResult(o, FALSE)
    /\ UNCHANGED <<radius, stored, request, inb, bits, reply, transfer>>

\* Faulty: waits for the connection without a timeout.
ListenFails_Never(o) == FALSE

ListenFails(o) ==
    /\ inb[o] = "listening"
    /\ inb' = [inb EXCEPT ![o] = "done"]
    /\ UNCHANGED <<radius, stored, request, out, bits, reply, results, transfer>>

\* The values of the accepted keys, in the order of the offer.
AcceptedItems(o) ==
    LET place(n) == CHOOSE i \in DOMAIN bits[o] :
                       bits[o][i] /\ Cardinality({j \in 1..i : bits[o][j]}) = n
    IN  [n \in 1..Cardinality({i \in DOMAIN bits[o] : bits[o][i]}) |-> items[o][place(n)]]

SendSucceeds(o) ==
    /\ out[o] = "sending" /\ inb[o] = "reading"
    /\ out' = [out EXCEPT ![o] = "closed"]
    /\ inb' = [inb EXCEPT ![o] = "received"]
    /\ payload' = [payload EXCEPT ![o] = AcceptedItems(o)]
    /\ SendResult(o, TRUE)
    /\ UNCHANGED <<radius, stored, request, bits, reply, task, propagated>>

\* Faulty: goes on after the failure was reported.
SendFails_NoReturn(o) ==
    /\ out[o] = "sending" /\ inb[o] = "reading"
    /\ out' = [out EXCEPT ![o] = "closed"]
    /\ inb' = [inb EXCEPT ![o] = "done"]
    /\ results' = [results EXCEPT ![o] = @ \o <<FALSE, TRUE>>]
    /\ UNCHANGED <<radius, stored, request, bits, reply, transfer>>

\* The offered content is gone from the store, writing fails, or closing does.
\* The other side sees an error, an empty stream, or the whole payload.
SendFails(o) ==
    /\ out[o] = "sending" /\ inb[o] = "reading"
    /\ out' = [out EXCEPT ![o] = "closed"]
    /\ \/ inb' = [inb EXCEPT ![o] = "done"] /\ UNCHANGED payload
       \/ inb' = [inb EXCEPT ![o] = "received"] /\ UNCHANGED payload
       \/ /\ inb' = [inb EXCEPT ![o] = "received"]
          /\ payload' = [payload EXCEPT ![o] = AcceptedItems(o)]
    /\ SendResult(o, FALSE)
    /\ UNCHANGED <<radius, stored, request, bits, reply, task, propagated>>

-----------------------------------------------------------------------------
(* process_accept_utp_payload.                                             *)

\* The payload is compared with all of the keys that were offered.
ProcessPayload(o) ==
    /\ inb[o] = "received"
    /\ IF Len(payload[o]) # Len(keys[o])
       THEN inb' = [inb EXCEPT ![o] = "dropped"] /\ UNCHANGED task
       ELSE /\ inb' = [inb EXCEPT ![o] = "storing"]
            /\ task' = [task EXCEPT ![o] = [i \in DOMAIN keys[o] |-> "validate"]]
    /\ UNCHANGED <<radius, stored, request, out, bits, reply, payload, results, propagated>>

SetTask(o, i, state) == task' = [task EXCEPT ![o][i] = state]

\* The validator may fail for reasons of its own, such as a lookup it needs.
Validate(o, i) ==
    /\ i \in DOMAIN task[o] /\ task[o][i] = "validate"
    /\ \/ payload[o][i] = keys[o][i] /\ SetTask(o, i, "check")
       \/ SetTask(o, i, "invalid")
    /\ UNCHANGED <<radius, stored, request, out, inb, bits, reply, payload, results, propagated>>

\* The store is asked under a read lock, and may fail to answer ...
CheckStore(o, i) ==
    /\ i \in DOMAIN task[o] /\ task[o][i] = "check"
    /\ \/ Wanted(keys[o][i]) /\ SetTask(o, i, "put")
       \/ SetTask(o, i, "valid")
    /\ UNCHANGED <<radius, stored, request, out, inb, bits, reply, payload, results, propagated>>

\* Faulty: trusts the check, and does not look at the radius again.
Put_Unchecked(o, i) ==
    /\ i \in DOMAIN task[o] /\ task[o][i] = "put"
    /\ SetTask(o, i, "valid")
    /\ radius' \in 0..radius
    /\ stored' = {d \in stored : d <= radius'} \cup {keys[o][i]}
    /\ UNCHANGED <<request, out, inb, bits, reply, payload, results, propagated>>

\* ... and written under a write lock.  The store refuses what is outside its
\* radius by now, or fails; otherwise it inserts and prunes down to some radius.
Put(o, i) ==
    /\ i \in DOMAIN task[o] /\ task[o][i] = "put"
    /\ SetTask(o, i, "valid")
    /\ \/ UNCHANGED <<radius, stored>>
       \/ /\ keys[o][i] <= radius
          /\ radius' \in 0..radius
          /\ stored' = {d \in stored \cup {keys[o][i]} : d <= radius'}
    /\ UNCHANGED <<request, out, inb, bits, reply, payload, results, propagated>>

\* Faulty: does not wait for the validation of the other values.
Propagate_Early(o) ==
    /\ inb[o] = "storing"
    /\ inb' = [inb EXCEPT ![o] = "done"]
    /\ propagated' = [propagated EXCEPT
                        ![o] = {keys[o][i] : i \in {j \in DOMAIN task[o] : task[o][j] # "invalid"}}]
    /\ UNCHANGED <<radius, stored, request, out, bits, reply, payload, task, results>>

\* When all of the tasks are joined, the valid content goes to the gossip.
Propagate(o) ==
    /\ inb[o] = "storing"
    /\ Range(task[o]) \subseteq {"valid", "invalid"}
    /\ inb' = [inb EXCEPT ![o] = "done"]
    /\ propagated' = [propagated EXCEPT
                        ![o] = {keys[o][i] : i \in {j \in DOMAIN task[o] : task[o][j] = "valid"}}]
    /\ UNCHANGED <<radius, stored, request, out, bits, reply, payload, task, results>>

-----------------------------------------------------------------------------
Offering(o) ==
    ProcessAccept(o) \/ OfferFails(o) \/ Connect(o) \/ ConnectFails(o)
    \/ SendSucceeds(o) \/ SendFails(o)

Accepting(o) ==
    \/ CheckKey(o) \/ AnswerOffer(o) \/ RefuseOffer(o)
    \/ ListenFails(o) \/ ProcessPayload(o) \/ Propagate(o)
    \/ \E i \in DOMAIN task[o] : Validate(o, i) \/ CheckStore(o, i) \/ Put(o, i)

TNext ==
    \E o \in Offers :
       \/ \E k \in Kinds, ks \in OfferedKeys, genuine \in SUBSET Content :
             genuine \subseteq Range(ks) /\ SendOffer(o, k, ks, genuine)
       \/ Offering(o)
       \/ Accepting(o)

TSpec == TInit /\ [][TNext]_tvars

\* discv5 and uTP time out, and spawned tasks run to their end.
TFairness == \A o \in Offers : WF_tvars(Offering(o)) /\ WF_tvars(Accepting(o))

-----------------------------------------------------------------------------
(* Properties.                                                             *)

\* The gossip caller hears at most one outcome per offer, on whichever of its
\* many ways out the transfer ends, and a success only if the node accepted the
\* content and has received it.
OneOutcome ==
    \A o \in Offers :
        /\ Len(results[o]) <= 1
        /\ results[o] # <<>> => out[o] = "closed"
        /\ results[o] = <<TRUE>> => TRUE \in Range(bits[o]) /\ payload[o] = items[o]

\* What is passed on to other nodes was received and found valid, however the
\* tasks of a payload are interleaved with each other and with other payloads.
PropagatedIsValid ==
    \A o \in Offers : \A d \in propagated[o] :
        \E i \in DOMAIN keys[o] : keys[o][i] = d /\ task[o][i] = "valid" /\ payload[o][i] = d

\* Nothing enters the store that was not validated by a task that is still
\* running, and nothing that is outside the radius, even if the radius has shrunk
\* since the offer was accepted and since the store was asked.
StoresValidContent ==
    [][\A d \in stored' \ stored :
          /\ d <= radius
          /\ \E o \in Offers : inb[o] = "storing"
                /\ \E i \in DOMAIN task[o] : keys[o][i] = d /\ payload[o][i] = d]_tvars

\* No side of a transfer hangs: the offering side always closes, and the
\* accepting side gives back its task, whatever the other one does.
TransfersEnd ==
    \A o \in Offers :
        out[o] # "new" ~> out[o] = "closed" /\ inb[o] \in {"answered", "dropped", "done"}

\* The comment in process_accept_utp_payload: the number of accepted keys should
\* match the number of values.  A payload is dropped only if it does not.
AcceptedPayloadIsKept ==
    \A o \in Offers :
        inb[o] = "dropped" => Len(payload[o]) # Cardinality({i \in DOMAIN bits[o] : bits[o][i]})

=============================================================================
