------------------------ MODULE OverlayServiceProofs ------------------------
(***************************************************************************)
(* Proofs about the overlay service and its peers: the transfer of offered *)
(* content (ContentTransfer) and the upkeep of the routing table           *)
(* (RoutingTable), for any offers, nodes and bounds.                       *)
(***************************************************************************)
EXTENDS ContentTransfer, RoutingTable, FiniteSetTheorems, TLAPS

-----------------------------------------------------------------------------
(* Offers and transfers.  What holds of an offer relates its two sides: how *)
(* far the offering task is, how far the accepting one is, and what the two *)
(* have agreed on.                                                          *)

TransferTypes ==
    /\ kind \in [Offers -> Kinds]
    /\ keys \in [Offers -> Seq(Content)]
    /\ items \in [Offers -> Seq(Content \cup {Junk})]
    /\ out \in [Offers -> {"new", "waiting", "connecting", "sending", "closed"}]
    /\ inb \in [Offers -> {"idle", "checking", "answered", "listening", "reading",
                           "received", "storing", "dropped", "done"}]
    /\ bits \in [Offers -> Seq(BOOLEAN)]
    /\ reply \in [Offers -> {"none", "accept", "error"}]
    /\ payload = [o \in Offers |-> payload[o]]
    /\ task \in [Offers -> Seq({"validate", "check", "put", "valid", "invalid"})]
    /\ results \in [Offers -> Seq(BOOLEAN)]
    /\ propagated \in [Offers -> SUBSET Content]

\* The offering side: the caller has heard nothing before the end, and there is a
\* connection only where the answer, now complete, accepts a key.
OfferingInv(o) ==
    /\ kind[o] = "PopulatedOfferWithResult" => Len(keys[o]) = 1
    /\ Len(items[o]) = Len(keys[o])
    /\ out[o] = "new" => inb[o] = "idle"
    /\ out[o] # "closed" => results[o] = <<>>
    /\ out[o] \in {"connecting", "sending"} => reply[o] = "accept" /\ TRUE \in Range(bits[o])
    /\ Len(results[o]) <= 1
    /\ results[o] = <<TRUE>> => /\ reply[o] = "accept" /\ TRUE \in Range(bits[o])
                                /\ payload[o] = items[o]

\* The accepting side up to the connection.
AnsweringInv(o) ==
    /\ inb[o] = "idle" => bits[o] = <<>>
    /\ inb[o] \in {"idle", "checking"} => reply[o] = "none"
    /\ Len(bits[o]) <= Len(keys[o])
    /\ reply[o] = "accept" => Len(bits[o]) = Len(keys[o])

\* The tasks that store a payload: they run only while it is being stored, and
\* whatever passed the validator is the content its key asks for.
StoringInv(o) ==
    /\ inb[o] \notin {"storing", "done"} => task[o] = <<>>
    /\ inb[o] # "done" => propagated[o] = {}
    /\ DOMAIN task[o] \subseteq DOMAIN keys[o]
    /\ \A i \in DOMAIN task[o] :
          /\ task[o][i] \in {"validate", "check", "put"} => inb[o] = "storing"
          /\ task[o][i] \in {"check", "put", "valid"} => payload[o][i] = keys[o][i]
    /\ \A d \in propagated[o] :
          \E i \in DOMAIN task[o] : keys[o][i] = d /\ task[o][i] = "valid"

TransferInv ==
    /\ TransferTypes
    /\ \A o \in Offers : OfferingInv(o) /\ AnsweringInv(o) /\ StoringInv(o)

\* A step of one offer leaves what holds of the other offers.
LEMMA OneOfferMoves ==
    ASSUME TransferInv, TransferTypes', NEW o \in Offers,
           \A p \in Offers \ {o} :
              /\ kind'[p] = kind[p] /\ keys'[p] = keys[p] /\ items'[p] = items[p]
              /\ out'[p] = out[p] /\ inb'[p] = inb[p] /\ bits'[p] = bits[p]
              /\ reply'[p] = reply[p] /\ payload'[p] = payload[p] /\ task'[p] = task[p]
              /\ results'[p] = results[p] /\ propagated'[p] = propagated[p],
           OfferingInv(o)', AnsweringInv(o)', StoringInv(o)'
    PROVE  TransferInv'
<1>1. ASSUME NEW p \in Offers, p # o
      PROVE  OfferingInv(p)' /\ AnsweringInv(p)' /\ StoringInv(p)'
  <2>1. OfferingInv(p)'
    BY <1>1, ZenonT(30) DEF TransferInv, OfferingInv
  <2>2. AnsweringInv(p)'
    BY <1>1, Zenon DEF TransferInv, AnsweringInv
  <2>3. StoringInv(p)'
    BY <1>1 DEF TransferInv, StoringInv
  <2> QED
    BY <2>1, <2>2, <2>3
<1> QED
  BY <1>1 DEF TransferInv

LEMMA SendOfferKeepsInv ==
    ASSUME TransferInv, NEW o \in Offers, NEW k \in Kinds, NEW ks \in OfferedKeys,
           NEW genuine \in SUBSET Content, SendOffer(o, k, ks, genuine)
    PROVE  TransferInv'
<1> DEFINE its == [i \in DOMAIN ks |-> IF ks[i] \in genuine THEN ks[i] ELSE Junk]
<1>1. ks \in Seq(Content)
  BY TransferAssumption
<1>2. its \in Seq(Content \cup {Junk}) /\ Len(its) = Len(ks)
  BY <1>1
<1>3. items' = [items EXCEPT ![o] = its]
  BY DEF SendOffer
<1> HIDE DEF its
<1>4. TransferTypes'
  BY <1>1, <1>2, <1>3 DEF SendOffer, transfer, TransferInv, TransferTypes
<1>5. /\ out'[o] = "waiting" /\ inb'[o] = "checking"
      /\ keys'[o] = ks /\ items'[o] = its /\ kind'[o] = k
      /\ bits'[o] = <<>> /\ reply'[o] = "none" /\ results'[o] = <<>>
      /\ task'[o] = <<>> /\ propagated'[o] = {}
  <2>1. OfferingInv(o) /\ AnsweringInv(o) /\ StoringInv(o) /\ out[o] = "new"
    BY DEF TransferInv, SendOffer
  <2>2. /\ bits[o] = <<>> /\ reply[o] = "none" /\ results[o] = <<>>
        /\ task[o] = <<>> /\ propagated[o] = {}
    BY <2>1 DEF OfferingInv, AnsweringInv, StoringInv
  <2> QED
    BY <1>3, <2>2 DEF SendOffer, transfer, TransferInv, TransferTypes
<1>6. OfferingInv(o)' /\ AnsweringInv(o)' /\ StoringInv(o)'
  <2>1. k = "PopulatedOfferWithResult" => Len(ks) = 1
    BY DEF SendOffer
  <2>2. <<>> # <<TRUE>> /\ Len(<<>>) = 0
    OBVIOUS
  <2> QED
    BY <1>1, <1>2, <1>5, <2>1, <2>2 DEF OfferingInv, AnsweringInv, StoringInv
<1> QED
  BY <1>3, <1>4, <1>6, OneOfferMoves, Zenon DEF SendOffer, transfer, TransferInv, TransferTypes

\* The accepting side answers: bits and the answer change only while it decides.
LEMMA AnswerKeepsInv ==
    ASSUME TransferInv, NEW o \in Offers, CheckKey(o) \/ AnswerOffer(o) \/ RefuseOffer(o)
    PROVE  TransferInv'
<1>1. UNCHANGED <<kind, keys, items, out, payload, task, results, propagated>>
  BY Zenon DEF CheckKey, AnswerOffer, RefuseOffer, request, transfer
<1>2. /\ inb[o] = "checking" /\ reply[o] = "none" /\ task[o] = <<>> /\ propagated[o] = {}
      /\ out[o] \notin {"new", "connecting", "sending"} /\ results[o] # <<TRUE>>
  BY Zenon DEF CheckKey, AnswerOffer, RefuseOffer, TransferInv, OfferingInv, AnsweringInv,
         StoringInv
<1>3. CASE CheckKey(o)
  <2> DEFINE b == Wanted(keys[o][Len(bits[o]) + 1])
  <2>1. bits' = [bits EXCEPT ![o] = Append(bits[o], b)] /\ UNCHANGED <<inb, reply>>
    BY <1>3 DEF CheckKey
  <2>2. b \in BOOLEAN
    BY Zenon DEF Wanted
  <2> HIDE DEF b
  <2>3. TransferTypes'
    BY <1>1, <2>1, <2>2 DEF TransferInv, TransferTypes
  <2>4. Len(bits'[o]) <= Len(keys[o])
    BY <1>3, <2>1, <2>2 DEF CheckKey, TransferInv, TransferTypes
  <2>5. OfferingInv(o)' /\ AnsweringInv(o)' /\ StoringInv(o)'
    <3>1. OfferingInv(o) /\ AnsweringInv(o) /\ StoringInv(o)
      BY DEF TransferInv
    <3>2. OfferingInv(o)'
      BY <1>1, <1>2, <3>1, Zenon DEF OfferingInv
    <3>3. AnsweringInv(o)'
      BY <1>1, <1>2, <3>1, <2>1, <2>4, Zenon DEF AnsweringInv
    <3>4. StoringInv(o)'
      BY <1>1, <1>2, <3>1, <2>1, <2>4, Zenon DEF StoringInv
    <3> QED
      BY <3>2, <3>3, <3>4
  <2> QED
    BY <1>1, <2>1, <2>3, <2>5, OneOfferMoves, Zenon DEF TransferInv, TransferTypes
<1>4. CASE AnswerOffer(o) \/ RefuseOffer(o)
  <2>1. PICK a \in {"accept", "error"}, i \in {"listening", "answered"} :
           /\ reply' = [reply EXCEPT ![o] = a] /\ inb' = [inb EXCEPT ![o] = i]
           /\ a = "accept" => Len(bits[o]) = Len(keys[o])
    <3>1. CASE AnswerOffer(o) /\ TRUE \in Range(bits[o])
      BY <3>1 DEF AnswerOffer
    <3>2. CASE AnswerOffer(o) /\ TRUE \notin Range(bits[o])
      BY <3>2 DEF AnswerOffer
    <3>3. CASE RefuseOffer(o)
      BY <3>3 DEF RefuseOffer
    <3> QED
      BY <1>4, <3>1, <3>2, <3>3, Zenon
  <2>2. UNCHANGED bits
    BY <1>4, Zenon DEF AnswerOffer, RefuseOffer
  <2>3. TransferTypes'
    BY <1>1, <2>1, <2>2 DEF TransferInv, TransferTypes
  <2>4. inb'[o] \in {"listening", "answered"} /\ reply'[o] = a
    BY <2>1 DEF TransferInv, TransferTypes
  <2>5. OfferingInv(o)' /\ AnsweringInv(o)' /\ StoringInv(o)'
    <3>1. OfferingInv(o) /\ AnsweringInv(o) /\ StoringInv(o)
      BY DEF TransferInv
    <3>2. OfferingInv(o)'
      BY <1>1, <1>2, <3>1, Zenon DEF OfferingInv
    <3>3. AnsweringInv(o)'
      BY <1>1, <1>2, <3>1, <2>1, <2>2, <2>4, Zenon DEF AnsweringInv
    <3>4. StoringInv(o)'
      BY <1>1, <1>2, <3>1, <2>1, <2>2, <2>4, Zenon DEF StoringInv
    <3> QED
      BY <3>2, <3>3, <3>4
  <2> QED
    BY <1>1, <2>1, <2>2, <2>3, <2>5, OneOfferMoves, Zenon DEF TransferInv, TransferTypes
<1> QED
  BY <1>3, <1>4

LEMMA ResultSequences ==
    /\ Len(<<>>) <= 1 /\ <<>> # <<TRUE>>
    /\ \A b \in BOOLEAN : Len(<<b>>) <= 1 /\ (<<b>> = <<TRUE>> => b = TRUE)
<1>1. Len(<<>>) <= 1 /\ <<>> # <<TRUE>>
  OBVIOUS
<1>2. ASSUME NEW b \in BOOLEAN
      PROVE  Len(<<b>>) <= 1 /\ (<<b>> = <<TRUE>> => b = TRUE)
  <2>1. <<b>>[1] = b /\ <<TRUE>>[1] = TRUE
    OBVIOUS
  <2>2. Len(<<b>>) <= 1
    OBVIOUS
  <2> QED
    BY <2>1, <2>2, Zenon
<1> QED
  BY <1>1, <1>2, Zenon

\* What the caller hears, where it asked for it.
LEMMA ResultIsSent ==
    ASSUME TransferTypes, NEW o \in Offers, NEW success \in BOOLEAN, results[o] = <<>>,
           SendResult(o, success)
    PROVE  /\ results' \in [Offers -> Seq(BOOLEAN)]
           /\ \A p \in Offers \ {o} : results'[p] = results[p]
           /\ \/ results'[o] = <<>>
              \/ kind[o] = "PopulatedOfferWithResult" /\ results'[o] = <<success>>
<1>1. CASE kind[o] = "PopulatedOfferWithResult"
  <2>1. results' = [results EXCEPT ![o] = Append(<<>>, success)]
    BY <1>1 DEF SendResult, TransferTypes
  <2>2. Append(<<>>, success) = <<success>> /\ <<success>> \in Seq(BOOLEAN)
    OBVIOUS
  <2> QED
    BY <1>1, <2>1, <2>2 DEF TransferTypes
<1>2. CASE kind[o] # "PopulatedOfferWithResult"
  <2>1. results' = results
    BY <1>2 DEF SendResult, TransferTypes
  <2> QED
    BY <2>1 DEF TransferTypes
<1> QED
  BY <1>1, <1>2

\* With one key, and that one accepted, what is sent is what was offered.
LEMMA OneAcceptedItem ==
    ASSUME TransferTypes, NEW o \in Offers, Len(bits[o]) = 1, Len(items[o]) = 1,
           TRUE \in Range(bits[o])
    PROVE  AcceptedItems(o) = items[o]
<1>1. DOMAIN bits[o] = {1} /\ DOMAIN items[o] = {1}
  BY DEF TransferTypes
<1>a. bits[o][1] = TRUE
  <2>1. PICK i \in DOMAIN bits[o] : bits[o][i] = TRUE
    BY Zenon DEF Range
  <2> QED
    BY <1>1, <2>1
<1>2. {i \in DOMAIN bits[o] : bits[o][i]} = {1} /\ {j \in 1..1 : bits[o][j]} = {1}
  BY <1>1, <1>a
<1>3. Cardinality({1}) = 1
  BY FS_Singleton, Zenon
<1> DEFINE place(n) == CHOOSE i \in DOMAIN bits[o] :
                          bits[o][i] /\ Cardinality({j \in 1..i : bits[o][j]}) = n
<1>4. place(1) = 1
  BY <1>1, <1>a, <1>2, <1>3
<1>5. AcceptedItems(o) = [n \in 1..1 |-> items[o][place(n)]]
  BY <1>2, <1>3 DEF AcceptedItems
<1> HIDE DEF place
<1>6. AcceptedItems(o) = [n \in 1..1 |-> items[o][n]]
  BY <1>4, <1>5
<1> QED
  BY <1>1, <1>6 DEF TransferTypes

\* The offering task ends, with or without a result for the caller.
LEMMA ClosingKeepsInv ==
    ASSUME TransferInv, NEW o \in Offers,
           ConnectFails(o) \/ OfferFails(o) \/ ProcessAccept(o)
    PROVE  TransferInv'
<1>1. /\ out[o] \in {"waiting", "connecting"} /\ results[o] = <<>>
      /\ OfferingInv(o) /\ AnsweringInv(o) /\ StoringInv(o) /\ TransferTypes
  BY Zenon DEF ConnectFails, OfferFails, ProcessAccept, TransferInv, OfferingInv
<1>2. UNCHANGED <<kind, keys, items, inb, bits, reply, payload, task, propagated>>
  BY Zenon DEF ConnectFails, OfferFails, ProcessAccept, request, transfer
<1>3. AnsweringInv(o)' /\ StoringInv(o)'
  BY <1>1, <1>2, Zenon DEF AnsweringInv, StoringInv
<1>4. CASE /\ out' = [out EXCEPT ![o] = "connecting"] /\ UNCHANGED results
           /\ reply[o] = "accept" /\ TRUE \in Range(bits[o])
  <2>1. TransferTypes' /\ out'[o] = "connecting"
    BY <1>1, <1>2, <1>4 DEF TransferTypes
  <2>2. OfferingInv(o)'
    BY <1>1, <1>2, <1>4, <2>1, Zenon DEF OfferingInv
  <2> QED
    BY <1>1, <1>2, <1>3, <1>4, <2>1, <2>2, OneOfferMoves DEF TransferTypes
<1>5. CASE /\ out' = [out EXCEPT ![o] = "closed"]
           /\ UNCHANGED results \/ SendResult(o, FALSE)
  <2>1. /\ results' \in [Offers -> Seq(BOOLEAN)]
        /\ \A p \in Offers \ {o} : results'[p] = results[p]
        /\ results'[o] \in {<<>>, <<FALSE>>}
    <3>1. CASE UNCHANGED results
      BY <1>1, <3>1 DEF TransferTypes
    <3>2. CASE SendResult(o, FALSE)
      BY <1>1, <3>2, ResultIsSent, Zenon
    <3> QED
      BY <1>5, <3>1, <3>2, Zenon
  <2>2. TransferTypes' /\ out'[o] = "closed"
    BY <1>1, <1>2, <1>5, <2>1, Zenon DEF TransferTypes
  <2>3. results'[o] # <<TRUE>> /\ Len(results'[o]) <= 1
    BY <2>1, ResultSequences, Zenon
  <2>4. OfferingInv(o)'
    BY <1>1, <1>2, <2>2, <2>3, Zenon DEF OfferingInv
  <2> QED
    BY <1>1, <1>2, <1>3, <1>5, <2>1, <2>2, <2>4, OneOfferMoves, Zenon DEF TransferTypes
<1> QED
  BY <1>4, <1>5, Zenon DEF ConnectFails, OfferFails, ProcessAccept

\* The connection is made, or the accepting side waits for it in vain.
LEMMA ConnectKeepsInv ==
    ASSUME TransferInv, NEW o \in Offers, Connect(o) \/ ListenFails(o)
    PROVE  TransferInv'
<1>1. /\ inb[o] = "listening"
      /\ OfferingInv(o) /\ AnsweringInv(o) /\ StoringInv(o) /\ TransferTypes
  BY DEF Connect, ListenFails, TransferInv
<1>2. UNCHANGED <<kind, keys, items, bits, reply, payload, task, propagated, results>>
  BY DEF Connect, ListenFails, request, transfer
<1>3. PICK a \in {"reading", "done"} : inb' = [inb EXCEPT ![o] = a]
  BY DEF Connect, ListenFails
<1>4. \/ out' = out
      \/ out' = [out EXCEPT ![o] = "sending"] /\ out[o] = "connecting"
  BY DEF Connect, ListenFails
<1>5. /\ TransferTypes' /\ inb'[o] \in {"reading", "done"}
      /\ out'[o] = out[o] \/ (out'[o] = "sending" /\ out[o] = "connecting")
      /\ \A p \in Offers \ {o} : out'[p] = out[p] /\ inb'[p] = inb[p]
  BY <1>1, <1>2, <1>3, <1>4, Zenon DEF TransferTypes
<1>6. OfferingInv(o)'
  BY <1>1, <1>2, <1>5, Zenon DEF OfferingInv
<1>7. AnsweringInv(o)' /\ StoringInv(o)'
  BY <1>1, <1>2, <1>5, Zenon DEF AnsweringInv, StoringInv
<1> QED
  BY <1>2, <1>5, <1>6, <1>7, OneOfferMoves, Zenon

\* The content is sent, or sending it fails at one side or at both.
LEMMA SendKeepsInv ==
    ASSUME TransferInv, NEW o \in Offers, SendSucceeds(o) \/ SendFails(o)
    PROVE  TransferInv'
<1>1. /\ inb[o] = "reading" /\ out[o] = "sending" /\ results[o] = <<>>
      /\ reply[o] = "accept" /\ TRUE \in Range(bits[o])
      /\ OfferingInv(o) /\ AnsweringInv(o) /\ StoringInv(o) /\ TransferTypes
  BY Zenon DEF SendSucceeds, SendFails, TransferInv, OfferingInv
<1>2. /\ UNCHANGED <<kind, keys, items, bits, reply, task, propagated>>
      /\ out' = [out EXCEPT ![o] = "closed"]
  BY Zenon DEF SendSucceeds, SendFails, request
<1>3. PICK a \in {"received", "done"} : inb' = [inb EXCEPT ![o] = a]
  BY Zenon DEF SendSucceeds, SendFails
<1>4. \/ UNCHANGED payload
      \/ payload' = [payload EXCEPT ![o] = AcceptedItems(o)]
  BY Zenon DEF SendSucceeds, SendFails
<1>5. PICK success \in BOOLEAN :
         /\ SendResult(o, success)
         /\ success => payload' = [payload EXCEPT ![o] = AcceptedItems(o)]
  BY Zenon DEF SendSucceeds, SendFails
<1>6. /\ results' \in [Offers -> Seq(BOOLEAN)]
      /\ \A p \in Offers \ {o} : results'[p] = results[p]
      /\ \/ results'[o] = <<>>
         \/ kind[o] = "PopulatedOfferWithResult" /\ results'[o] = <<success>>
  BY <1>1, <1>5, ResultIsSent, Zenon
<1>7. payload' = [p \in Offers |-> payload'[p]]
  BY <1>1, <1>4 DEF TransferTypes
<1>8. TransferTypes'
  BY <1>1, <1>2, <1>3, <1>6, <1>7, Zenon DEF TransferTypes
<1>9. results'[o] = <<TRUE>> => payload'[o] = items[o]
  <2> SUFFICES ASSUME results'[o] = <<TRUE>>
               PROVE  payload'[o] = items[o]
    BY Zenon
  <2>1. kind[o] = "PopulatedOfferWithResult" /\ success
    BY <1>6, ResultSequences, Zenon
  <2>2. Len(keys[o]) = 1 /\ Len(items[o]) = 1 /\ Len(bits[o]) = 1
    BY <1>1, <2>1, Zenon DEF OfferingInv, AnsweringInv
  <2>3. payload'[o] = AcceptedItems(o)
    BY <1>1, <1>5, <2>1 DEF TransferTypes
  <2> QED
    BY <1>1, <2>2, <2>3, OneAcceptedItem, Zenon
<1>10. /\ out'[o] = "closed" /\ inb'[o] \in {"received", "done"}
       /\ \A p \in Offers \ {o} : inb'[p] = inb[p] /\ out'[p] = out[p] /\ payload'[p] = payload[p]
  BY <1>1, <1>2, <1>3, <1>4 DEF TransferTypes
<1>a. Len(results'[o]) <= 1
  BY <1>6, ResultSequences, Zenon
<1>11. OfferingInv(o)'
  BY <1>1, <1>2, <1>9, <1>10, <1>a, Zenon DEF OfferingInv
<1>12. AnsweringInv(o)'
  BY <1>1, <1>2, <1>10, Zenon DEF AnsweringInv
<1>13. StoringInv(o)'
  BY <1>1, <1>2, <1>10 DEF StoringInv
<1> QED
  BY <1>2, <1>6, <1>8, <1>10, <1>11, <1>12, <1>13, OneOfferMoves, Zenon

\* The payload is compared with the keys, and its values go to tasks.
LEMMA PayloadKeepsInv ==
    ASSUME TransferInv, NEW o \in Offers, ProcessPayload(o)
    PROVE  TransferInv'
<1>1. /\ inb[o] = "received" /\ propagated[o] = {}
      /\ OfferingInv(o) /\ AnsweringInv(o) /\ StoringInv(o) /\ TransferTypes
  BY Zenon DEF ProcessPayload, TransferInv, StoringInv
<1>2. UNCHANGED <<kind, keys, items, out, bits, reply, payload, results, propagated>>
  BY Zenon DEF ProcessPayload, request
<1>3. CASE inb' = [inb EXCEPT ![o] = "dropped"] /\ UNCHANGED task
  <2>1. TransferTypes' /\ inb'[o] = "dropped"
    BY <1>1, <1>2, <1>3 DEF TransferTypes
  <2>2. OfferingInv(o)' /\ AnsweringInv(o)'
    BY <1>1, <1>2, <2>1, Zenon DEF OfferingInv, AnsweringInv
  <2>3. StoringInv(o)'
    BY <1>1, <1>2, <1>3, <2>1, Zenon DEF StoringInv
  <2> QED
    BY <1>1, <1>2, <1>3, <2>1, <2>2, <2>3, OneOfferMoves DEF TransferTypes
<1>4. CASE /\ inb' = [inb EXCEPT ![o] = "storing"]
           /\ task' = [task EXCEPT ![o] = [i \in DOMAIN keys[o] |-> "validate"]]
  <2> DEFINE new == [i \in DOMAIN keys[o] |-> "validate"]
  <2>1. new \in Seq({"validate", "check", "put", "valid", "invalid"})
    BY <1>1 DEF TransferTypes
  <2>2. DOMAIN new = DOMAIN keys[o] /\ \A i \in DOMAIN new : new[i] = "validate"
    OBVIOUS
  <2>3. task' = [task EXCEPT ![o] = new]
    BY <1>4
  <2> HIDE DEF new
  <2>4. TransferTypes' /\ inb'[o] = "storing" /\ task'[o] = new
    BY <1>1, <1>2, <1>4, <2>1, <2>3 DEF TransferTypes
  <2>5. OfferingInv(o)' /\ AnsweringInv(o)'
    BY <1>1, <1>2, <2>4, Zenon DEF OfferingInv, AnsweringInv
  <2>6. StoringInv(o)'
    BY <1>1, <1>2, <2>2, <2>4, Zenon DEF StoringInv
  <2> QED
    BY <1>1, <1>2, <1>4, <2>3, <2>4, <2>5, <2>6, OneOfferMoves, Zenon DEF TransferTypes
<1> QED
  BY <1>3, <1>4, Zenon DEF ProcessPayload

\* A task moves on, to a state that says the value is valid only if it is.
LEMMA TaskKeepsInv ==
    ASSUME TransferInv, NEW o \in Offers, NEW i \in DOMAIN task[o],
           NEW state \in {"check", "put", "valid", "invalid"},
           task[o][i] \in {"validate", "check", "put"}, SetTask(o, i, state),
           state # "invalid" => payload[o][i] = keys[o][i],
           UNCHANGED <<kind, keys, items, out, inb, bits, reply, payload, results, propagated>>
    PROVE  TransferInv'
<1>1. /\ OfferingInv(o) /\ AnsweringInv(o) /\ StoringInv(o) /\ TransferTypes
      /\ inb[o] = "storing" /\ propagated[o] = {}
  BY Zenon DEF TransferInv, StoringInv
<1> DEFINE new == [task[o] EXCEPT ![i] = state]
<1>2. task[o] \in Seq({"validate", "check", "put", "valid", "invalid"})
  BY <1>1 DEF TransferTypes
<1>3. /\ new \in Seq({"validate", "check", "put", "valid", "invalid"})
      /\ DOMAIN new = DOMAIN task[o] /\ new[i] = state
      /\ \A j \in DOMAIN task[o] \ {i} : new[j] = task[o][j]
  BY <1>2
<1>4. task' = [task EXCEPT ![o] = new]
  BY DEF SetTask
<1> HIDE DEF new
<1>5. TransferTypes' /\ task'[o] = new
  BY <1>1, <1>3, <1>4 DEF TransferTypes
<1>6. OfferingInv(o)' /\ AnsweringInv(o)'
  BY <1>1, Zenon DEF OfferingInv, AnsweringInv
<1>7. StoringInv(o)'
  BY <1>1, <1>3, <1>5, Zenon DEF StoringInv
<1> QED
  BY <1>1, <1>4, <1>5, <1>6, <1>7, OneOfferMoves, Zenon DEF TransferTypes

LEMMA StoreKeepsInv ==
    ASSUME TransferInv, NEW o \in Offers, NEW i \in DOMAIN task[o],
           Validate(o, i) \/ CheckStore(o, i) \/ Put(o, i)
    PROVE  TransferInv'
<1>1. UNCHANGED <<kind, keys, items, out, inb, bits, reply, payload, results, propagated>>
  BY DEF Validate, CheckStore, Put, request
<1>2. CASE Validate(o, i)
  <2>1. task[o][i] = "validate"
    BY <1>2, Zenon DEF Validate
  <2>2. CASE payload[o][i] = keys[o][i] /\ SetTask(o, i, "check")
    BY <1>1, <2>1, <2>2, TaskKeepsInv
  <2>3. CASE SetTask(o, i, "invalid")
    BY <1>1, <2>1, <2>3, TaskKeepsInv
  <2> QED
    BY <1>2, <2>2, <2>3, Zenon DEF Validate
<1>3. CASE CheckStore(o, i) \/ Put(o, i)
  <2>1. task[o][i] \in {"check", "put"}
    BY <1>3, Zenon DEF CheckStore, Put
  <2>2. payload[o][i] = keys[o][i]
    BY <2>1 DEF TransferInv, StoringInv
  <2>3. PICK state \in {"put", "valid"} : SetTask(o, i, state)
    BY <1>3, Zenon DEF CheckStore, Put
  <2> QED
    BY <1>1, <2>1, <2>2, <2>3, TaskKeepsInv
<1> QED
  BY <1>2, <1>3

LEMMA PropagateKeepsInv ==
    ASSUME TransferInv, NEW o \in Offers, Propagate(o)
    PROVE  TransferInv'
<1>1. /\ OfferingInv(o) /\ AnsweringInv(o) /\ StoringInv(o) /\ TransferTypes
      /\ inb[o] = "storing"
  BY DEF Propagate, TransferInv
<1>2. UNCHANGED <<kind, keys, items, out, bits, reply, payload, task, results>>
  BY DEF Propagate, request
<1> DEFINE passed == {keys[o][i] : i \in {j \in DOMAIN task[o] : task[o][j] = "valid"}}
<1>3. passed \subseteq Content
  BY <1>1 DEF StoringInv, TransferTypes
<1>4. \A d \in passed : \E i \in DOMAIN task[o] : keys[o][i] = d /\ task[o][i] = "valid"
  OBVIOUS
<1>5. propagated' = [propagated EXCEPT ![o] = passed] /\ inb' = [inb EXCEPT ![o] = "done"]
  BY DEF Propagate
<1> HIDE DEF passed
<1>6. TransferTypes' /\ propagated'[o] = passed /\ inb'[o] = "done"
  BY <1>1, <1>2, <1>3, <1>5 DEF TransferTypes
<1>7. \A i \in DOMAIN task[o] : task[o][i] \notin {"validate", "check", "put"}
  <2>1. \A i \in DOMAIN task[o] : task[o][i] \in Range(task[o])
    BY DEF Range
  <2> QED
    BY <2>1 DEF Propagate
<1>8. OfferingInv(o)' /\ AnsweringInv(o)'
  BY <1>1, <1>2, <1>6, Zenon DEF OfferingInv, AnsweringInv
<1>9. StoringInv(o)'
  BY <1>1, <1>2, <1>4, <1>6, <1>7, ZenonT(30) DEF StoringInv
<1> QED
  BY <1>1, <1>2, <1>5, <1>6, <1>8, <1>9, OneOfferMoves, Zenon DEF TransferTypes

LEMMA TransferStep == TransferInv /\ [TNext]_tvars => TransferInv'
<1> SUFFICES ASSUME TransferInv, [TNext]_tvars
             PROVE  TransferInv'
  OBVIOUS
<1>1. CASE UNCHANGED tvars
  <2>1. TransferTypes'
    BY <1>1 DEF tvars, TransferInv, TransferTypes
  <2>2. ASSUME NEW o \in Offers
        PROVE  OfferingInv(o)' /\ AnsweringInv(o)' /\ StoringInv(o)'
    <3>1. OfferingInv(o) /\ AnsweringInv(o) /\ StoringInv(o)
      BY DEF TransferInv
    <3>2. OfferingInv(o)' /\ AnsweringInv(o)'
      BY <1>1, <3>1, Zenon DEF tvars, OfferingInv, AnsweringInv
    <3>3. StoringInv(o)'
      BY <1>1, <3>1, Zenon DEF tvars, StoringInv
    <3> QED
      BY <3>2, <3>3
  <2> QED
    BY <2>1, <2>2 DEF TransferInv
<1>2. CASE TNext
  <2>1. PICK o \in Offers :
           \/ \E k \in Kinds, ks \in OfferedKeys, genuine \in SUBSET Content :
                 SendOffer(o, k, ks, genuine)
           \/ Offering(o) \/ Accepting(o)
    BY <1>2 DEF TNext
  <2>2. CASE \E k \in Kinds, ks \in OfferedKeys, genuine \in SUBSET Content :
                SendOffer(o, k, ks, genuine)
    BY <2>2, SendOfferKeepsInv
  <2>3. CASE Offering(o)
    BY <2>3, ClosingKeepsInv, ConnectKeepsInv, SendKeepsInv DEF Offering
  <2>4. CASE Accepting(o)
    BY <2>4, AnswerKeepsInv, ConnectKeepsInv, PayloadKeepsInv, StoreKeepsInv,
       PropagateKeepsInv DEF Accepting
  <2> QED
    BY <2>1, <2>2, <2>3, <2>4
<1> QED
  BY <1>1, <1>2

LEMMA TransferInit == TInit => TransferInv
<1> SUFFICES ASSUME TInit
             PROVE  TransferInv
  OBVIOUS
<1>1. TransferTypes
  BY DEF TInit, TransferTypes, Kinds
<1>2. Len(<<>>) = 0 /\ <<>> # <<TRUE>> /\ DOMAIN <<>> = {}
  OBVIOUS
<1>3. ASSUME NEW o \in Offers
      PROVE  OfferingInv(o) /\ AnsweringInv(o) /\ StoringInv(o)
  <2>1. /\ kind[o] = "PopulatedOffer" /\ keys[o] = <<>> /\ items[o] = <<>>
        /\ out[o] = "new" /\ inb[o] = "idle" /\ bits[o] = <<>> /\ reply[o] = "none"
        /\ task[o] = <<>> /\ results[o] = <<>> /\ propagated[o] = {}
    BY DEF TInit
  <2>2. OfferingInv(o) /\ AnsweringInv(o)
    BY <1>2, <2>1 DEF OfferingInv, AnsweringInv
  <2>3. StoringInv(o)
    BY <1>2, <2>1 DEF StoringInv
  <2> QED
    BY <2>2, <2>3
<1> QED
  BY <1>1, <1>3 DEF TransferInv

\* The gossip caller hears of an offer at most once, and of a success only if the
\* offered content was accepted and has arrived (process_accept).
THEOREM CallerHearsOnce == TSpec => []OneOutcome
<1>1. TransferInv => OneOutcome
  BY Zenon DEF TransferInv, TransferTypes, OfferingInv, OneOutcome
<1> QED
  BY <1>1, TransferInit, TransferStep, PTL DEF TSpec

\* What process_accept_utp_payload hands to the gossip has arrived and was found
\* valid, however the tasks of all payloads are interleaved.
THEOREM OnlyValidIsPropagated == TSpec => []PropagatedIsValid
<1>1. TransferInv => PropagatedIsValid
  BY DEF TransferInv, StoringInv, PropagatedIsValid
<1> QED
  BY <1>1, TransferInit, TransferStep, PTL DEF TSpec

\* What enters the store was validated by a task that is still at work, and is
\* within the radius of that moment.
THEOREM OnlyValidIsStored == TSpec => StoresValidContent
<1> DEFINE Stores ==
      \A d \in stored' \ stored :
          /\ d <= radius
          /\ \E o \in Offers : inb[o] = "storing"
                /\ \E i \in DOMAIN task[o] : keys[o][i] = d /\ payload[o][i] = d
<1>1. TransferInv /\ [TNext]_tvars => [Stores]_tvars
  <2> SUFFICES ASSUME TransferInv, TNext, NEW d \in stored' \ stored
               PROVE  /\ d <= radius
                      /\ \E o \in Offers : inb[o] = "storing"
                            /\ \E i \in DOMAIN task[o] : keys[o][i] = d /\ payload[o][i] = d
    OBVIOUS
  <2>1. PICK o \in Offers : \E i \in DOMAIN task[o] : Put(o, i)
    <3>1. stored' # stored
      OBVIOUS
    <3>2. PICK o \in Offers :
             \/ \E k \in Kinds, ks \in OfferedKeys, genuine \in SUBSET Content :
                   SendOffer(o, k, ks, genuine)
             \/ Offering(o) \/ Accepting(o)
      BY DEF TNext
    <3>3. ~ \E k \in Kinds, ks \in OfferedKeys, genuine \in SUBSET Content :
               SendOffer(o, k, ks, genuine)
      BY <3>1 DEF SendOffer
    <3>4. ~ Offering(o)
      BY <3>1, Zenon DEF Offering, ProcessAccept, OfferFails, Connect, ConnectFails, SendSucceeds,
                  SendFails
    <3>5. Accepting(o) => \E i \in DOMAIN task[o] : Put(o, i)
      BY <3>1, Zenon DEF Accepting, CheckKey, AnswerOffer, RefuseOffer, ListenFails,
                  ProcessPayload, Propagate, Validate, CheckStore
    <3> QED
      BY <3>2, <3>3, <3>4, <3>5
  <2>2. PICK i \in DOMAIN task[o] : Put(o, i)
    BY <2>1
  <2>3. task[o][i] = "put" /\ d = keys[o][i] /\ d <= radius
    BY <2>2, Zenon DEF Put
  <2> QED
    BY <2>3 DEF TransferInv, StoringInv
<1> QED
  BY <1>1, TransferInit, TransferStep, PTL DEF TSpec, StoresValidContent

-----------------------------------------------------------------------------
(* The routing table.  A handler works on the table in several steps, so    *)
(* what it has to keep is stated of any table between the one it found,     *)
(* which is `table', and the one it leaves.                                 *)

TableEntry ==
    [place : {"present", "pending", "absent"}, seq : 0..MaxSeq, radius : Radius,
     connected : BOOLEAN]

AnyRequest == [kind : {"Ping", "RequestNode", "Lookup"}, dest : Node, seq : 0..MaxSeq]

Table == [entry : [Node -> TableEntry], to_ping : SUBSET Node, requests : SUBSET AnyRequest]

\* An unconnected node waits for its ping.  If it does not, it has failed a request
\* and was not inserted by the handler at work.  The ping queue takes no notice of
\* the pending place, so there only a failure accounts for it.
PingedOrFailed(t, n) ==
    ~t.entry[n].connected =>
        /\ n \in Present(t) => n \in t.to_ping \/ (n \in failed /\ n \notin Absent(table))
        /\ n \in PendingIn(t) => n \in failed

Upkeep(t) == t \in Table /\ \A n \in Node : PingedOrFailed(t, n)

RoutingInv ==
    /\ peer \in [Node -> [seq : EnrSeq, radius : Radius]]
    /\ failed \subseteq Node
    /\ Upkeep(table)

\* Every step that inserts, updates or queues one node.
LEMMA EntryIsSet ==
    ASSUME NEW t, Upkeep(t), NEW n \in Node, NEW e \in TableEntry, NEW queue \in SUBSET Node,
           NEW sent \in SUBSET AnyRequest,
           t.to_ping \ {n} \subseteq queue,
           ~e.connected =>
               /\ e.place = "present" => n \in queue \/ (n \in failed /\ n \notin Absent(table))
               /\ e.place = "pending" => n \in failed
    PROVE  Upkeep([entry |-> [t.entry EXCEPT ![n] = e], to_ping |-> queue, requests |-> sent])
<1> DEFINE u == [entry |-> [t.entry EXCEPT ![n] = e], to_ping |-> queue, requests |-> sent]
<1>1. t.entry \in [Node -> TableEntry] /\ t.to_ping \subseteq Node
  BY DEF Upkeep, Table
<1>2. u \in Table
  BY <1>1 DEF Table
<1>3. /\ u.entry[n] = e /\ u.to_ping = queue
      /\ \A m \in Node \ {n} : u.entry[m] = t.entry[m]
  BY <1>1
<1> HIDE DEF u
<1>4. PingedOrFailed(u, n)
  BY <1>3 DEF PingedOrFailed, Present, PendingIn
<1>5. ASSUME NEW m \in Node, m # n
      PROVE  PingedOrFailed(u, m)
  <2>1. PingedOrFailed(t, m) /\ u.entry[m] = t.entry[m]
    BY <1>3, <1>5 DEF Upkeep
  <2>2. m \in t.to_ping => m \in u.to_ping
    BY <1>3, <1>5
  <2> QED
    BY <2>1, <2>2 DEF PingedOrFailed, Present, PendingIn
<1>6. Upkeep(u)
  BY <1>2, <1>4, <1>5 DEF Upkeep
<1> QED
  BY <1>6 DEF u

LEMMA QueuedRecord ==
    ASSUME NEW entry, NEW to_ping, NEW sent, NEW n
    PROVE  Queued([entry |-> entry, to_ping |-> to_ping, requests |-> sent], n) =
               [entry |-> entry, to_ping |-> to_ping \cup {n}, requests |-> sent]
BY DEF Queued

LEMMA UnqueuedRecord ==
    ASSUME NEW entry, NEW to_ping, NEW sent, NEW n
    PROVE  Unqueued([entry |-> entry, to_ping |-> to_ping, requests |-> sent], n) =
               [entry |-> entry, to_ping |-> to_ping \ {n}, requests |-> sent]
BY DEF Unqueued

\* The ping queue may grow, and the requests may change, as they will.
LEMMA QueueGrows ==
    ASSUME NEW t, Upkeep(t), NEW queue \in SUBSET Node, t.to_ping \subseteq queue,
           NEW sent \in SUBSET AnyRequest
    PROVE  Upkeep([entry |-> t.entry, to_ping |-> queue, requests |-> sent])
<1> DEFINE u == [entry |-> t.entry, to_ping |-> queue, requests |-> sent]
<1>1. u \in Table /\ u.entry = t.entry /\ t.to_ping \subseteq u.to_ping
  BY DEF Upkeep, Table
<1> HIDE DEF u
<1>2. ASSUME NEW m \in Node
      PROVE  PingedOrFailed(u, m)
  BY <1>1 DEF Upkeep, PingedOrFailed, Present, PendingIn
<1> QED
  BY <1>1, <1>2 DEF Upkeep, u

LEMMA SentKeepsUpkeep ==
    ASSUME NEW t, Upkeep(t), NEW n \in Node, NEW k \in {"Ping", "RequestNode", "Lookup"}
    PROVE  Upkeep(Sent(t, k, n))
<1> DEFINE r == [kind |-> k, dest |-> n, seq |-> t.entry[n].seq]
           sent == t.requests \cup {r}
<1>1. r \in AnyRequest /\ t \in Table
  BY DEF Upkeep, Table, TableEntry, AnyRequest
<1>2. sent \in SUBSET AnyRequest /\ t.to_ping \in SUBSET Node
  BY <1>1 DEF Table
<1>3. Sent(t, k, n) = [t EXCEPT !.requests = sent]
  BY DEF Sent
<1> HIDE DEF sent
<1>4. Sent(t, k, n) = [entry |-> t.entry, to_ping |-> t.to_ping, requests |-> sent]
  BY <1>1, <1>2, <1>3 DEF Table
<1> QED
  BY <1>2, <1>4, QueueGrows

LEMMA ConnectKeepsUpkeep ==
    ASSUME NEW t, Upkeep(t), NEW n \in Node, NEW seq \in 0..MaxSeq, NEW rad \in Radius,
           NEW u \in ConnectNode(t, n, seq, rad)
    PROVE  Upkeep(u)
<1> DEFINE e == [place |-> "present", seq |-> seq, radius |-> rad, connected |-> TRUE]
           p == [e EXCEPT !.place = "pending"]
           set == [entry |-> [t.entry EXCEPT ![n] = e], to_ping |-> t.to_ping,
                   requests |-> t.requests]
           queued == [entry |-> [t.entry EXCEPT ![n] = e], to_ping |-> t.to_ping \cup {n},
                      requests |-> t.requests]
           waiting == [entry |-> [t.entry EXCEPT ![n] = p], to_ping |-> t.to_ping,
                       requests |-> t.requests]
<1>1. t \in Table /\ t.to_ping \in SUBSET Node /\ t.requests \in SUBSET AnyRequest
  BY DEF Upkeep, Table
<1>2. e \in TableEntry /\ p \in TableEntry /\ e.connected /\ p.connected
  BY Zenon DEF TableEntry
<1>3. SetEntry(t, n, e) = set /\ SetEntry(t, n, p) = waiting
  <2> HIDE DEF e, p
  <2> QED
    BY <1>1, <1>2 DEF SetEntry, Table
<1>4. Queued(SetEntry(t, n, e), n) = queued
  <2> HIDE DEF e
  <2>1. Queued(set, n) = queued
    BY QueuedRecord
  <2> QED
    BY <1>3, <2>1
<1>5. Upkeep(set) /\ Upkeep(queued) /\ Upkeep(waiting)
  <2> HIDE DEF e, p
  <2>1. t.to_ping \ {n} \subseteq t.to_ping /\ t.to_ping \ {n} \subseteq t.to_ping \cup {n}
    OBVIOUS
  <2>2. t.to_ping \cup {n} \in SUBSET Node
    BY <1>1
  <2> QED
    BY <1>1, <1>2, <2>1, <2>2, EntryIsSet, Zenon
<1>6. CASE n \notin Present(t) /\ Full(t) /\ ~(PendingIn(t) = {} /\ Replaceable(t) # {})
  <2>1. u = Unqueued(t, n)
    BY <1>6 DEF ConnectNode
  <2>2. u = [entry |-> [t.entry EXCEPT ![n] = t.entry[n]], to_ping |-> t.to_ping \ {n},
             requests |-> t.requests]
    BY <1>1, <2>1 DEF Unqueued, Table
  <2>3. PingedOrFailed(t, n) /\ t.entry[n] \in TableEntry
    BY DEF Upkeep, Table
  <2>4. ~t.entry[n].connected =>
           /\ t.entry[n].place # "present"
           /\ t.entry[n].place = "pending" => n \in failed
    BY <1>6, <2>3, Zenon DEF PingedOrFailed, Present, PendingIn
  <2>5. t.to_ping \ {n} \in SUBSET Node
    BY <1>1
  <2> QED
    BY <1>1, <2>2, <2>3, <2>4, <2>5, EntryIsSet, Zenon
<1>7. CASE n \notin Present(t) /\ Full(t) /\ PendingIn(t) = {} /\ Replaceable(t) # {}
  <2>1. PICK d \in Replaceable(t) : u = Sent(SetEntry(t, n, p), "Ping", d)
    BY <1>7, Zenon DEF ConnectNode
  <2>2. d \in Node
    BY DEF Replaceable, Present
  <2> HIDE DEF waiting
  <2> QED
    BY <1>3, <1>5, <2>1, <2>2, SentKeepsUpkeep
<1>8. CASE n \in Present(t) \/ ~Full(t)
  <2>1. u \in {SetEntry(t, n, e), Queued(SetEntry(t, n, e), n)}
    BY <1>8, Zenon DEF ConnectNode
  <2> QED
    BY <1>3, <1>4, <1>5, <2>1
<1> QED
  BY <1>6, <1>7, <1>8

\* An entry whose place stays, and that is not disconnected.
LEMMA UpdateKeepsUpkeep ==
    ASSUME NEW t, Upkeep(t), NEW n \in Node, NEW e \in TableEntry,
           e.place = t.entry[n].place, e.connected \/ e.connected = t.entry[n].connected
    PROVE  Upkeep(SetEntry(t, n, e))
<1>1. t \in Table /\ t.to_ping \in SUBSET Node /\ t.requests \in SUBSET AnyRequest
  BY DEF Upkeep, Table
<1>2. SetEntry(t, n, e) = [entry |-> [t.entry EXCEPT ![n] = e], to_ping |-> t.to_ping,
                           requests |-> t.requests]
  BY <1>1 DEF SetEntry, Table
<1>3. ~e.connected =>
         /\ e.place = "present" => n \in t.to_ping \/ (n \in failed /\ n \notin Absent(table))
         /\ e.place = "pending" => n \in failed
  <2>1. PingedOrFailed(t, n)
    BY DEF Upkeep
  <2> QED
    BY <2>1 DEF PingedOrFailed, Present, PendingIn
<1> QED
  BY <1>1, <1>2, <1>3, EntryIsSet

LEMMA StatusKeepsUpkeep ==
    ASSUME NEW t, Upkeep(t), NEW n \in Node
    PROVE  Upkeep(WithStatus(t, n, TRUE))
<1> DEFINE e == [t.entry[n] EXCEPT !.connected = TRUE]
<1>1. t.entry[n] \in TableEntry
  BY DEF Upkeep, Table
<1>2. e \in TableEntry /\ e.place = t.entry[n].place /\ e.connected
  BY <1>1, Zenon DEF TableEntry
<1>3. WithStatus(t, n, TRUE) \in {t, SetEntry(t, n, e)}
  BY DEF WithStatus, SetEntry
<1> HIDE DEF e
<1> QED
  BY <1>2, <1>3, UpdateKeepsUpkeep, Zenon

LEMMA ActivityKeepsUpkeep ==
    ASSUME RoutingInv, NEW t, Upkeep(t), NEW n \in Node, NEW u \in RegisterNodeActivity(t, n)
    PROVE  Upkeep(u)
<1>1. CASE \E seq \in 1..peer[n].seq : u \in ConnectNode(t, n, seq, MaxRadius)
  <2>1. PICK seq \in 1..peer[n].seq : u \in ConnectNode(t, n, seq, MaxRadius)
    BY <1>1
  <2>2. seq \in 0..MaxSeq /\ MaxRadius \in Radius
    BY <2>1, RoutingAssumption DEF RoutingInv, EnrSeq, Radius
  <2> QED
    BY <2>1, <2>2, ConnectKeepsUpkeep
<1> QED
  BY <1>1, StatusKeepsUpkeep, Zenon DEF RegisterNodeActivity

\* What a ping or a pong brings: a new radius, and a request for a newer ENR.
LEMMA RadiusKeepsUpkeep ==
    ASSUME RoutingInv, NEW t, Upkeep(t), NEW n \in Node, NEW seq \in 0..MaxSeq
    PROVE  Upkeep(ProcessPing(t, n)) /\ Upkeep(ProcessPong(t, n, seq))
<1> DEFINE asked == IF t.entry[n].seq < peer[n].seq THEN Sent(t, "RequestNode", n) ELSE t
           e == [asked.entry[n] EXCEPT !.radius = peer[n].radius]
           f == [asked.entry[n] EXCEPT !.radius = peer[n].radius, !.seq = seq]
<1>1. Upkeep(asked)
  BY SentKeepsUpkeep
<1>2. /\ ProcessPing(t, n) \in {t, SetEntry(asked, n, e)}
      /\ ProcessPong(t, n, seq) \in {t, asked, SetEntry(asked, n, f)}
  BY ZenonT(30) DEF ProcessPing, ProcessPong, SetEntry
<1> HIDE DEF asked
<1>3. asked.entry[n] \in TableEntry /\ peer[n].radius \in Radius
  BY <1>1 DEF Upkeep, Table, RoutingInv
<1>4. /\ e \in TableEntry /\ e.place = asked.entry[n].place
      /\ e.connected = asked.entry[n].connected
  BY <1>3 DEF TableEntry
<1>5. /\ f \in TableEntry /\ f.place = asked.entry[n].place
      /\ f.connected = asked.entry[n].connected
  BY <1>3, Zenon DEF TableEntry
<1> HIDE DEF e, f
<1>6. Upkeep(SetEntry(asked, n, e)) /\ Upkeep(SetEntry(asked, n, f))
  BY <1>1, <1>4, <1>5, UpdateKeepsUpkeep
<1> QED
  BY <1>1, <1>2, <1>6

\* A discovered node enters the bucket unconnected, and the ping queue with it.
LEMMA DiscoveryKeepsUpkeep ==
    ASSUME NEW t, Upkeep(t), NEW n \in Node, NEW seq \in 0..MaxSeq
    PROVE  Upkeep(ProcessDiscoveredEnr(t, n, seq))
<1> DEFINE e == [place |-> "present", seq |-> seq, radius |-> MaxRadius, connected |-> FALSE]
           f == [t.entry[n] EXCEPT !.seq = seq]
<1>1. t \in Table /\ t.to_ping \in SUBSET Node /\ t.requests \in SUBSET AnyRequest
  BY DEF Upkeep, Table
<1>2. e \in TableEntry
  BY RoutingAssumption DEF TableEntry, Radius
<1>3. f \in TableEntry /\ f.place = t.entry[n].place /\ f.connected = t.entry[n].connected
  BY <1>1 DEF Table, TableEntry
<1>4. ProcessDiscoveredEnr(t, n, seq) \in
         {t, Queued(SetEntry(t, n, e), n), SetEntry(t, n, f)}
  BY Zenon DEF ProcessDiscoveredEnr, SetEntry
<1> HIDE DEF e, f
<1>5. Upkeep(Queued(SetEntry(t, n, e), n))
  <2>1. SetEntry(t, n, e) = [entry |-> [t.entry EXCEPT ![n] = e], to_ping |-> t.to_ping,
                             requests |-> t.requests]
    BY <1>1, <1>2 DEF SetEntry, Table
  <2>2. Queued(SetEntry(t, n, e), n) =
           [entry |-> [t.entry EXCEPT ![n] = e], to_ping |-> t.to_ping \cup {n},
            requests |-> t.requests]
    BY <2>1, QueuedRecord
  <2>3. t.to_ping \cup {n} \in SUBSET Node /\ t.to_ping \ {n} \subseteq t.to_ping \cup {n}
    BY <1>1
  <2>4. e.place = "present"
    BY DEF e
  <2> QED
    BY <1>1, <1>2, <2>2, <2>3, <2>4, EntryIsSet
<1> QED
  BY <1>3, <1>4, <1>5, UpdateKeepsUpkeep

LEMMA ResponseKeepsUpkeep ==
    ASSUME NEW t, Upkeep(t), NEW n \in Node, NEW seq \in 0..MaxSeq,
           NEW u \in ProcessResponse(t, n, seq)
    PROVE  Upkeep(u)
<1>1. t.entry[n].seq \in 0..MaxSeq /\ t.entry[n].radius \in Radius /\ MaxRadius \in Radius
  BY RoutingAssumption DEF Upkeep, Table, TableEntry, Radius
<1> QED
  BY <1>1, ConnectKeepsUpkeep DEF ProcessResponse

LEMMA AnsweredKeepsUpkeep ==
    ASSUME NEW r, RoutingInv
    PROVE  Upkeep(Answered(r))
<1> DEFINE sent == table.requests \ {r}
<1>1. table \in Table /\ Upkeep(table)
  BY DEF RoutingInv, Upkeep
<1>2. sent \in SUBSET AnyRequest /\ table.to_ping \in SUBSET Node
  BY <1>1 DEF Table
<1>3. Answered(r) = [entry |-> table.entry, to_ping |-> table.to_ping, requests |-> sent]
  BY <1>1 DEF Answered, Table
<1> HIDE DEF sent
<1> QED
  BY <1>1, <1>2, <1>3, QueueGrows

\* The end of a handler: the nodes it inserted start with a clean slate.
LEMMA HandlerKeepsInv ==
    ASSUME RoutingInv, NEW u, Upkeep(u), table' = u, Remember({}), UNCHANGED peer
    PROVE  RoutingInv'
<1>1. failed' = failed \ Entered
  BY DEF Remember
<1>2. ASSUME NEW n \in Node
      PROVE  PingedOrFailed(table, n)'
  <2>1. PingedOrFailed(u, n)
    BY DEF Upkeep
  <2>2. n \in Entered => n \in Absent(table) /\ n \in Present(u)
    BY DEF Entered
  <2>3. n \in Present(u) => n \notin PendingIn(u) /\ n \notin Absent(u)
    BY DEF Present, PendingIn, Absent
  <2>4. ~u.entry[n].connected =>
           /\ n \in Present(u) => n \in u.to_ping \/ (n \in failed' /\ n \notin Absent(u))
           /\ n \in PendingIn(u) => n \in failed'
    BY <1>1, <2>1, <2>2, <2>3 DEF PingedOrFailed
  <2> QED
    BY <2>4 DEF PingedOrFailed, Present, PendingIn, Absent
<1>3. (table \in Table)' /\ peer' \in [Node -> [seq : EnrSeq, radius : Radius]]
  BY DEF Upkeep, RoutingInv, Table, TableEntry, AnyRequest
<1>4. failed' \subseteq Node
  BY <1>1 DEF RoutingInv
<1> QED
  BY <1>2, <1>3, <1>4 DEF RoutingInv, Upkeep

\* The handlers that leave the slates alone, where no node becomes present.
LEMMA QuietStepKeepsInv ==
    ASSUME RoutingInv, NEW u, Upkeep(u), table' = u, UNCHANGED <<peer, failed>>,
           Present(u) \cap Absent(table) = {}
    PROVE  RoutingInv'
<1>1. Entered = {}
  BY DEF Entered, Present, Absent
<1>2. Remember({})
  BY <1>1 DEF Remember
<1> QED
  BY <1>2, HandlerKeepsInv

LEMMA IncomingKeepsInv ==
    ASSUME RoutingInv, NEW n \in Node, IncomingPing(n) \/ IncomingRequest(n)
    PROVE  RoutingInv'
<1>1. Upkeep(table) /\ 0 \in 0..MaxSeq
  BY RoutingAssumption DEF RoutingInv
<1>2. PICK t \in RegisterNodeActivity(table, n) : table' = t \/ table' = ProcessPing(t, n)
  BY DEF IncomingPing, IncomingRequest
<1>3. Upkeep(t)
  BY <1>1, ActivityKeepsUpkeep
<1>4. Upkeep(ProcessPing(t, n))
  BY <1>1, <1>3, RadiusKeepsUpkeep
<1>5. Remember({}) /\ UNCHANGED peer
  BY DEF IncomingPing, IncomingRequest
<1> QED
  BY <1>2, <1>3, <1>4, <1>5, HandlerKeepsInv

LEMMA ReceiveKeepsInv ==
    ASSUME RoutingInv, NEW r \in Request, NEW n \in Node, NEW seq \in EnrSeq,
           ReceivePong(r) \/ ReceiveOwnEnr(r) \/ ReceiveNodes(r, n, seq)
    PROVE  RoutingInv'
<1>1. /\ r.dest \in Node /\ r.seq \in 0..MaxSeq /\ seq \in 0..MaxSeq
      /\ peer[r.dest].seq \in 0..MaxSeq
  BY DEF Request, EnrSeq, RoutingInv
<1>2. PICK t \in ProcessResponse(Answered(r), r.dest, r.seq) :
         \/ table' = ProcessPong(t, r.dest, r.seq)
         \/ table' = ProcessDiscoveredEnr(t, r.dest, peer[r.dest].seq)
         \/ table' = ProcessDiscoveredEnr(t, n, seq)
  BY Zenon DEF ReceivePong, ReceiveOwnEnr, ReceiveNodes
<1>3. Upkeep(t)
  BY <1>1, AnsweredKeepsUpkeep, ResponseKeepsUpkeep, Zenon
<1>4. /\ Upkeep(ProcessPong(t, r.dest, r.seq))
      /\ Upkeep(ProcessDiscoveredEnr(t, r.dest, peer[r.dest].seq))
      /\ Upkeep(ProcessDiscoveredEnr(t, n, seq))
  BY <1>1, <1>3, RadiusKeepsUpkeep, DiscoveryKeepsUpkeep, Zenon
<1>5. Remember({}) /\ UNCHANGED peer
  BY Zenon DEF ReceivePong, ReceiveOwnEnr, ReceiveNodes
<1> QED
  BY <1>2, <1>4, <1>5, HandlerKeepsInv, Zenon

\* connect_node leaves all other entries alone; the one it writes is connected.
LEMMA ConnectEntry ==
    ASSUME NEW t \in Table, NEW n \in Node, NEW seq \in 0..MaxSeq, NEW rad \in Radius,
           NEW u \in ConnectNode(t, n, seq, rad)
    PROVE  \/ u.entry = t.entry
           \/ \E e \in TableEntry : e.connected /\ u.entry = [t.entry EXCEPT ![n] = e]
<1> DEFINE e == [place |-> "present", seq |-> seq, radius |-> rad, connected |-> TRUE]
           p == [e EXCEPT !.place = "pending"]
<1>1. e \in TableEntry /\ p \in TableEntry /\ e.connected /\ p.connected
  BY Zenon DEF TableEntry
<1>2. \/ u \in {SetEntry(t, n, e), Queued(SetEntry(t, n, e), n), Unqueued(t, n)}
      \/ \E d \in Node : u = Sent(SetEntry(t, n, p), "Ping", d)
  BY Zenon DEF ConnectNode, Replaceable, Present
<1> HIDE DEF e, p
<1>3. \A f \in TableEntry :
         SetEntry(t, n, f) \in Table /\ SetEntry(t, n, f).entry = [t.entry EXCEPT ![n] = f]
  BY DEF SetEntry, Table
<1>4. \A s \in Table : \A m \in Node :
         /\ Queued(s, m).entry = s.entry /\ Unqueued(s, m).entry = s.entry
         /\ Sent(s, "Ping", m).entry = s.entry
  BY DEF Table, Queued, Unqueued, Sent
<1>5. CASE u \in {SetEntry(t, n, e), Queued(SetEntry(t, n, e), n)}
  BY <1>1, <1>3, <1>4, <1>5, SMTT(20)
<1>6. CASE u = Unqueued(t, n)
  BY <1>4, <1>6
<1>7. CASE \E d \in Node : u = Sent(SetEntry(t, n, p), "Ping", d)
  <2>1. u.entry = [t.entry EXCEPT ![n] = p]
    BY <1>1, <1>3, <1>4, <1>7
  <2> QED
    BY <1>1, <2>1
<1> QED
  BY <1>2, <1>5, <1>6, <1>7, Zenon

LEMMA DiscoverKeepsInv ==
    ASSUME RoutingInv, NEW n \in Node, NEW seq \in EnrSeq, DiscoverNode(n, seq) \/ AddEnr(n, seq)
    PROVE  RoutingInv'
<1>1. seq \in 0..MaxSeq /\ MaxRadius \in Radius /\ Upkeep(table)
  BY RoutingAssumption DEF EnrSeq, Radius, RoutingInv
<1>2. Remember({}) /\ UNCHANGED peer
  BY DEF DiscoverNode, AddEnr
<1>3. CASE DiscoverNode(n, seq)
  BY <1>1, <1>2, <1>3, DiscoveryKeepsUpkeep, HandlerKeepsInv, Zenon DEF DiscoverNode
<1>4. CASE AddEnr(n, seq)
  <2>1. PICK t \in ConnectNode(table, n, seq, MaxRadius) :
           table' = [table EXCEPT !.entry = t.entry]
    BY <1>4 DEF AddEnr
  <2>2. /\ table \in Table /\ table.to_ping \in SUBSET Node
        /\ table.requests \in SUBSET AnyRequest
    BY <1>1 DEF Upkeep, Table
  <2>3. table' = [entry |-> t.entry, to_ping |-> table.to_ping, requests |-> table.requests]
    BY <2>1, <2>2 DEF Table
  <2>4. CASE t.entry = table.entry
    <3>1. table' = table
      BY <2>2, <2>3, <2>4, Zenon DEF Table
    <3> QED
      BY <1>1, <1>2, <3>1, HandlerKeepsInv
  <2>5. ASSUME NEW e \in TableEntry, e.connected, t.entry = [table.entry EXCEPT ![n] = e]
        PROVE  RoutingInv'
    <3>1. Upkeep([entry |-> [table.entry EXCEPT ![n] = e], to_ping |-> table.to_ping,
                  requests |-> table.requests])
      BY <1>1, <2>2, <2>5, EntryIsSet, Zenon
    <3> QED
      BY <1>2, <2>3, <2>5, <3>1, HandlerKeepsInv, Zenon
  <2>6. \/ t.entry = table.entry
        \/ \E e \in TableEntry : e.connected /\ t.entry = [table.entry EXCEPT ![n] = e]
    <3>1. seq \in 0..MaxSeq /\ MaxRadius \in Radius /\ table \in Table
      BY <1>1, <2>2
    <3>2. t \in ConnectNode(table, n, seq, MaxRadius)
      BY <2>1
    <3> QED
      BY <3>1, <3>2, ConnectEntry
  <2> QED
    BY <2>4, <2>5, <2>6, Zenon
<1> QED
  BY <1>3, <1>4

\* The ping queue and the lookups send requests.
LEMMA SendKeepsRoutingInv ==
    ASSUME RoutingInv, NEW n \in Node, NEW seq \in EnrSeq, PingQueue(n) \/ SendLookup(n, seq)
    PROVE  RoutingInv'
<1>1. /\ Upkeep(table) /\ table \in Table /\ table.to_ping \in SUBSET Node
      /\ table.requests \in SUBSET AnyRequest
  BY DEF RoutingInv, Upkeep, Table
<1>2. UNCHANGED <<peer, failed>>
  BY DEF PingQueue, SendLookup
<1>3. Present(table) \cap Absent(table) = {}
  BY DEF Present, Absent
<1>4. CASE table' = Sent(table, "Ping", n)
  <2>1. Upkeep(Sent(table, "Ping", n))
    BY <1>1, SentKeepsUpkeep
  <2>2. Sent(table, "Ping", n).entry = table.entry
    BY <1>1 DEF Sent, Table
  <2>3. Present(Sent(table, "Ping", n)) = Present(table)
    BY <2>2 DEF Present
  <2> QED
    BY <1>2, <1>3, <1>4, <2>1, <2>3, QuietStepKeepsInv
<1>5. CASE table' = Unqueued(table, n) /\ n \notin Present(table)
  <2> DEFINE u == [entry |-> [table.entry EXCEPT ![n] = table.entry[n]],
                   to_ping |-> table.to_ping \ {n}, requests |-> table.requests]
  <2>1. table' = u /\ u.entry = table.entry
    BY <1>1, <1>5 DEF Unqueued, Table
  <2>2. PingedOrFailed(table, n) /\ table.entry[n] \in TableEntry
    BY <1>1 DEF Upkeep, Table
  <2>3. ~table.entry[n].connected =>
           /\ table.entry[n].place # "present"
           /\ table.entry[n].place = "pending" => n \in failed
    BY <1>5, <2>2 DEF PingedOrFailed, Present, PendingIn
  <2>4. table.to_ping \ {n} \in SUBSET Node
    BY <1>1
  <2>5. Upkeep(u)
    BY <1>1, <2>2, <2>3, <2>4, EntryIsSet, Zenon
  <2> HIDE DEF u
  <2>6. Present(u) = Present(table)
    BY <2>1, Zenon DEF Present
  <2> QED
    BY <1>2, <1>3, <2>1, <2>5, <2>6, QuietStepKeepsInv
<1>6. CASE SendLookup(n, seq)
  <2> DEFINE r == [kind |-> "Lookup", dest |-> n, seq |-> seq]
             u == [entry |-> table.entry, to_ping |-> table.to_ping,
                   requests |-> table.requests \cup {r}]
  <2>1. r \in AnyRequest
    BY DEF AnyRequest, EnrSeq
  <2>2. table' = u
    BY <1>1, <1>6, Zenon DEF SendLookup, Table
  <2> HIDE DEF r
  <2>3. Upkeep(u) /\ u.entry = table.entry
    BY <1>1, <2>1, QueueGrows
  <2> HIDE DEF u
  <2>4. Present(u) = Present(table)
    BY <2>3, Zenon DEF Present
  <2> QED
    BY <1>2, <1>3, <2>2, <2>3, <2>4, QuietStepKeepsInv
<1> QED
  BY <1>4, <1>5, <1>6 DEF PingQueue

\* A failed request disconnects the node, takes it off the queue and remembers it.
LEMMA FailureKeepsInv ==
    ASSUME RoutingInv, NEW r \in Request, ProcessRequestFailure(r)
    PROVE  RoutingInv'
<1> DEFINE n == r.dest
           e == [table.entry[n] EXCEPT !.connected = FALSE]
           f == IF n \in Absent(table) THEN table.entry[n] ELSE e
<1>1. /\ table \in Table /\ n \in Node /\ table.entry[n] \in TableEntry
      /\ \A m \in Node : PingedOrFailed(table, m)
  BY DEF RoutingInv, Upkeep, Table, Request
<1>2. f \in TableEntry /\ f.place = table.entry[n].place
  BY <1>1, Zenon DEF TableEntry
<1>3. table' = [entry |-> [table.entry EXCEPT ![n] = f], to_ping |-> table.to_ping \ {n},
                requests |-> table.requests \ {r}]
  <2>1. Answered(r) = [entry |-> table.entry, to_ping |-> table.to_ping,
                       requests |-> table.requests \ {r}]
    BY <1>1 DEF Answered, Table
  <2>2. n \in Absent(Answered(r)) <=> n \in Absent(table)
    BY <2>1 DEF Absent
  <2>3. WithStatus(Answered(r), n, FALSE) =
           [entry |-> [table.entry EXCEPT ![n] = f], to_ping |-> table.to_ping,
            requests |-> table.requests \ {r}]
    <3>1. CASE n \in Absent(table)
      BY <1>1, <2>1, <2>2, <3>1, Zenon DEF WithStatus, Table
    <3>2. CASE n \notin Absent(table)
      <4>1. Answered(r) \in Table /\ e \in TableEntry
        <5>1. Answered(r) \in Table
          BY <1>1, <2>1 DEF Table
        <5>2. e \in TableEntry
          BY <1>1, Zenon DEF TableEntry
        <5> QED
          BY <5>1, <5>2
      <4>2. WithStatus(Answered(r), n, FALSE) = SetEntry(Answered(r), n, e)
        <5>1. Answered(r).entry = table.entry
          BY <2>1
        <5>2. WithStatus(Answered(r), n, FALSE) =
                 SetEntry(Answered(r), n, [Answered(r).entry[n] EXCEPT !.connected = FALSE])
          BY <2>2, <3>2 DEF WithStatus, SetEntry
        <5> QED
          BY <5>1, <5>2, Zenon
      <4> HIDE DEF e
      <4>3. SetEntry(Answered(r), n, e) =
               [entry |-> [table.entry EXCEPT ![n] = e], to_ping |-> table.to_ping,
                requests |-> table.requests \ {r}]
        BY <2>1, <4>1, SMTT(20) DEF SetEntry, Table
      <4>4. f = e
        BY <3>2
      <4> QED
        BY <4>2, <4>3, <4>4, Zenon
    <3> QED
      BY <3>1, <3>2, Zenon
  <2> HIDE DEF f
  <2>4. table' = Unqueued(WithStatus(Answered(r), n, FALSE), n)
    BY DEF ProcessRequestFailure
  <2>5. Unqueued([entry |-> [table.entry EXCEPT ![n] = f], to_ping |-> table.to_ping,
                  requests |-> table.requests \ {r}], n) =
           [entry |-> [table.entry EXCEPT ![n] = f], to_ping |-> table.to_ping \ {n},
            requests |-> table.requests \ {r}]
    BY UnqueuedRecord
  <2> QED
    BY <2>3, <2>4, <2>5, Zenon
<1> HIDE DEF f
<1>4. /\ table'.entry[n] = f /\ table'.to_ping = table.to_ping \ {n}
      /\ \A m \in Node \ {n} : table'.entry[m] = table.entry[m]
  BY <1>1, <1>3 DEF Table
<1>5. Entered = {}
  BY <1>2, <1>4, Zenon DEF Entered, Present, Absent
<1>6. failed' = failed \cup {n} /\ UNCHANGED peer
  BY <1>5, Zenon DEF ProcessRequestFailure, Remember
<1>7. ASSUME NEW m \in Node
      PROVE  PingedOrFailed(table, m)'
  <2>1. m \in Present(table)' => m \notin Absent(table)'
    BY DEF Present, Absent
  <2>2. CASE m = n
    BY <1>6, <2>1, <2>2 DEF PingedOrFailed
  <2>3. CASE m # n
    <3>1. PingedOrFailed(table, m) /\ table'.entry[m] = table.entry[m]
      BY <1>1, <1>4, <2>3
    <3>2. m \in table.to_ping => m \in table'.to_ping
      BY <1>4, <2>3
    <3> QED
      BY <1>6, <2>1, <3>1, <3>2 DEF PingedOrFailed, Present, PendingIn
  <2> QED
    BY <2>2, <2>3
<1>8. table' \in Table
  BY <1>1, <1>2, <1>3 DEF Table
<1>9. failed' \subseteq Node /\ peer' \in [Node -> [seq : EnrSeq, radius : Radius]]
  BY <1>1, <1>6, Zenon DEF RoutingInv
<1> QED
  BY <1>7, <1>8, <1>9 DEF RoutingInv, Upkeep, Table, TableEntry, AnyRequest

\* A node is taken out of the bucket.
LEMMA RemovalKeepsInv ==
    ASSUME RoutingInv, NEW n \in Node, table' = SetEntry(table, n, NoEntry),
           UNCHANGED <<peer, failed>>
    PROVE  RoutingInv'
<1> DEFINE u == [entry |-> [table.entry EXCEPT ![n] = NoEntry],
                 to_ping |-> table.to_ping, requests |-> table.requests]
<1>1. /\ table \in Table /\ Upkeep(table)
      /\ table.to_ping \in SUBSET Node /\ table.requests \in SUBSET AnyRequest
  BY Zenon DEF RoutingInv, Upkeep, Table
<1>2. NoEntry \in TableEntry /\ NoEntry.place = "absent"
  <2>1. MaxRadius \in Radius /\ 0 \in 0..MaxSeq
    BY RoutingAssumption DEF Radius
  <2> QED
    BY <2>1 DEF NoEntry, TableEntry
<1>3. table' = u
  BY <1>1, <1>2 DEF SetEntry, Table
<1>4. Upkeep(u)
  BY <1>1, <1>2, EntryIsSet, Zenon
<1>5. \A m \in Node : u.entry[m] = table.entry[m] \/ u.entry[m].place = "absent"
  BY <1>1, <1>2 DEF Table
<1> HIDE DEF u
<1>6. Present(u) \cap Absent(table) = {}
  BY <1>5 DEF Present, Absent
<1> QED
  BY <1>3, <1>4, <1>6, QuietStepKeepsInv

\* The pending node is dropped, or enters: into the place of an unconnected node, or of
\* one that was deleted.
LEMMA PendingKeepsInv ==
    ASSUME RoutingInv, NEW n \in Node, ApplyPending(n)
    PROVE  RoutingInv'
<1> DEFINE e == [table.entry[n] EXCEPT !.place = "present"]
           t == [entry |-> [table.entry EXCEPT ![n] = e],
                 to_ping |-> table.to_ping, requests |-> table.requests]
<1>1. /\ table \in Table /\ table.entry[n] \in TableEntry /\ Upkeep(table)
      /\ table.to_ping \in SUBSET Node /\ table.requests \in SUBSET AnyRequest
      /\ PingedOrFailed(table, n) /\ table.entry[n].place = "pending"
  BY Zenon DEF RoutingInv, Upkeep, Table, ApplyPending, PendingIn
<1>2. /\ NoEntry \in TableEntry /\ NoEntry.place = "absent"
      /\ UNCHANGED <<peer, failed>>
  <2>1. MaxRadius \in Radius /\ 0 \in 0..MaxSeq
    BY RoutingAssumption DEF Radius
  <2>2. NoEntry \in TableEntry /\ NoEntry.place = "absent"
    BY <2>1 DEF NoEntry, TableEntry
  <2> QED
    BY <2>2, Zenon DEF ApplyPending
<1>3. CASE table' = SetEntry(table, n, NoEntry)
  BY <1>2, <1>3, RemovalKeepsInv
<1>4. /\ e \in TableEntry /\ e.place = "present"
      /\ e.connected = table.entry[n].connected
  BY <1>1 DEF TableEntry
<1>5. table' = [table EXCEPT !.entry[n].place = "present"] => table' = t
  BY <1>1 DEF Table
<1> HIDE DEF e
<1>6. Upkeep(t)
  <2>1. ~e.connected => n \in failed /\ n \notin Absent(table)
    BY <1>1, <1>4, Zenon DEF PingedOrFailed, PendingIn, Absent
  <2> QED
    BY <1>1, <1>4, <2>1, EntryIsSet, Zenon
<1>7. CASE table' = [table EXCEPT !.entry[n].place = "present"]
  <2>1. \A m \in Node : m # n => t.entry[m] = table.entry[m]
    BY <1>1 DEF Table
  <2>2. table' = t
    BY <1>5, <1>7
  <2> HIDE DEF t
  <2>3. Present(t) \cap Absent(table) = {}
    BY <1>1, <2>1, Zenon DEF Present, Absent
  <2> QED
    BY <1>2, <1>6, <2>2, <2>3, QuietStepKeepsInv
<1>8. ASSUME NEW d \in Replaceable(table),
             table' = [table EXCEPT !.entry[n].place = "present", !.entry[d] = NoEntry]
      PROVE  RoutingInv'
  <2> DEFINE u == [entry |-> [t.entry EXCEPT ![d] = NoEntry],
                   to_ping |-> t.to_ping, requests |-> t.requests]
  <2>1. d \in Node /\ d # n /\ table.entry[d].place = "present"
    BY <1>1, <1>8 DEF Replaceable, Present
  <2>2. table' = u
    BY <1>1, <1>8, <2>1, Zenon DEF Table, e
  <2>3. t.to_ping \in SUBSET Node /\ t.requests \in SUBSET AnyRequest
    BY <1>1, Zenon
  <2>4. \A m \in Node : m # n => u.entry[m] = table.entry[m] \/ u.entry[m].place = "absent"
    BY <1>1, <1>2, <1>4, <2>1, Zenon DEF Table
  <2> HIDE DEF t
  <2>5. Upkeep(u)
    BY <1>2, <1>6, <2>1, <2>3, EntryIsSet, Zenon
  <2> HIDE DEF u
  <2>6. Present(u) \cap Absent(table) = {}
    BY <1>1, <2>4, Zenon DEF Present, Absent
  <2> QED
    BY <1>2, <2>2, <2>5, <2>6, QuietStepKeepsInv
<1> QED
  BY <1>3, <1>7, <1>8, Zenon DEF ApplyPending

LEMMA PeerKeepsInv ==
    ASSUME RoutingInv, NEW n \in Node, PeerChanges(n)
    PROVE  RoutingInv'
<1>1. peer' \in [Node -> [seq : EnrSeq, radius : Radius]]
  BY RoutingAssumption DEF RoutingInv, PeerChanges, EnrSeq
<1>2. UNCHANGED <<table, failed>>
  BY DEF PeerChanges
<1> QED
  BY <1>1, <1>2 DEF RoutingInv, Upkeep, Table, TableEntry, AnyRequest, PingedOrFailed, Present,
                    PendingIn, Absent

LEMMA RoutingStep == RoutingInv /\ [RNext]_rvars => RoutingInv'
<1> SUFFICES ASSUME RoutingInv, [RNext]_rvars
             PROVE  RoutingInv'
  OBVIOUS
<1>1. CASE UNCHANGED rvars
  BY <1>1 DEF rvars, RoutingInv, Upkeep, Table, TableEntry, AnyRequest, PingedOrFailed, Present,
              PendingIn, Absent
<1>2. CASE RNext
  <2>1. 1 \in EnrSeq
    BY RoutingAssumption DEF EnrSeq
  <2>2. ASSUME NEW n \in Node, IncomingPing(n) \/ IncomingRequest(n) \/ PingQueue(n)
                               \/ ApplyPending(n) \/ PeerChanges(n)
        PROVE  RoutingInv'
    BY <2>1, <2>2, IncomingKeepsInv, SendKeepsRoutingInv, PendingKeepsInv, PeerKeepsInv
  <2>3. ASSUME NEW n \in Node, NEW seq \in EnrSeq,
               SendLookup(n, seq) \/ DiscoverNode(n, seq) \/ AddEnr(n, seq)
        PROVE  RoutingInv'
    BY <2>3, SendKeepsRoutingInv, DiscoverKeepsInv
  <2>4. ASSUME NEW r \in Request, ReceivePong(r) \/ ReceiveOwnEnr(r) \/ ProcessRequestFailure(r)
        PROVE  RoutingInv'
    <3>1. r.dest \in Node
      BY DEF Request
    <3> QED
      BY <2>1, <2>4, <3>1, ReceiveKeepsInv, FailureKeepsInv
  <2>5. ASSUME NEW r \in Request, NEW n \in Node, NEW seq \in EnrSeq, ReceiveNodes(r, n, seq)
        PROVE  RoutingInv'
    BY <2>5, ReceiveKeepsInv
  <2>6. ASSUME NEW n \in Node, DeleteEnr(n)
        PROVE  RoutingInv'
    BY <2>6, RemovalKeepsInv DEF DeleteEnr
  <2> QED
    BY <1>2, <2>2, <2>3, <2>4, <2>5, <2>6 DEF RNext
<1> QED
  BY <1>1, <1>2

LEMMA RoutingInit == RInit => RoutingInv
<1> SUFFICES ASSUME RInit
             PROVE  RoutingInv
  OBVIOUS
<1>1. MaxRadius \in Radius /\ 0 \in 0..MaxSeq /\ 1 \in 0..MaxSeq /\ 1 \in EnrSeq
  BY RoutingAssumption DEF Radius, EnrSeq
<1>2. PICK boot \in SUBSET Node :
         table = [entry    |-> [n \in Node |->
                                  IF n \in boot
                                  THEN [NoEntry EXCEPT !.place = "present", !.seq = 1]
                                  ELSE NoEntry],
                  to_ping  |-> boot,
                  requests |-> {}]
  BY Zenon DEF RInit
<1> DEFINE e == [NoEntry EXCEPT !.place = "present", !.seq = 1]
<1>3. /\ e \in TableEntry /\ NoEntry \in TableEntry /\ NoEntry.place = "absent"
      /\ e.place = "present"
  BY <1>1, Zenon DEF NoEntry, TableEntry
<1>4. table = [entry |-> [n \in Node |-> IF n \in boot THEN e ELSE NoEntry],
               to_ping |-> boot, requests |-> {}]
  BY <1>2
<1> HIDE DEF e
<1>5. table \in Table
  BY <1>3, <1>4 DEF Table
<1>6. ASSUME NEW n \in Node
      PROVE  PingedOrFailed(table, n)
  BY <1>3, <1>4 DEF PingedOrFailed, Present, PendingIn
<1>7. peer \in [Node -> [seq : EnrSeq, radius : Radius]] /\ failed \subseteq Node
  BY <1>1 DEF RInit
<1> QED
  BY <1>5, <1>6, <1>7 DEF RoutingInv, Upkeep

\* A node that entered the table unconnected is in the ping queue, unless it has
\* failed a request since: also if pings, pongs, lookups, deletions and the pending
\* place of its bucket come in any order between.
THEOREM UnconnectedWaitsForPing == RSpec => []UnconnectedIsPinged
<1>1. RoutingInv => UnconnectedIsPinged
  BY DEF RoutingInv, Upkeep, PingedOrFailed, UnconnectedIsPinged, Present
<1> QED
  BY <1>1, RoutingInit, RoutingStep, PTL DEF RSpec

=============================================================================
