----------------------------- MODULE Validation -----------------------------
(***************************************************************************)
(* The validation of history content.  A header is checked against its key *)
(* and, up to the merge, against the master accumulator by a Merkle proof; *)
(* an epoch accumulator must be one that the master accumulator lists; a   *)
(* body and receipts are checked against the header of their block, which  *)
(* the node looks up on its own network.  What the lookup finds is         *)
(* validated in its turn, while the first validation holds the header      *)
(* oracle for reading: the lock of the oracle is fair, so a reader waits   *)
(* behind a writer that waits.                                             *)
(*                                                                         *)
(* A block is its number and its branch; the canonical branch is "main".   *)
(***************************************************************************)
EXTENDS Epochs, MerkleTree, FiniteSets

CONSTANTS
    Validator,      \* validations that run at the same time
    Asked           \* for every one of them, the keys it may be asked for

VARIABLES
    starting,       \* the networks of run_trin that are still to be started
    lock,           \* who reads the oracle, and who waits for it, in order
    validating,     \* for every validator: what it validates and where it is
    nested          \* for every validator: the header that its lookup found

vvars == <<starting, lock, validating, nested>>

-----------------------------------------------------------------------------
(***************************************************************************)
(* The accumulators.  The last epoch ends with the merge, and may be short.*)
(***************************************************************************)
LastEpoch == Epoch(MERGE_BLOCK_NUMBER)
AccDepth == CHOOSE d \in 0..20 : 2^d = EPOCH_SIZE

HashOf(block) == <<"block", block.number, block.branch>>
Length(n) == <<"length", n>>

EpochAcc(epoch) ==
    LET first == epoch * EPOCH_SIZE
        size == Cardinality({n \in first..(first + EPOCH_SIZE - 1) : n <= MERGE_BLOCK_NUMBER})
    IN  [i \in 1..size |->
            [block_hash |-> HashOf([number |-> first + i - 1, branch |-> "main"]),
             total_difficulty |-> <<"difficulty", first + i - 1>>]]

\* An accumulator is an SSZ list: the tree of its records and its length.
RecordTree(acc) ==
    Create([i \in DOMAIN acc |-> Hash32Concat(acc[i].block_hash, acc[i].total_difficulty)], AccDepth)
TreeHashRoot(acc) == Hash32Concat(RecordTree(acc).hash, Length(Len(acc)))

\* The master accumulator.
HistoricalEpochs == [i \in 1..(LastEpoch + 1) |-> TreeHashRoot(EpochAcc(i - 1))]

\* Hash and difficulty are leaves of their own, and the length is that of a
\* full epoch.
ConstructProof(header, acc) ==
    LET index == header.number % EPOCH_SIZE
        hashes == FlattenSeq([i \in DOMAIN acc |-> <<acc[i].block_hash, acc[i].total_difficulty>>])
        made == GenerateProof(Create(hashes, AccDepth + 1), 2 * index, AccDepth + 1)
    IN  IF acc[index + 1].block_hash # HashOf(header) THEN Failed
        ELSE Append(made.proof, Length(EPOCH_SIZE))

CalculateGeneralizedIndex(header) == EPOCH_SIZE * 2 * 2 + (header.number % EPOCH_SIZE) * 2

ValidateHeaderWithProof(hwp) ==
    \/ hwp.proof = None /\ hwp.header.number > MERGE_BLOCK_NUMBER
    \/ /\ hwp.proof # None
       /\ hwp.header.number <= MERGE_BLOCK_NUMBER
       /\ VerifyMerkleProof(HashOf(hwp.header), hwp.proof, AccDepth + 2,
                            CalculateGeneralizedIndex(hwp.header),
                            HistoricalEpochs[Epoch(hwp.header.number) + 1])

\* The JSON value for encoded content: a string, or the object with that string in it
\* that recursive_find_content answers with (ContentInfo::Content).
JsonString(content) == [json |-> "string", content |-> content]
ContentInfo(content) == [json |-> "object", content |-> content]

\* Only a string is decoded.  The answer of the history network need not be the
\* accumulator that was asked for.
LookupEpochAcc(answer) ==
    IF answer = Failed \/ answer.json # "string" THEN Failed ELSE answer.content

LookupPremergeHashByNumber(number, answer) ==
    LET found == LookupEpochAcc(answer)
    IN  IF number > MERGE_BLOCK_NUMBER \/ found = Failed THEN Failed
        ELSE found[(number % EPOCH_SIZE) + 1].block_hash

GenerateAccumulatorProof(header, answer) ==
    LET found == LookupEpochAcc(answer)
    IN  IF \/ header.number > MERGE_BLOCK_NUMBER
           \/ found = Failed
           \/ TreeHashRoot(found) # HistoricalEpochs[Epoch(header.number) + 1]
        THEN Failed ELSE ConstructProof(header, found)

-----------------------------------------------------------------------------
(***************************************************************************)
(* Keys, and the contents they may come with: Failed is one that cannot be *)
(* decoded.  A body or a list of receipts is the set of the parts that     *)
(* have the roots of the header of its block.                              *)
(***************************************************************************)
ChainBlock == [number : 0..(MERGE_BLOCK_NUMBER + 1), branch : {"main", "fork"}]
HistoryKey == [kind : {"header", "body", "receipts"}, of : ChainBlock]
              \cup [kind : {"accumulator"}, of : 0..LastEpoch]

\* The proof of a record by the SSZ rules, as another client may have made it.
RecordProof(number) ==
    LET acc == EpochAcc(Epoch(number))
        index == number % EPOCH_SIZE
    IN  <<acc[index + 1].total_difficulty>> \o GenerateProof(RecordTree(acc), index, AccDepth).proof
            \o <<Length(Len(acc))>>

HeaderProof == {None}
    \cup {RecordProof(n) : n \in 0..MERGE_BLOCK_NUMBER}
    \cup {ConstructProof([number |-> n, branch |-> "main"], EpochAcc(Epoch(n))) : n \in 0..MERGE_BLOCK_NUMBER}

HeaderWithProof == [header : ChainBlock, proof : HeaderProof]

\* An accumulator may be one that is not in the master accumulator.
Contents(kind) ==
    {Failed} \cup
    CASE kind = "header" -> HeaderWithProof
      [] kind = "accumulator" -> [records : {EpochAcc(e) : e \in 0..LastEpoch} \cup {<<>>}]
      [] kind = "body" -> [parts : SUBSET {"uncles", "transactions", "withdrawals"}]
      [] kind = "receipts" -> [parts : SUBSET {"receipts"}]

EpochHash(key) == TreeHashRoot(EpochAcc(key.of))

\* What fails before the oracle is read.
FailsAtOnce(key, content) ==
    content # Failed =>
        CASE key.kind = "header" -> HashOf(content.header) # HashOf(key.of)
          [] key.kind = "accumulator" -> TreeHashRoot(content.records) # EpochHash(key)
          [] OTHER -> FALSE

-----------------------------------------------------------------------------
\* Faulty: the history network is started before the beacon network.
NetworkOrder_HistoryFirst == <<"state", "history", "beacon">>

\* run_trin starts the networks that are selected in this order.
NetworkOrder == <<"state", "beacon", "history">>

Selected(networks) == SelectSeq(NetworkOrder, LAMBDA n : n \in networks)

VInit ==
    /\ starting \in {Selected(networks \cup {"history"}) : networks \in SUBSET {"state", "beacon"}}
    /\ lock = [readers |-> {}, waiting |-> <<>>]
    /\ validating = [v \in Validator |-> [key |-> None, content |-> None, at |-> "idle"]]
    /\ nested = [v \in Validator |-> [content |-> None, at |-> "idle"]]

\* External: the RwLock of tokio, which is granted in the order of the requests.
Wants(who) == lock' = [lock EXCEPT !.waiting = Append(@, who)]
Release(who) == lock' = [lock EXCEPT !.readers = @ \ {who}]

GrantRead ==
    /\ lock.waiting # <<>>
    /\ Head(lock.waiting)[1] # "writer"
    /\ lock' = [readers |-> lock.readers \cup {Head(lock.waiting)}, waiting |-> Tail(lock.waiting)]
    /\ UNCHANGED <<starting, validating, nested>>

\* The beacon and the history network put their channels into the oracle before
\* their services are spawned; the state network has none.
InitializeNetwork ==
    /\ starting # <<>>
    /\ \A i \in DOMAIN lock.waiting : lock.waiting[i][1] # "writer"
    /\ \/ Head(starting) = "state" /\ starting' = Tail(starting) /\ UNCHANGED lock
       \/ Head(starting) # "state" /\ Wants(<<"writer", Head(starting)>>) /\ UNCHANGED starting
    /\ UNCHANGED <<validating, nested>>

WriteOracle ==
    /\ lock.waiting # <<>>
    /\ Head(lock.waiting)[1] = "writer"
    /\ lock.readers = {}
    /\ lock' = [lock EXCEPT !.waiting = Tail(@)]
    /\ starting' = Tail(starting)
    /\ UNCHANGED <<validating, nested>>

At(v, step) == validating' = [validating EXCEPT ![v].at = step]
Invalid == [key |-> None, content |-> None, at |-> "invalid"]
Verdict(v, holds) ==
    validating' = [validating EXCEPT ![v] = IF holds THEN [@ EXCEPT !.at = "valid"] ELSE Invalid]

\* The history network runs from the moment it is started.
ValidateContent(v, key, content) ==
    /\ validating[v].at = "idle"
    /\ "history" \notin ToSet(starting)
    /\ \/ /\ FailsAtOnce(key, content)
          /\ validating' = [validating EXCEPT ![v] = Invalid]
          /\ UNCHANGED lock
       \/ /\ ~FailsAtOnce(key, content)
          /\ validating' = [validating EXCEPT ![v] = [key |-> key, content |-> content, at |-> "read"]]
          /\ Wants(<<v, "outer">>)
    /\ UNCHANGED <<starting, nested>>

\* Headers and accumulators are settled with the oracle at hand.
ValidateWithOracle(v) ==
    LET key == validating[v].key
        content == validating[v].content
    IN  /\ validating[v].at = "read"
        /\ key.kind \in {"header", "accumulator"}
        /\ <<v, "outer">> \in lock.readers
        /\ Verdict(v, IF key.kind = "header" THEN ValidateHeaderWithProof(content)
                      ELSE TreeHashRoot(content.records) \in ToSet(HistoricalEpochs))
        /\ Release(<<v, "outer">>)
        /\ UNCHANGED <<starting, nested>>

\* recursive_find_header_with_proof: the oracle stays held during the lookup.
FindHeader(v) ==
    /\ validating[v].at = "read"
    /\ validating[v].key.kind \in {"body", "receipts"}
    /\ <<v, "outer">> \in lock.readers
    /\ At(v, "lookup")
    /\ UNCHANGED <<starting, lock, nested>>

\* The lookup finds a header for the key.  One of a peer is validated, one of
\* the store was; one with another hash counts as none.
HeaderFound(v, proof) ==
    LET hwp == [header |-> validating[v].key.of, proof |-> proof]
    IN  /\ validating[v].at = "lookup"
        /\ nested[v].at = "idle"
        /\ \/ /\ nested' = [nested EXCEPT ![v] = [content |-> hwp, at |-> "read"]]
              /\ Wants(<<v, "nested">>)
           \/ /\ ValidateHeaderWithProof(hwp)
              /\ nested' = [nested EXCEPT ![v] = [content |-> hwp, at |-> "valid"]]
              /\ UNCHANGED lock
        /\ UNCHANGED <<starting, validating>>

ValidateFoundHeader(v) ==
    /\ nested[v].at = "read"
    /\ <<v, "nested">> \in lock.readers
    /\ nested' = [nested EXCEPT ![v].at =
                    IF ValidateHeaderWithProof(nested[v].content) THEN "valid" ELSE "invalid"]
    /\ Release(<<v, "nested">>)
    /\ UNCHANGED <<starting, validating>>

NestedDone(v) == nested' = [nested EXCEPT ![v] = [content |-> None, at |-> "idle"]]

\* No header, or one that is not valid, fails the validation.
HeaderNotFound(v) ==
    /\ validating[v].at = "lookup"
    /\ nested[v].at \in {"idle", "invalid"}
    /\ Verdict(v, FALSE)
    /\ Release(<<v, "outer">>)
    /\ NestedDone(v)
    /\ UNCHANGED starting

\* Faulty: the transactions of a body are not compared.
RootsCompared_UnclesOnly(kind) == IF kind = "body" THEN {"uncles"} ELSE {"receipts"}

\* The withdrawals of a body are not compared.
RootsCompared(kind) == IF kind = "body" THEN {"uncles", "transactions"} ELSE {"receipts"}

ValidateAgainstHeader(v) ==
    /\ validating[v].at = "lookup"
    /\ nested[v].at = "valid"
    /\ Verdict(v, RootsCompared(validating[v].key.kind) \subseteq validating[v].content.parts)
    /\ Release(<<v, "outer">>)
    /\ NestedDone(v)
    /\ UNCHANGED starting

VNext ==
    \/ InitializeNetwork
    \/ WriteOracle
    \/ GrantRead
    \/ \E v \in Validator :
          \/ \E key \in Asked[v] : \E content \in Contents(key.kind) : ValidateContent(v, key, content)
          \/ ValidateWithOracle(v)
          \/ FindHeader(v)
          \/ \E proof \in HeaderProof : HeaderFound(v, proof)
          \/ ValidateFoundHeader(v)
          \/ HeaderNotFound(v)
          \/ ValidateAgainstHeader(v)

\* The lock is granted in turn, lookups end, and every task goes on.
VFairness ==
    /\ WF_vvars(InitializeNetwork) /\ WF_vvars(WriteOracle) /\ WF_vvars(GrantRead)
    /\ \A v \in Validator :
          /\ WF_vvars(ValidateWithOracle(v) \/ FindHeader(v) \/ ValidateAgainstHeader(v))
          /\ WF_vvars(ValidateFoundHeader(v) \/ HeaderNotFound(v))

-----------------------------------------------------------------------------
\* What is found valid is what its key stands for: a header hashes to its key
\* and is canonical up to the merge, whatever proof comes with it; receipts, and
\* the uncles and transactions of a body, are those of that block; an
\* accumulator is that of its epoch (ChainHistoryValidator::validate_content).
ValidIsOfItsKey ==
    \A v \in Validator : validating[v].at = "valid" =>
        LET key == validating[v].key
            content == validating[v].content
            canonical == key.of.number <= MERGE_BLOCK_NUMBER => key.of.branch = "main"
        IN  CASE key.kind = "header" -> content.header = key.of /\ canonical
              [] key.kind = "accumulator" -> content.records = EpochAcc(key.of)
              [] key.kind = "receipts" -> content.parts = {"receipts"} /\ canonical
              [] key.kind = "body" -> {"uncles", "transactions"} \subseteq content.parts /\ canonical

\* Every validation comes to a verdict: one that holds the oracle while it waits
\* for a header, whose own validation needs the oracle, is never caught behind a
\* writer, because the networks that write to the oracle are started before any
\* history service validates (run_trin, recursive_find_header_with_proof).
ValidationsEnd ==
    \A v \in Validator : validating[v].at = "read" ~> validating[v].at \in {"valid", "invalid"}

\* A canonical header with the proof that construct_proof makes for it, once it
\* is checked against the oracle, is found valid: the comment there says that a
\* valid proof is constructed.
ConstructedProofsAreValid ==
    \A v \in Validator :
        LET key == validating[v].key
            content == validating[v].content
            acc == EpochAcc(Epoch(key.of.number))
        IN  /\ validating[v].at = "read"
            /\ key.kind = "header"
            /\ key.of.number <= MERGE_BLOCK_NUMBER
            /\ content.proof = ConstructProof(key.of, acc)
            => ValidateHeaderWithProof(content)

=============================================================================
