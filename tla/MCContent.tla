----------------------------- MODULE MCContent -----------------------------
(***************************************************************************)
(* What a node keeps, and what it finds valid: the history store, the      *)
(* beacon store, the Merkle tree and the validation of history content,    *)
(* each in behaviours of its own; and the decoding of block bodies.        *)
(***************************************************************************)
EXTENDS HistoryStorage, BeaconStorage, Validation, BlockBody

VARIABLE scope

mcvars == <<vars, bvars, tvars, vvars, scope>>

\* Two neighbouring distances share a prefix.
MCShort == [d \in Distance |-> d \div 2]

\* One validator is asked for all of it, bodies and receipts of some blocks only,
\* while the other has an accumulator.
MCAsked ==
    "v1" :> {k \in HistoryKey : k.kind \in {"body", "receipts"} =>
                                    k.of.number \in {1, MERGE_BLOCK_NUMBER + 1}}
    @@ "v2" :> {[kind |-> "accumulator", of |-> 0]}

MCInit ==
    /\ Init /\ BInit /\ MTInit /\ VInit
    /\ scope \in {"history", "beacon", "tree", "validation"}
    /\ scope # "history" => alone
    /\ scope # "validation" => Len(starting) = 1

MCNext ==
    \/ scope = "history" /\ Next /\ UNCHANGED <<bvars, tvars, vvars, scope>>
    \/ scope = "beacon" /\ BNext /\ UNCHANGED <<vars, tvars, vvars, scope>>
    \/ scope = "tree" /\ MTNext /\ UNCHANGED <<vars, bvars, vvars, scope>>
    \/ scope = "validation" /\ VNext /\ UNCHANGED <<vars, bvars, tvars, scope>>

MCSpec ==
    /\ MCInit /\ [][MCNext]_mcvars
    /\ scope = "history" => Fairness
    /\ scope = "validation" => VFairness

\* The validation alone.
ValidationSpec == MCInit /\ scope = "validation" /\ [][MCNext]_mcvars

\* In a full epoch the proof that is made is the one that the SSZ rules give, and
\* it is only made from the accumulator that the master accumulator lists, when that
\* comes as a string.  From the object that the history network answers with, no proof
\* is made and no hash is read.
ASSUME ProofsOfFullEpochs ==
    \A n \in 0..MERGE_BLOCK_NUMBER, e \in 0..LastEpoch :
        LET header == [number |-> n, branch |-> "main"]
            made == GenerateAccumulatorProof(header, JsonString(EpochAcc(e)))
            answered == ContentInfo(EpochAcc(e))
        IN  /\ made = Failed <=> e # Epoch(n)
            /\ Len(EpochAcc(e)) = EPOCH_SIZE /\ e = Epoch(n) => made = RecordProof(n)
            /\ e = Epoch(n) =>
                  LookupPremergeHashByNumber(n, JsonString(EpochAcc(e))) = HashOf(header)
            /\ GenerateAccumulatorProof(header, answered) = Failed
            /\ LookupPremergeHashByNumber(n, answered) = Failed

\* Beacon content that can be read is not taken again, whatever its kind.  (The
\* converse does not hold for ranges, of which one period is enough to decline.)
ASSUME ReadableIsNotTaken ==
    /\ \A updates \in [UpdatePeriod -> Blob \cup {Missing}], range \in Ranges :
          range.count > 0 /\ GetRange(updates, range) # {} =>
              ShouldWeStoreRange(updates, range) = "AlreadyStored"
    /\ \A cached \in UpdateSlot \cup {Missing}, asked \in UpdateSlot :
          LET found == GetFinalityUpdate(cached, asked)
              exact == GetOptimisticUpdate(cached, asked)
          IN  /\ found # Missing => found >= asked
              /\ exact # Missing => exact = asked /\ found = exact
              /\ ShouldWeStore(found) = "Store" => ShouldWeStore(exact) = "Store"

Lists == BoundedSeq({1, 2}, 1)

Bodies ==
    [kind : {"legacy"}, txs : Lists, uncles : Lists] \cup [kind : {"merge"}, txs : Lists]
    \cup [kind : {"shanghai"}, txs : Lists, withdrawals : Lists]

Headers ==
    [uncles_hash : {ListRoot(l) : l \in Lists}, transactions_root : {ListRoot(l) : l \in Lists},
     withdrawals_root : {ListRoot(l) : l \in Lists} \cup {NoWithdrawalsRoot}]

\* A body that is decoded without the time of its block may take another form, and
\* yet fits the same headers; with the time it is the one that was encoded.
ASSUME BodiesComeBack ==
    \A body \in Bodies :
        LET decoded == DecodeBody(EncodeBody(body))
            ages == [legacy |-> MERGE_TIMESTAMP - 1, merge |-> MERGE_TIMESTAMP,
                     shanghai |-> SHANGHAI_TIMESTAMP]
        IN  /\ \A header \in Headers : FitsHeader(decoded, header) = FitsHeader(body, header)
            /\ DecodeWithTimestamp(EncodeBody(body), ages[body.kind]) = body
            /\ body.kind = "shanghai" <=> decoded.kind = "shanghai"

\* No two bodies of the same form fit the same header.
ASSUME HeaderTellsBodies ==
    \A header \in Headers, body, other \in Bodies :
        FitsHeader(body, header) /\ FitsHeader(other, header) /\ body.kind = other.kind => body = other

\* A transaction or a withdrawal that cannot be read spoils the body.
ASSUME UnreadableIsInvalid ==
    \A body \in Bodies, bad \in {"txs", "withdrawals"} :
        body.kind = "shanghai" =>
            DecodeBody(EncodeBody([body EXCEPT ![bad] = Append(@, Unreadable)])) = InvalidBody

=============================================================================
