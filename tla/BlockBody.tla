------------------------------ MODULE BlockBody ------------------------------
(***************************************************************************)
(* The body of a block, in its three forms, and how it is decoded: with    *)
(* the time of its block, or without it by trying one form after another.  *)
(* Encoded, a body is an SSZ container of two fields or of three.  A       *)
(* transaction or a withdrawal that cannot be decoded is Unreadable.       *)
(***************************************************************************)
EXTENDS Integers, Sequences, SequencesExt

SHANGHAI_TIMESTAMP == 1681338455
MERGE_TIMESTAMP == 1663224162

Unreadable == 0

InvalidBody == [kind |-> "invalid"]

Uncles(body) == IF body.kind = "legacy" THEN body.uncles ELSE <<>>
Withdrawals(body) == IF body.kind = "shanghai" THEN body.withdrawals ELSE <<>>

\* Bodies without uncles are written with an empty list of them.
EncodeBody(body) ==
    [fields |-> IF body.kind = "shanghai" THEN 3 ELSE 2,
     txs |-> body.txs, uncles |-> Uncles(body), withdrawals |-> Withdrawals(body)]

Readable(list) == Unreadable \notin ToSet(list)

DecodeLegacy(bytes) ==
    IF bytes.fields = 2 /\ Readable(bytes.txs)
    THEN [kind |-> "legacy", txs |-> bytes.txs, uncles |-> bytes.uncles] ELSE InvalidBody

DecodeMerge(bytes) ==
    IF bytes.fields = 2 /\ Readable(bytes.txs) /\ bytes.uncles = <<>>
    THEN [kind |-> "merge", txs |-> bytes.txs] ELSE InvalidBody

DecodeShanghai(bytes) ==
    IF /\ bytes.fields = 3 /\ Readable(bytes.txs)
       /\ bytes.uncles = <<>> /\ Readable(bytes.withdrawals)
    THEN [kind |-> "shanghai", txs |-> bytes.txs, withdrawals |-> bytes.withdrawals]
    ELSE InvalidBody

\* The first form that fits.
DecodeBody(bytes) ==
    LET forms == SelectSeq(<<DecodeLegacy(bytes), DecodeMerge(bytes), DecodeShanghai(bytes)>>,
                           LAMBDA body : body.kind # "invalid")
    IN  IF forms = <<>> THEN InvalidBody ELSE forms[1]

DecodeWithTimestamp(bytes, timestamp) ==
    CASE timestamp >= SHANGHAI_TIMESTAMP -> DecodeShanghai(bytes)
      [] timestamp \in MERGE_TIMESTAMP..(SHANGHAI_TIMESTAMP - 1) -> DecodeMerge(bytes)
      [] timestamp < MERGE_TIMESTAMP -> DecodeLegacy(bytes)

\* The root of a list tells it from any other list.  A header before Shanghai has no
\* root of withdrawals.
ListRoot(list) == [root |-> list]
NoWithdrawalsRoot == [none |-> <<>>]

FitsHeader(body, header) ==
    /\ ListRoot(Uncles(body)) = header.uncles_hash
    /\ ListRoot(body.txs) = header.transactions_root
    /\ body.kind = "shanghai" => ListRoot(body.withdrawals) = header.withdrawals_root

=============================================================================
