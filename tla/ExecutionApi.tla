---------------------------- MODULE ExecutionApi ----------------------------
(***************************************************************************)
(* The requests to the execution provider: in batches, each sent again     *)
(* while it fails, and the headers and receipts read from the answers.     *)
(***************************************************************************)
EXTENDS Naturals, Sequences, SequencesExt, Results

CONSTANTS
    BATCH_LIMIT,
    RETRY_ATTEMPTS

\* The answer of the first attempt that succeeds; responses is the provider.
Retry(responses) ==
    LET good == {i \in 1..RETRY_ATTEMPTS : responses[i] # Failed}
    IN  IF good = {} THEN Failed
        ELSE responses[CHOOSE i \in good : \A j \in good : i <= j]

Chunks(requests) ==
    LET n == (Len(requests) + BATCH_LIMIT - 1) \div BATCH_LIMIT
        end(i) == IF i = n THEN Len(requests) ELSE i * BATCH_LIMIT
    IN  [i \in 1..n |-> SubSeq(requests, (i - 1) * BATCH_LIMIT + 1, end(i))]

\* The answers to one chunk, attempt after attempt; up says which are answered.
SendBatchRequest(chunk, up, answer) ==
    Retry([i \in 1..RETRY_ATTEMPTS |->
            IF up[i] THEN [j \in DOMAIN chunk |-> answer[chunk[j]]] ELSE Failed])

\* All chunks are sent at once; one that fails fails them all.
BatchRequests(requests, up, answer) ==
    LET answers == [i \in DOMAIN Chunks(requests) |->
                        SendBatchRequest(Chunks(requests)[i], up[i], answer)]
    IN  IF Failed \in ToSet(answers) THEN Failed ELSE FlattenSeq(answers)

\* A header, its uncles, transactions and withdrawals; None when there are none.
FullHeaderTryFrom(val) ==
    IF Failed \in {val.header, val.uncles, val.txs, val.withdrawals} THEN Failed
    ELSE val

\* One request, so one header, or the answer is refused.
GetHeader(vals) ==
    IF Failed \in {FullHeaderTryFrom(v) : v \in ToSet(vals)} \/ Len(vals) # 1 THEN Failed
    ELSE vals[1]

\* One request for each transaction, in their order.
GetTrustedReceipts(tx_hashes, up) ==
    BatchRequests(tx_hashes, up, [tx \in ToSet(tx_hashes) |-> [receipt_of |-> tx]])

=============================================================================
