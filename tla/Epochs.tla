------------------------------- MODULE Epochs -------------------------------
(***************************************************************************)
(* The epochs of the header accumulator: fixed numbers of blocks, up to    *)
(* the last one before the merge.                                          *)
(***************************************************************************)
EXTENDS Naturals

CONSTANTS
    EPOCH_SIZE,
    MERGE_BLOCK_NUMBER

Epoch(height) == height \div EPOCH_SIZE

=============================================================================
