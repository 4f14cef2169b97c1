------------------------------ MODULE Results ------------------------------
(***************************************************************************)
(* The values that stand for the empty cases of Rust's Option and Result,  *)
(* whatever the type of the other case.                                    *)
(***************************************************************************)
CONSTANTS
    None,       \* what an Option holds when it holds nothing
    Failed      \* the error of a Result

=============================================================================
