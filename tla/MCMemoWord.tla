----------------------------- MODULE MCMemoWord -----------------------------
(***************************************************************************)
(* Requests that share a memo are alike: their permutations are symmetries *)
(* of the run that checks safety only.                                     *)
(***************************************************************************)
EXTENDS MemoWord, TLC

Symmetry == Permutations(Thread)
=============================================================================
