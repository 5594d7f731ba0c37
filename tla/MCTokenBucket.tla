----------------------------- MODULE MCTokenBucket -----------------------------
(***************************************************************************)
(* TokenBucket for TLC: two callers, a bucket of two tokens of three units,  *)
(* so that fractions of a token occur.                                     *)
(***************************************************************************)
EXTENDS TokenBucket, TLC

Symmetry == Permutations(Callers)
================================================================================
