----------------------------- MODULE MCHybridIndex -----------------------------
(***************************************************************************)
(* Two threads of a process and three chunks, one point to a page.         *)
(***************************************************************************)
EXTENDS HybridIndex, TLC

ThreadSymmetry == Permutations(Threads)
================================================================================
