------------------------------ MODULE MCLogMiner ------------------------------
(***************************************************************************)
(* LogMiner for TLC: two workers and one seed.                             *)
(***************************************************************************)
EXTENDS LogMiner, TLC

CONSTANTS s1, f1

MCSeeds == {s1}
MCFingerprintOf == s1 :> f1
===============================================================================
