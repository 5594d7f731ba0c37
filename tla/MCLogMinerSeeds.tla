--------------------------- MODULE MCLogMinerSeeds ---------------------------
(***************************************************************************)
(* LogMiner for TLC: two workers, and two seeds of one fingerprint.        *)
(***************************************************************************)
EXTENDS LogMiner, TLC

CONSTANTS s1, s2, f1

MCSeeds == {s1, s2}
MCFingerprintOf == (s1 :> f1 @@ s2 :> f1)

Symmetry == Permutations(Workers) \cup Permutations(Seeds)
===============================================================================
