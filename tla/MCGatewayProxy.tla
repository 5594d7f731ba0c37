---------------------------- MODULE MCGatewayProxy ----------------------------
(***************************************************************************)
(* GatewayProxy for TLC: four requests, a threshold of two, and durations  *)
(* of two and three ticks so that the circuit opens, half-opens, closes    *)
(* and reopens while earlier requests are still in flight.                 *)
(***************************************************************************)
EXTENDS GatewayProxy, TLC

Symmetry == Permutations(Requests)
===============================================================================
