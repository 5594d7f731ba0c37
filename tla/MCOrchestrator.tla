----------------------------- MODULE MCOrchestrator -----------------------------
(***************************************************************************)
(* The orchestrator with every plan a request can call for.                *)
(***************************************************************************)
EXTENDS Orchestrator

EveryRequest == SUBSET Specialists
================================================================================
