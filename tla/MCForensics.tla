------------------------------- MODULE MCForensics -------------------------------
EXTENDS Forensics, TLC

\* The workflow; a retrieval node, its tool, the database span in it and the one
\* that saves the node's state; the arbitration and two critics.
MCSpans == 1..8
MCParent == <<0, 1, 2, 3, 2, 1, 6, 6>>
MCStart == <<0, 1, 1, 2, 3, 4, 5, 5>>
MCStepIndex == 2 :> 0 @@ 3 :> 0 @@ 6 :> 1
MCToolOf == 2 :> 3

Plain(signals) == [signals |-> signals, confidence |-> {}]
OrError == {Plain({}), Plain({"error"})}

MCEnds ==
  <<{}, OrError, OrError \cup {Plain({"validation", "degraded"})}, OrError, OrError,
    {[signals |-> {}, confidence |-> {9}],
     [signals |-> {"arbitration", "degraded"}, confidence |-> {4}]},
    OrError, OrError>>
================================================================================
