----------------------------- MODULE MCSemanticCache -----------------------------
(* Four requests with two similar prompts: a simple one, one of tool messages     *)
(* that the classifier passes on with the model the first may be routed to, one    *)
(* that repeats a prompt and is complex by a message that only the classifier      *)
(* reads, of a user outside the rollout, and a unified execution.                  *)
EXTENDS SemanticCache

Plain == [tokens |-> 10, markers |-> 0, keywords |-> 0, constraints |-> 0, tools |-> FALSE,
          format |-> FALSE, maxTokens |-> 0, temperature |-> 0]

Ask(prompt, features, bucket) ==
  [unified |-> FALSE, classified |-> TRUE, model |-> "tier-1", settings |-> "s",
   prompt |-> prompt, features |-> features, bucket |-> bucket]

MCRequests == 1..4
MCRequestOf ==
  <<Ask("p", Plain, 10),
    [Ask("q", Plain, 10) EXCEPT !.classified = FALSE],
    Ask("p", [Plain EXCEPT !.markers = 1], 90),
    [Ask("p", Plain, 10) EXCEPT !.unified = TRUE]>>
MCSimilar == {<<"p", "q">>, <<"q", "p">>, <<"p", "p">>, <<"q", "q">>}
MCRows == {[status |-> "running", percentage |-> 50], [status |-> "rolled_back"], NotFound}
================================================================================
