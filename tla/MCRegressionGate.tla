---------------------------- MODULE MCRegressionGate ----------------------------
EXTENDS RegressionGate

\* Two routing cases, two judged ones, and one whose mode nobody knows.
MCTables == {{1, 3, 4}, {1, 2, 3}, {1, 3, 5}, {}}
MCScopeOf == <<"gateway", "gateway", "chat", "chat", "chat">>
MCModeOf == <<"headers", "exact_json", "llm_judge", "llm_judge", "keywords">>
MCJudgeScores == {1000000, 970000, 939999, 0}
================================================================================
