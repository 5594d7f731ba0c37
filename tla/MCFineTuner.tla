------------------------------- MODULE MCFineTuner -------------------------------
EXTENDS FineTuner, TLC

\* Five usable cases, one more than a run takes, a copy of the first one's text,
\* and one without an answer.
MCTables == {1..2, 1..3, 1..4, 1..5, {1, 2, 3, 6}, {1, 2, 3, 7}}
MCKey == <<1, 2, 3, 4, 5, 6, 7>>
MCContent == <<1, 2, 3, 4, 5, 1, 7>>
MCUsable == 1..6

Symmetry == Permutations(Processes) \cup Permutations(RunIds)
================================================================================
