------------------------ MODULE MCWorkflowDispatcher ------------------------
(* Small instances of WorkflowDispatcher: two runs of workflow w1 and, in the  *)
(* larger ones, one of w2, so that runs compete for a workflow and for the     *)
(* concurrency limit.                                                          *)
EXTENDS WorkflowDispatcher

CONSTANTS w1, w2

TwoWorkflows == {w1, w2}
NoWorkflows == {}
OnlyW1 == {w1}
OnlyW2 == {w2}
OneResult == {"succeeded"}
TwoResults == {"succeeded", "canceled"}
TwoRuns == 1..2
ThreeRuns == 1..3
BothOfW1 == [r \in 1..2 |-> w1]
OneEach == [r \in 1..2 |-> IF r = 1 THEN w1 ELSE w2]
TwoAndOne == [r \in 1..3 |-> IF r = 3 THEN w2 ELSE w1]
=============================================================================
