CONSTANTS
  w1 = w1
  w2 = w2
  Workflows <- TwoWorkflows
  Runs <- TwoRuns
  WorkflowOf <- BothOfW1
  Concurrency = 1
  MaxTasks = 2
  Results <- TwoResults
  MaxRestarts = 1
  Cancelable = {1, 2}
  Deletable <- OnlyW1
SPECIFICATION Spec
CHECK_DEADLOCK FALSE
INVARIANTS NoLostWakeup ProcessingIsLive ActiveRunHasOwner BusyWorkflowIsExecuting LastStatusMirrorsRun
PROPERTIES FinishedIsFinal LastRunNeverGoesBack
