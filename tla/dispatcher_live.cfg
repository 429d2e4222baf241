CONSTANTS
  w1 = w1
  w2 = w2
  Workflows <- TwoWorkflows
  Runs <- TwoRuns
  WorkflowOf <- BothOfW1
  Concurrency = 1
  MaxTasks = 2
  Results <- OneResult
  MaxRestarts = 0
  Cancelable = {1, 2}
  Deletable <- NoWorkflows
SPECIFICATION FairSpec
CHECK_DEADLOCK FALSE
PROPERTIES EveryRunFinishes
