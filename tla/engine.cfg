CONSTANTS
  Root = "root"
  Nodes <- GraphNodes
  Kind <- GraphKind
  Blocks <- GraphBlocks
  Disabled <- GraphDisabled
SPECIFICATION FairSpec
\* The execution ends.
CHECK_DEADLOCK FALSE
INVARIANTS EngineInv OneStartAfterCancel NothingIsSkipped CatchAnswersTry CatchKnowsItsError
PROPERTIES NothingAfterEnd EveryExecutionReports ReportIsExplained
