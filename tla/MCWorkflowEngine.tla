-------------------------- MODULE MCWorkflowEngine --------------------------
(* A graph for WorkflowEngine.  It begins with a Start node and ends with an   *)
(* End node, as WorkflowGraph.Verify asks.                                     *)
EXTENDS WorkflowEngine, Conditions

TypeOf(table) == [n \in UNION {table[k] : k \in DOMAIN table} |->
                    CHOOSE k \in DOMAIN table : n \in table[k]]
BlocksOf(table, nodes) ==
  [n \in nodes \cup {"root"} |-> IF n \in DOMAIN table THEN table[n] ELSE <<>>]

\* A condition, whose second branch may end the run, and a TryCatch inside the try
\* block of another TryCatch, whose catch block ends the run; then a disabled node.
GraphKind == TypeOf([
  passive |-> {"start"},
  leaf |-> {"deploy", "monitor", "apply", "fallback", "alarm", "off", "notify"},
  end |-> {"endInBranch", "endInCatch", "endOfGraph"},
  condition |-> {"cond"}, branch |-> {"left", "right"},
  tryCatch |-> {"outer", "inner"}, try |-> {"outerTry", "innerTry"},
  catch |-> {"outerCatch", "innerCatch"}])
GraphNodes == DOMAIN GraphKind
GraphBlocks == BlocksOf([
  root |-> <<"start", "outer", "off", "notify", "endOfGraph">>,
  outer |-> <<"outerTry", "outerCatch">>,
  outerTry |-> <<"inner", "cond">>, outerCatch |-> <<"alarm", "endInCatch">>,
  inner |-> <<"innerTry", "innerCatch">>,
  innerTry |-> <<"apply">>, innerCatch |-> <<"fallback">>,
  cond |-> <<"left", "right">>,
  left |-> <<"deploy">>, right |-> <<"monitor", "endInBranch">>], GraphNodes)
GraphDisabled == {"off"}
=============================================================================
