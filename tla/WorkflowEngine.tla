--------------------------- MODULE WorkflowEngine ---------------------------
(***************************************************************************)
(* One execution of a workflow graph: the interpreter of                   *)
(* internal/workflow/engine/engine.go with the executors of the control    *)
(* nodes (executor_condition.go, executor_trycatch.go, executor_end.go)    *)
(* and the hooks through which the dispatcher learns the result            *)
(* (internal/workflow/dispatcher/dispatcher.go).                           *)
(*                                                                         *)
(* The recursion executeBlocks -> executeNode -> Execute is a stack of     *)
(* frames, one per loop over the blocks of a node.  An error is the set of *)
(* what errors.Is finds in it; {} is nil.  The work of a leaf node is left *)
(* to its executor: only what it returns matters here.                     *)
(***************************************************************************)
EXTENDS Integers, Sequences, FiniteSets

CONSTANTS
  Nodes,     \* the nodes of the graph
  Root,      \* stands for the graph itself, whose blocks are graph.Nodes
  Kind,      \* node.Type: Start and Delay are passive, the biz nodes leaves
  Blocks,    \* node.Blocks
  Disabled   \* the nodes with node.Data.Disabled

Kinds == {"passive", "leaf", "end", "condition", "branch", "tryCatch", "try", "catch"}
Loops == {"condition", "branch", "tryCatch", "try", "catch"}

ASSUME RootAssumption == Root \notin Nodes
ASSUME KindAssumption == Kind \in [Nodes -> Kinds]
ASSUME BlocksAssumption == Blocks \in [Nodes \cup {Root} -> Seq(Nodes)]
ASSUME DisabledAssumption == Disabled \subseteq Nodes

Places == Nodes \cup {Root}

\* The nodes at and below n.
Subtree[n \in Places] ==
  {n} \cup UNION {Subtree[Blocks[n][k]] : k \in 1..Len(Blocks[n])}

\* The graph is decoded from JSON and ends somewhere: it is a tree, on which Subtree is
\* what its definition says, seen from the blocks as well as from the nodes above.
ASSUME TreeAssumption ==
  /\ \A p, q \in Places : \A k \in 1..Len(Blocks[p]), l \in 1..Len(Blocks[q]) :
       Blocks[p][k] = Blocks[q][l] => p = q /\ k = l
  /\ \A n \in Places :
       /\ Subtree[n] = {n} \cup UNION {Subtree[Blocks[n][k]] : k \in 1..Len(Blocks[n])}
       /\ Subtree[n] = {n} \cup {m \in Nodes : \E p \in Subtree[n] :
                                              \E k \in 1..Len(Blocks[p]) : m = Blocks[p][k]}

\* The editor puts branches into a Condition and nothing else, and a try block and then
\* catch blocks into a TryCatch.
ASSUME ShapeAssumption ==
  \A p \in Places : \A k \in 1..Len(Blocks[p]) :
    LET kind == Kind[Blocks[p][k]] IN
    /\ kind = "branch" <=> p \in Nodes /\ Kind[p] = "condition"
    /\ kind = "try" <=> p \in Nodes /\ Kind[p] = "tryCatch" /\ k = 1
    /\ kind = "catch" <=> p \in Nodes /\ Kind[p] = "tryCatch" /\ k > 1

VARIABLES
  stack,      \* the loops being run, the innermost last
  pc,         \* where the innermost one is
  ret,        \* the error it returns
  done,       \* ctx is done
  errorNode,  \* the variable error.nodeId
  logs,       \* nodes with a log of level error in the dispatcher's logsBuf
  outcome,    \* the status the dispatcher's hooks save
  starts,     \* history: how often each node's executor was called
  late,       \* history: how many of these calls found ctx done
  failed,     \* history: the nodes whose own work returned an error
  faults      \* history: the kinds of what went wrong

graphVars == <<stack, pc, ret>>
historyVars == <<starts, late, failed, faults>>
vars == <<graphVars, done, errorNode, logs, outcome, historyVars>>

Errors == {"terminated", "canceled", "deadline", "failure", "blocks"}
Phases == {"blocks", "branches", "try", "catch"}

\* A loop over the blocks of a node: it goes on with block i, errs is what it has
\* collected. TryCatch has two loops, one after the other.
Frame == [node : Places, phase : Phases, i : Nat \ {0}, errs : SUBSET Errors]
NewFrame(n, phase) == [node |-> n, phase |-> phase, i |-> 1, errs |-> {}]

TypeOK ==
  /\ stack \in Seq(Frame) /\ stack # <<>>
  /\ pc \in {"check", "start", "running", "panic", "leave", "over"}
  /\ ret \in SUBSET Errors
  /\ done \in BOOLEAN
  /\ errorNode \in Places
  /\ logs \subseteq Nodes
  /\ outcome \in {"none", "succeeded", "failed", "canceled"}
  /\ starts \in [Nodes -> Nat] /\ late \in Nat
  /\ failed \subseteq Nodes
  /\ faults \subseteq {"failure", "deadline", "canceled", "panic", "errorLog"}

Init ==
  /\ stack = <<NewFrame(Root, "blocks")>>
  /\ pc = "check" /\ ret = {}
  /\ done = FALSE
  /\ errorNode = Root
  /\ logs = {}
  /\ outcome = "none"
  /\ starts = [n \in Nodes |-> 0] /\ late = 0
  /\ failed = {} /\ faults = {}

-----------------------------------------------------------------------------
(* The loops. *)

Top == stack[Len(stack)]
Below == SubSeq(stack, 1, Len(stack) - 1)
WithTop(s, f) == [s EXCEPT ![Len(s)] = f]

\* The blocks a loop runs: Condition and TryCatch filter them by type.
Runs(phase, kind) ==
  CASE phase = "branches" -> kind = "branch"
    [] phase = "try" -> kind = "try"
    [] phase = "catch" -> kind = "catch"
    [] OTHER -> TRUE

Ahead(f) == {k \in f.i..Len(Blocks[f.node]) : Runs(f.phase, Kind[Blocks[f.node][k]])}
HasNext(f) == Ahead(f) # {}
At(f) == CHOOSE k \in Ahead(f) : \A j \in Ahead(f) : k <= j
Child(f) == Blocks[f.node][At(f)]

\* Mutant: Condition stops at the first branch that fails.
GoesOnWithoutError(f, err) ==
  \/ err = {}
  \/ /\ "terminated" \notin err
     /\ f.phase # "branches"
     /\ f.phase = "blocks" => Kind[Child(f)] = "tryCatch"

\* Mutant: TryCatch and Condition collect ErrTerminated like any other error.
GoesOnAfterEnd(f, err) ==
  \/ err = {}
  \/ f.phase # "blocks"
  \/ "terminated" \notin err /\ Kind[Child(f)] = "tryCatch"

\* executeNode has returned err for the next block of the innermost loop of s.
\* executeBlocks goes on after nil and after a TryCatch's error; Condition and
\* TryCatch go on after every error; nobody goes on after ErrTerminated.
GoesOn(f, err) ==
  \/ err = {}
  \/ /\ "terminated" \notin err
     /\ f.phase = "blocks" => Kind[Child(f)] = "tryCatch"

Handle(s, err) ==
  LET f == s[Len(s)] IN
  IF GoesOn(f, err)
  THEN /\ stack' = WithTop(s, [f EXCEPT !.i = At(f) + 1, !.errs = @ \cup err])
       /\ pc' = "check" /\ ret' = {}
  ELSE /\ stack' = s
       /\ pc' = "leave" /\ ret' = err

\* Mutant: the error variables are set in the scope of the node.
ReturnScoped(n, s, err) ==
  /\ logs' = IF err # {} /\ err \cap {"terminated", "blocks"} = {}
             THEN logs \cup {n} ELSE logs
  /\ UNCHANGED errorNode
  /\ Handle(s, err)

\* Mutant: an error of a node is not added to logsBuf.
ReturnUnlogged(n, s, err) ==
  /\ errorNode' = IF err # {} /\ err \cap {"terminated", "blocks"} = {}
                  THEN n ELSE errorNode
  /\ UNCHANGED logs
  /\ Handle(s, err)

\* executeNode after Execute has returned err: the error variables unless the
\* error comes from the blocks, and the dispatcher's OnNodeError hook, which
\* logs neither that nor ErrTerminated.
ReturnFrom(n, s, err) ==
  /\ IF err # {} /\ err \cap {"terminated", "blocks"} = {}
     THEN errorNode' = n /\ logs' = logs \cup {n}
     ELSE UNCHANGED <<errorNode, logs>>
  /\ Handle(s, err)

-----------------------------------------------------------------------------
(* The steps of the interpreter. *)

\* Mutant: the context is only looked at in the outermost loop.
CheckContextAtRoot ==
  /\ pc = "check" /\ HasNext(Top)
  /\ IF done /\ Len(stack) = 1
     THEN pc' = "leave" /\ ret' = {"canceled"}
     ELSE pc' = "start" /\ UNCHANGED ret
  /\ UNCHANGED <<stack, done, errorNode, logs, outcome, historyVars>>

\* select on ctx.Done before a block: the errors collected so far are dropped.
CheckContext ==
  /\ pc = "check" /\ HasNext(Top)
  /\ IF done
     THEN pc' = "leave" /\ ret' = {"canceled"}
     ELSE pc' = "start" /\ UNCHANGED ret
  /\ UNCHANGED <<stack, done, errorNode, logs, outcome, historyVars>>

\* Mutant: the errors of the try block are not looked at.
EndTryIntoCatch ==
  /\ pc = "check" /\ ~HasNext(Top)
  /\ IF Top.phase = "try"
     THEN /\ stack' = WithTop(stack, [Top EXCEPT !.phase = "catch", !.i = 1])
          /\ UNCHANGED <<pc, ret>>
     ELSE /\ pc' = "leave"
          /\ ret' = IF Top.phase # "blocks" /\ Top.errs # {}
                    THEN Top.errs \cup {"blocks"} ELSE Top.errs
          /\ UNCHANGED stack
  /\ UNCHANGED <<done, errorNode, logs, outcome, historyVars>>

\* A loop has no block left.
EndLoop ==
  /\ pc = "check" /\ ~HasNext(Top)
  /\ IF Top.phase = "try" /\ Top.errs # {}
     THEN /\ stack' = WithTop(stack, [Top EXCEPT !.phase = "catch", !.i = 1])
          /\ UNCHANGED <<pc, ret>>
     ELSE /\ pc' = "leave"
          /\ ret' = IF Top.phase # "blocks" /\ Top.errs # {}
                    THEN Top.errs \cup {"blocks"} ELSE Top.errs
          /\ UNCHANGED stack
  /\ UNCHANGED <<done, errorNode, logs, outcome, historyVars>>

SkipDisabled ==
  /\ pc = "start" /\ Child(Top) \in Disabled
  /\ Handle(stack, {})
  /\ UNCHANGED <<done, errorNode, logs, outcome, historyVars>>

\* Execute is called.
Starting(n) ==
  /\ pc = "start" /\ n = Child(Top) /\ n \notin Disabled
  /\ starts' = [starts EXCEPT ![n] = @ + 1]
  /\ late' = IF done THEN late + 1 ELSE late
  /\ UNCHANGED <<done, outcome>>

StartWork(n) ==
  /\ Starting(n) /\ Kind[n] \notin Loops
  /\ pc' = "running"
  /\ UNCHANGED <<stack, ret, errorNode, logs, failed, faults>>

EnterLoop(n) ==
  /\ Starting(n) /\ Kind[n] \in Loops
  /\ stack' = Append(stack,
       NewFrame(n, CASE Kind[n] = "condition" -> "branches"
                     [] Kind[n] = "tryCatch" -> "try"
                     [] OTHER -> "blocks"))
  /\ pc' = "check"
  /\ UNCHANGED <<ret, errorNode, logs, failed, faults>>

\* The expression of a branch is false, or evaluating it fails.
RefuseBranch(n) ==
  /\ Starting(n) /\ Kind[n] = "branch"
  /\ \/ ReturnFrom(n, stack, {}) /\ UNCHANGED <<failed, faults>>
     \/ /\ ReturnFrom(n, stack, {"failure"})
        /\ failed' = failed \cup {n} /\ faults' = faults \cup {"failure"}

\* A leaf, or the process it has started for bizApply, logs at level error.
LogError(n) ==
  /\ pc = "running" /\ n = Child(Top) /\ Kind[n] = "leaf"
  /\ logs' = logs \cup {n} /\ faults' = faults \cup {"errorLog"}
  /\ UNCHANGED <<graphVars, done, errorNode, outcome, starts, late, failed>>

\* Start and Delay return nil, Delay also when the context is done; End asks for
\* the end of the run.
PassiveReturns(n) ==
  /\ pc = "running" /\ n = Child(Top) /\ Kind[n] = "passive"
  /\ ReturnFrom(n, stack, {})
  /\ UNCHANGED <<done, outcome, historyVars>>

EndReturns(n) ==
  /\ pc = "running" /\ n = Child(Top) /\ Kind[n] = "end"
  /\ ReturnFrom(n, stack, {"terminated"})
  /\ UNCHANGED <<done, outcome, historyVars>>

\* The work of a leaf ends: well, with an error, with the timeout of a client of
\* its own, or with context.Canceled: its own context is done or, a fault, that of
\* the run whose registration at the CA it shares (AcmeAccounts).
WorkReturns(n, err) ==
  /\ pc = "running" /\ n = Child(Top) /\ Kind[n] = "leaf"
  /\ ReturnFrom(n, stack, err)
  /\ failed' = IF err = {} THEN failed ELSE failed \cup {n}
  /\ faults' = faults \cup {e \in err : e = "canceled" => ~done}
  /\ UNCHANGED <<done, outcome, starts, late>>

WorkPanics(n) ==
  /\ pc = "running" /\ n = Child(Top) /\ Kind[n] = "leaf"
  /\ pc' = "panic" /\ faults' = faults \cup {"panic"}
  /\ UNCHANGED <<stack, ret, done, errorNode, logs, outcome, starts, late, failed>>

\* A loop inside the graph returns to executeNode. The blocks of a branch, try or
\* catch block are run by executeBlocks, whose error their executor wraps.
Return(n) ==
  /\ pc = "leave" /\ n = Top.node /\ n # Root
  /\ ReturnFrom(n, Below, IF Top.phase = "blocks" /\ ret # {}
                          THEN ret \cup {"blocks"} ELSE ret)
  /\ UNCHANGED <<done, outcome, historyVars>>

\* Mutant: ErrTerminated skips the look at the logs.
StatusIgnoringLogs(err) ==
  IF "terminated" \in err THEN "succeeded"
  ELSE IF err = {} THEN IF logs = {} THEN "succeeded" ELSE "failed"
  ELSE IF err \cap {"canceled", "deadline"} # {} THEN "canceled" ELSE "failed"

\* The dispatcher's OnEnd and OnError hooks.
Status(err) ==
  IF err = {} \/ "terminated" \in err
  THEN IF logs = {} THEN "succeeded" ELSE "failed"
  ELSE IF err \cap {"canceled", "deadline"} # {} THEN "canceled" ELSE "failed"

\* Mutant: a panic is recovered but not reported.
RecoverSilently ==
  /\ pc = "panic"
  /\ pc' = "over"
  /\ UNCHANGED <<stack, ret, done, errorNode, logs, outcome, historyVars>>

\* The deferred function of Invoke: OnError, with an error of its own.
Recover ==
  /\ pc = "panic"
  /\ pc' = "over" /\ outcome' = "failed"
  /\ UNCHANGED <<stack, ret, done, errorNode, logs, historyVars>>

\* The outermost loop returns to Invoke.
Finish ==
  /\ pc = "leave" /\ Top.node = Root
  /\ pc' = "over" /\ outcome' = Status(ret)
  /\ UNCHANGED <<stack, ret, done, errorNode, logs, historyVars>>

\* The run is canceled or the dispatcher shut down.
Cancel ==
  /\ ~done /\ pc # "over"
  /\ done' = TRUE
  /\ UNCHANGED <<graphVars, errorNode, logs, outcome, historyVars>>

LeafErrors == {{}, {"failure"}, {"deadline"}, {"canceled"}}

NodeStep(n) ==
  \/ StartWork(n) \/ EnterLoop(n) \/ RefuseBranch(n)
  \/ PassiveReturns(n) \/ EndReturns(n) \/ WorkPanics(n) \/ Return(n)
  \/ \E err \in LeafErrors : WorkReturns(n, err)

Step == CheckContext \/ EndLoop \/ SkipDisabled \/ Recover \/ Finish
        \/ \E n \in Nodes : NodeStep(n)

Next == Step \/ Cancel \/ \E n \in Nodes : LogError(n)

Spec == Init /\ [][Next]_vars

\* The goroutine of the execution is scheduled, and the work of a node ends.
FairSpec == Spec /\ WF_vars(Step)

-----------------------------------------------------------------------------
(* Properties. *)

EndedIn(n) == \E m \in Subtree[n] \ {Root} : Kind[m] = "end" /\ starts[m] > 0
FailedIn(n) == failed \cap Subtree[n] # {}

\* A run executes a node at most once: nested loops that go on after an error
\* neither repeat a certificate request nor a deployment.
NodeRunsOnce == \A n \in Nodes : starts[n] <= 1

\* Cancel and shutdown are noticed: wherever in the nested loops the context is
\* found done, at most the one node already chosen is still started.
OneStartAfterCancel == late <= 1

\* Nothing runs after an End node, however deep in branches, try and catch blocks.
NothingAfterEnd ==
  [][EndedIn(Root) => starts' = starts]_vars

\* Where one block of p follows another.
Pairs(p) == 1..(Len(Blocks[p]) - 1)

\* Unless the run is canceled, panics or ends, an error skips the rest of its own
\* block only: the other branches of a condition and the nodes after a TryCatch run.
NothingIsSkipped ==
  outcome # "none" /\ ~done /\ "panic" \notin faults =>
    \A p \in Places : \A k \in Pairs(p) :
      LET a == Blocks[p][k] b == Blocks[p][k + 1] IN
      /\ starts[a] > 0 /\ ~EndedIn(a)
      /\ Kind[a] \in {"tryCatch", "branch"} \/ ~FailedIn(a)
      /\ Kind[b] # "catch" /\ b \notin Disabled
      => starts[b] > 0

\* The catch block after a try block runs when something in the try block has failed,
\* and only then.
CatchAnswersTry ==
  outcome # "none" /\ ~done /\ "panic" \notin faults =>
    \A p \in Places : \A k \in Pairs(p) :
      LET a == Blocks[p][k] b == Blocks[p][k + 1] IN
      Kind[a] = "try" /\ Kind[b] = "catch" /\ b \notin Disabled =>
        (starts[b] > 0 <=> FailedIn(a) /\ ~EndedIn(a))

\* When the catch block after a try block begins, error.nodeId names a node of the try:
\* the notification it sends is about the right node.
CatchKnowsItsError ==
  pc = "check" /\ Top.i = 1 =>
    \A p \in Places : \A k \in Pairs(p) :
      LET a == Blocks[p][k] b == Blocks[p][k + 1] IN
      Kind[a] = "try" /\ Kind[b] = "catch" /\ b = Top.node => errorNode \in Subtree[a]

\* Every execution reports a status, also when a node panics.
EveryExecutionReports == <>(outcome # "none")

\* The engine keeps the promise of RunReport.
Promise == INSTANCE RunReport
ReportIsExplained == Promise!Spec

-----------------------------------------------------------------------------
(* The inductive invariant behind ReportIsExplained. *)

\* An error says why, given what went wrong and whether the context is over: its
\* blocks are only the way it came.
Grounded(err, wrong, over) ==
  /\ err # {} => err \ {"blocks"} # {}
  /\ "failure" \in err => wrong # {}
  /\ "deadline" \in err => "deadline" \in wrong
  /\ "canceled" \in err => over \/ "canceled" \in wrong

Collected(f, wrong, over) ==
  Grounded(f.errs, wrong, over) /\ "terminated" \notin f.errs

ErrorsAreGrounded ==
  /\ \A k \in 1..Len(stack) : Collected(stack[k], faults, done)
  /\ pc = "leave" => Grounded(ret, faults, done)

\* The logs know of every fault, so that ErrTerminated hides none, and of nothing
\* else; a panic is not logged but ends the run.
LogsKnowFaults ==
  /\ faults \ {"panic"} # {} => logs # {}
  /\ logs # {} => faults # {} \/ done
  /\ pc = "panic" => "panic" \in faults
  /\ "panic" \in faults => pc \in {"panic", "over"}

\* When only the cancellation has been logged, its error is on its way to Invoke:
\* no End node can run any more and turn it into a failed run.
CancellationIsOnItsWay ==
  logs # {} /\ faults = {} =>
    \/ pc = "check" /\ Top.errs # {}
    \/ pc = "leave" /\ ret # {} /\ "terminated" \notin ret
    \/ pc = "over"

\* A loop is inside the block at which the one around it stands.
LoopsAreNested ==
  /\ stack[1].node = Root
  /\ \A k \in 1..(Len(stack) - 1) :
       HasNext(stack[k]) /\ stack[k + 1].node = Child(stack[k])
  /\ pc \in {"start", "running"} => HasNext(Top)

EngineInv ==
  /\ TypeOK
  /\ LoopsAreNested
  /\ outcome # "none" <=> pc = "over"
  /\ ErrorsAreGrounded
  /\ LogsKnowFaults
  /\ CancellationIsOnItsWay
=============================================================================
