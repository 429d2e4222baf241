------------------------- MODULE WorkflowDispatcher -------------------------
(***************************************************************************)
(* The life of workflow runs: the service that starts and cancels them     *)
(* (internal/workflow/service.go), the dispatcher that queues and executes *)
(* them (internal/workflow/dispatcher/dispatcher.go) and the rows they     *)
(* leave in the database (internal/repository/workflow_run.go).            *)
(*                                                                         *)
(* The goroutines are: one per StartRun request (named after the run it    *)
(* creates), one CancelRun request at a time inside the dispatcher's lock, *)
(* any number of tryNextAsync, and one tryExecuteAsync per dispatch.  The  *)
(* dispatcher's lock is held across several steps only by Cancel; every    *)
(* other critical section is one action.  The executors write to the       *)
(* database without the lock.                                              *)
(***************************************************************************)
EXTENDS Integers, Sequences, FiniteSets

CONSTANTS
  Workflows,      \* the workflow records
  Runs,           \* the runs that may ever be started: numbers, in start order
  WorkflowOf,     \* the workflow each of them belongs to
  Concurrency,    \* wd.concurrency (CERTIMATE_WORKFLOW_MAX_WORKERS)
  MaxTasks,       \* bound: executor goroutines alive at once
  Results,        \* bound: the results an execution may have
  MaxRestarts,    \* bound: times the process stops and starts again
  Cancelable,     \* bound: the runs a user may cancel
  Deletable       \* bound: the workflows a user may delete

ASSUME RunsAssumption == Runs \subseteq Nat \ {0}
ASSUME WorkflowOfAssumption == WorkflowOf \in [Runs -> Workflows]
ASSUME ConcurrencyAssumption == Concurrency \in Nat \ {0}
ASSUME BoundsAssumption == MaxTasks \in Nat \ {0} /\ MaxRestarts \in Nat

Tasks == 1..MaxTasks
NoTask == 0
NoRun == 0

Active == {"pending", "processing"}
Finished == {"succeeded", "failed", "canceled"}

ASSUME ResultsAssumption == Results \subseteq Finished
ASSUME UserAssumption == Cancelable \subseteq Runs /\ Deletable \subseteq Workflows

VARIABLES
  up,          \* the process is running
  booted,      \* wd.booted
  restarts,    \* how often the process has stopped
  workflows,   \* the rows of collection workflow
  row,         \* status of each run's row in collection workflow_run
  lastRun,     \* workflow.lastRunRef, whose start time is workflow.lastRunTime
  lastStatus,  \* workflow.lastRunStatus
  request,     \* where the StartRun request that creates each run is
  queue,       \* wd.pendingRunQueue
  processing,  \* wd.processingTasks: the task tracked under each run id
  tryNext,     \* tryNextAsync goroutines that have not scanned the queue yet
  selected,    \* tryNextAsync goroutines between RUnlock and Lock, per run
  task,        \* the tryExecuteAsync goroutines
  cancel       \* the CancelRun request that holds the lock, if any

dbVars == <<workflows, row, lastRun, lastStatus>>
memVars == <<queue, processing, tryNext, selected, task, cancel>>
procVars == <<up, booted, restarts>>
vars == <<procVars, dbVars, request, memVars>>

IdleTask == [pc |-> "idle", run |-> NoRun, stopped |-> FALSE, result |-> "none"]
IdleCancel == [pc |-> "idle", run |-> NoRun, cascade |-> FALSE]

TaskState ==
  [pc : {"idle", "read", "claim", "load", "engine", "report", "exit"},
   run : Runs \cup {NoRun}, stopped : BOOLEAN, result : {"none"} \cup Finished]
CancelState ==
  [pc : {"idle", "read", "save", "remove"}, run : Runs \cup {NoRun}, cascade : BOOLEAN]

TypeOK ==
  /\ up \in BOOLEAN /\ booted \in BOOLEAN /\ restarts \in Nat
  /\ workflows \subseteq Workflows
  /\ row \in [Runs -> {"absent"} \cup Active \cup Finished]
  /\ lastRun \in [Workflows -> Runs \cup {NoRun}]
  /\ lastStatus \in [Workflows -> {"none"} \cup Active \cup Finished]
  /\ request \in [Runs -> {"none", "checked", "saved", "returned", "lost"}]
  /\ queue \in Seq(Runs)
  /\ processing \in [Runs -> Tasks \cup {NoTask}]
  /\ tryNext \in Nat
  /\ selected \in [Runs -> Nat]
  /\ task \in [Tasks -> TaskState]
  /\ cancel \in CancelState

Init ==
  /\ up = FALSE /\ booted = FALSE /\ restarts = 0
  /\ workflows = Workflows
  /\ row = [r \in Runs |-> "absent"]
  /\ lastRun = [w \in Workflows |-> NoRun]
  /\ lastStatus = [w \in Workflows |-> "none"]
  /\ request = [r \in Runs |-> "none"]
  /\ queue = <<>>
  /\ processing = [r \in Runs |-> NoTask]
  /\ tryNext = 0
  /\ selected = [r \in Runs |-> 0]
  /\ task = [t \in Tasks |-> IdleTask]
  /\ cancel = IdleCancel

-----------------------------------------------------------------------------
(* Queue, map and lock. *)

Queued(r) == \E i \in 1..Len(queue) : queue[i] = r
Processing == {r \in Runs : processing[r] # NoTask}
Unlocked == up /\ cancel.pc = "idle"

\* The queue without run r, which it holds at most once (Start refuses a second
\* entry), so the filter of tryNextAsync and the loop of Cancel agree.
Without(q, r) ==
  IF \E i \in 1..Len(q) : q[i] = r
  THEN LET k == CHOOSE i \in 1..Len(q) : q[i] = r
       IN [i \in 1..(Len(q) - 1) |-> IF i < k THEN q[i] ELSE q[i + 1]]
  ELSE q

-----------------------------------------------------------------------------
(* The workflow_run repository. *)

\* Save: every column of an existing row is overwritten.
Save(r, status) ==
  /\ row' = IF row[r] = "absent" THEN row ELSE [row EXCEPT ![r] = status]
  /\ UNCHANGED <<workflows, lastRun, lastStatus>>

\* Mutant: the start times are not compared.
SaveAlwaysCascading(r, status) ==
  LET w == WorkflowOf[r] IN
  IF row[r] = "absent"
  THEN UNCHANGED dbVars
  ELSE /\ row' = [row EXCEPT ![r] = status]
       /\ lastRun' = [lastRun EXCEPT ![w] = r]
       /\ lastStatus' = [lastStatus EXCEPT ![w] = status]
       /\ UNCHANGED workflows

\* Mutant: the status of a run that is the last one already is not carried over.
SaveCascadingNewOnly(r, status) ==
  LET w == WorkflowOf[r]
      latest == lastRun[w] = NoRun \/ r > lastRun[w]
  IN
  IF row[r] = "absent"
  THEN UNCHANGED dbVars
  ELSE /\ row' = [row EXCEPT ![r] = status]
       /\ lastRun' = IF latest THEN [lastRun EXCEPT ![w] = r] ELSE lastRun
       /\ lastStatus' = IF latest THEN [lastStatus EXCEPT ![w] = status]
                                  ELSE lastStatus
       /\ UNCHANGED workflows

\* SaveWithCascading: Save, and in the same transaction the workflow's last-run
\* columns when the run is the one recorded there or started later.
SaveWithCascading(r, status) ==
  LET w == WorkflowOf[r]
      latest == lastRun[w] = r \/ lastRun[w] = NoRun \/ r > lastRun[w]
  IN
  IF row[r] = "absent"
  THEN UNCHANGED dbVars
  ELSE /\ row' = [row EXCEPT ![r] = status]
       /\ lastRun' = IF latest THEN [lastRun EXCEPT ![w] = r] ELSE lastRun
       /\ lastStatus' = IF latest THEN [lastStatus EXCEPT ![w] = status]
                                  ELSE lastStatus
       /\ UNCHANGED workflows

\* Mutant: nothing is reset.
ResetNothing == UNCHANGED dbVars

\* ResetStatusIfHanging: both of its statements update collection workflow.
ResetStatusIfHanging ==
  /\ lastStatus' = [w \in Workflows |->
       IF w \in workflows /\ lastStatus[w] \in Active THEN "canceled"
                                                      ELSE lastStatus[w]]
  /\ UNCHANGED <<workflows, row, lastRun>>

-----------------------------------------------------------------------------
(* StartRun: the check, the row, the dispatcher's queue. *)

\* The workflow is read and the run stamped with its start time; runs of one
\* workflow are numbered in that order.
StartRun(r, trigger) ==
  /\ up /\ request[r] = "none"
  /\ \A s \in Runs : s < r /\ WorkflowOf[s] = WorkflowOf[r] => request[s] # "none"
  /\ WorkflowOf[r] \in workflows
  /\ ~(trigger = "manual" /\ lastStatus[WorkflowOf[r]] \in Active)
  /\ request' = [request EXCEPT ![r] = "checked"]
  /\ UNCHANGED <<procVars, dbVars, memVars>>

\* The pending row is created; it fails when the workflow is gone by then.
CreateRow(r) ==
  /\ request[r] = "checked"
  /\ IF WorkflowOf[r] \in workflows
     THEN /\ row' = [row EXCEPT ![r] = "pending"]
          /\ request' = [request EXCEPT ![r] = "saved"]
     ELSE /\ request' = [request EXCEPT ![r] = "returned"]
          /\ UNCHANGED row
  /\ UNCHANGED <<procVars, workflows, lastRun, lastStatus, memVars>>

\* dispatcher.Start. It does not look at wd.booted.
Enqueue(r) ==
  /\ Unlocked /\ request[r] = "saved"
  /\ request' = [request EXCEPT ![r] = "returned"]
  /\ IF processing[r] = NoTask /\ ~Queued(r)
     THEN queue' = Append(queue, r) /\ tryNext' = tryNext + 1
     ELSE UNCHANGED <<queue, tryNext>>
  /\ UNCHANGED <<procVars, dbVars, processing, selected, task, cancel>>

-----------------------------------------------------------------------------
(* tryNextAsync: a scan under the read lock, then a dispatch under the write
   lock that looks at nothing again. *)

Eligible(r) ==
  /\ row[r] # "absent"
  /\ \A p \in Processing : WorkflowOf[p] # WorkflowOf[r]
  /\ Cardinality(Processing) < Concurrency

Scan ==
  /\ Unlocked /\ tryNext > 0
  /\ tryNext' = tryNext - 1
  /\ \/ \E i \in 1..Len(queue) :
          /\ Eligible(queue[i])
          /\ \A j \in 1..(i - 1) : ~Eligible(queue[j])
          /\ selected' = [selected EXCEPT ![queue[i]] = @ + 1]
     \/ /\ \A i \in 1..Len(queue) : ~Eligible(queue[i])
        /\ UNCHANGED selected
  /\ UNCHANGED <<procVars, dbVars, request, queue, processing, task, cancel>>

FreeTask == CHOOSE t \in Tasks : task[t].pc = "idle"

Dispatch(r) ==
  /\ Unlocked /\ selected[r] > 0
  /\ \E t \in Tasks : task[t].pc = "idle"
  /\ selected' = [selected EXCEPT ![r] = @ - 1]
  /\ queue' = Without(queue, r)
  /\ processing' = [processing EXCEPT ![r] = FreeTask]
  /\ task' = [task EXCEPT ![FreeTask] = [IdleTask EXCEPT !.pc = "read", !.run = r]]
  /\ UNCHANGED <<procVars, dbVars, request, tryNext, cancel>>

-----------------------------------------------------------------------------
(* tryExecuteAsync. *)

Goto(t, pc) == task' = [task EXCEPT ![t].pc = pc]

\* Mutant: the status of the run is not looked at.
ReadRunUnchecked(t) ==
  /\ task[t].pc = "read"
  /\ Goto(t, IF row[task[t].run] # "absent" THEN "claim" ELSE "exit")
  /\ UNCHANGED <<procVars, dbVars, request, queue, processing, tryNext, selected, cancel>>

\* The run's row is read: only a pending run is executed.
ReadRun(t) ==
  /\ task[t].pc = "read"
  /\ Goto(t, IF row[task[t].run] = "pending" THEN "claim" ELSE "exit")
  /\ UNCHANGED <<procVars, dbVars, request, queue, processing, tryNext, selected, cancel>>

\* The status read above is replaced by processing, whatever it is by now.
ClaimRun(t) ==
  /\ task[t].pc = "claim"
  /\ SaveWithCascading(task[t].run, "processing")
  /\ Goto(t, "load")
  /\ UNCHANGED <<procVars, request, queue, processing, tryNext, selected, cancel>>

LoadWorkflow(t) ==
  /\ task[t].pc = "load"
  /\ Goto(t, IF WorkflowOf[task[t].run] \in workflows THEN "engine" ELSE "exit")
  /\ UNCHANGED <<procVars, dbVars, request, queue, processing, tryNext, selected, cancel>>

\* engine.Invoke has run the graph and calls OnEnd or OnError: succeeded or
\* failed; canceled when the context is done before a node, or when the error of
\* a node wraps context.Canceled or DeadlineExceeded (an HTTP client's timeout).
EngineReturn(t, result) ==
  /\ task[t].pc = "engine"
  /\ task' = [task EXCEPT ![t].pc = "report", ![t].result = result]
  /\ UNCHANGED <<procVars, dbVars, request, queue, processing, tryNext, selected, cancel>>

ReportResult(t) ==
  /\ task[t].pc = "report"
  /\ SaveWithCascading(task[t].run, task[t].result)
  /\ task' = [task EXCEPT ![t].pc = "exit", ![t].result = "none"]
  /\ UNCHANGED <<procVars, request, queue, processing, tryNext, selected, cancel>>

\* Mutant: no tryNextAsync is started.
ExitTaskSilently(t) ==
  /\ Unlocked /\ task[t].pc = "exit"
  /\ processing' = [processing EXCEPT ![task[t].run] = NoTask]
  /\ task' = [task EXCEPT ![t] = IdleTask]
  /\ UNCHANGED <<procVars, dbVars, request, queue, tryNext, selected, cancel>>

\* Mutant: the run stays in the map.
ExitTaskTracked(t) ==
  /\ Unlocked /\ task[t].pc = "exit"
  /\ tryNext' = tryNext + 1
  /\ task' = [task EXCEPT ![t] = IdleTask]
  /\ UNCHANGED <<procVars, dbVars, request, queue, processing, selected, cancel>>

\* The deferred function: it deletes the run's entry, whoever put it there.
ExitTask(t) ==
  /\ Unlocked /\ task[t].pc = "exit"
  /\ processing' = [processing EXCEPT ![task[t].run] = NoTask]
  /\ tryNext' = tryNext + 1
  /\ task' = [task EXCEPT ![t] = IdleTask]
  /\ UNCHANGED <<procVars, dbVars, request, queue, selected, cancel>>

-----------------------------------------------------------------------------
(* CancelRun: dispatcher.Cancel holds the lock from its first step to its last. *)

\* The lock is taken and the run's row read.
CancelRun(r) ==
  /\ Unlocked /\ r \in Cancelable /\ row[r] \in Active
  /\ cancel' = [IdleCancel EXCEPT !.pc = "read", !.run = r]
  /\ UNCHANGED <<procVars, dbVars, request, queue, processing, tryNext, selected, task>>

CancelReadWorkflow ==
  /\ cancel.pc = "read"
  /\ LET w == WorkflowOf[cancel.run] IN
     cancel' = IF w \in workflows
               THEN [cancel EXCEPT !.pc = "save", !.cascade = (lastRun[w] = cancel.run)]
               ELSE IdleCancel
  /\ UNCHANGED <<procVars, dbVars, request, queue, processing, tryNext, selected, task>>

\* Mutant: the run is only taken out of the dispatcher.
CancelSaveNothing ==
  /\ cancel.pc = "save"
  /\ cancel' = [cancel EXCEPT !.pc = "remove"]
  /\ UNCHANGED <<procVars, dbVars, request, queue, processing, tryNext, selected, task>>

CancelSave ==
  /\ cancel.pc = "save"
  /\ IF cancel.cascade THEN SaveWithCascading(cancel.run, "canceled")
                       ELSE Save(cancel.run, "canceled")
  /\ cancel' = IF row[cancel.run] = "absent" THEN IdleCancel
                                            ELSE [cancel EXCEPT !.pc = "remove"]
  /\ UNCHANGED <<procVars, request, queue, processing, tryNext, selected, task>>

\* The task tracked for the run is told to stop and forgotten, the run leaves
\* the queue, the lock is released.
CancelRemove ==
  /\ cancel.pc = "remove"
  /\ task' = [t \in Tasks |-> IF processing[cancel.run] = t
                              THEN [task[t] EXCEPT !.stopped = TRUE] ELSE task[t]]
  /\ processing' = [processing EXCEPT ![cancel.run] = NoTask]
  /\ queue' = Without(queue, cancel.run)
  /\ tryNext' = tryNext + 1
  /\ cancel' = IdleCancel
  /\ UNCHANGED <<procVars, dbVars, request, selected>>

-----------------------------------------------------------------------------
(* The process and the user. *)

Bootup ==
  /\ ~up
  /\ up' = TRUE /\ booted' = TRUE
  /\ ResetStatusIfHanging
  /\ UNCHANGED <<restarts, request, memVars>>

\* Shutdown forgets all runs; the process serves requests until it exits.
Shutdown ==
  /\ Unlocked /\ booted
  /\ booted' = FALSE
  /\ task' = [t \in Tasks |-> IF \E r \in Runs : processing[r] = t
                              THEN [task[t] EXCEPT !.stopped = TRUE] ELSE task[t]]
  /\ queue' = <<>>
  /\ processing' = [r \in Runs |-> NoTask]
  /\ UNCHANGED <<up, restarts, dbVars, request, tryNext, selected, cancel>>

\* The process exits after Shutdown, or is killed: every goroutine dies with it.
Exit ==
  /\ up /\ restarts < MaxRestarts
  /\ up' = FALSE /\ booted' = FALSE /\ restarts' = restarts + 1
  /\ request' = [r \in Runs |-> IF request[r] = "none" THEN "none" ELSE "lost"]
  /\ queue' = <<>>
  /\ processing' = [r \in Runs |-> NoTask]
  /\ tryNext' = 0
  /\ selected' = [r \in Runs |-> 0]
  /\ task' = [t \in Tasks |-> IdleTask]
  /\ cancel' = IdleCancel
  /\ UNCHANGED dbVars

\* A user deletes a workflow record; its runs' rows are deleted with it.
DeleteWorkflow(w) ==
  /\ up /\ w \in workflows \cap Deletable
  /\ workflows' = workflows \ {w}
  /\ row' = [r \in Runs |-> IF WorkflowOf[r] = w THEN "absent" ELSE row[r]]
  /\ UNCHANGED <<procVars, lastRun, lastStatus, request, memVars>>

-----------------------------------------------------------------------------

TaskStep(t) ==
  \/ ReadRun(t) \/ ClaimRun(t) \/ LoadWorkflow(t)
  \/ \E result \in Results : EngineReturn(t, result)
  \/ ReportResult(t) \/ ExitTask(t)

CancelStep == CancelReadWorkflow \/ CancelSave \/ CancelRemove

Next ==
  \/ \E r \in Runs :
       \/ \E trigger \in {"manual", "scheduled"} : StartRun(r, trigger)
       \/ CreateRow(r) \/ Enqueue(r) \/ Dispatch(r) \/ CancelRun(r)
  \/ Scan
  \/ \E t \in Tasks : TaskStep(t)
  \/ CancelStep
  \/ Bootup \/ Shutdown \/ Exit
  \/ \E w \in Workflows : DeleteWorkflow(w)

Spec == Init /\ [][Next]_vars

(* Go schedules every runnable goroutine and its lock starves no waiter; a     *)
(* node's work is assumed to end.  Users, crashes and shutdowns owe nothing.   *)
Fairness ==
  /\ WF_vars(Scan) /\ WF_vars(CancelStep)
  /\ \A r \in Runs :
       WF_vars(CreateRow(r)) /\ WF_vars(Enqueue(r)) /\ WF_vars(Dispatch(r))
  /\ \A t \in Tasks : WF_vars(TaskStep(t))

FairSpec == Spec /\ Fairness

-----------------------------------------------------------------------------
(* Properties that hold. *)

Executing(r) ==
  \E t \in Tasks : task[t].run = r /\ task[t].pc \in {"load", "engine", "report"}

\* Somebody will look at the queue again as long as it holds a run that still
\* exists: a tryNextAsync that has not scanned or not dispatched yet, or an
\* executor, whose deferred function starts one.
NoLostWakeup ==
  (\E r \in Runs : Queued(r) /\ row[r] # "absent") =>
    \/ tryNext > 0
    \/ \E r \in Runs : selected[r] > 0
    \/ \E t \in Tasks : task[t].pc # "idle"

\* Every entry of processingTasks belongs to an executor of that very run that
\* has neither ended nor been told to stop, although an executor deletes the
\* entry of its run without asking whose it is.
ProcessingIsLive ==
  \A r \in Processing :
    LET k == task[processing[r]] IN k.run = r /\ k.pc # "idle" /\ ~k.stopped

\* While the dispatcher is booted, a run of this process that is pending or
\* processing in the database is in somebody's hands: the request that created
\* it, the queue, a tryNextAsync that selected it, or an executor.
ActiveRunHasOwner ==
  booted => \A r \in Runs : request[r] # "lost" =>
    /\ row[r] = "pending" =>
         \/ request[r] = "saved" \/ Queued(r) \/ selected[r] > 0
         \/ \E t \in Tasks : task[t].run = r /\ task[t].pc \in {"read", "claim"}
    /\ row[r] = "processing" => Executing(r)

\* The workflow column that makes StartRun refuse a manual trigger says pending
\* or processing only while an executor of the recorded run is at work and will
\* overwrite it: neither a cancellation nor a crash leaves a workflow blocked.
BusyWorkflowIsExecuting ==
  up => \A w \in workflows :
    lastStatus[w] \in Active => lastRun[w] # NoRun /\ Executing(lastRun[w])

\* The last-run columns of a workflow agree with the row of the run they name,
\* unless the run was canceled (Cancel may save the run alone) or died with an
\* earlier process.
LastStatusMirrorsRun ==
  \A w \in workflows :
    LET r == lastRun[w] IN
    r # NoRun /\ request[r] # "lost" /\ row[r] # "canceled" => lastStatus[w] = row[r]

\* A finished run that no executor has claimed and no Cancel is working on.
AtRest(r) ==
  /\ row[r] \in Finished
  /\ \A t \in Tasks : task[t].run = r => task[t].pc \in {"read", "exit"}
  /\ cancel.run # r

\* It stays so, with its status, until its row is deleted, however many stale
\* selections still dispatch it.
FinishedIsFinal ==
  [][\A r \in Runs :
       AtRest(r) /\ row'[r] # "absent" => row'[r] = row[r] /\ AtRest(r)']_vars

\* A workflow's last run is only ever replaced by one that started later, though
\* runs are claimed, finished and canceled in any order.
LastRunNeverGoesBack ==
  [][\A w \in Workflows : lastRun'[w] >= lastRun[w]]_vars

\* Every run that was given a row finishes, unless the dispatcher is shut down
\* or its workflow deleted.
EveryRunFinishes ==
  \A r \in Runs :
    request[r] = "saved" ~> (row[r] \in Finished \cup {"absent"} \/ ~booted)

-----------------------------------------------------------------------------
(* The inductive invariant behind the properties above: what the program      *)
(* counters say of the data.                                                  *)

Unique(q) == \A i, j \in 1..Len(q) : q[i] = q[j] => i = j

PcOK ==
  /\ \A t \in Tasks : /\ task[t].pc # "idle" => task[t].run \in Runs
                      /\ task[t].pc = "report" => task[t].result \in Finished
  /\ cancel.pc # "idle" => cancel.run \in Runs

\* A run reaches the dispatcher only when its request hands it over.
PipelineOK ==
  \A r \in Runs : Queued(r) \/ selected[r] > 0 \/ processing[r] # NoTask
                  => request[r] = "returned"

\* Rows appear with the request, belong to an existing workflow, and stay as
\* long as the workflow that names one as its last run.
RowsOK ==
  /\ \A r \in Runs : /\ request[r] \in {"none", "checked"} => row[r] = "absent"
                     /\ row[r] # "absent" => WorkflowOf[r] \in workflows
  /\ \A w \in workflows : lastRun[w] # NoRun =>
       WorkflowOf[lastRun[w]] = w /\ row[lastRun[w]] # "absent"

CancelOK ==
  /\ cancel.pc # "idle" => request[cancel.run] \notin {"none", "checked"}
  /\ cancel.pc = "remove" => row[cancel.run] # "pending"

\* No request survives the process.
DownOK == ~up => ~booted /\ \A r \in Runs : request[r] \in {"none", "lost"}

DispatcherInv ==
  /\ TypeOK /\ PcOK /\ Unique(queue)
  /\ PipelineOK /\ RowsOK /\ CancelOK /\ DownOK
  /\ NoLostWakeup /\ ProcessingIsLive /\ ActiveRunHasOwner /\ BusyWorkflowIsExecuting

-----------------------------------------------------------------------------
(* Properties the repository states and the code does not have. *)

\* dispatcher.go:337: runs of one workflow are not executed at the same time.
OneRunPerWorkflow ==
  booted => \A s, t \in Tasks :
    s # t /\ task[s].pc = "engine" /\ task[t].pc = "engine"
    => WorkflowOf[task[s].run] # WorkflowOf[task[t].run]

\* deps.go:18, ResetStatusIfHanging: after Bootup no run hangs from before.
NoRunHangsAfterBootup ==
  booted => \A r \in Runs : request[r] = "lost" => row[r] \notin Active

\* dispatcher.go:173: once its row says canceled a run "was canceled".
CanceledIsFinal ==
  [][\A r \in Runs : row[r] = "canceled" => row'[r] \in {"canceled", "absent"}]_vars
=============================================================================
