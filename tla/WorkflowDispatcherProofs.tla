---------------------- MODULE WorkflowDispatcherProofs ----------------------
(***************************************************************************)
(* Proofs about WorkflowDispatcher, for any set of workflows and runs, any *)
(* concurrency limit and any number of executors and restarts.             *)
(***************************************************************************)
EXTENDS WorkflowDispatcher, FiniteSetTheorems, TLAPS

-----------------------------------------------------------------------------
(* The queue. *)

\* Taking a run out of a queue that holds it at most once leaves a queue of the
\* other runs, each of them still at most once.
LEMMA WithoutLemma ==
  ASSUME NEW q \in Seq(Runs), NEW r \in Runs, Unique(q)
  PROVE  /\ Without(q, r) \in Seq(Runs)
         /\ Unique(Without(q, r))
         /\ \A x \in Runs : (\E i \in 1..Len(Without(q, r)) : Without(q, r)[i] = x)
                            <=> x # r /\ \E i \in 1..Len(q) : q[i] = x
<1>1. CASE ~\E i \in 1..Len(q) : q[i] = r
  BY <1>1 DEF Without, Unique
<1>2. CASE \E i \in 1..Len(q) : q[i] = r
  <2> DEFINE k == CHOOSE i \in 1..Len(q) : q[i] = r
             p == [i \in 1..(Len(q) - 1) |-> IF i < k THEN q[i] ELSE q[i + 1]]
  <2>1. k \in 1..Len(q) /\ q[k] = r
    BY <1>2
  <2> HIDE DEF k
  <2>2. Len(q) \in Nat \ {0} /\ \A i \in 1..Len(q) : q[i] \in Runs
    BY <2>1
  <2>3. p \in Seq(Runs) /\ Len(p) = Len(q) - 1
    BY <2>1, <2>2
  <2>4. \A i \in 1..(Len(q) - 1) : p[i] = IF i < k THEN q[i] ELSE q[i + 1]
    OBVIOUS
  <2>5. Without(q, r) = p
    BY <1>2 DEF Without, k
  <2> HIDE DEF p
  <2>6. Unique(p)
    BY <2>1, <2>2, <2>3, <2>4, SMTT(30) DEF Unique
  <2>7. ASSUME NEW x \in Runs, NEW i \in 1..Len(p), p[i] = x
        PROVE  x # r /\ \E j \in 1..Len(q) : q[j] = x
    BY <2>1, <2>2, <2>3, <2>4, <2>7 DEF Unique
  <2>8. ASSUME NEW x \in Runs, x # r, NEW j \in 1..Len(q), q[j] = x
        PROVE  \E i \in 1..Len(p) : p[i] = x
    <3>1. CASE j < k
      <4>1. j \in 1..Len(p) /\ p[j] = x
        BY <2>1, <2>2, <2>3, <2>4, <2>8, <3>1
      <4> QED BY <4>1
    <3>2. CASE j > k
      <4>1. j - 1 \in 1..Len(p) /\ p[j - 1] = x
        BY <2>1, <2>2, <2>3, <2>4, <2>8, <3>2
      <4> QED BY <4>1
    <3>3. j # k
      BY <2>1, <2>8
    <3> QED BY <2>1, <3>1, <3>2, <3>3
  <2> QED BY <2>3, <2>5, <2>6, <2>7, <2>8
<1> QED BY <1>1, <1>2

-----------------------------------------------------------------------------
(* Type correctness. *)

TInv == TypeOK /\ PcOK /\ Unique(queue)

\* What a save leaves in the database is well typed.
LEMMA SaveTypes ==
  ASSUME TypeOK, NEW r \in Runs, NEW status \in Active \cup Finished,
         Save(r, status) \/ SaveWithCascading(r, status)
  PROVE  /\ workflows' \subseteq Workflows
         /\ row' \in [Runs -> {"absent"} \cup Active \cup Finished]
         /\ lastRun' \in [Workflows -> Runs \cup {NoRun}]
         /\ lastStatus' \in [Workflows -> {"none"} \cup Active \cup Finished]
  BY WorkflowOfAssumption DEF TypeOK, Save, SaveWithCascading, dbVars

\* A step that changes one field of an executor, or of the Cancel in progress,
\* leaves a well-typed record.
LEMMA GotoTypes ==
  ASSUME NEW k \in TaskState
  PROVE  /\ \A pc \in {"idle", "read", "claim", "load", "engine", "report", "exit"} :
              [k EXCEPT !.pc = pc] \in TaskState
         /\ [k EXCEPT !.stopped = TRUE] \in TaskState
         /\ \A result \in {"none"} \cup Finished :
              [k EXCEPT !.result = result] \in TaskState
  BY DEF TaskState

LEMMA IdleTypes == IdleTask \in TaskState /\ IdleCancel \in CancelState
  BY DEF IdleTask, TaskState, IdleCancel, CancelState

LEMMA InitTInv == Init => TInv
<1> SUFFICES ASSUME Init PROVE TInv
  OBVIOUS
<1>1. TypeOK
  <2>1. /\ queue \in Seq(Runs) /\ row \in [Runs -> {"absent"} \cup Active \cup Finished]
        /\ request \in [Runs -> {"none", "checked", "saved", "returned", "lost"}]
    BY DEF Init
  <2>2. /\ lastRun \in [Workflows -> Runs \cup {NoRun}]
        /\ lastStatus \in [Workflows -> {"none"} \cup Active \cup Finished]
    BY DEF Init
  <2>3. task \in [Tasks -> TaskState] /\ cancel \in CancelState
    BY IdleTypes DEF Init
  <2>4. /\ processing \in [Runs -> Tasks \cup {NoTask}]
        /\ selected \in [Runs -> Nat] /\ tryNext \in Nat
    BY DEF Init
  <2> QED BY <2>1, <2>2, <2>3, <2>4 DEF Init, TypeOK
<1>2. PcOK
  BY DEF Init, PcOK, IdleTask, IdleCancel
<1>3. Unique(queue)
  BY DEF Init, Unique
<1> QED BY <1>1, <1>2, <1>3 DEF TInv

LEMMA NextTInv == TInv /\ [Next]_vars => TInv'
<1> SUFFICES ASSUME TInv, [Next]_vars PROVE TInv'
  OBVIOUS
<1> USE DEF TInv
<1>1. ASSUME NEW r \in Runs, NEW trigger \in {"manual", "scheduled"}, StartRun(r, trigger)
      PROVE  TInv'
  BY <1>1 DEF StartRun, TypeOK, PcOK, Unique, procVars, dbVars, memVars
<1>2. ASSUME NEW r \in Runs, CreateRow(r) PROVE TInv'
  BY <1>2 DEF CreateRow, TypeOK, PcOK, Unique, procVars, memVars, Active
<1>3. ASSUME NEW r \in Runs, Enqueue(r) PROVE TInv'
  <2>1. queue' \in Seq(Runs) /\ Unique(queue')
    <3>1. CASE queue' = queue
      BY <3>1 DEF TypeOK
    <3>2. CASE queue' = Append(queue, r) /\ ~Queued(r)
      BY <3>2 DEF TypeOK, Queued, Unique
    <3> QED BY <1>3, <3>1, <3>2 DEF Enqueue
  <2>2. TypeOK'
    BY <1>3, <2>1 DEF Enqueue, TypeOK, procVars, dbVars
  <2>3. PcOK'
    BY <1>3 DEF Enqueue, PcOK
  <2> QED BY <2>1, <2>2, <2>3 DEF Unique
<1>4. ASSUME NEW r \in Runs, Dispatch(r) PROVE TInv'
  <2>1. FreeTask \in Tasks /\ task[FreeTask].pc = "idle"
    BY <1>4 DEF Dispatch, FreeTask
  <2>2. queue' \in Seq(Runs) /\ Unique(queue')
    BY <1>4, WithoutLemma DEF Dispatch, TypeOK
  <2>3. [IdleTask EXCEPT !.pc = "read", !.run = r] \in TaskState
    BY DEF IdleTask, TaskState
  <2>4. TypeOK'
    BY <1>4, <2>1, <2>2, <2>3 DEF Dispatch, TypeOK, procVars, dbVars
  <2>5. PcOK'
    BY <1>4, <2>1 DEF Dispatch, PcOK, TypeOK, IdleTask
  <2> QED BY <2>2, <2>4, <2>5 DEF Unique
<1>5. ASSUME NEW r \in Runs, CancelRun(r) PROVE TInv'
  <2>1. cancel' \in CancelState /\ cancel'.run = r
    BY <1>5 DEF CancelRun, CancelState, IdleCancel
  <2> QED
    BY <1>5, <2>1 DEF CancelRun, TypeOK, PcOK, Unique, procVars, dbVars
<1>6. ASSUME Scan PROVE TInv'
  <2>1. tryNext' \in Nat
    BY <1>6 DEF Scan, TypeOK
  <2>2. selected' \in [Runs -> Nat]
    BY <1>6, SMTT(30) DEF Scan, TypeOK
  <2> QED BY <1>6, <2>1, <2>2 DEF Scan, TypeOK, PcOK, Unique, procVars, dbVars
<1>7. ASSUME NEW t \in Tasks, TaskStep(t) PROVE TInv'
  <2>1. CASE ReadRun(t)
    <3>1. task' \in [Tasks -> TaskState]
      BY <2>1, GotoTypes DEF ReadRun, Goto, TypeOK
    <3>2. PcOK'
      BY <2>1 DEF ReadRun, Goto, TypeOK, PcOK
    <3> QED BY <2>1, <3>1, <3>2 DEF ReadRun, TypeOK, Unique, procVars, dbVars
  <2>2. CASE ClaimRun(t)
    <3>1. task[t].run \in Runs
      BY <2>2 DEF ClaimRun, PcOK
    <3>2. task' \in [Tasks -> TaskState]
      BY <2>2, GotoTypes DEF ClaimRun, Goto, TypeOK
    <3>3. TypeOK'
      BY <2>2, <3>1, <3>2, SaveTypes DEF ClaimRun, TypeOK, procVars, Active
    <3>4. PcOK'
      BY <2>2 DEF ClaimRun, Goto, TypeOK, PcOK
    <3> QED BY <2>2, <3>3, <3>4 DEF ClaimRun, Unique
  <2>3. CASE LoadWorkflow(t)
    <3>1. task' \in [Tasks -> TaskState]
      BY <2>3, GotoTypes DEF LoadWorkflow, Goto, TypeOK
    <3>2. PcOK'
      BY <2>3 DEF LoadWorkflow, Goto, TypeOK, PcOK
    <3> QED BY <2>3, <3>1, <3>2 DEF LoadWorkflow, TypeOK, Unique, procVars, dbVars
  <2>4. ASSUME NEW result \in Results, EngineReturn(t, result) PROVE TInv'
    <3>1. result \in Finished
      BY ResultsAssumption
    <3> DEFINE k == [[task[t] EXCEPT !.pc = "report"] EXCEPT !.result = result]
    <3>2. k \in TaskState
      BY <3>1, GotoTypes DEF TypeOK
    <3>3. task' \in [Tasks -> TaskState]
      BY <2>4, <3>2 DEF EngineReturn, TypeOK
    <3>4. PcOK'
      BY <2>4, <3>1 DEF EngineReturn, TypeOK, PcOK, TaskState
    <3> QED BY <2>4, <3>3, <3>4 DEF EngineReturn, TypeOK, Unique, procVars, dbVars
  <2>5. CASE ReportResult(t)
    <3>1. task[t].run \in Runs /\ task[t].result \in Finished
      BY <2>5 DEF ReportResult, PcOK
    <3> DEFINE k == [[task[t] EXCEPT !.pc = "exit"] EXCEPT !.result = "none"]
    <3>2. k \in TaskState
      BY GotoTypes DEF TypeOK
    <3>3. task' \in [Tasks -> TaskState]
      BY <2>5, <3>2 DEF ReportResult, TypeOK
    <3>4. TypeOK'
      BY <2>5, <3>1, <3>3, SaveTypes DEF ReportResult, TypeOK, procVars
    <3>5. PcOK'
      BY <2>5 DEF ReportResult, TypeOK, PcOK, TaskState
    <3> QED BY <2>5, <3>4, <3>5 DEF ReportResult, Unique
  <2>6. CASE ExitTask(t)
    <3>1. task' \in [Tasks -> TaskState] /\ processing' \in [Runs -> Tasks \cup {NoTask}]
      BY <2>6, IdleTypes DEF ExitTask, TypeOK
    <3>2. PcOK'
      BY <2>6 DEF ExitTask, TypeOK, PcOK, IdleTask
    <3> QED BY <2>6, <3>1, <3>2 DEF ExitTask, TypeOK, Unique, procVars, dbVars
  <2> QED BY <1>7, <2>1, <2>2, <2>3, <2>4, <2>5, <2>6 DEF TaskStep
<1>8. CASE CancelStep
  <2>1. CASE CancelReadWorkflow
    <3>1. cancel' \in CancelState
      BY <2>1, IdleTypes DEF CancelReadWorkflow, CancelState, TypeOK
    <3>2. PcOK'
      BY <2>1 DEF CancelReadWorkflow, CancelState, IdleCancel, TypeOK, PcOK
    <3> QED BY <2>1, <3>1, <3>2 DEF CancelReadWorkflow, TypeOK, Unique, procVars, dbVars
  <2>2. CASE CancelSave
    <3>1. cancel.run \in Runs
      BY <2>2 DEF CancelSave, PcOK
    <3>2. cancel' \in CancelState
      BY <2>2, IdleTypes DEF CancelSave, CancelState, TypeOK
    <3>3. TypeOK'
      BY <2>2, <3>1, <3>2, SaveTypes DEF CancelSave, TypeOK, procVars, Finished
    <3>4. PcOK'
      BY <2>2 DEF CancelSave, CancelState, IdleCancel, TypeOK, PcOK
    <3> QED BY <2>2, <3>3, <3>4 DEF CancelSave, Unique
  <2>3. CASE CancelRemove
    <3>1. cancel.run \in Runs
      BY <2>3 DEF CancelRemove, PcOK
    <3>2. queue' \in Seq(Runs) /\ Unique(queue')
      BY <2>3, <3>1, WithoutLemma DEF CancelRemove, TypeOK
    <3>3. task' \in [Tasks -> TaskState]
      BY <2>3, GotoTypes DEF CancelRemove, TypeOK
    <3>4. TypeOK'
      <4>1. processing' \in [Runs -> Tasks \cup {NoTask}]
        BY <2>3 DEF CancelRemove, TypeOK
      <4>2. tryNext' \in Nat
        BY <2>3 DEF CancelRemove, TypeOK
      <4>3. cancel' \in CancelState
        BY <2>3, IdleTypes DEF CancelRemove
      <4> QED BY <2>3, <3>2, <3>3, <4>1, <4>2, <4>3 DEF CancelRemove, TypeOK, procVars, dbVars
    <3>5. PcOK'
      BY <2>3 DEF CancelRemove, IdleCancel, TypeOK, PcOK, TaskState
    <3> QED BY <3>2, <3>4, <3>5 DEF Unique
  <2> QED BY <1>8, <2>1, <2>2, <2>3 DEF CancelStep
<1>9. CASE Bootup
  BY <1>9 DEF Bootup, ResetStatusIfHanging, TypeOK, PcOK, Unique, procVars, memVars, Active, Finished
<1>10. CASE Shutdown
  <2>1. task' \in [Tasks -> TaskState]
    BY <1>10, GotoTypes DEF Shutdown, TypeOK
  <2>2. queue' \in Seq(Runs) /\ processing' \in [Runs -> Tasks \cup {NoTask}]
    BY <1>10 DEF Shutdown
  <2>3. TypeOK'
    BY <1>10, <2>1, <2>2 DEF Shutdown, TypeOK, procVars, dbVars
  <2>4. PcOK'
    BY <1>10 DEF Shutdown, TypeOK, PcOK, TaskState
  <2> QED BY <1>10, <2>3, <2>4 DEF Shutdown, Unique
<1>11. CASE Exit
  <2>1. TypeOK'
    <3>1. task' \in [Tasks -> TaskState] /\ cancel' \in CancelState
      BY <1>11, IdleTypes DEF Exit
    <3>2. queue' \in Seq(Runs) /\ processing' \in [Runs -> Tasks \cup {NoTask}]
      BY <1>11 DEF Exit
    <3>3. request' \in [Runs -> {"none", "checked", "saved", "returned", "lost"}]
      BY <1>11 DEF Exit
    <3>4. tryNext' \in Nat /\ selected' \in [Runs -> Nat] /\ restarts' \in Nat
      BY <1>11 DEF Exit, TypeOK
    <3> QED BY <1>11, <3>1, <3>2, <3>3, <3>4 DEF Exit, TypeOK, dbVars
  <2>2. PcOK'
    BY <1>11 DEF Exit, PcOK, IdleTask, IdleCancel
  <2> QED BY <1>11, <2>1, <2>2 DEF Exit, Unique
<1>12. ASSUME NEW w \in Workflows, DeleteWorkflow(w) PROVE TInv'
  BY <1>12 DEF DeleteWorkflow, TypeOK, PcOK, Unique, procVars, memVars
<1>13. CASE UNCHANGED vars
  BY <1>13 DEF vars, procVars, dbVars, memVars, TypeOK, PcOK, Unique
<1> QED
  BY <1>1, <1>2, <1>3, <1>4, <1>5, <1>6, <1>7, <1>8, <1>9, <1>10, <1>11, <1>12, <1>13
     DEF Next

\* Every variable keeps its type: in particular no goroutine is counted below
\* zero and the queue holds nothing but runs.
THEOREM TypeCorrect == Spec => []TypeOK
<1>1. TInv => TypeOK
  BY DEF TInv
<1> QED BY <1>1, InitTInv, NextTInv, PTL DEF Spec

-----------------------------------------------------------------------------
(* Who may be where: the parts of the invariant about requests and rows. *)

\* How the queue's members change when a run leaves and when one enters.
LEMMA LeavesQueue ==
  ASSUME TInv, NEW q \in Runs, queue' = Without(queue, q)
  PROVE  \A r \in Runs : Queued(r)' <=> Queued(r) /\ r # q
<1>1. queue \in Seq(Runs) /\ Unique(queue)
  BY DEF TInv, TypeOK
<1>2. \A x \in Runs : (\E i \in 1..Len(Without(queue, q)) : Without(queue, q)[i] = x)
                       <=> x # q /\ \E i \in 1..Len(queue) : queue[i] = x
  BY <1>1, WithoutLemma
<1> HIDE DEF TInv
<1> QED BY <1>2, Zenon DEF Queued

LEMMA EntersQueue ==
  ASSUME TypeOK, NEW q \in Runs, queue' = Append(queue, q)
  PROVE  \A r \in Runs : Queued(r)' <=> Queued(r) \/ r = q
<1>1. /\ queue \in Seq(Runs) /\ Len(queue) \in Nat /\ Len(queue') = Len(queue) + 1
      /\ \A i \in 1..Len(queue) : queue'[i] = queue[i]
      /\ queue'[Len(queue) + 1] = q
  BY DEF TypeOK
<1>2. ASSUME NEW r \in Runs, Queued(r)' PROVE Queued(r) \/ r = q
  <2>1. PICK i \in 1..(Len(queue) + 1) : queue'[i] = r
    BY <1>1, <1>2 DEF Queued
  <2> QED BY <1>1, <2>1 DEF Queued
<1>3. ASSUME NEW r \in Runs, Queued(r) \/ r = q PROVE Queued(r)'
  BY <1>1, <1>3 DEF Queued
<1> QED BY <1>2, <1>3

LEMMA NextPipeline == TInv /\ PipelineOK /\ [Next]_vars => PipelineOK'
<1> SUFFICES ASSUME TInv, PipelineOK, [Next]_vars,
                    NEW r \in Runs, (Queued(r) \/ selected[r] > 0 \/ processing[r] # NoTask)'
             PROVE  request'[r] = "returned"
  BY DEF PipelineOK
<1> USE DEF TInv, PipelineOK
<1>1. ASSUME NEW q \in Runs, NEW trigger \in {"manual", "scheduled"}, StartRun(q, trigger)
      PROVE  request'[r] = "returned"
  BY <1>1 DEF StartRun, Queued, TypeOK, memVars
<1>2. ASSUME NEW q \in Runs, CreateRow(q) PROVE request'[r] = "returned"
  BY <1>2 DEF CreateRow, Queued, TypeOK, memVars
<1>3. ASSUME NEW q \in Runs, Enqueue(q) PROVE request'[r] = "returned"
  <2>1. CASE r = q
    BY <1>3, <2>1 DEF Enqueue, TypeOK
  <2>2. CASE r # q
    <3>1. Queued(r)' => Queued(r)
      BY <1>3, <2>2, EntersQueue DEF Enqueue, Queued
    <3> QED BY <1>3, <2>2, <3>1 DEF Enqueue, TypeOK
  <2> QED BY <2>1, <2>2
<1>4. ASSUME NEW q \in Runs, Dispatch(q) PROVE request'[r] = "returned"
  <2>1. Queued(r)' => Queued(r)
    BY <1>4, LeavesQueue DEF Dispatch
  <2>2. selected[q] > 0
    BY <1>4 DEF Dispatch
  <2>3. selected'[r] > 0 => selected[r] > 0
    BY <1>4 DEF Dispatch, TypeOK
  <2>4. processing'[r] # NoTask => processing[r] # NoTask \/ r = q
    BY <1>4 DEF Dispatch, TypeOK
  <2> QED BY <1>4, <2>1, <2>2, <2>3, <2>4 DEF Dispatch
<1>5. ASSUME NEW q \in Runs, CancelRun(q) PROVE request'[r] = "returned"
  BY <1>5 DEF CancelRun, Queued
<1>6. CASE Scan
  <2>1. selected'[r] > 0 => selected[r] > 0 \/ Queued(r)
    <3>1. CASE UNCHANGED selected
      BY <3>1
    <3>2. ASSUME NEW i \in 1..Len(queue), selected' = [selected EXCEPT ![queue[i]] = @ + 1]
          PROVE  selected'[r] > 0 => selected[r] > 0 \/ Queued(r)
      BY <3>2 DEF Queued, TypeOK
    <3> QED BY <1>6, <3>1, <3>2 DEF Scan
  <2> QED BY <1>6, <2>1 DEF Scan, Queued
<1>7. ASSUME NEW t \in Tasks, TaskStep(t) PROVE request'[r] = "returned"
  <2>1. CASE ExitTask(t)
    BY <2>1 DEF ExitTask, Queued, TypeOK
  <2>2. CASE ~ExitTask(t)
    BY <1>7, <2>2
       DEF TaskStep, ReadRun, ClaimRun, LoadWorkflow, EngineReturn, ReportResult, Queued
  <2> QED BY <2>1, <2>2
<1>8. CASE CancelStep
  <2>1. CASE CancelReadWorkflow \/ CancelSave
    BY <2>1 DEF CancelReadWorkflow, CancelSave, Queued
  <2>2. CASE CancelRemove
    <3>1. cancel.run \in Runs
      BY <2>2 DEF CancelRemove, PcOK
    <3>2. Queued(r)' => Queued(r)
      BY <2>2, <3>1, LeavesQueue DEF CancelRemove
    <3>3. processing'[r] # NoTask => processing[r] # NoTask
      BY <2>2 DEF CancelRemove, TypeOK
    <3> QED BY <2>2, <3>2, <3>3 DEF CancelRemove
  <2> QED BY <1>8, <2>1, <2>2 DEF CancelStep
<1>9. CASE Bootup
  BY <1>9 DEF Bootup, Queued, memVars
<1>10. CASE Shutdown
  BY <1>10 DEF Shutdown, Queued
<1>11. CASE Exit
  BY <1>11 DEF Exit, Queued
<1>12. ASSUME NEW w \in Workflows, DeleteWorkflow(w) PROVE request'[r] = "returned"
  BY <1>12 DEF DeleteWorkflow, Queued, memVars
<1>13. CASE UNCHANGED vars
  BY <1>13 DEF vars, memVars, Queued
<1> QED
  BY <1>1, <1>2, <1>3, <1>4, <1>5, <1>6, <1>7, <1>8, <1>9, <1>10, <1>11, <1>12, <1>13
     DEF Next

\* What a save does to the rows and to the last-run columns.
LEMMA SaveEffect ==
  ASSUME TypeOK, NEW r \in Runs, NEW status \in Active \cup Finished,
         Save(r, status) \/ SaveWithCascading(r, status)
  PROVE  /\ workflows' = workflows
         /\ \A q \in Runs : row'[q] = IF q = r /\ row[r] # "absent" THEN status ELSE row[q]
         /\ \A w \in Workflows :
              \/ lastRun'[w] = lastRun[w] /\ lastStatus'[w] = lastStatus[w]
              \/ /\ row[r] # "absent" /\ w = WorkflowOf[r]
                 /\ lastRun'[w] = r /\ lastStatus'[w] = status
                 /\ lastRun[w] = r \/ lastRun[w] = NoRun \/ r > lastRun[w]
  BY WorkflowOfAssumption DEF TypeOK, Save, SaveWithCascading, dbVars

\* After SaveWithCascading of its last run a workflow shows the status saved.
LEMMA CascadeEffect ==
  ASSUME TypeOK, NEW r \in Runs, NEW status \in Active \cup Finished,
         SaveWithCascading(r, status), row[r] # "absent"
  PROVE  lastRun[WorkflowOf[r]] = r
           => lastRun'[WorkflowOf[r]] = r /\ lastStatus'[WorkflowOf[r]] = status
  BY WorkflowOfAssumption DEF TypeOK, SaveWithCascading

LEMMA SaveRows ==
  ASSUME TypeOK, RowsOK, UNCHANGED request,
         NEW r \in Runs, NEW status \in Active \cup Finished,
         Save(r, status) \/ SaveWithCascading(r, status)
  PROVE  RowsOK'
<1>1. /\ workflows' = workflows
      /\ \A q \in Runs : row'[q] = IF q = r /\ row[r] # "absent" THEN status ELSE row[q]
      /\ \A w \in Workflows :
           \/ lastRun'[w] = lastRun[w]
           \/ row[r] # "absent" /\ w = WorkflowOf[r] /\ lastRun'[w] = r
  BY SaveEffect
<1>2. status # "absent"
  BY DEF Active, Finished
<1>3. \A q \in Runs : row'[q] # "absent" <=> row[q] # "absent"
  BY <1>1, <1>2
<1>4. \A q \in Runs : /\ request'[q] \in {"none", "checked"} => row'[q] = "absent"
                      /\ row'[q] # "absent" => WorkflowOf[q] \in workflows'
  BY <1>1, <1>3 DEF RowsOK
<1>5. ASSUME NEW w \in workflows', lastRun'[w] # NoRun
      PROVE  WorkflowOf[lastRun'[w]] = w /\ row'[lastRun'[w]] # "absent"
  <2>1. w \in workflows /\ w \in Workflows /\ lastRun[w] \in Runs \cup {NoRun}
    BY <1>1, <1>5 DEF TypeOK
  <2>2. CASE lastRun'[w] = lastRun[w]
    BY <1>3, <1>5, <2>1, <2>2 DEF RowsOK
  <2>3. CASE row[r] # "absent" /\ w = WorkflowOf[r] /\ lastRun'[w] = r
    BY <1>3, <2>3
  <2> QED BY <1>1, <2>1, <2>2, <2>3
<1> QED BY <1>4, <1>5 DEF RowsOK

LEMMA NextRows == TInv /\ PipelineOK /\ RowsOK /\ [Next]_vars => RowsOK'
<1> SUFFICES ASSUME TInv, RowsOK, [Next]_vars PROVE RowsOK'
  OBVIOUS
<1> USE DEF TInv
<1>1. ASSUME NEW r \in Runs, NEW trigger \in {"manual", "scheduled"}, StartRun(r, trigger)
      PROVE  RowsOK'
  BY <1>1 DEF StartRun, RowsOK, TypeOK, dbVars
<1>2. ASSUME NEW r \in Runs, CreateRow(r) PROVE RowsOK'
  BY <1>2 DEF CreateRow, RowsOK, TypeOK
<1>3. ASSUME NEW r \in Runs, Enqueue(r) PROVE RowsOK'
  BY <1>3 DEF Enqueue, RowsOK, TypeOK, dbVars
<1>4. ASSUME NEW t \in Tasks, TaskStep(t) PROVE RowsOK'
  <2>1. CASE ClaimRun(t)
    <3>1. task[t].run \in Runs /\ UNCHANGED request
      BY <2>1 DEF ClaimRun, PcOK
    <3> QED BY <2>1, <3>1, SaveRows DEF ClaimRun, Active
  <2>2. CASE ReportResult(t)
    <3>1. task[t].run \in Runs /\ task[t].result \in Finished /\ UNCHANGED request
      BY <2>2 DEF ReportResult, PcOK
    <3> QED BY <2>2, <3>1, SaveRows DEF ReportResult
  <2>3. CASE ReadRun(t) \/ LoadWorkflow(t) \/ ExitTask(t)
             \/ \E result \in Results : EngineReturn(t, result)
    BY <2>3 DEF ReadRun, LoadWorkflow, ExitTask, EngineReturn, RowsOK, dbVars
  <2> QED BY <1>4, <2>1, <2>2, <2>3 DEF TaskStep
<1>5. CASE CancelStep
  <2>1. CASE CancelSave
    <3>1. cancel.run \in Runs /\ UNCHANGED request
      BY <2>1 DEF CancelSave, PcOK
    <3> QED BY <2>1, <3>1, SaveRows DEF CancelSave, Finished
  <2>2. CASE CancelReadWorkflow \/ CancelRemove
    BY <2>2 DEF CancelReadWorkflow, CancelRemove, RowsOK, dbVars
  <2> QED BY <1>5, <2>1, <2>2 DEF CancelStep
<1>6. CASE Bootup
  BY <1>6 DEF Bootup, ResetStatusIfHanging, RowsOK
<1>7. CASE Exit
  BY <1>7 DEF Exit, RowsOK, TypeOK, dbVars
<1>8. ASSUME NEW w \in Workflows, DeleteWorkflow(w) PROVE RowsOK'
  BY <1>8 DEF DeleteWorkflow, RowsOK, TypeOK
<1>9. CASE Scan \/ Shutdown \/ UNCHANGED vars
           \/ \E r \in Runs : Dispatch(r) \/ CancelRun(r)
  BY <1>9 DEF Scan, Shutdown, Dispatch, CancelRun, vars, dbVars, RowsOK
<1> QED
  BY <1>1, <1>2, <1>3, <1>4, <1>5, <1>6, <1>7, <1>8, <1>9 DEF Next

LEMMA NextCancel == TInv /\ RowsOK /\ CancelOK /\ [Next]_vars => CancelOK'
<1> SUFFICES ASSUME TInv, RowsOK, CancelOK, [Next]_vars PROVE CancelOK'
  OBVIOUS
<1> USE DEF TInv
<1>1. ASSUME NEW r \in Runs, NEW trigger \in {"manual", "scheduled"}, StartRun(r, trigger)
      PROVE  CancelOK'
  BY <1>1 DEF StartRun, CancelOK, PcOK, TypeOK, dbVars, memVars
<1>2. ASSUME NEW r \in Runs, CreateRow(r) PROVE CancelOK'
  BY <1>2 DEF CreateRow, CancelOK, PcOK, TypeOK, memVars
<1>3. ASSUME NEW r \in Runs, Enqueue(r) PROVE CancelOK'
  BY <1>3 DEF Enqueue, Unlocked, CancelOK, PcOK, TypeOK, dbVars
<1>4. ASSUME NEW r \in Runs, CancelRun(r) PROVE CancelOK'
  <2>1. cancel'.pc = "read" /\ cancel'.run = r
    BY <1>4 DEF CancelRun, IdleCancel
  <2>2. request[r] \notin {"none", "checked"}
    BY <1>4 DEF CancelRun, RowsOK, Active
  <2> QED BY <1>4, <2>1, <2>2 DEF CancelRun, CancelOK
<1>5. ASSUME NEW t \in Tasks, TaskStep(t) PROVE CancelOK'
  <2>1. CASE ClaimRun(t)
    <3>1. /\ task[t].run \in Runs
          /\ \A q \in Runs : row'[q] \in {row[q], "processing"}
      BY <2>1, SaveEffect DEF ClaimRun, PcOK, Active
    <3> QED BY <2>1, <3>1 DEF ClaimRun, CancelOK, PcOK
  <2>2. CASE ReportResult(t)
    <3>1. /\ task[t].run \in Runs /\ task[t].result \in Finished
          /\ \A q \in Runs : row'[q] \in {row[q], task[t].result}
      BY <2>2, SaveEffect DEF ReportResult, PcOK
    <3> QED BY <2>2, <3>1 DEF ReportResult, CancelOK, PcOK, Finished
  <2>3. CASE ReadRun(t) \/ LoadWorkflow(t) \/ \E result \in Results : EngineReturn(t, result)
    BY <2>3 DEF ReadRun, LoadWorkflow, EngineReturn, CancelOK, dbVars
  <2>4. CASE ExitTask(t)
    BY <2>4 DEF ExitTask, CancelOK, dbVars
  <2> QED BY <1>5, <2>1, <2>2, <2>3, <2>4 DEF TaskStep
<1>6. CASE CancelStep
  <2>1. CASE CancelReadWorkflow
    BY <2>1 DEF CancelReadWorkflow, IdleCancel, CancelOK, TypeOK, CancelState, dbVars
  <2>2. CASE CancelSave
    <3>1. cancel.run \in Runs
      BY <2>2 DEF CancelSave, PcOK
    <3>2. row'[cancel.run] # "pending" \/ row[cancel.run] = "absent"
      BY <2>2, <3>1, SaveEffect DEF CancelSave, Finished
    <3> QED
      BY <2>2, <3>2 DEF CancelSave, IdleCancel, CancelOK, TypeOK, CancelState
  <2>3. CASE CancelRemove
    BY <2>3 DEF CancelRemove, IdleCancel, CancelOK
  <2> QED BY <1>6, <2>1, <2>2, <2>3 DEF CancelStep
<1>7. CASE Bootup
  BY <1>7 DEF Bootup, ResetStatusIfHanging, CancelOK, memVars
<1>8. CASE Exit
  BY <1>8 DEF Exit, IdleCancel, CancelOK
<1>9. ASSUME NEW w \in Workflows, DeleteWorkflow(w) PROVE CancelOK'
  BY <1>9 DEF DeleteWorkflow, CancelOK, PcOK, TypeOK, memVars
<1>10. CASE Scan \/ Shutdown \/ UNCHANGED vars \/ \E r \in Runs : Dispatch(r)
  BY <1>10 DEF Scan, Shutdown, Dispatch, vars, dbVars, memVars, CancelOK
<1> QED
  BY <1>1, <1>2, <1>3, <1>4, <1>5, <1>6, <1>7, <1>8, <1>9, <1>10 DEF Next

LEMMA NextDown == TInv /\ DownOK /\ [Next]_vars => DownOK'
<1> SUFFICES ASSUME TInv, DownOK, [Next]_vars PROVE DownOK'
  OBVIOUS
<1> USE DEF TInv
<1>1. ASSUME NEW r \in Runs,
             \/ \E trigger \in {"manual", "scheduled"} : StartRun(r, trigger)
             \/ CreateRow(r) \/ Enqueue(r)
      PROVE  DownOK'
  BY <1>1 DEF StartRun, CreateRow, Enqueue, Unlocked, DownOK, TypeOK, procVars
<1>2. ASSUME NEW t \in Tasks, TaskStep(t) PROVE DownOK'
  BY <1>2 DEF TaskStep, ReadRun, ClaimRun, LoadWorkflow, EngineReturn, ReportResult, ExitTask,
              DownOK, procVars
<1>3. CASE CancelStep
  BY <1>3 DEF CancelStep, CancelReadWorkflow, CancelSave, CancelRemove, DownOK, procVars
<1>4. CASE Bootup \/ Shutdown
  BY <1>4 DEF Bootup, Shutdown, Unlocked, DownOK
<1>5. CASE Exit
  BY <1>5 DEF Exit, DownOK
<1>6. CASE \E w \in Workflows : DeleteWorkflow(w)
  BY <1>6 DEF DeleteWorkflow, DownOK, procVars
<1>7. CASE Scan \/ UNCHANGED vars \/ \E r \in Runs : Dispatch(r) \/ CancelRun(r)
  BY <1>7 DEF Scan, Dispatch, CancelRun, vars, procVars, DownOK
<1> QED BY <1>1, <1>2, <1>3, <1>4, <1>5, <1>6, <1>7 DEF Next

-----------------------------------------------------------------------------
(* The dispatcher's map and its wakeups. *)

\* An executor's step before its last keeps what it works for and who tracks it.
LEMMA WorkStep ==
  ASSUME TInv, NEW t \in Tasks, TaskStep(t), ~ExitTask(t)
  PROVE  /\ UNCHANGED <<up, booted, request, queue, processing, tryNext, selected, cancel>>
         /\ \A s \in Tasks : /\ task'[s].run = task[s].run
                             /\ task'[s].stopped = task[s].stopped
                             /\ task[s].pc # "idle" => task'[s].pc # "idle"
                             /\ s # t => task'[s] = task[s]
<1>1. CASE ReadRun(t)
  BY <1>1 DEF TInv, ReadRun, Goto, TypeOK, TaskState, procVars
<1>2. CASE ClaimRun(t)
  BY <1>2 DEF TInv, ClaimRun, Goto, TypeOK, TaskState, procVars
<1>3. CASE LoadWorkflow(t)
  BY <1>3 DEF TInv, LoadWorkflow, Goto, TypeOK, TaskState, procVars
<1>4. CASE ReportResult(t)
  BY <1>4 DEF TInv, ReportResult, TypeOK, TaskState, procVars
<1>5. CASE \E result \in Results : EngineReturn(t, result)
  BY <1>5 DEF TInv, EngineReturn, TypeOK, TaskState, procVars
<1> QED BY <1>1, <1>2, <1>3, <1>4, <1>5 DEF TaskStep

LEMMA NextProcessing == TInv /\ ProcessingIsLive /\ [Next]_vars => ProcessingIsLive'
<1> SUFFICES ASSUME TInv, ProcessingIsLive, [Next]_vars,
                    NEW p \in Runs, processing'[p] # NoTask
             PROVE  /\ task'[processing'[p]].run = p
                    /\ task'[processing'[p]].pc # "idle"
                    /\ ~task'[processing'[p]].stopped
  BY DEF ProcessingIsLive, Processing
<1> USE DEF TInv
<1> DEFINE Goal == /\ task'[processing'[p]].run = p
                   /\ task'[processing'[p]].pc # "idle"
                   /\ ~task'[processing'[p]].stopped
<1>a. processing[p] # NoTask =>
        /\ processing[p] \in Tasks /\ task[processing[p]].run = p
        /\ task[processing[p]].pc # "idle" /\ ~task[processing[p]].stopped
  BY DEF ProcessingIsLive, Processing, TypeOK
<1>b. CASE UNCHANGED <<processing, task>>
  BY <1>a, <1>b
<1>1. ASSUME NEW r \in Runs, Dispatch(r) PROVE Goal
  <2>1. FreeTask \in Tasks /\ task[FreeTask].pc = "idle"
    BY <1>1 DEF Dispatch, FreeTask
  <2>2. CASE p = r
    BY <1>1, <2>1, <2>2 DEF Dispatch, TypeOK, IdleTask
  <2>3. CASE p # r
    BY <1>1, <1>a, <2>1, <2>3 DEF Dispatch, TypeOK
  <2> QED BY <2>2, <2>3
<1>2. ASSUME NEW t \in Tasks, TaskStep(t) PROVE Goal
  <2>1. CASE ExitTask(t)
    <3>1. p # task[t].run /\ processing'[p] = processing[p]
      BY <2>1 DEF ExitTask, PcOK, TypeOK
    <3> QED BY <1>a, <2>1, <3>1 DEF ExitTask, TypeOK
  <2>2. CASE ~ExitTask(t)
    <3>1. /\ processing' = processing
          /\ \A s \in Tasks : /\ task'[s].run = task[s].run /\ task'[s].stopped = task[s].stopped
                              /\ task[s].pc # "idle" => task'[s].pc # "idle"
      BY <1>2, <2>2, WorkStep
    <3> QED BY <1>a, <3>1
  <2> QED BY <2>1, <2>2
<1>3. CASE CancelRemove
  <2>1. cancel.run \in Runs
    BY <1>3 DEF CancelRemove, PcOK
  <2>2. p # cancel.run /\ processing'[p] = processing[p]
    BY <1>3, <2>1 DEF CancelRemove, TypeOK
  <2>3. processing[cancel.run] # processing[p]
    BY <1>a, <2>1, <2>2 DEF ProcessingIsLive, Processing
  <2>4. task'[processing[p]] = task[processing[p]]
    BY <1>3, <1>a, <2>2, <2>3 DEF CancelRemove
  <2> QED BY <1>a, <2>2, <2>4
<1>4. CASE Shutdown \/ Exit
  BY <1>4 DEF Shutdown, Exit
<1>5. CASE CancelReadWorkflow \/ CancelSave \/ Bootup \/ Scan \/ UNCHANGED vars
  BY <1>5, <1>b DEF CancelReadWorkflow, CancelSave, Bootup, Scan, vars, memVars
<1>6. ASSUME NEW r \in Runs,
             \/ \E trigger \in {"manual", "scheduled"} : StartRun(r, trigger)
             \/ CreateRow(r) \/ Enqueue(r) \/ CancelRun(r)
      PROVE  Goal
  BY <1>6, <1>b DEF StartRun, CreateRow, Enqueue, CancelRun, memVars
<1>7. CASE \E w \in Workflows : DeleteWorkflow(w)
  BY <1>7, <1>b DEF DeleteWorkflow, memVars
<1> QED
  BY <1>1, <1>2, <1>3, <1>4, <1>5, <1>6, <1>7 DEF Next, CancelStep

\* A scan that finds nothing to dispatch although the queue holds a run has seen
\* an entry in the map, and so an executor.
LEMMA FruitlessScan ==
  ASSUME TInv, ProcessingIsLive, NEW r \in Runs, Queued(r), row[r] # "absent",
         \A i \in 1..Len(queue) : ~Eligible(queue[i])
  PROVE  \E t \in Tasks : task[t].pc # "idle"
<1>1. ~Eligible(r)
  BY DEF Queued
<1>2. Processing # {}
  <2>1. ASSUME Processing = {} PROVE FALSE
    <3>1. Cardinality(Processing) = 0
      BY <2>1, FS_EmptySet
    <3>2. Cardinality(Processing) < Concurrency
      BY <3>1, ConcurrencyAssumption
    <3> QED BY <1>1, <2>1, <3>2 DEF Eligible
  <2> QED BY <2>1
<1>3. PICK p \in Runs : processing[p] # NoTask
  BY <1>2 DEF Processing
<1> QED BY <1>3 DEF ProcessingIsLive, Processing, TInv, TypeOK

LEMMA NextWakeup ==
  TInv /\ PipelineOK /\ ProcessingIsLive /\ NoLostWakeup /\ [Next]_vars => NoLostWakeup'
<1> SUFFICES ASSUME TInv, PipelineOK, ProcessingIsLive, NoLostWakeup, [Next]_vars,
                    NEW r \in Runs, Queued(r)', row'[r] # "absent"
             PROVE  \/ tryNext' > 0
                    \/ \E q \in Runs : selected'[q] > 0
                    \/ \E t \in Tasks : task'[t].pc # "idle"
  BY DEF NoLostWakeup
<1> USE DEF TInv
<1> DEFINE Awake == \/ tryNext > 0
                    \/ \E q \in Runs : selected[q] > 0
                    \/ \E t \in Tasks : task[t].pc # "idle"
           Goal == \/ tryNext' > 0
                   \/ \E q \in Runs : selected'[q] > 0
                   \/ \E t \in Tasks : task'[t].pc # "idle"
<1>a. Queued(r) /\ row[r] # "absent" => Awake
  BY DEF NoLostWakeup
<1>b. ASSUME UNCHANGED <<queue, tryNext, selected, task>>, row[r] # "absent" PROVE Goal
  BY <1>a, <1>b DEF Queued
<1>1. ASSUME NEW q \in Runs, Enqueue(q) PROVE Goal
  <2>1. CASE tryNext' = tryNext + 1
    BY <2>1 DEF TypeOK
  <2>2. CASE UNCHANGED <<queue, tryNext>>
    BY <1>1, <1>b, <2>2 DEF Enqueue, dbVars
  <2> QED BY <1>1, <2>1, <2>2 DEF Enqueue
<1>2. ASSUME NEW q \in Runs, CreateRow(q) PROVE Goal
  <2>1. request[q] = "checked" /\ UNCHANGED <<queue, tryNext, selected, task>>
    BY <1>2 DEF CreateRow, memVars
  <2>2. q # r
    BY <2>1 DEF PipelineOK, Queued
  <2>3. row'[r] = row[r]
    BY <1>2, <2>2 DEF CreateRow, TypeOK
  <2> QED BY <1>b, <2>1, <2>3
<1>3. ASSUME NEW q \in Runs, Dispatch(q) PROVE Goal
  <2>1. FreeTask \in Tasks
    BY <1>3 DEF Dispatch, FreeTask
  <2>2. task'[FreeTask].pc = "read"
    BY <1>3, <2>1 DEF Dispatch, TypeOK, IdleTask
  <2> QED BY <2>1, <2>2
<1>4. CASE Scan
  <2>1. ASSUME NEW i \in 1..Len(queue), selected' = [selected EXCEPT ![queue[i]] = @ + 1]
        PROVE  Goal
    <3>1. queue[i] \in Runs /\ selected'[queue[i]] > 0
      BY <2>1 DEF TypeOK
    <3> QED BY <3>1
  <2>2. CASE \A i \in 1..Len(queue) : ~Eligible(queue[i])
    <3>1. Queued(r) /\ row[r] # "absent" /\ task' = task
      BY <1>4 DEF Scan, Queued, dbVars
    <3> QED BY <2>2, <3>1, FruitlessScan
  <2> QED BY <1>4, <2>1, <2>2 DEF Scan
<1>5. ASSUME NEW t \in Tasks, TaskStep(t) PROVE Goal
  <2>1. CASE ExitTask(t)
    BY <2>1 DEF ExitTask, TypeOK
  <2>2. CASE ReadRun(t) \/ ClaimRun(t) \/ LoadWorkflow(t)
    <3>1. task'[t].pc # "idle"
      BY <2>2 DEF ReadRun, ClaimRun, LoadWorkflow, Goto, TypeOK, TaskState
    <3> QED BY <3>1
  <2>3. CASE ReportResult(t) \/ \E result \in Results : EngineReturn(t, result)
    <3>1. task'[t].pc # "idle"
      BY <2>3 DEF ReportResult, EngineReturn, TypeOK, TaskState
    <3> QED BY <3>1
  <2> QED BY <1>5, <2>1, <2>2, <2>3 DEF TaskStep
<1>6. CASE CancelRemove
  BY <1>6 DEF CancelRemove, TypeOK
<1>7. CASE CancelSave
  <2>1. cancel.run \in Runs
    BY <1>7 DEF CancelSave, PcOK
  <2>2. row[r] # "absent"
    BY <1>7, <2>1, SaveEffect DEF CancelSave, Finished
  <2> QED BY <1>7, <1>b, <2>2 DEF CancelSave
<1>8. CASE Shutdown \/ Exit
  BY <1>8 DEF Shutdown, Exit, Queued
<1>9. CASE CancelReadWorkflow \/ Bootup \/ UNCHANGED vars
  BY <1>9, <1>b
     DEF CancelReadWorkflow, Bootup, ResetStatusIfHanging, vars, dbVars, memVars
<1>10. ASSUME NEW q \in Runs,
             \/ \E trigger \in {"manual", "scheduled"} : StartRun(q, trigger)
             \/ CancelRun(q)
      PROVE  Goal
  BY <1>10, <1>b DEF StartRun, CancelRun, memVars, dbVars
<1>11. ASSUME NEW w \in Workflows, DeleteWorkflow(w) PROVE Goal
  <2>1. row[r] # "absent"
    BY <1>11 DEF DeleteWorkflow, TypeOK
  <2> QED BY <1>11, <1>b, <2>1 DEF DeleteWorkflow, memVars
<1> QED
  BY <1>1, <1>2, <1>3, <1>4, <1>5, <1>6, <1>7, <1>8, <1>9, <1>10, <1>11 DEF Next, CancelStep

-----------------------------------------------------------------------------
(* Owners of active runs. *)

\* The rows a save touches.
LEMMA SaveTouches ==
  ASSUME TypeOK, NEW q \in Runs, NEW status \in Active \cup Finished,
         Save(q, status) \/ SaveWithCascading(q, status), NEW r \in Runs
  PROVE  /\ r # q => row'[r] = row[r]
         /\ row'[r] = row[r] \/ row'[r] = status
         /\ row'[q] = "absent" \/ row'[q] = status
  BY SaveEffect

PendingOwner(r) ==
  \/ request[r] = "saved" \/ Queued(r) \/ selected[r] > 0
  \/ \E t \in Tasks : task[t].run = r /\ task[t].pc \in {"read", "claim"}

LEMMA NextOwner ==
  TInv /\ PipelineOK /\ RowsOK /\ CancelOK /\ DownOK /\ ActiveRunHasOwner /\ [Next]_vars
  => ActiveRunHasOwner'
<1> SUFFICES ASSUME TInv, PipelineOK, RowsOK, CancelOK, DownOK, ActiveRunHasOwner, [Next]_vars,
                    booted', NEW r \in Runs, request'[r] # "lost"
             PROVE  /\ row'[r] = "pending" => PendingOwner(r)'
                    /\ row'[r] = "processing" => Executing(r)'
  BY DEF ActiveRunHasOwner, PendingOwner
<1> USE DEF TInv
<1> DEFINE Goal == /\ row'[r] = "pending" => PendingOwner(r)'
                   /\ row'[r] = "processing" => Executing(r)'
<1>a. booted /\ request[r] # "lost" => /\ row[r] = "pending" => PendingOwner(r)
                                       /\ row[r] = "processing" => Executing(r)
  BY DEF ActiveRunHasOwner, PendingOwner
<1>b. ASSUME booted, request'[r] = request[r], row'[r] = row[r],
             UNCHANGED <<queue, selected, task>>
      PROVE  Goal
  BY <1>a, <1>b DEF PendingOwner, Executing, Queued
<1>1. ASSUME NEW q \in Runs, NEW trigger \in {"manual", "scheduled"}, StartRun(q, trigger)
      PROVE  Goal
  <2>1. CASE q = r
    BY <1>1, <2>1 DEF StartRun, RowsOK, dbVars
  <2>2. CASE q # r
    BY <1>1, <1>b, <2>2 DEF StartRun, TypeOK, dbVars, memVars, procVars
  <2> QED BY <2>1, <2>2
<1>2. ASSUME NEW q \in Runs, CreateRow(q) PROVE Goal
  <2>1. CASE q = r
    BY <1>2, <2>1 DEF CreateRow, RowsOK, TypeOK, PendingOwner
  <2>2. CASE q # r
    BY <1>2, <1>b, <2>2 DEF CreateRow, TypeOK, memVars, procVars
  <2> QED BY <2>1, <2>2
<1>3. ASSUME NEW q \in Runs, Enqueue(q) PROVE Goal
  <2>1. request[q] = "saved" /\ processing[q] = NoTask /\ ~Queued(q)
    BY <1>3 DEF Enqueue, PipelineOK
  <2>2. queue' = Append(queue, q)
    BY <1>3, <2>1 DEF Enqueue
  <2>3. Queued(r)' <=> Queued(r) \/ r = q
    BY <2>2, EntersQueue
  <2>4. /\ booted /\ row'[r] = row[r] /\ UNCHANGED <<selected, task>>
        /\ r # q => request'[r] = request[r]
    BY <1>3 DEF Enqueue, TypeOK, procVars, dbVars
  <2>5. row'[r] = "pending" => PendingOwner(r)'
    BY <1>a, <2>3, <2>4 DEF PendingOwner
  <2>6. row'[r] = "processing" => Executing(r)'
    BY <1>a, <2>1, <2>4 DEF Executing
  <2> QED BY <2>5, <2>6
<1>4. ASSUME NEW q \in Runs, Dispatch(q) PROVE Goal
  <2>1. FreeTask \in Tasks /\ task[FreeTask].pc = "idle"
    BY <1>4 DEF Dispatch, FreeTask
  <2>2. /\ task'[FreeTask].pc = "read" /\ task'[FreeTask].run = q
        /\ \A s \in Tasks : s # FreeTask => task'[s] = task[s]
    BY <1>4, <2>1 DEF Dispatch, TypeOK, IdleTask
  <2>3. Queued(r)' <=> Queued(r) /\ r # q
    BY <1>4, LeavesQueue DEF Dispatch
  <2>4. /\ booted /\ row'[r] = row[r] /\ request'[r] = request[r]
        /\ r # q => selected'[r] = selected[r]
    BY <1>4 DEF Dispatch, TypeOK, procVars, dbVars
  <2>5. row'[r] = "pending" => PendingOwner(r)'
    <3>1. CASE r = q
      BY <2>1, <2>2, <3>1 DEF PendingOwner
    <3>2. CASE r # q
      BY <1>a, <2>1, <2>2, <2>3, <2>4, <3>2 DEF PendingOwner
    <3> QED BY <3>1, <3>2
  <2>6. row'[r] = "processing" => Executing(r)'
    BY <1>a, <2>1, <2>2, <2>4 DEF Executing
  <2> QED BY <2>5, <2>6
<1>5. CASE Scan
  <2>1. selected'[r] >= selected[r]
    <3>1. CASE UNCHANGED selected
      BY <3>1 DEF TypeOK
    <3>2. ASSUME NEW i \in 1..Len(queue), selected' = [selected EXCEPT ![queue[i]] = @ + 1]
          PROVE  selected'[r] >= selected[r]
      BY <3>2 DEF TypeOK
    <3> QED BY <1>5, <3>1, <3>2 DEF Scan
  <2>2. /\ booted /\ row'[r] = row[r] /\ request'[r] = request[r]
        /\ UNCHANGED <<queue, task>>
    BY <1>5 DEF Scan, procVars, dbVars
  <2>3. selected[r] \in Nat /\ selected'[r] \in Nat
    BY NextTInv DEF TypeOK
  <2> QED BY <1>a, <2>1, <2>2, <2>3 DEF PendingOwner, Executing, Queued
<1>6. ASSUME NEW t \in Tasks, TaskStep(t), ~ExitTask(t) PROVE Goal
  <2>1. /\ UNCHANGED <<up, booted, request, queue, processing, tryNext, selected, cancel>>
        /\ \A s \in Tasks : /\ task'[s].run = task[s].run
                            /\ s # t => task'[s] = task[s]
    BY <1>6, WorkStep
  <2>2. booted /\ request'[r] = request[r]
    BY <2>1
  <2>3. CASE ReadRun(t)
    <3>1. row'[r] = row[r] /\ task[t].pc = "read"
          /\ task'[t].pc = IF row[task[t].run] = "pending" THEN "claim" ELSE "exit"
      BY <2>3 DEF ReadRun, Goto, dbVars, TypeOK, TaskState
    <3>2. row'[r] = "pending" => PendingOwner(r)'
      BY <1>a, <2>1, <2>2, <3>1 DEF PendingOwner, Queued
    <3>3. row'[r] = "processing" => Executing(r)'
      BY <1>a, <2>1, <2>2, <3>1 DEF Executing
    <3> QED BY <3>2, <3>3
  <2>4. CASE ClaimRun(t)
    <3>1. task[t].run \in Runs /\ task[t].pc = "claim" /\ task'[t].pc = "load"
      BY <2>4 DEF ClaimRun, Goto, PcOK, TypeOK, TaskState
    <3>2. /\ r # task[t].run => row'[r] = row[r]
          /\ row'[task[t].run] \in {"absent", "processing"}
      BY <2>4, <3>1, SaveTouches DEF ClaimRun, Active
    <3>3. row'[r] = "pending" => PendingOwner(r)'
      BY <1>a, <2>1, <2>2, <3>1, <3>2 DEF PendingOwner, Queued
    <3>4. row'[r] = "processing" => Executing(r)'
      BY <1>a, <2>1, <2>2, <3>1, <3>2 DEF Executing
    <3> QED BY <3>3, <3>4
  <2>5. CASE LoadWorkflow(t)
    <3>1. row'[r] = row[r] /\ task[t].pc = "load"
          /\ task'[t].pc = IF WorkflowOf[task[t].run] \in workflows THEN "engine" ELSE "exit"
      BY <2>5 DEF LoadWorkflow, Goto, dbVars, TypeOK, TaskState
    <3>2. row'[r] = "pending" => PendingOwner(r)'
      BY <1>a, <2>1, <2>2, <3>1 DEF PendingOwner, Queued
    <3>3. row'[r] = "processing" => Executing(r)'
      BY <1>a, <2>1, <2>2, <3>1 DEF Executing, RowsOK
    <3> QED BY <3>2, <3>3
  <2>6. CASE \E result \in Results : EngineReturn(t, result)
    <3>1. row'[r] = row[r] /\ task[t].pc = "engine" /\ task'[t].pc = "report"
      BY <2>6 DEF EngineReturn, dbVars, TypeOK, TaskState
    <3>2. row'[r] = "pending" => PendingOwner(r)'
      BY <1>a, <2>1, <2>2, <3>1 DEF PendingOwner, Queued
    <3>3. row'[r] = "processing" => Executing(r)'
      BY <1>a, <2>1, <2>2, <3>1 DEF Executing
    <3> QED BY <3>2, <3>3
  <2>7. CASE ReportResult(t)
    <3>1. task[t].run \in Runs /\ task[t].result \in Finished /\ task[t].pc = "report"
      BY <2>7 DEF ReportResult, PcOK
    <3>2. /\ r # task[t].run => row'[r] = row[r]
          /\ row'[task[t].run] \in {"absent"} \cup Finished
      BY <2>7, <3>1, SaveTouches DEF ReportResult
    <3>3. row'[r] = "pending" => PendingOwner(r)'
      BY <1>a, <2>1, <2>2, <3>1, <3>2 DEF PendingOwner, Queued, Finished
    <3>4. row'[r] = "processing" => Executing(r)'
      BY <1>a, <2>1, <2>2, <3>1, <3>2 DEF Executing, Finished
    <3> QED BY <3>3, <3>4
  <2> QED BY <1>6, <2>3, <2>4, <2>5, <2>6, <2>7 DEF TaskStep
<1>7. ASSUME NEW t \in Tasks, ExitTask(t) PROVE Goal
  <2>1. /\ booted /\ UNCHANGED <<row, request, queue, selected>>
        /\ task[t].pc = "exit" /\ \A s \in Tasks : s # t => task'[s] = task[s]
    BY <1>7 DEF ExitTask, procVars, dbVars, TypeOK
  <2>2. row'[r] = "pending" => PendingOwner(r)'
    BY <1>a, <2>1 DEF PendingOwner, Queued
  <2>3. row'[r] = "processing" => Executing(r)'
    BY <1>a, <2>1 DEF Executing
  <2> QED BY <2>2, <2>3
<1>8. CASE CancelSave
  <2>1. /\ cancel.run \in Runs /\ booted
        /\ UNCHANGED <<request, queue, selected, task>>
    BY <1>8 DEF CancelSave, PcOK, procVars
  <2>2. row'[r] = row[r] \/ row'[r] = "canceled"
    BY <1>8, <2>1, SaveTouches DEF CancelSave, Finished
  <2> QED BY <1>a, <2>1, <2>2 DEF PendingOwner, Executing, Queued
<1>9. CASE CancelRemove
  <2>1. /\ cancel.run \in Runs /\ row[cancel.run] # "pending"
        /\ booted /\ UNCHANGED <<row, request, selected>>
    BY <1>9 DEF CancelRemove, CancelOK, PcOK, procVars, dbVars
  <2>2. ASSUME NEW s \in Tasks
        PROVE  task'[s].run = task[s].run /\ task'[s].pc = task[s].pc
    <3>1. task[s] \in TaskState
      BY DEF TypeOK
    <3>2. task'[s] = task[s] \/ task'[s] = [task[s] EXCEPT !.stopped = TRUE]
      BY <1>9 DEF CancelRemove
    <3> QED BY <3>1, <3>2 DEF TaskState
  <2>3. Queued(r)' <=> Queued(r) /\ r # cancel.run
    BY <1>9, <2>1, LeavesQueue DEF CancelRemove
  <2>4. row'[r] = "pending" => PendingOwner(r)'
    BY <1>a, <2>1, <2>2, <2>3 DEF PendingOwner
  <2>5. row'[r] = "processing" => Executing(r)'
    BY <1>a, <2>1, <2>2 DEF Executing
  <2> QED BY <2>4, <2>5
<1>10. CASE Bootup
  <2>1. request[r] = "none" /\ row'[r] = row[r]
    BY <1>10 DEF Bootup, ResetStatusIfHanging, DownOK
  <2> QED BY <2>1 DEF RowsOK
<1>11. CASE Shutdown \/ Exit
  BY <1>11 DEF Shutdown, Exit
<1>12. ASSUME NEW w \in Workflows, DeleteWorkflow(w) PROVE Goal
  <2>1. row'[r] = "absent" \/ row'[r] = row[r]
    BY <1>12 DEF DeleteWorkflow, TypeOK
  <2> QED BY <1>12, <1>b, <2>1 DEF DeleteWorkflow, memVars, procVars
<1>13. CASE CancelReadWorkflow \/ UNCHANGED vars \/ \E q \in Runs : CancelRun(q)
  BY <1>13, <1>b DEF CancelReadWorkflow, CancelRun, vars, procVars, dbVars, memVars
<1> QED
  BY <1>1, <1>2, <1>3, <1>4, <1>5, <1>6, <1>7, <1>8, <1>9, <1>10, <1>11, <1>12, <1>13
     DEF Next, CancelStep

LEMMA NextBusy ==
  TInv /\ RowsOK /\ BusyWorkflowIsExecuting /\ [Next]_vars => BusyWorkflowIsExecuting'
<1> SUFFICES ASSUME TInv, RowsOK, BusyWorkflowIsExecuting, [Next]_vars
             PROVE  BusyWorkflowIsExecuting'
  OBVIOUS
<1>0. TInv'
  BY NextTInv
<1> SUFFICES ASSUME up', NEW w \in Workflows, w \in workflows', lastStatus'[w] \in Active
             PROVE  lastRun'[w] # NoRun /\ Executing(lastRun[w])'
  <2>1. workflows' \subseteq Workflows
    BY <1>0 DEF TInv, TypeOK
  <2>2. SUFFICES ASSUME up', NEW w \in workflows', lastStatus'[w] \in Active
                 PROVE  lastRun'[w] # NoRun /\ Executing(lastRun[w])'
    BY DEF BusyWorkflowIsExecuting
  <2>3. w \in Workflows
    BY <2>1
  <2> QED BY <2>2, <2>3
<1> USE DEF TInv
<1> DEFINE Goal == /\ lastRun'[w] # NoRun
                   /\ \E s \in Tasks : task'[s].run = lastRun'[w]
                                       /\ task'[s].pc \in {"load", "engine", "report"}
<1> SUFFICES Goal
  BY DEF Executing
<1>a. up /\ w \in workflows /\ lastStatus[w] \in Active =>
        /\ lastRun[w] # NoRun
        /\ \E s \in Tasks : task[s].run = lastRun[w] /\ task[s].pc \in {"load", "engine", "report"}
  BY DEF BusyWorkflowIsExecuting, Executing
<1>b. ASSUME up, w \in workflows, lastStatus'[w] = lastStatus[w], lastRun'[w] = lastRun[w],
             \A s \in Tasks : task[s].pc \in {"load", "engine", "report"} =>
               task'[s].run = task[s].run /\ task'[s].pc = task[s].pc
      PROVE  Goal
  BY <1>a, <1>b
<1>1. ASSUME NEW q \in Runs,
             \/ \E trigger \in {"manual", "scheduled"} : StartRun(q, trigger)
             \/ CreateRow(q) \/ Enqueue(q) \/ CancelRun(q)
      PROVE  Goal
  BY <1>1, <1>b DEF StartRun, CreateRow, Enqueue, CancelRun, procVars, dbVars, memVars
<1>2. ASSUME NEW q \in Runs, Dispatch(q) PROVE Goal
  <2>1. FreeTask \in Tasks /\ task[FreeTask].pc = "idle"
    BY <1>2 DEF Dispatch, FreeTask
  <2>2. \A s \in Tasks : s # FreeTask => task'[s] = task[s]
    BY <1>2, <2>1 DEF Dispatch, TypeOK
  <2> QED BY <1>2, <1>b, <2>1, <2>2 DEF Dispatch, procVars, dbVars
<1>3. ASSUME NEW t \in Tasks, TaskStep(t), ~ExitTask(t) PROVE Goal
  <2>1. /\ up
        /\ \A s \in Tasks : /\ task'[s].run = task[s].run
                            /\ s # t => task'[s] = task[s]
    BY <1>3, WorkStep
  <2>2. CASE ReadRun(t)
    BY <1>b, <2>1, <2>2 DEF ReadRun, dbVars
  <2>3. CASE ClaimRun(t)
    <3>1. task[t].run \in Runs /\ task[t].pc = "claim" /\ task'[t].pc = "load"
      BY <2>3 DEF ClaimRun, Goto, PcOK, TypeOK, TaskState
    <3>2. /\ workflows' = workflows
          /\ \/ lastRun'[w] = lastRun[w] /\ lastStatus'[w] = lastStatus[w]
             \/ lastRun'[w] = task[t].run
      BY <2>3, <3>1, SaveEffect DEF ClaimRun, Active
    <3>3. CASE lastRun'[w] = lastRun[w] /\ lastStatus'[w] = lastStatus[w]
      BY <1>b, <2>1, <3>1, <3>2, <3>3
    <3>4. CASE lastRun'[w] = task[t].run
      <4>1. task[t].run # NoRun
        BY <3>1, RunsAssumption DEF NoRun
      <4> QED BY <2>1, <3>1, <3>4, <4>1
    <3> QED BY <3>2, <3>3, <3>4
  <2>4. CASE LoadWorkflow(t)
    <3>1. /\ UNCHANGED <<workflows, lastRun, lastStatus>> /\ task[t].pc = "load"
          /\ task'[t].pc = IF WorkflowOf[task[t].run] \in workflows THEN "engine" ELSE "exit"
      BY <2>4 DEF LoadWorkflow, Goto, dbVars, TypeOK, TaskState
    <3>2. w \in workflows /\ lastRun[w] # NoRun /\ WorkflowOf[lastRun[w]] = w
      BY <1>a, <2>1, <3>1 DEF RowsOK
    <3>3. PICK s \in Tasks : task[s].run = lastRun[w] /\ task[s].pc \in {"load", "engine", "report"}
      BY <1>a, <2>1, <3>1
    <3>4. task'[s].run = lastRun'[w] /\ task'[s].pc \in {"load", "engine", "report"}
      BY <2>1, <3>1, <3>2, <3>3
    <3> QED BY <3>1, <3>2, <3>4
  <2>5. CASE \E result \in Results : EngineReturn(t, result)
    <3>1. /\ UNCHANGED <<workflows, lastRun, lastStatus>>
          /\ task[t].pc = "engine" /\ task'[t].pc = "report"
      BY <2>5 DEF EngineReturn, dbVars, TypeOK, TaskState
    <3> QED BY <1>a, <2>1, <3>1
  <2>6. CASE ReportResult(t)
    <3> DEFINE r == task[t].run
    <3>1. r \in Runs /\ task[t].result \in Finished /\ SaveWithCascading(r, task[t].result)
      BY <2>6 DEF ReportResult, PcOK
    <3>2. /\ workflows' = workflows
          /\ \/ lastRun'[w] = lastRun[w] /\ lastStatus'[w] = lastStatus[w]
             \/ lastStatus'[w] = task[t].result
      BY <3>1, SaveEffect
    <3>3. task[t].result \notin Active
      BY <3>1 DEF Active, Finished
    <3>4. CASE lastRun[w] = r
      <4>1. row[r] # "absent" /\ WorkflowOf[r] = w
        BY <3>1, <3>2, <3>4, RunsAssumption DEF RowsOK, NoRun
      <4>2. lastStatus'[w] = task[t].result
        BY <3>1, <3>4, <4>1, CascadeEffect
      <4> QED BY <3>3, <4>2
    <3>5. CASE lastRun[w] # r
      <4>1. lastRun'[w] = lastRun[w] /\ lastStatus'[w] = lastStatus[w]
        BY <3>2, <3>3
      <4> QED BY <1>a, <2>1, <3>2, <3>5, <4>1
    <3> QED BY <3>4, <3>5
  <2> QED BY <1>3, <2>2, <2>3, <2>4, <2>5, <2>6 DEF TaskStep
<1>4. ASSUME NEW t \in Tasks, ExitTask(t) PROVE Goal
  <2>1. task[t].pc = "exit" /\ \A s \in Tasks : s # t => task'[s] = task[s]
    BY <1>4 DEF ExitTask, TypeOK
  <2> QED BY <1>4, <1>b, <2>1 DEF ExitTask, procVars, dbVars
<1>5. CASE CancelSave
  <2>1. cancel.run \in Runs /\ up /\ task' = task
    BY <1>5 DEF CancelSave, PcOK, procVars
  <2>2. /\ workflows' = workflows
        /\ \/ lastRun'[w] = lastRun[w] /\ lastStatus'[w] = lastStatus[w]
           \/ lastStatus'[w] = "canceled"
    BY <1>5, <2>1, SaveEffect DEF CancelSave, Finished
  <2>3. lastRun'[w] = lastRun[w] /\ lastStatus'[w] = lastStatus[w]
    BY <2>2 DEF Active
  <2> QED BY <1>b, <2>1, <2>2, <2>3
<1>6. CASE CancelRemove \/ Shutdown
  <2>1. up /\ UNCHANGED dbVars
    BY <1>6 DEF CancelRemove, Shutdown, Unlocked, procVars
  <2>2. ASSUME NEW s \in Tasks
        PROVE  task'[s].run = task[s].run /\ task'[s].pc = task[s].pc
    <3>1. task[s] \in TaskState
      BY DEF TypeOK
    <3>2. task'[s] = task[s] \/ task'[s] = [task[s] EXCEPT !.stopped = TRUE]
      BY <1>6 DEF CancelRemove, Shutdown
    <3> QED BY <3>1, <3>2 DEF TaskState
  <2> QED BY <1>b, <2>1, <2>2 DEF dbVars
<1>7. CASE Bootup
  <2>1. lastStatus'[w] \notin Active
    BY <1>7 DEF Bootup, ResetStatusIfHanging, Active
  <2> QED BY <2>1
<1>8. CASE Exit
  BY <1>8 DEF Exit
<1>9. ASSUME NEW v \in Workflows, DeleteWorkflow(v) PROVE Goal
  BY <1>9, <1>b DEF DeleteWorkflow, procVars, memVars
<1>10. CASE CancelReadWorkflow \/ Scan \/ UNCHANGED vars
  BY <1>10, <1>b DEF CancelReadWorkflow, Scan, vars, procVars, dbVars, memVars
<1> QED
  BY <1>1, <1>2, <1>3, <1>4, <1>5, <1>6, <1>7, <1>8, <1>9, <1>10 DEF Next, CancelStep

-----------------------------------------------------------------------------
(* The last-run columns and the row they name. *)

\* A save of run q with status leaves every workflow's columns agreeing with the
\* row of its last run, when it also carries the status to the workflow whose last
\* run q is, or cancels q.
LEMMA SaveMirrors ==
  ASSUME TypeOK, RowsOK, LastStatusMirrorsRun, UNCHANGED request,
         NEW q \in Runs, NEW status \in Active \cup Finished,
         \/ SaveWithCascading(q, status)
         \/ Save(q, status) /\ status = "canceled"
  PROVE  LastStatusMirrorsRun'
<1>1. ASSUME NEW w \in workflows', lastRun'[w] # NoRun, request'[lastRun'[w]] # "lost",
             row'[lastRun'[w]] # "canceled"
      PROVE  lastStatus'[w] = row'[lastRun'[w]]
  <2>1. /\ workflows' = workflows
        /\ \A r \in Runs : row'[r] = IF r = q /\ row[q] # "absent" THEN status ELSE row[r]
        /\ \A v \in Workflows :
             \/ lastRun'[v] = lastRun[v] /\ lastStatus'[v] = lastStatus[v]
             \/ /\ row[q] # "absent" /\ v = WorkflowOf[q]
                /\ lastRun'[v] = q /\ lastStatus'[v] = status
                /\ lastRun[v] = q \/ lastRun[v] = NoRun \/ q > lastRun[v]
    BY SaveEffect
  <2>2. w \in workflows /\ w \in Workflows
    BY <1>1, <2>1 DEF TypeOK
  <2>3. lastRun[w] \in Runs \cup {NoRun}
    BY <2>2 DEF TypeOK
  <2>4. CASE row[q] # "absent" /\ lastRun'[w] = q /\ lastStatus'[w] = status
    BY <2>1, <2>4
  <2>5. CASE lastRun'[w] = lastRun[w] /\ lastStatus'[w] = lastStatus[w]
    <3> DEFINE r == lastRun[w]
    <3>1. r \in Runs /\ WorkflowOf[r] = w /\ row[r] # "absent"
      BY <1>1, <2>2, <2>3, <2>5 DEF RowsOK
    <3>2. CASE r = q
      <4>1. SaveWithCascading(q, status)
        BY <1>1, <2>1, <2>5, <3>1, <3>2 
      <4>2. lastStatus'[w] = status
        BY <3>1, <3>2, <4>1, CascadeEffect
      <4> QED BY <2>1, <2>5, <3>1, <3>2, <4>2
    <3>3. CASE r # q
      <4>1. row'[r] = row[r]
        BY <2>1, <3>1, <3>3
      <4> QED BY <1>1, <2>2, <2>5, <4>1 DEF LastStatusMirrorsRun
    <3> QED BY <3>2, <3>3
  <2> QED BY <2>1, <2>2, <2>4, <2>5
<1> QED BY <1>1 DEF LastStatusMirrorsRun

LEMMA NextMirrors ==
  ASSUME TInv, RowsOK, DownOK, LastStatusMirrorsRun, [Next]_vars
  PROVE  LastStatusMirrorsRun'
<1> USE DEF TInv
<1>1. CASE UNCHANGED <<workflows, row, lastRun, lastStatus>>
           /\ \A r \in Runs : request'[r] # "lost" => request[r] # "lost"
  BY <1>1 DEF LastStatusMirrorsRun, TypeOK
<1>2. ASSUME NEW r \in Runs, NEW trigger \in {"manual", "scheduled"}, StartRun(r, trigger)
      PROVE  LastStatusMirrorsRun'
  <2>1. \A q \in Runs : request'[q] # "lost" => request[q] # "lost"
    BY <1>2 DEF StartRun, TypeOK
  <2> QED BY <1>1, <1>2, <2>1 DEF StartRun, dbVars
<1>3. ASSUME NEW r \in Runs, CreateRow(r) PROVE LastStatusMirrorsRun'
  <2>1. /\ request[r] = "checked" /\ row[r] = "absent"
        /\ UNCHANGED <<workflows, lastRun, lastStatus>>
        /\ \A q \in Runs \ {r} : row'[q] = row[q] /\ request'[q] = request[q]
    BY <1>3 DEF CreateRow, TypeOK, RowsOK
  <2>2. \A w \in workflows : lastRun[w] # NoRun => lastRun[w] \in Runs \ {r}
    BY <2>1 DEF TypeOK, RowsOK
  <2> QED BY <2>1, <2>2 DEF LastStatusMirrorsRun
<1>4. ASSUME NEW r \in Runs, Enqueue(r) PROVE LastStatusMirrorsRun'
  <2>1. \A q \in Runs : request'[q] # "lost" => request[q] # "lost"
    BY <1>4 DEF Enqueue, TypeOK
  <2> QED BY <1>1, <1>4, <2>1 DEF Enqueue, dbVars
<1>5. ASSUME NEW t \in Tasks, TaskStep(t) PROVE LastStatusMirrorsRun'
  <2>1. CASE ClaimRun(t)
    <3>1. task[t].run \in Runs /\ UNCHANGED request
      BY <2>1 DEF ClaimRun, PcOK
    <3> QED BY <2>1, <3>1, SaveMirrors DEF ClaimRun, Active
  <2>2. CASE ReportResult(t)
    <3>1. task[t].run \in Runs /\ task[t].result \in Finished /\ UNCHANGED request
      BY <2>2 DEF ReportResult, PcOK
    <3> QED BY <2>2, <3>1, SaveMirrors DEF ReportResult
  <2>3. CASE ReadRun(t) \/ LoadWorkflow(t) \/ ExitTask(t)
             \/ \E result \in Results : EngineReturn(t, result)
    BY <1>1, <2>3 DEF ReadRun, LoadWorkflow, ExitTask, EngineReturn, dbVars
  <2> QED BY <1>5, <2>1, <2>2, <2>3 DEF TaskStep
<1>6. CASE CancelSave
  <2>1. cancel.run \in Runs /\ UNCHANGED request /\ "canceled" \in Active \cup Finished
    BY <1>6 DEF CancelSave, PcOK, Finished
  <2>2. SaveWithCascading(cancel.run, "canceled") \/ Save(cancel.run, "canceled")
    BY <1>6 DEF CancelSave
  <2> QED BY <2>1, <2>2, SaveMirrors
<1>7. CASE Bootup
  <2>1. \A r \in Runs : request'[r] \in {"none", "lost"} /\ request'[r] = request[r]
    BY <1>7 DEF Bootup, DownOK
  <2>2. workflows' = workflows /\ row' = row /\ lastRun' = lastRun
    BY <1>7 DEF Bootup, ResetStatusIfHanging
  <2>3. ASSUME NEW w \in workflows', lastRun'[w] # NoRun PROVE request'[lastRun'[w]] = "lost"
    <3>1. lastRun[w] \in Runs /\ row[lastRun[w]] # "absent"
      BY <2>2, <2>3 DEF TypeOK, RowsOK
    <3> QED BY <2>1, <2>2, <3>1 DEF RowsOK
  <2> QED BY <2>3 DEF LastStatusMirrorsRun
<1>8. CASE Exit
  <2>1. \A r \in Runs : request'[r] # "lost" => request[r] # "lost"
    BY <1>8 DEF Exit
  <2> QED BY <1>1, <1>8, <2>1 DEF Exit, dbVars
<1>9. ASSUME NEW w \in Workflows, DeleteWorkflow(w) PROVE LastStatusMirrorsRun'
  <2>1. /\ workflows' = workflows \ {w} /\ UNCHANGED <<lastRun, lastStatus, request>>
        /\ \A r \in Runs : WorkflowOf[r] # w => row'[r] = row[r]
    BY <1>9 DEF DeleteWorkflow
  <2>2. \A v \in workflows' : lastRun[v] # NoRun => lastRun[v] \in Runs /\ WorkflowOf[lastRun[v]] = v
    BY <2>1 DEF TypeOK, RowsOK
  <2> QED BY <2>1, <2>2 DEF LastStatusMirrorsRun
<1>10. CASE \/ CancelReadWorkflow \/ CancelRemove \/ Scan \/ Shutdown \/ UNCHANGED vars
            \/ \E r \in Runs : Dispatch(r) \/ CancelRun(r)
  BY <1>1, <1>10
     DEF CancelReadWorkflow, CancelRemove, Scan, Shutdown, Dispatch, CancelRun, vars, dbVars
<1> QED
  BY <1>2, <1>3, <1>4, <1>5, <1>6, <1>7, <1>8, <1>9, <1>10 DEF Next, CancelStep

-----------------------------------------------------------------------------
(* The theorems. *)

LEMMA DispatcherInvariant == Spec => []DispatcherInv
<1>1. Init => DispatcherInv
  <2> SUFFICES ASSUME Init PROVE DispatcherInv
    OBVIOUS
  <2>1. TInv
    BY InitTInv
  <2>2. PipelineOK /\ CancelOK /\ DownOK
    BY DEF Init, PipelineOK, CancelOK, DownOK, Queued, IdleCancel
  <2>3. RowsOK
    BY DEF Init, RowsOK
  <2>4. NoLostWakeup /\ ProcessingIsLive /\ ActiveRunHasOwner /\ BusyWorkflowIsExecuting
    BY DEF Init, NoLostWakeup, ProcessingIsLive, Processing, Queued, ActiveRunHasOwner,
           BusyWorkflowIsExecuting
  <2> QED BY <2>1, <2>2, <2>3, <2>4 DEF DispatcherInv, TInv
<1>2. DispatcherInv /\ [Next]_vars => DispatcherInv'
  <2> SUFFICES ASSUME DispatcherInv, [Next]_vars PROVE DispatcherInv'
    OBVIOUS
  <2>1. TInv /\ PipelineOK /\ RowsOK /\ CancelOK /\ DownOK
    BY DEF DispatcherInv, TInv
  <2>2. NoLostWakeup /\ ProcessingIsLive /\ ActiveRunHasOwner /\ BusyWorkflowIsExecuting
    BY DEF DispatcherInv
  <2>3. TInv'
    BY <2>1, NextTInv
  <2>4. PipelineOK' /\ RowsOK' /\ CancelOK' /\ DownOK'
    BY <2>1, NextPipeline, NextRows, NextCancel, NextDown
  <2>5. NoLostWakeup' /\ ProcessingIsLive' /\ ActiveRunHasOwner' /\ BusyWorkflowIsExecuting'
    BY <2>1, <2>2, NextProcessing, NextWakeup, NextOwner, NextBusy
  <2> QED BY <2>3, <2>4, <2>5 DEF DispatcherInv, TInv
<1> QED BY <1>1, <1>2, PTL DEF Spec

\* While the queue holds a run that still exists, a goroutine is left that will
\* look at the queue again, whatever the interleaving of starts, cancellations,
\* executors, deletions, shutdowns and crashes.
THEOREM WakeupsAreNotLost == Spec => []NoLostWakeup
<1>1. DispatcherInv => NoLostWakeup
  BY DEF DispatcherInv
<1> QED BY <1>1, DispatcherInvariant, PTL

\* processingTasks never holds a dead or a canceled executor, nor one of another run.
THEOREM ProcessingTasksAreLive == Spec => []ProcessingIsLive
<1>1. DispatcherInv => ProcessingIsLive
  BY DEF DispatcherInv
<1> QED BY <1>1, DispatcherInvariant, PTL

\* Between two shutdowns no run is pending or processing in the database with
\* nobody left to finish it.
THEOREM NoRunIsOrphaned == Spec => []ActiveRunHasOwner
<1>1. DispatcherInv => ActiveRunHasOwner
  BY DEF DispatcherInv
<1> QED BY <1>1, DispatcherInvariant, PTL

\* The column that blocks manual starts is set only while an executor will reset it.
THEOREM NoWorkflowIsBlocked == Spec => []BusyWorkflowIsExecuting
<1>1. DispatcherInv => BusyWorkflowIsExecuting
  BY DEF DispatcherInv
<1> QED BY <1>1, DispatcherInvariant, PTL

\* What a workflow shows of its last run is what that run's own row says, although
\* executors, Cancel, deletions and restarts write the two at different times: they
\* part only for a run that Cancel saved alone or that an earlier process left.
THEOREM LastRunColumnsAgree == Spec => []LastStatusMirrorsRun
<1>1. Init => LastStatusMirrorsRun
  BY DEF Init, LastStatusMirrorsRun
<1>2. DispatcherInv /\ LastStatusMirrorsRun /\ [Next]_vars => LastStatusMirrorsRun'
  BY NextMirrors DEF DispatcherInv, TInv
<1> QED BY <1>1, <1>2, DispatcherInvariant, PTL DEF Spec

-----------------------------------------------------------------------------
(* The action properties. *)

\* Only three steps save a run: an executor claiming it, an executor reporting
\* its result, and Cancel.
LEMMA WhoSaves ==
  ASSUME TInv, [Next]_vars
  PROVE  \/ UNCHANGED <<row, lastRun>>
         \/ \E q \in Runs : CreateRow(q)
         \/ \E t \in Tasks : ClaimRun(t) \/ ReportResult(t)
         \/ CancelSave
         \/ \E w \in Workflows : DeleteWorkflow(w)
<1> USE DEF dbVars
<1>1. CASE UNCHANGED vars
  BY <1>1 DEF vars
<1>2. CASE \E q \in Runs : \/ \E trigger \in {"manual", "scheduled"} : StartRun(q, trigger)
                           \/ CreateRow(q) \/ Enqueue(q) \/ Dispatch(q) \/ CancelRun(q)
  BY <1>2 DEF StartRun, Enqueue, Dispatch, CancelRun
<1>3. CASE Scan \/ CancelStep
  BY <1>3 DEF Scan, CancelStep, CancelReadWorkflow, CancelRemove
<1>4. CASE \E t \in Tasks : TaskStep(t)
  BY <1>4 DEF TaskStep, ReadRun, LoadWorkflow, EngineReturn, ExitTask
<1>5. CASE Bootup \/ Shutdown \/ Exit
  BY <1>5 DEF Bootup, ResetStatusIfHanging, Shutdown, Exit
<1> QED BY <1>1, <1>2, <1>3, <1>4, <1>5 DEF Next

\* In whatever order the runs of a workflow are claimed, finished and canceled, its
\* last run is only replaced by one that started later.
THEOREM LastRunIsMonotonic == Spec => LastRunNeverGoesBack
<1> DEFINE Later == \A w \in Workflows : lastRun'[w] >= lastRun[w]
<1>1. DispatcherInv /\ [Next]_vars => [Later]_vars
  <2> SUFFICES ASSUME DispatcherInv, [Next]_vars, NEW w \in Workflows
               PROVE  lastRun'[w] >= lastRun[w]
    OBVIOUS
  <2>1. TInv
    BY DEF DispatcherInv, TInv
  <2>2. lastRun[w] \in Nat
    <3>1. lastRun \in [Workflows -> Runs \cup {NoRun}]
      BY <2>1 DEF TInv, TypeOK
    <3>2. lastRun[w] \in Runs \cup {NoRun}
      BY <3>1
    <3>3. \A n \in Runs \cup {NoRun} : n \in Nat
      BY RunsAssumption DEF NoRun
    <3> QED BY <3>2, <3>3
  <2>3. ASSUME NEW q \in Runs, NEW status \in Active \cup Finished,
               Save(q, status) \/ SaveWithCascading(q, status)
        PROVE  lastRun'[w] >= lastRun[w]
    <3>1. TypeOK
      BY <2>1 DEF TInv
    <3>2. \/ lastRun'[w] = lastRun[w]
          \/ /\ lastRun'[w] = q
             /\ lastRun[w] = q \/ lastRun[w] = NoRun \/ q > lastRun[w]
      BY <2>3, <3>1, SaveEffect
    <3> QED BY <2>2, <3>2, RunsAssumption DEF NoRun
  <2>4. CASE lastRun' = lastRun
    BY <2>2, <2>4
  <2>5. CASE (\E q \in Runs : CreateRow(q)) \/ \E v \in Workflows : DeleteWorkflow(v)
    BY <2>4, <2>5 DEF CreateRow, DeleteWorkflow
  <2>6. CASE \E t \in Tasks : ClaimRun(t) \/ ReportResult(t)
    BY <2>1, <2>3, <2>6 DEF ClaimRun, ReportResult, TInv, PcOK, Active
  <2>7. CASE CancelSave
    BY <2>1, <2>3, <2>7 DEF CancelSave, TInv, PcOK, Finished
  <2> QED BY <2>1, <2>4, <2>5, <2>6, <2>7, WhoSaves
<1> QED BY <1>1, DispatcherInvariant, PTL DEF Spec, LastRunNeverGoesBack

\* At rest, a run's row is left alone.
LEMMA RowAtRest ==
  ASSUME DispatcherInv, [Next]_vars, NEW r \in Runs, AtRest(r)
  PROVE  row'[r] \in {row[r], "absent"}
<1>1. TInv /\ TypeOK /\ PcOK /\ RowsOK
  BY DEF DispatcherInv, TInv
<1>2. CASE UNCHANGED row
  BY <1>2
<1>3. CASE \E q \in Runs : CreateRow(q)
  <2>1. PICK q \in Runs : CreateRow(q)
    BY <1>3
  <2>2. q # r
    BY <1>1, <2>1 DEF CreateRow, RowsOK, Finished, AtRest
  <2> QED BY <1>1, <2>1, <2>2 DEF CreateRow, TypeOK
<1>4. CASE \E t \in Tasks : ClaimRun(t) \/ ReportResult(t)
  <2>1. PICK t \in Tasks : ClaimRun(t) \/ ReportResult(t)
    BY <1>4
  <2>2. task[t].run \in Runs /\ task[t].run # r
    BY <1>1, <2>1 DEF ClaimRun, ReportResult, PcOK, AtRest
  <2>3. \E status \in Active \cup Finished : SaveWithCascading(task[t].run, status)
    BY <1>1, <2>1 DEF ClaimRun, ReportResult, PcOK, Active
  <2> QED BY <1>1, <2>2, <2>3, SaveTouches
<1>5. CASE CancelSave
  <2>1. cancel.run \in Runs /\ "canceled" \in Active \cup Finished
    BY <1>1, <1>5 DEF CancelSave, PcOK, Finished
  <2> QED BY <1>1, <1>5, <2>1, SaveTouches DEF CancelSave, AtRest
<1>6. CASE \E w \in Workflows : DeleteWorkflow(w)
  BY <1>1, <1>6 DEF DeleteWorkflow, TypeOK
<1> QED BY <1>1, <1>2, <1>3, <1>4, <1>5, <1>6, WhoSaves

\* Nobody takes a run up that is at rest.
LEMMA StaysAtRest ==
  ASSUME DispatcherInv, [Next]_vars, NEW r \in Runs, AtRest(r)
  PROVE  /\ \A t \in Tasks : task'[t].run = r => task'[t].pc \in {"read", "exit"}
         /\ cancel'.run # r
<1>a. /\ task \in [Tasks -> TaskState] /\ cancel \in CancelState
      /\ row[r] \notin Active /\ r # NoRun
  BY RunsAssumption DEF DispatcherInv, TypeOK, AtRest, Active, Finished, NoRun
<1>b. /\ \A t \in Tasks : task[t].run = r => task[t].pc \in {"read", "exit"}
      /\ cancel.run # r
      /\ IdleTask.run = NoRun /\ IdleCancel.run = NoRun
  BY DEF AtRest, IdleTask, IdleCancel
<1>1. ASSUME NEW t \in Tasks, UNCHANGED cancel, NEW pc, NEW result,
             \/ task' = [task EXCEPT ![t].pc = pc]
             \/ task' = [task EXCEPT ![t].pc = pc, ![t].result = result],
             task[t].run = r => pc = "exit"
      PROVE  /\ \A s \in Tasks : task'[s].run = r => task'[s].pc \in {"read", "exit"}
             /\ cancel'.run # r
  <2>1. \A s \in Tasks : s # t => task'[s] = task[s]
    BY <1>a, <1>1
  <2>2. task'[t].run = task[t].run /\ task'[t].pc = pc
    BY <1>a, <1>1 DEF TaskState
  <2> QED BY <1>1, <1>b, <2>1, <2>2
<1>2. CASE UNCHANGED <<task, cancel>>
  BY <1>2, <1>b
<1>3. ASSUME NEW q \in Runs, Dispatch(q)
      PROVE  /\ \A s \in Tasks : task'[s].run = r => task'[s].pc \in {"read", "exit"}
             /\ cancel'.run # r
  <2>1. \A s \in Tasks : task'[s] = task[s] \/ task'[s].pc = "read"
    BY <1>3, <1>a DEF Dispatch, IdleTask
  <2> QED BY <1>3, <1>b, <2>1 DEF Dispatch
<1>4. ASSUME NEW t \in Tasks, TaskStep(t)
      PROVE  /\ \A s \in Tasks : task'[s].run = r => task'[s].pc \in {"read", "exit"}
             /\ cancel'.run # r
  <2>1. CASE ReadRun(t)
    BY <1>1, <1>a, <2>1 DEF ReadRun, Goto, Active
  <2>2. CASE ClaimRun(t)
    BY <1>1, <1>b, <2>2 DEF ClaimRun, Goto
  <2>3. CASE LoadWorkflow(t)
    BY <1>1, <1>b, <2>3 DEF LoadWorkflow, Goto
  <2>4. CASE \E result \in Results : EngineReturn(t, result)
    <3>1. PICK result \in Results : EngineReturn(t, result)
      BY <2>4
    <3>2. task[t].run # r
      BY <1>b, <3>1 DEF EngineReturn
    <3> QED BY <1>1, <3>1, <3>2 DEF EngineReturn
  <2>5. CASE ReportResult(t)
    BY <1>1, <1>b, <2>5 DEF ReportResult
  <2>6. CASE ExitTask(t)
    <3>1. \A s \in Tasks : task'[s] = task[s] \/ task'[s].run = NoRun
      BY <1>a, <1>b, <2>6 DEF ExitTask
    <3> QED BY <1>a, <1>b, <2>6, <3>1 DEF ExitTask
  <2> QED BY <1>4, <2>1, <2>2, <2>3, <2>4, <2>5, <2>6 DEF TaskStep
<1>5. CASE CancelReadWorkflow \/ CancelSave
  <2>1. task' = task /\ cancel'.run \in {cancel.run, NoRun}
    BY <1>5, <1>a, <1>b DEF CancelReadWorkflow, CancelSave, CancelState
  <2> QED BY <2>1, <1>a, <1>b
<1>6. CASE CancelRemove \/ Shutdown
  <2>1. cancel'.run \in {cancel.run, NoRun}
    BY <1>6, <1>b DEF CancelRemove, Shutdown
  <2>2. ASSUME NEW s \in Tasks
        PROVE  task'[s].run = task[s].run /\ task'[s].pc = task[s].pc
    <3>1. task'[s] = task[s] \/ task'[s] = [task[s] EXCEPT !.stopped = TRUE]
      BY <1>6 DEF CancelRemove, Shutdown
    <3> QED BY <1>a, <3>1 DEF TaskState
  <2> QED BY <2>1, <2>2, <1>a, <1>b
<1>7. CASE Exit
  BY <1>7, <1>a, <1>b DEF Exit
<1>8. ASSUME NEW q \in Runs,
             \/ \E trigger \in {"manual", "scheduled"} : StartRun(q, trigger)
             \/ CreateRow(q) \/ Enqueue(q)
      PROVE  UNCHANGED <<task, cancel>>
  BY <1>8 DEF StartRun, CreateRow, Enqueue, memVars
<1>9. ASSUME NEW q \in Runs, CancelRun(q)
      PROVE  task' = task /\ cancel'.run = q /\ q # r
  BY <1>9, <1>a DEF CancelRun, IdleCancel
<1>10. CASE Scan \/ Bootup \/ (\E w \in Workflows : DeleteWorkflow(w)) \/ UNCHANGED vars
  BY <1>10, <1>2 DEF Scan, Bootup, DeleteWorkflow, vars, memVars
<1>11. CASE \E q \in Runs :
              \/ \E trigger \in {"manual", "scheduled"} : StartRun(q, trigger)
              \/ CreateRow(q) \/ Enqueue(q) \/ Dispatch(q) \/ CancelRun(q)
  BY <1>11, <1>2, <1>3, <1>8, <1>9, <1>b
<1> QED
  BY <1>4, <1>5, <1>6, <1>7, <1>10, <1>11 DEF Next, CancelStep

\* A finished run that nobody works on is never taken up again: neither a stale
\* selection nor a late Cancel changes what its row says.
THEOREM FinishedRunsStayFinished == Spec => FinishedIsFinal
<1> DEFINE Stays == \A r \in Runs :
             AtRest(r) /\ row'[r] # "absent" => row'[r] = row[r] /\ AtRest(r)'
<1>1. DispatcherInv /\ [Next]_vars => [Stays]_vars
  <2> SUFFICES ASSUME DispatcherInv, [Next]_vars, NEW r \in Runs, AtRest(r),
                      row'[r] # "absent"
               PROVE  row'[r] = row[r] /\ AtRest(r)'
    BY Zenon
  <2>1. row'[r] = row[r]
    BY RowAtRest
  <2>2. /\ \A t \in Tasks : task'[t].run = r => task'[t].pc \in {"read", "exit"}
        /\ cancel'.run # r
    BY StaysAtRest
  <2> QED BY <2>1, <2>2 DEF AtRest
<1> QED BY <1>1, DispatcherInvariant, PTL DEF Spec, FinishedIsFinal

=============================================================================
