------------------------------- MODULE CronJobs -------------------------------
(***************************************************************************)
(* The cron jobs that start scheduled workflows.  A job exists in memory   *)
(* only; requests create, change and delete workflow rows, and a hook that *)
(* runs after the transaction adds, replaces or removes the row's job.  A  *)
(* restart registers the jobs of all rows that ask for one.  A job that is *)
(* due starts a run in a goroutine of its own, unless the row holds no      *)
(* valid graph.                                                            *)
(***************************************************************************)
EXTENDS Naturals, FiniteSets

CONSTANTS
    Workflows,
    Requests,       \* concurrent requests of the REST API
    Exprs,          \* cron expressions
    Valid,          \* those the scheduler can parse
    NoJob,          \* the workflow has no job
    Absent,         \* the workflow has no row
    Nothing,        \* a request owes no hook
    MaxEdits,       \* bound on what users save
    MaxFaults,      \* bound on failures of the database when a run starts
    MaxRestarts     \* bound on restarts

ASSUME CronConstants ==
    /\ Valid \subseteq Exprs /\ NoJob \notin Exprs
    /\ {MaxEdits, MaxFaults, MaxRestarts} \subseteq Nat

\* Of the graph a workflow runs only whether it is there and valid.
Workflow == [enabled : BOOLEAN, trigger : {"manual", "scheduled"}, cron : Exprs,
             runnable : BOOLEAN]

Owed == [key : Workflows, content : Workflow \cup {Absent}]

ASSUME CronValues == Absent \notin Workflow /\ Nothing \notin Owed

VARIABLES
    row,            \* [Workflows -> Workflow \cup {Absent}], the database
    job,            \* [Workflows -> Valid \cup {NoJob}], the scheduler
    hook,           \* [Requests -> ...], the hook of a committed request
    apart,          \* [Workflows -> BOOLEAN], the job may stay wrong
    due,            \* the workflows whose job fired, run not started yet
    edits, faults, restarts

vars == <<row, job, hook, apart, due, edits, faults, restarts>>

\* The row asks for a job; what job it should have.
Scheduled(c) == c # Absent /\ c.enabled /\ c.trigger = "scheduled"
JobOf(c) == IF Scheduled(c) /\ c.cron \in Valid THEN c.cron ELSE NoJob
Runnable(c) == c # Absent /\ c.runnable

Owes(w) == \E q \in Requests : hook[q] # Nothing /\ hook[q].key = w

Init ==
    /\ row \in [Workflows -> {Absent} \cup
                    [enabled : BOOLEAN, trigger : {"scheduled"}, cron : Exprs,
                     runnable : BOOLEAN]]
    /\ job = [w \in Workflows |-> JobOf(row[w])]
    /\ hook = [q \in Requests |-> Nothing]
    /\ apart = [w \in Workflows |-> FALSE] /\ due = {}
    /\ edits = 0 /\ faults = 0 /\ restarts = 0

-----------------------------------------------------------------------------

\* A request creates, changes or deletes a row: the transaction commits.
SaveWorkflow(q) ==
    /\ hook[q] = Nothing /\ edits < MaxEdits
    /\ \E w \in Workflows :
         \E c \in Workflow \cup (IF row[w] = Absent THEN {} ELSE {Absent}) :
            /\ row' = [row EXCEPT ![w] = c]
            /\ hook' = [hook EXCEPT ![q] = [key |-> w, content |-> c]]
            /\ apart' = [apart EXCEPT ![w] = Owes(w)]
    /\ edits' = edits + 1
    /\ UNCHANGED <<job, due, faults, restarts>>

\* Mutant: only rows with the schedule switched on are looked at.
AddJobOnly(q) ==
    /\ hook[q] # Nothing
    /\ LET c == hook[q].content
           w == hook[q].key IN
       /\ IF Scheduled(c) /\ c.cron \in Valid
          THEN job' = [job EXCEPT ![w] = c.cron] ELSE UNCHANGED job
       /\ apart' = [apart EXCEPT ![w] = @ \/ (Scheduled(c) /\ c.cron \notin Valid)]
    /\ hook' = [hook EXCEPT ![q] = Nothing]
    /\ UNCHANGED <<row, due, edits, faults, restarts>>

\* The hook acts on the record of its own request, whatever the row is now.
\* An expression that cannot be parsed fails the request, whose row is saved
\* by then, and leaves the job as it was.
OnWorkflowSaved(q) ==
    /\ hook[q] # Nothing
    /\ LET c == hook[q].content
           w == hook[q].key IN
       \/ /\ Scheduled(c) => c.cron \in Valid
          /\ job' = [job EXCEPT ![w] = JobOf(c)]
          /\ UNCHANGED apart
       \/ /\ Scheduled(c) /\ c.cron \notin Valid
          /\ apart' = [apart EXCEPT ![w] = TRUE]
          /\ UNCHANGED job
    /\ hook' = [hook EXCEPT ![q] = Nothing]
    /\ UNCHANGED <<row, due, edits, faults, restarts>>

\* The job's expression is due: a goroutine starts.
Fire(w) ==
    /\ job[w] # NoJob
    /\ due' = due \cup {w}
    /\ UNCHANGED <<row, job, hook, apart, edits, faults, restarts>>

\* Mutant: a job that has started a run is the last.
StartOnce(w) ==
    /\ w \in due /\ Runnable(row[w])
    /\ due' = due \ {w}
    /\ job' = [job EXCEPT ![w] = NoJob]
    /\ UNCHANGED <<row, hook, apart, edits, faults, restarts>>

\* StartRun for the trigger "scheduled": the dispatcher gets a run, if there is
\* a row with a valid graph; neither the workflow's switch nor a run that is
\* pending matters.
StartRun(w) ==
    /\ w \in due /\ Runnable(row[w])
    /\ due' = due \ {w}
    /\ UNCHANGED <<row, job, hook, apart, edits, faults, restarts>>

\* Otherwise, or when the database fails, there is no run; the job remains and
\* fires again.
RefuseRun(w) ==
    /\ w \in due
    /\ due' = due \ {w}
    /\ \/ ~Runnable(row[w]) /\ UNCHANGED faults
       \/ faults < MaxFaults /\ faults' = faults + 1
    /\ UNCHANGED <<row, job, hook, apart, edits, restarts>>

\* A restart: every row that asks for a job gets it, and errors are collected;
\* but when the rows cannot be listed none of them does, and the program
\* serves all the same.
InitSchedule ==
    /\ restarts < MaxRestarts /\ restarts' = restarts + 1
    /\ hook' = [q \in Requests |-> Nothing]
    /\ due' = {}
    /\ \/ /\ job' = [w \in Workflows |-> JobOf(row[w])]
          /\ apart' = [w \in Workflows |-> FALSE]
       \/ /\ job' = [w \in Workflows |-> NoJob]
          /\ apart' = [w \in Workflows |-> JobOf(row[w]) # NoJob]
    /\ UNCHANGED <<row, edits, faults>>

Next ==
    \/ \E q \in Requests : SaveWorkflow(q) \/ OnWorkflowSaved(q)
    \/ \E w \in Workflows : Fire(w) \/ StartRun(w) \/ RefuseRun(w)
    \/ InitSchedule

Spec == Init /\ [][Next]_vars

\* Time passes, goroutines are scheduled, and the hook of a request runs.
FairSpec ==
    /\ Spec
    /\ \A q \in Requests : WF_vars(OnWorkflowSaved(q))
    /\ \A w \in Workflows :
            WF_vars(Fire(w)) /\ WF_vars(StartRun(w) \/ RefuseRun(w))

-----------------------------------------------------------------------------

\* Every variable holds what the code can put there.
TypeOK ==
    /\ row \in [Workflows -> Workflow \cup {Absent}]
    /\ job \in [Workflows -> Valid \cup {NoJob}]
    /\ hook \in [Requests -> Owed \cup {Nothing}]
    /\ apart \in [Workflows -> BOOLEAN] /\ due \subseteq Workflows
    /\ edits \in 0 .. MaxEdits /\ faults \in 0 .. MaxFaults
    /\ restarts \in 0 .. MaxRestarts

Mirror == INSTANCE RecordMirror WITH
    Keys <- Workflows,
    Writers <- Requests,
    Contents <- Workflow \cup {Absent},
    Images <- Valid \cup {NoJob},
    ImageOf <- [c \in Workflow \cup {Absent} |-> JobOf(c)],
    Nothing <- Nothing,
    row <- row,
    mirror <- job,
    behind <- hook,
    apart <- apart

\* The jobs are a mirror of the rows: a disabled, deleted or rescheduled
\* workflow's job is gone once its hook has run, unless the hooks of two
\* requests crossed or the expression was refused (workflow/pbhook.go).
JobsAreAMirror == Mirror!Spec

\* A workflow that stays enabled, with a schedule that can be parsed and a
\* graph that is valid, is run again and again, whatever was refused before,
\* unless its job was lost to crossing hooks or to a listing that failed at the
\* start of the program (registerWorkflowJob, WorkflowService.StartRun).
ScheduledWorkflowsRun ==
    \A w \in Workflows :
        <>[](JobOf(row[w]) # NoJob /\ Runnable(row[w]) /\ ~apart[w])
            => []<><<StartRun(w)>>_vars
===============================================================================
