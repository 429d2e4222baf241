---------------------------- MODULE CronJobsProofs ----------------------------
(* CronJobs implements RecordMirror, and so a job is what its row asks for as *)
(* soon as no hook is owed; for any number of workflows and requests.         *)
EXTENDS CronJobs, TLAPS

Contents == Workflow \cup {Absent}

LEMMA JobOfType == \A c \in Contents : JobOf(c) \in Valid \cup {NoJob}
BY DEF Contents, JobOf

LEMMA InitType == Init => TypeOK
<1> SUFFICES ASSUME Init PROVE TypeOK
  OBVIOUS
<1>1. row \in [Workflows -> Contents]
  BY DEF Init, Contents, Workflow
<1>2. job \in [Workflows -> Valid \cup {NoJob}]
  BY <1>1, JobOfType DEF Init
<1> QED
  BY <1>1, <1>2, CronConstants DEF Init, TypeOK, Contents

LEMMA SaveType ==
  ASSUME TypeOK, NEW q \in Requests, SaveWorkflow(q) PROVE TypeOK'
<1>1. PICK w \in Workflows, c \in Contents :
        /\ row' = [row EXCEPT ![w] = c]
        /\ hook' = [hook EXCEPT ![q] = [key |-> w, content |-> c]]
        /\ apart' = [apart EXCEPT ![w] = Owes(w)]
  BY DEF SaveWorkflow, Contents
<1>2. [key |-> w, content |-> c] \in Owed
  BY <1>1 DEF Owed, Contents
<1>3. hook' \in [Requests -> Owed \cup {Nothing}]
  BY <1>1, <1>2 DEF TypeOK
<1>4. edits' \in 0 .. MaxEdits
  BY CronConstants DEF SaveWorkflow, TypeOK
<1>5. Owes(w) \in BOOLEAN
  BY DEF Owes
<1>6. apart' \in [Workflows -> BOOLEAN]
  BY <1>1, <1>5 DEF TypeOK
<1> QED
  BY <1>1, <1>3, <1>4, <1>6 DEF SaveWorkflow, TypeOK, Contents

LEMMA HookType ==
  ASSUME TypeOK, NEW q \in Requests, OnWorkflowSaved(q) PROVE TypeOK'
<1>1. hook[q] \in Owed
  BY DEF TypeOK, OnWorkflowSaved
<1>2. hook[q].key \in Workflows /\ hook[q].content \in Contents
  BY <1>1 DEF Owed, Contents
<1>3. job' \in [Workflows -> Valid \cup {NoJob}]
  BY <1>2, JobOfType DEF OnWorkflowSaved, TypeOK
<1>4. apart' \in [Workflows -> BOOLEAN]
  BY <1>2 DEF OnWorkflowSaved, TypeOK
<1> QED
  BY <1>3, <1>4 DEF OnWorkflowSaved, TypeOK

LEMMA InitScheduleType == ASSUME TypeOK, InitSchedule PROVE TypeOK'
<1>1. \A w \in Workflows : JobOf(row[w]) \in Valid \cup {NoJob}
  BY JobOfType DEF TypeOK, Contents
<1>2. job' \in [Workflows -> Valid \cup {NoJob}]
  BY <1>1 DEF InitSchedule
<1>3. restarts' \in 0 .. MaxRestarts
  BY CronConstants DEF InitSchedule, TypeOK
<1> QED
  BY <1>2, <1>3 DEF InitSchedule, TypeOK

LEMMA TypeStep == TypeOK /\ [Next]_vars => TypeOK'
<1> SUFFICES ASSUME TypeOK, [Next]_vars PROVE TypeOK'
  OBVIOUS
<1>1. ASSUME NEW w \in Workflows, Fire(w) \/ StartRun(w) \/ RefuseRun(w) PROVE TypeOK'
  BY <1>1, CronConstants DEF TypeOK, Fire, StartRun, RefuseRun
<1>2. CASE UNCHANGED vars
  BY <1>2 DEF TypeOK, vars
<1> QED
  BY <1>1, <1>2, SaveType, HookType, InitScheduleType DEF Next

-----------------------------------------------------------------------------
(* The refinement.                                                            *)

ImageOf == [c \in Contents |-> JobOf(c)]

LEMMA SaveCommits ==
  ASSUME TypeOK, NEW q \in Requests, SaveWorkflow(q)
  PROVE  \E w \in Workflows : Mirror!Commit(q, w)
<1>1. PICK w \in Workflows, c \in Contents :
        /\ row' = [row EXCEPT ![w] = c]
        /\ hook' = [hook EXCEPT ![q] = [key |-> w, content |-> c]]
        /\ apart' = [apart EXCEPT ![w] = Owes(w)]
  BY DEF SaveWorkflow, Contents
<1>2. row'[w] = c
  BY <1>1 DEF TypeOK
<1>3. apart' = [apart EXCEPT ![w] = Mirror!IsBehind(w)]
  BY <1>1 DEF Owes, Mirror!IsBehind
<1> QED
  BY <1>1, <1>2, <1>3 DEF SaveWorkflow, Mirror!Commit, Contents

LEMMA HookPublishes ==
  ASSUME TypeOK, NEW q \in Requests, OnWorkflowSaved(q)
  PROVE  Mirror!Publish(q) \/ Mirror!Refuse(q)
<1>1. hook[q] \in Owed
  BY DEF TypeOK, OnWorkflowSaved
<1>2. hook[q].content \in Contents
  BY <1>1 DEF Owed, Contents
<1>3. ImageOf[hook[q].content] = JobOf(hook[q].content)
  BY <1>2 DEF ImageOf
<1> QED
  BY <1>3 DEF OnWorkflowSaved, Mirror!Publish, Mirror!Refuse, ImageOf, Contents

LEMMA InitScheduleRestarts ==
  ASSUME TypeOK, InitSchedule PROVE Mirror!Restart
<1>1. \A w \in Workflows : /\ JobOf(row[w]) \in Valid \cup {NoJob}
                           /\ ImageOf[row[w]] = JobOf(row[w])
  BY JobOfType DEF TypeOK, Contents, ImageOf
<1>2. job' \in [Workflows -> Valid \cup {NoJob}]
  BY <1>1 DEF InitSchedule
<1>3. apart' \in [Workflows -> BOOLEAN]
  BY DEF InitSchedule
<1>4. \A w \in Workflows : apart'[w] \/ job'[w] = ImageOf[row[w]]
  BY <1>1 DEF InitSchedule
<1> QED
  BY <1>2, <1>3, <1>4 DEF InitSchedule, Mirror!Restart, ImageOf, Contents

LEMMA MirrorInit == Init => Mirror!Init
<1> SUFFICES ASSUME Init PROVE Mirror!Init
  OBVIOUS
<1>1. row \in [Workflows -> Contents]
  BY DEF Init, Contents, Workflow
<1>2. job = [w \in Workflows |-> ImageOf[row[w]]]
  BY <1>1 DEF Init, ImageOf
<1> QED
  BY <1>1, <1>2 DEF Init, Mirror!Init, ImageOf, Contents

LEMMA MirrorStep == TypeOK /\ [Next]_vars => [Mirror!Next]_(Mirror!vars)
<1> SUFFICES ASSUME TypeOK, [Next]_vars PROVE [Mirror!Next]_(Mirror!vars)
  OBVIOUS
<1>1. ASSUME NEW q \in Requests, SaveWorkflow(q) PROVE Mirror!Next
  BY <1>1, SaveCommits DEF Mirror!Next
<1>2. ASSUME NEW q \in Requests, OnWorkflowSaved(q) PROVE Mirror!Next
  BY <1>2, HookPublishes DEF Mirror!Next
<1>3. ASSUME NEW w \in Workflows, Fire(w) \/ StartRun(w) \/ RefuseRun(w) PROVE UNCHANGED Mirror!vars
  BY <1>3 DEF Fire, StartRun, RefuseRun, Mirror!vars
<1>4. CASE InitSchedule
  BY <1>4, InitScheduleRestarts DEF Mirror!Next
<1>5. CASE UNCHANGED vars
  BY <1>5 DEF vars, Mirror!vars
<1> QED
  BY <1>1, <1>2, <1>3, <1>4, <1>5 DEF Next

\* The jobs in memory are a mirror of the rows: whatever requests save, in
\* whichever order their hooks run, and however often the program is started
\* (onWorkflowRecordCreateOrUpdate and onWorkflowRecordDelete, InitSchedule).
THEOREM JobsMirrorRows == Spec => JobsAreAMirror
BY InitType, TypeStep, MirrorInit, MirrorStep, PTL DEF Spec, JobsAreAMirror, Mirror!Spec

-----------------------------------------------------------------------------
\* What the one hook that is owed for a workflow will publish is its row.
Follows == Mirror!LastCommitIsOwed /\ Mirror!MirrorFollows

LEMMA FollowsInit == Init => Follows
<1> SUFFICES ASSUME Init PROVE Follows
  OBVIOUS
<1>1. Mirror!LastCommitIsOwed
  BY DEF Init, Mirror!LastCommitIsOwed
<1>2. \A w \in Workflows : job[w] = ImageOf[row[w]]
  BY DEF Init, ImageOf, Contents, Workflow
<1> QED
  BY <1>1, <1>2 DEF Follows, Mirror!MirrorFollows, ImageOf, Contents

LEMMA FollowsSave ==
  ASSUME TypeOK, Follows, NEW q \in Requests, SaveWorkflow(q) PROVE Follows'
<1>1. PICK w \in Workflows, c \in Contents :
        /\ row' = [row EXCEPT ![w] = c]
        /\ hook' = [hook EXCEPT ![q] = [key |-> w, content |-> c]]
        /\ apart' = [apart EXCEPT ![w] = Owes(w)]
  BY DEF SaveWorkflow, Contents
<1>2. job' = job /\ hook[q] = Nothing
  BY DEF SaveWorkflow
<1>3. hook'[q] # Nothing /\ hook'[q].key = w
  BY <1>1, CronValues DEF TypeOK, Owed, Contents
<1>4. Mirror!LastCommitIsOwed'
  <2> SUFFICES ASSUME NEW k \in Workflows, NEW p \in Requests,
                      hook'[p] # Nothing, hook'[p].key = k, ~apart'[k]
               PROVE  /\ hook'[p].content = row'[k]
                      /\ \A v \in Requests :
                           (hook'[v] # Nothing /\ hook'[v].key = k) => v = p
    BY DEF Mirror!LastCommitIsOwed
  <2>1. CASE k = w
    <3>1. ~Owes(w)
      BY <1>1, <2>1 DEF TypeOK
    <3>2. p = q /\ \A v \in Requests :
                      (hook'[v] # Nothing /\ hook'[v].key = k) => v = q
      BY <1>1, <2>1, <3>1 DEF Owes, TypeOK
    <3> QED
      BY <1>1, <2>1, <3>2 DEF TypeOK
  <2>2. CASE k # w
    <3>1. p # q /\ hook[p] = hook'[p] /\ row'[k] = row[k] /\ ~apart[k]
      BY <1>1, <1>3, <2>2 DEF TypeOK
    <3>2. \A v \in Requests : (hook'[v] # Nothing /\ hook'[v].key = k)
                                 => hook[v] # Nothing /\ hook[v].key = k
      BY <1>1, <1>3, <2>2 DEF TypeOK
    <3> QED
      BY <3>1, <3>2 DEF Follows, Mirror!LastCommitIsOwed
  <2> QED
    BY <2>1, <2>2
<1>5. Mirror!MirrorFollows'
  <2> SUFFICES ASSUME NEW k \in Workflows, ~Owes(k)', ~apart'[k]
               PROVE  job'[k] = ImageOf[row'[k]]
    BY DEF Mirror!MirrorFollows, Mirror!IsBehind, Owes, ImageOf, Contents
  <2>1. k # w
    BY <1>3 DEF Owes
  <2>2. ~Owes(k) /\ ~apart[k] /\ row'[k] = row[k]
    BY <1>1, <1>2, <2>1 DEF Owes, TypeOK
  <2> QED
    BY <1>2, <2>2 DEF Follows, Mirror!MirrorFollows, Mirror!IsBehind, Owes, ImageOf, Contents
<1> QED
  BY <1>4, <1>5 DEF Follows

LEMMA FollowsHook ==
  ASSUME TypeOK, Follows, NEW q \in Requests, OnWorkflowSaved(q) PROVE Follows'
<1> DEFINE c == hook[q].content
           w == hook[q].key
<1>1. w \in Workflows /\ c \in Contents
  BY DEF OnWorkflowSaved, TypeOK, Owed, Contents
<1>2. hook' = [hook EXCEPT ![q] = Nothing] /\ row' = row /\ hook[q] # Nothing
  BY DEF OnWorkflowSaved
<1>3. \/ job' = [job EXCEPT ![w] = ImageOf[c]] /\ apart' = apart
      \/ apart' = [apart EXCEPT ![w] = TRUE] /\ job' = job
  BY <1>1 DEF OnWorkflowSaved, ImageOf
<1>4. Mirror!LastCommitIsOwed'
  <2>1. \A k \in Workflows : ~apart'[k] => ~apart[k]
    BY <1>1, <1>3 DEF TypeOK
  <2>2. \A p \in Requests : hook'[p] # Nothing => hook'[p] = hook[p]
    BY <1>2 DEF TypeOK
  <2> QED
    BY <1>2, <2>1, <2>2 DEF Follows, Mirror!LastCommitIsOwed
<1>5. Mirror!MirrorFollows'
  <2> SUFFICES ASSUME NEW k \in Workflows, ~Owes(k)', ~apart'[k]
               PROVE  job'[k] = ImageOf[row'[k]]
    BY DEF Mirror!MirrorFollows, Mirror!IsBehind, Owes, ImageOf, Contents
  <2>1. CASE k = w
    <3>1. ~apart[k] /\ job'[k] = ImageOf[c]
      BY <1>1, <1>3, <2>1 DEF TypeOK
    <3>2. c = row[k]
      BY <1>1, <1>2, <2>1, <3>1 DEF Follows, Mirror!LastCommitIsOwed
    <3> QED
      BY <1>2, <3>1, <3>2
  <2>2. CASE k # w
    <3>1. ~apart[k] /\ job'[k] = job[k]
      BY <1>1, <1>3, <2>2 DEF TypeOK
    <3>2. ~Owes(k)
      BY <1>2, <2>2 DEF Owes, TypeOK
    <3> QED
      BY <1>2, <3>1, <3>2 DEF Follows, Mirror!MirrorFollows, Mirror!IsBehind, Owes, ImageOf, Contents
  <2> QED
    BY <2>1, <2>2
<1> QED
  BY <1>4, <1>5 DEF Follows

LEMMA FollowsStep == TypeOK /\ Follows /\ [Next]_vars => Follows'
<1> SUFFICES ASSUME TypeOK, Follows, [Next]_vars PROVE Follows'
  OBVIOUS
<1>1. CASE InitSchedule
  <2>1. Mirror!LastCommitIsOwed'
    BY <1>1 DEF InitSchedule, Mirror!LastCommitIsOwed
  <2>2. ASSUME NEW k \in Workflows
        PROVE  apart'[k] \/ job'[k] = ImageOf[row'[k]]
    <3>1. row'[k] = row[k] /\ ImageOf[row[k]] = JobOf(row[k])
      BY <1>1 DEF InitSchedule, ImageOf, TypeOK, Contents
    <3>2. \/ job'[k] = JobOf(row[k])
          \/ job'[k] = NoJob /\ apart'[k] = (JobOf(row[k]) # NoJob)
      BY <1>1 DEF InitSchedule
    <3> QED
      BY <3>1, <3>2
  <2> QED
    BY <2>1, <2>2 DEF Follows, Mirror!MirrorFollows, ImageOf, Contents
<1>2. ASSUME row' = row, job' = job, hook' = hook, apart' = apart PROVE Follows'
  BY <1>2 DEF Follows, Mirror!MirrorFollows, Mirror!LastCommitIsOwed, Mirror!IsBehind
<1>3. ASSUME NEW w \in Workflows, Fire(w) \/ StartRun(w) \/ RefuseRun(w) PROVE Follows'
  BY <1>2, <1>3 DEF Fire, StartRun, RefuseRun
<1>4. CASE UNCHANGED vars
  BY <1>2, <1>4 DEF vars
<1> QED
  BY <1>1, <1>3, <1>4, FollowsSave, FollowsHook DEF Next

\* A workflow for which no hook is owed has the job that its row asks for,
\* unless two hooks crossed, the expression was refused, or the rows could not
\* be listed at the start (registerWorkflowJob, workflow/pbjob.go).
THEOREM JobsFollowRows == Spec => []Mirror!MirrorFollows
<1>1. Follows => Mirror!MirrorFollows
  BY DEF Follows
<1> QED
  BY <1>1, InitType, TypeStep, FollowsInit, FollowsStep, PTL DEF Spec
===============================================================================
