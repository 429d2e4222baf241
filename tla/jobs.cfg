SPECIFICATION FairSpec
CONSTANTS
    w1 = w1
    w2 = w2
    q1 = q1
    q2 = q2
    daily = daily
    hourly = hourly
    broken = broken
    Workflows = {w1}
    Requests = {q1, q2}
    Exprs = {daily, hourly, broken}
    Valid = {daily, hourly}
    NoJob = NoJob
    Absent = Absent
    Nothing = Nothing
    MaxEdits = 4
    MaxFaults = 1
    MaxRestarts = 1
\* The changes are bounded, so a program without jobs stops.
CHECK_DEADLOCK FALSE
PROPERTIES
    JobsAreAMirror
    ScheduledWorkflowsRun
