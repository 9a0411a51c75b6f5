CONSTANTS
    r1 = r1
    c1 = c1
    c2 = c2
    NoRun = NoRun
    Run <- One
    Roots <- One
    InUow <- One
    Workflow <- SagaWorkflow
    MaxJobs = 3
    MaxFaults = 2
    MaxCrashes = 1
SPECIFICATION Spec
CHECK_DEADLOCK FALSE
INVARIANTS JournalIsPrefix SagaComplete
PROPERTIES FinishedIsFinal
