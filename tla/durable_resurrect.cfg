CONSTANTS
    r1 = r1
    c1 = c1
    c2 = c2
    NoRun = NoRun
    Run <- One
    Roots <- One
    InUow <- Nobody
    Workflow <- SagaWorkflow
    MaxJobs = 3
    MaxFaults = 1
    MaxCrashes = 0
SPECIFICATION Spec
CHECK_DEADLOCK FALSE
INVARIANTS ExhaustedRunFails
