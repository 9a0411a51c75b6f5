CONSTANTS
    r1 = r1
    c1 = c1
    c2 = c2
    NoRun = NoRun
    Run <- Family
    Roots <- One
    InUow <- Nobody
    Workflow <- MixedFamily
    MaxJobs = 3
    MaxFaults = 1
    MaxCrashes = 0
SPECIFICATION Spec
CHECK_DEADLOCK FALSE
INVARIANTS IterationsJournaled ChildEndsFirst NoSilentOrphan Undivided
