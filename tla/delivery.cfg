\* Payment: two requests, three events in any order, one failure, one fault.  Tool loops: all
\* of them, two rounds of two calls, one resume.
SPECIFICATION FairSpec
CONSTANTS
    Event <- Events
    Registered <- OnWebhookEvent
    SyncLedger = TRUE
    Request = {r1, r2}
    MaxThrows = 1
    MaxFaults = 1
    Loops <- AllLoops
    MaxIterations = 2
    MaxBatch = 2
    MaxResumes = 1
INVARIANTS WebhookInv ToolLoopInv
PROPERTIES PaymentAnswered RunEnds
CHECK_DEADLOCK FALSE
