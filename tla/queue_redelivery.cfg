\* A worker dies; its job is not redelivered.
SPECIFICATION FairSpec
CONSTANTS
    t1 = t1
    t2 = t2
    w1 = w1
    w2 = w2
    q1 = q1
    q2 = q2
    Task = {t1}
    Worker = {w1, w2}
    Operator = {}
    Queue = {q1, q2}
    QueueOf <- QueuePerTask
    Listens <- OneSpecialist
    OptAttempts <- NoOption
    ClassAttempts <- ClassOfT1
    DefaultAttempts = 2
    Registered = {t1}
    NoValue = NoValue
    MaxId = 5
    MaxFaults = 0
    MaxCrashes = 1
PROPERTY CrashedJobRedelivered
CHECK_DEADLOCK FALSE
