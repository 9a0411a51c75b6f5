\* One operator, three failed statements, two dead workers, one specialist worker, and one job of a class that was never registered.
SPECIFICATION Spec
CONSTANTS
    t1 = t1
    t2 = t2
    w1 = w1
    w2 = w2
    q1 = q1
    q2 = q2
    Task = {t1, t2}
    Worker = {w1, w2}
    Operator = {o1}
    Queue = {q1, q2}
    QueueOf <- QueuePerTask
    Listens <- OneSpecialist
    OptAttempts <- NoOption
    ClassAttempts <- ClassOfT1
    DefaultAttempts = 1
    Registered = {t1}
    NoValue = NoValue
    MaxId = 7
    MaxFaults = 3
    MaxCrashes = 2
INVARIANTS MutualExclusion AttemptBudget OutboxAtomic OneHome SuccessOnce
PROPERTIES ReservationStable ImplementsLedger
CHECK_DEADLOCK FALSE
