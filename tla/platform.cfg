\* Two tasks, two tenants, one row, one lock; two workers, two jobs and two operators of the
\* queue; three handles of one lock, two callers of a cache and a command that fails; three
\* subscribers, a buffer of one, two messages and a command that fails; two runs of two MCP
\* servers, three requests of one conversation; three readers of one body; two migration
\* runners; three steps of a saga; two copies of a row; two callers of a payment driver, two tabs
\* of a session, two sendings to two open streams, two sides that mail each other.
SPECIFICATION PlatformSpec
CONSTANTS
    None = None
    a1 = a1
    a2 = a2
    Task = {a1, a2}
    Tenant = {n1, n2}
    Soft = TRUE
    MaxScopes <- Depth
    MaxWrites = 2
    Key = {lock}
    Record = {x}
    t1 = t1
    t2 = t2
    w1 = w1
    w2 = w2
    q1 = q1
    q2 = q2
    JobTask = {t1, t2}
    Consumer = {w1, w2}
    Lane = {q1, q2}
    LaneOf <- Lanes
    Listening <- Attending
    Operator = {o1, o2}
    PerJob <- NotGiven
    PerClass <- NotGiven
    ByDefault = 1
    Handled = {t1, t2}
    MaxJobs = 4
    MaxJobFaults = 1
    MaxJobCrashes = 0
    Holder = {h1, h2, h3}
    LockDriver = {"memory", "postgres", "redis", "memcached"}
    MaxTokens = 3
    Caller = {c1, c2}
    CacheKey = {k1}
    Tag = {t1, t2}
    TagDriver = {"memory", "postgres", "redis"}
    MaxCalls = 3
    MaxFaults = 1
    Subscriber = {s1, s2, s3}
    MaxBufferSize = 1
    MaxMessages = 2
    MaxErrors = 1
    AgentRun = {g1, g2}
    Servers <- TwoServers
    MaxClients = 4
    Conversation = {q1, q2, q3}
    Reader = {f1, f2, f3}
    MaxItems = 3
    MaxHeartbeats = 2
    Runner = {m1, m2}
    Migration = {1, 2, 3}
    Versions = {{1, 2, 3}, {1, 3}}
    Tolerant = {2}
    MaxRuns = 4
    MaxSteps = 3
    MaxWidth = 2
    MaxEntries = 4
    MaxIterations = 2
    Clerk = {a1, a2}
    Copy = {1, 2}
    InUnit = {a1}
    States = {"new"}
    Transitions <- Orders
    MaxRowWrites = 2
    Payer = {c1, c2}
    Gateway = {"stripe", "omise", "mock"}
    MethodKind = {"card", "promptpay", "truemoney"}
    MaxIntents = 3
    MaxPayCalls = 3
    MaxPayLost = 1
    Tab = {a1, a2}
    Session = {1}
    SessionOf <- OneSession
    User = {c1, c2}
    Identity = {i1, i2}
    Branch = {"t1", "t2"}
    Provider = {"google", "facebook", "line", "mock"}
    MaxFlows = 2
    MaxIssued = 3
    Sending = {a1, a2}
    Vias <- ChannelLists
    Listener = {s1, s2}
    Keys = {"User|1", "|1"}
    KeyOf = "User|1"
    QueueSize = 1
    Transports = {"resend", "sendgrid", "mailgun", "alibaba", "log"}
    PeerTransports = {"resend", "alibaba"}
    Parsers = {"mailgun", "postmark"}
    Mailables <- Letters
    MarkOf <- Marks
    DefaultFrom = TRUE
    LinePosts <- LineBatches
    MaxAttempts = 2
    MaxMailLost = 1
    MaxMails = 3
SYMMETRY Symmetry
VIEW PartView
INVARIANTS UnitOfWorkInv OperatorsInv CacheInv ConnectionsInv RecordsInv WorkflowInv OutboundInv
CHECK_DEADLOCK FALSE
