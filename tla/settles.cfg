SPECIFICATION FairSpec
CONSTANTS
    NoValue = NoValue
    NoRun = NoRun
    sendMail = sendMail
    report = report
    mail = mail
    reports = reports
    generalist = generalist
    specialist = specialist
    parent = parent
    child = child
    Subscriber = {s1, s2}
    BatchLimit = 2
    MaxId = 2
INVARIANT BroadcastInv
PROPERTIES CommittedSettles RunSettles OwedArrives CloseSettles
CHECK_DEADLOCK FALSE
