\* Two servers and a console, one fault or crash, one clock jump.
SPECIFICATION FairSpec
CONSTANTS
    sweep = sweep
    ping = ping
    Server = {s1, s2}
    Console = {c1}
    Name = {sweep, ping}
    NumEntries = 3
    NameOf <- SharedName
    OneServer = {1, 3}
    Due <- Crons
    MaxMinute = 3
    MaxFaults = 1
    MaxJumps = 1
INVARIANTS AtMostOncePerTick RunsRecorded PassedIsCovered FanOutOnce
PROPERTIES LastRunMonotone TickEnds
CHECK_DEADLOCK FALSE
