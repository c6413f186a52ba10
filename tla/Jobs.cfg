\* Polls that overlap because the listing is slow; see MCJobs for the others.
SPECIFICATION MCSpec
CONSTANTS
    Job = {"every", "once"}
    Poll = {p1, p2}
    MinuteLength = 2
    Offset = 1
    Cron <- TwoJobs
    Latency = 3
    MaxTime = 8
    MaxManual = 1
    Id = {"docs"}
    Period = 1
    MaxLines = 1
    Overlong = TRUE
    SaveFails = TRUE
    MaxMinutes = 2
    MaxSerial = 2
    MaxReloads = 1
    UpdateJob = {"a", "b"}
    OverlongApt = TRUE
    MaxOutput = 2
    MaxClock = 3
    Device = {"sda", "sdb"}
    Task = {"a", "b"}
    Entries = 3
CHECK_DEADLOCK FALSE
INVARIANTS RunsAlone FiresOnce StatusTruthful
PROPERTIES RunKeepsJob JobsEnd
