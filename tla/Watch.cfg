\* Overlapping runs that prune one pool; the other instances are in MCWatch.
SPECIFICATION MCSpec
CONSTANTS
    Id = {s1, s2}
    Pool = {"tank"}
    Freq = {"hourly"}
    Period <- Hourly
    KeepInput = {1, 2}
    DefaultKeep = 3
    Faults = {"destroy"}
    MaxTime = 3
    MaxRuns = 2
    MaxSnaps = 3
    MaxRestarts = 0
    Caller = {c1, c2}
    Writer = {w1, w2}
    NoTemp = none
SYMMETRY Symmetry
CHECK_DEADLOCK FALSE
INVARIANT RetentionFloor
PROPERTIES RunKeepsSettings AlertsRight OnlyOldDropped
