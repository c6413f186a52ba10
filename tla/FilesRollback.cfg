\* A deployed app that is backed up and rolled back.
SPECIFICATION RollbackSpec
CONSTANTS
    Path <- Paths
    Pool = {"tank"}
    Root = "mnt"
    DirOf <- Dirs
    Flat <- Flats
    Fallback <- Fallbacks
    FirstPool = "tank"
    Request = {r1, r2}
    MaxFiles = 2
    MaxTime = 1
    MaxRestarts = 1
    Link = {l1, l2}
    Caller = {r1, r2}
    MaxUses = {0, 1}
    ExpiresIn = {0, 1}
    MaxClock = 2
    MaxServed = 2
    SaveFails = TRUE
    App = {"jellyfin"}
    Job = {j1, j2, j3}
    Overlong = TRUE
    MaxData = 1
    MaxAppRestarts = 1
SYMMETRY Symmetry
CHECK_DEADLOCK FALSE
PROPERTIES RollbackRestores
