\* Requests that overlap; see MCStorage for what it has instances of.
SPECIFICATION MCSpec
CONSTANTS
    Pool = {p1, p2}
    Disk = {d1, d2, d3}
    Size <- Sizes
    Client = {c1, c2}
    HomeTB = 25
    Device = {"sda", "sdb"}
    Task = {c1, c2}
    Entries = 0
    Name = {"a", "b"}
    Phrase = {"p", "q"}
    Requester = {c1, c2}
    Snap = {"s", "u"}
    Tag = {"t"}
    MaxSnaps = 2
    Path = {"v", "s"}
    Restorer = {c1, c2}
    MaxContent = 2
    MaxSecond = 1
    Caller = {c1, c2}
    Target = {"x", "y"}
    Entry = {"e"}
    Paths = {"p", "q"}
SYMMETRY Symmetry
INVARIANTS TypesOK OwnPhraseUnlocks RestoreLosesNothing MigratesInOrder
PROPERTIES PoolsKept
CHECK_DEADLOCK FALSE
