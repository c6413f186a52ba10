---------------------------- MODULE BtrfsVolumes ----------------------------
(***************************************************************************)
(* Btrfs subvolumes and snapshots (internal/storage/linux.go and the       *)
(* handlers of internal/api/router.go).  The tree of subvolumes belongs to *)
(* the file system; nasd keeps nothing about it.  A restore is a rename, a *)
(* snapshot and, if that fails, a rename back: other requests, the users'  *)
(* own writes and the end of nasd may come in between.                     *)
(***************************************************************************)
EXTENDS Naturals, FiniteSets

CONSTANTS
  Path,        \* the paths that requests name
  Restorer,    \* the requests that may overlap
  MaxContent,  \* bound on the versions of data
  MaxSecond    \* bound on the clock, in seconds

ASSUME SecondAssumption == MaxSecond \in Nat

VARIABLES
  vol,      \* the subvolume at every place, with the one that may lie inside it
  flight,   \* the restore each client has under way
  second,   \* the clock
  written,  \* versions of data so far
  dropped   \* history: the versions whose last subvolume was deleted or rewritten

btrfsVars == <<vol, flight, second, written, dropped>>

\* A subvolume at p itself, and one moved aside from p at second t.
At(p) == <<p, "at", 0>>
Aside(p, t) == <<p, "old", t>>
Places == {At(p) : p \in Path} \cup {Aside(p, t) : p \in Path, t \in 0..MaxSecond}
Absent == [data |-> 0, inner |-> 0]
Rest == [step |-> "idle", p |-> "", snap |-> "", t |-> 0]

VersionsOf(v) == ({v[x].data : x \in Places} \cup {v[x].inner : x \in Places}) \ {0}
There(x) == vol[x] # Absent
-----------------------------------------------------------------------------
\* btrfs and rename(2).  A snapshot to a path that is there goes inside it; a
\* rename takes what is inside along and needs a target that is not there.
CanSnapshot(s, p) == There(At(s)) /\ vol[At(p)].inner = 0
Snapshot(s, p) == IF There(At(p)) THEN [vol EXCEPT ![At(p)].inner = vol[At(s)].data]
                  ELSE [vol EXCEPT ![At(p)].data = vol[At(s)].data]
CanRename(x, y) == There(x) /\ ~There(y)
Renamed(x, y) == [vol EXCEPT ![x] = Absent, ![y] = vol[x]]
-----------------------------------------------------------------------------
BtrfsInit == /\ vol = [x \in Places |-> Absent]
             /\ flight = [c \in Restorer |-> Rest]
             /\ second = 0 /\ written = 0 /\ dropped = {}

CreateBtrfsSubvol(p) ==
  /\ ~There(At(p)) /\ written < MaxContent
  /\ written' = written + 1
  /\ vol' = [vol EXCEPT ![At(p)].data = written + 1]
  /\ UNCHANGED <<flight, second, dropped>>

\* What a change on purpose takes away.
Loses(v) == dropped' = dropped \cup (VersionsOf(vol) \ VersionsOf(v))

\* A subvolume with another one inside cannot be deleted, the inner one can.
DeleteBtrfsSubvol(x) ==
  /\ There(x)
  /\ vol' = IF vol[x].inner = 0 THEN [vol EXCEPT ![x] = Absent] ELSE [vol EXCEPT ![x].inner = 0]
  /\ Loses(vol')
  /\ UNCHANGED <<flight, second, written>>

CreateBtrfsSnapshot(source, target) ==
  /\ CanSnapshot(source, target)
  /\ vol' = Snapshot(source, target)
  /\ UNCHANGED <<flight, second, written, dropped>>

DeleteBtrfsSnapshot(x) == DeleteBtrfsSubvol(x)

\* Someone writes to the share at p.
Rewrite(p) == /\ There(At(p)) /\ written < MaxContent
              /\ written' = written + 1
              /\ vol' = [vol EXCEPT ![At(p)].data = written + 1]
              /\ Loses(vol')
              /\ UNCHANGED <<flight, second>>

SlipMoveAside(p, t) == [vol EXCEPT ![At(p)] = Absent]

\* What the first step of a restore makes of the current subvolume.
MoveAside(p, t) == Renamed(At(p), Aside(p, t))

\* RestoreBtrfsSnapshot, first step: the current subvolume is moved aside.
RestoreBtrfsSnapshot(c, p, snap) ==
  /\ flight[c] = Rest
  /\ CanRename(At(p), Aside(p, second))
  /\ vol' = MoveAside(p, second)
  /\ flight' = [flight EXCEPT ![c] = [step |-> "moved", p |-> p, snap |-> snap, t |-> second]]
  /\ UNCHANGED <<second, written, dropped>>

\* The snapshot takes its place,
RestoreSnapshotTaken(c) ==
  LET f == flight[c] IN
  /\ f.step = "moved" /\ CanSnapshot(f.snap, f.p)
  /\ vol' = Snapshot(f.snap, f.p)
  /\ flight' = [flight EXCEPT ![c] = Rest]
  /\ UNCHANGED <<second, written, dropped>>

\* or, when the tool fails or is ended by the request's deadline, the old one
\* is moved back if that works.
RestoreMovedBack(c) ==
  LET f == flight[c] IN
  /\ f.step = "moved"
  /\ vol' = IF CanRename(Aside(f.p, f.t), At(f.p)) THEN Renamed(Aside(f.p, f.t), At(f.p)) ELSE vol
  /\ flight' = [flight EXCEPT ![c] = Rest]
  /\ UNCHANGED <<second, written, dropped>>

\* nasd ends while restores are under way.
Cut == /\ \E c \in Restorer : flight[c] # Rest
       /\ flight' = [c \in Restorer |-> Rest]
       /\ UNCHANGED <<vol, second, written, dropped>>

Second == second < MaxSecond /\ second' = second + 1
          /\ UNCHANGED <<vol, flight, written, dropped>>
-----------------------------------------------------------------------------
\* The handlers: a path, and for a restore a snapshot, has to be given.
createBtrfsSubvolHandler(p) == CreateBtrfsSubvol(p)
deleteBtrfsSubvolHandler(x) == DeleteBtrfsSubvol(x)
createBtrfsSnapshotHandler(s, p) == CreateBtrfsSnapshot(s, p)
deleteBtrfsSnapshotHandler(x) == DeleteBtrfsSnapshot(x)
btrfsRestoreSnapshotHandler(c, p, s) == p # "" /\ s # "" /\ RestoreBtrfsSnapshot(c, p, s)

\* The lists that the two GET handlers show.
BtrfsSubvolumes == {x \in Places : There(x)}
BtrfsSnapshots == {x \in BtrfsSubvolumes : \E y \in BtrfsSubvolumes \ {x} : vol[x].data = vol[y].data}

BtrfsNext == \/ \E p \in Path : createBtrfsSubvolHandler(p) \/ Rewrite(p)
             \/ \E x \in BtrfsSubvolumes : deleteBtrfsSubvolHandler(x)
             \/ \E x \in BtrfsSnapshots : deleteBtrfsSnapshotHandler(x)
             \/ \E s, p \in Path : createBtrfsSnapshotHandler(s, p)
             \/ \E c \in Restorer, p, s \in Path : btrfsRestoreSnapshotHandler(c, p, s)
             \/ \E c \in Restorer : RestoreSnapshotTaken(c) \/ RestoreMovedBack(c)
             \/ Cut \/ Second

BtrfsSpec == BtrfsInit /\ [][BtrfsNext]_btrfsVars
-----------------------------------------------------------------------------
\* The types of the tree, the restores and the histories (linux.go).
BtrfsTypeOK == /\ vol \in [Places -> [data : 0..MaxContent, inner : 0..MaxContent]]
               /\ second \in 0..MaxSecond /\ written \in 0..MaxContent
               /\ \A c \in Restorer : flight[c].step \in {"idle", "moved"}

\* A restore loses nothing, however it is overlapped, fails or is cut off, and
\* with whatever clock: every version of the data that no one deleted or wrote
\* over is still somewhere in the tree (RestoreBtrfsSnapshot: the rename to
\* -old- and the rename back).
RestoreLosesNothing == \A v \in 1..written : v \in VersionsOf(vol) \/ v \in dropped
=============================================================================
