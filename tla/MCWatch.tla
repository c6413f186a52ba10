------------------------------ MODULE MCWatch ------------------------------
(***************************************************************************)
(* Three background parts of nasd that share no state but the clock, for   *)
(* TLC: the schedules, the monitor and the audit log.  Each is explored on *)
(* its own (focus) while the others stay in their first state.             *)
(***************************************************************************)
EXTENDS Scheduler

VARIABLES
    focus,
    polled, todo, alerts, lastSeen, diskState, poolState, threshold, fails, backupFile,
    result, raised, dismissed, unsaved, cut,
    request, entries, retention, writer, auditFile, logged, full, overlap, failed

scheduleVars == <<ticked, schedules, schedulesFile, used, runs, snaps, taken, byHand>>
monitorVars == <<polled, todo, alerts, lastSeen, diskState, poolState, threshold, fails,
                 backupFile, result, raised, dismissed, unsaved, cut>>
auditVars == <<request, entries, retention, writer, auditFile, logged, full, overlap, failed>>
all == <<focus, now, restarts, scheduleVars, monitorVars, auditVars>>

CONSTANTS Caller, Writer, NoTemp

Hourly == [f \in {"hourly"} |-> 1]
-----------------------------------------------------------------------------
(* The instances, each with the bounds that let its cases happen.          *)

\* One schedule whose calls fail, and a restart.
List == INSTANCE Scheduler WITH
    Id <- {"s"}, KeepInput <- {0}, Faults <- {"save", "create", "list"},
    MaxTime <- 3, MaxSnaps <- 1, MaxRestarts <- 1

Defaults == [warn |-> 1, crit |-> 2, consecutive |-> 2, recovery |-> 3]
HotterAtOne == [warn |-> 0, crit |-> 1, consecutive |-> 0, recovery |-> 0]

\* A disk, with a threshold that changes during a poll and alerts dismissed.
Disks == INSTANCE Monitor WITH
    Disk <- {"sda"}, Pool <- {}, Job <- {}, Temp <- {1, 2},
    Thresholds <- {HotterAtOne}, Threshold0 <- Defaults, ReAlert <- 2, MaxAlerts <- 2,
    MaxTime <- 2, MaxDismiss <- 1, MaxRestarts <- 0

\* A pool that comes and goes, and a restart.
Pools == INSTANCE Monitor WITH
    Disk <- {}, Pool <- {"tank"}, Job <- {}, Temp <- {1, 2},
    Thresholds <- {}, Threshold0 <- Defaults, ReAlert <- 2, MaxAlerts <- 2,
    MaxTime <- 3, MaxDismiss <- 0, MaxRestarts <- 1

\* A backup job, long enough that lastSeen forgets, and a restart.
Jobs == INSTANCE Monitor WITH
    Disk <- {}, Pool <- {}, Job <- {"nightly"}, Temp <- {1, 2},
    Thresholds <- {}, Threshold0 <- Defaults, ReAlert <- 2, MaxAlerts <- 2,
    MaxTime <- 5, MaxDismiss <- 0, MaxRestarts <- 1

Audit == INSTANCE AuditLog WITH
    MaxEntries <- 2, Days <- {1}, MaxTime <- 2, MaxLogged <- 4, MaxRestarts <- 1

MCInit ==
    /\ focus \in {"retention", "list", "disks", "pools", "jobs", "audit"}
    /\ Init
    /\ \/ focus = "disks" /\ Disks!Init
       \/ focus = "pools" /\ Pools!Init
       \/ focus \notin {"disks", "pools"} /\ Jobs!Init
    /\ Audit!Init

SchedulerNext == \/ focus = "retention" /\ Next
                 \/ focus = "list" /\ List!Next

MonitorNext == \/ focus = "disks" /\ Disks!Next
               \/ focus = "pools" /\ Pools!Next
               \/ focus = "jobs" /\ Jobs!Next

MCNext ==
    \/ SchedulerNext /\ UNCHANGED <<focus, monitorVars, auditVars>>
    \/ MonitorNext /\ UNCHANGED <<focus, scheduleVars, auditVars>>
    \/ focus = "audit" /\ Audit!Next /\ UNCHANGED <<focus, scheduleVars, monitorVars>>

MCSpec == MCInit /\ [][MCNext]_all

Symmetry == Permutations(Id) \cup Permutations(Caller) \cup Permutations(Writer)
-----------------------------------------------------------------------------
\* The alerts: between restarts raise lets one through once an hour, those about
\* a backup job keep their distance over restarts too, and the ones shown are
\* the newest that nobody dismissed; a pool that is online again is announced
\* (Monitor).
AlertsRight ==
    /\ [](Jobs!OncePerWindow /\ Jobs!BackupRateLimited /\ Disks!NewestListed)
    /\ [][focus = "pools" => Pools!RecoveryAnnounced]_all

\* The audit log: its file is the list when its writes did not overlap, and
\* entries are dropped only for their age or because the list is full
\* (AuditLog).
OnlyOldDropped == []Audit!FileCurrent /\ [][Audit!DropsOnlyOld]_all
=============================================================================
