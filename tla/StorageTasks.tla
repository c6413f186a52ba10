---------------------------- MODULE StorageTasks ----------------------------
(***************************************************************************)
(* Long storage work that a request starts and leaves to a goroutine, in   *)
(* internal/storage/linux.go: the burn-in of a disk, the scan for          *)
(* duplicates, the projection of the dedup table, and the wizards that     *)
(* replace a disk and expand a pool.  All but the last give the context of *)
(* the request to the command, and net/http cancels it when the handler    *)
(* returns: the command is killed unless it is done by then.  Progress is  *)
(* kept in one file per kind of work, written by whoever comes last.       *)
(***************************************************************************)
EXTENDS Naturals, FiniteSets

CONSTANTS
    Device,   \* disks
    Task,     \* pairs of a request and its goroutine
    Entries   \* entries of the dedup table of the pool

NoDisk == "none"

VARIABLES
    burnin,   \* burnin-status.json
    scan,     \* dedup-status.json
    ddt,      \* zfs-ddt-cache.json
    replacement, expansion, \* the state of a wizard of each kind
    offline,  \* disks taken offline by the wizard
    task,     \* task[t]: a request with its goroutine, or Free
    tested    \* history: the disks that badblocks has gone over to its end

taskVars == <<burnin, scan, ddt, replacement, expansion, offline, task, tested>>

Free == [kind |-> "free"]
Kinds == {"burnin", "dedup", "ddt", "replace", "expand"}

ReplacementStart == [disk |-> NoDisk, new |-> NoDisk, step |-> "identify", message |-> "Select the disk"]
ExpansionStart == [devices |-> {}, step |-> "select_pool", message |-> "Select the pool"]

TaskInit ==
    /\ burnin = [disk |-> NoDisk, status |-> "idle"]
    /\ scan = "idle"
    /\ ddt = [status |-> "idle", entries |-> 0]
    /\ replacement = ReplacementStart /\ expansion = ExpansionStart
    /\ offline = {}
    /\ task = [t \in Task |-> Free]
    /\ tested = {}

TaskTypeOK ==
    /\ burnin \in [disk : Device \cup {NoDisk}, status : {"idle", "running", "passed", "failed"}]
    /\ scan \in {"idle", "running", "complete", "error"}
    /\ ddt \in [status : {"idle", "computing", "ready"}, entries : {0, Entries}]
    /\ offline \subseteq Device /\ tested \subseteq Device
    /\ \A t \in Task : task[t] = Free \/ task[t].kind \in Kinds
-----------------------------------------------------------------------------
(* A request that starts work: it is open until the handler returns, and   *)
(* its goroutine waits for its command to exit and writes its result.      *)

Spawn(t, kind, arg) ==
    /\ task[t] = Free
    /\ task' = [task EXCEPT ![t] = [kind |-> kind, arg |-> arg, open |-> TRUE, exit |-> "none", done |-> FALSE]]

\* The handler returns.
Answered(t) == IF task[t].done THEN Free ELSE [task[t] EXCEPT !.open = FALSE]
\* The goroutine ends.
Ended(t) == IF task[t].open THEN [task[t] EXCEPT !.done = TRUE] ELSE Free

\* The command exits, by itself or because the context of the request is gone,
\* which zpool add alone does not have.  badblocks that has found bad blocks
\* exits like one that has found none.
CommandExits(t) ==
    /\ task[t] # Free /\ task[t].exit = "none"
    /\ \E e \in {"ok", "error"} :
          /\ e = "ok" => task[t].open \/ task[t].kind = "expand"
          /\ task' = [task EXCEPT ![t].exit = e]
          /\ tested' = tested \cup {d \in Device : task[t].kind = "burnin" /\ d = task[t].arg /\ e = "ok"}
    /\ UNCHANGED <<burnin, scan, ddt, replacement, expansion, offline>>

\* The goroutine has got the result of its command.
Returned(t, kind) == task[t].kind = kind /\ task[t].exit # "none" /\ ~task[t].done
-----------------------------------------------------------------------------
StartDiskBurnIn(t, d) ==
    /\ Spawn(t, "burnin", d)
    /\ burnin' = [disk |-> d, status |-> "running"]
    /\ UNCHANGED <<scan, ddt, replacement, expansion, offline, tested>>

\* The exit of badblocks decides, not what it has printed.
BurnInEnds(t) ==
    /\ Returned(t, "burnin")
    /\ burnin' = [disk |-> task[t].arg, status |-> IF task[t].exit = "ok" THEN "passed" ELSE "failed"]
    /\ task' = [task EXCEPT ![t] = Ended(t)]
    /\ UNCHANGED <<scan, ddt, replacement, expansion, offline, tested>>

StartDedupScan(t) ==
    /\ Spawn(t, "dedup", NoDisk)
    /\ scan' = "running"
    /\ UNCHANGED <<burnin, ddt, replacement, expansion, offline, tested>>

\* Slip: a scan that was killed writes nothing.
SlipDedupScanEnds(t) ==
    /\ Returned(t, "dedup")
    /\ scan' = IF task[t].exit = "ok" THEN "complete" ELSE scan
    /\ task' = [task EXCEPT ![t] = Ended(t)]
    /\ UNCHANGED <<burnin, ddt, replacement, expansion, offline, tested>>

DedupScanEnds(t) ==
    /\ Returned(t, "dedup")
    /\ scan' = IF task[t].exit = "ok" THEN "complete" ELSE "error"
    /\ task' = [task EXCEPT ![t] = Ended(t)]
    /\ UNCHANGED <<burnin, ddt, replacement, expansion, offline, tested>>

\* A result that is ready is never computed again.
ZFSDDTProjection(t) ==
    /\ ddt.status # "ready"
    /\ Spawn(t, "ddt", NoDisk)
    /\ ddt' = [status |-> "computing", entries |-> 0]
    /\ UNCHANGED <<burnin, scan, replacement, expansion, offline, tested>>

\* Ready, whether zdb has said anything or not.
DDTProjectionEnds(t) ==
    /\ Returned(t, "ddt")
    /\ ddt' = [status |-> "ready", entries |-> IF task[t].exit = "ok" THEN Entries ELSE 0]
    /\ task' = [task EXCEPT ![t] = Ended(t)]
    /\ UNCHANGED <<burnin, scan, replacement, expansion, offline, tested>>
-----------------------------------------------------------------------------
(* The wizards.  No step looks at the step the wizard is at.               *)

RememberR(w) ==
    /\ replacement' = w
    /\ UNCHANGED <<burnin, scan, ddt, expansion, tested>>

ReplacementWizardStep(t) ==
    \/ \* identify_disk
       \E d \in Device :
           /\ RememberR([replacement EXCEPT !.disk = d, !.step = "confirm_offline", !.message = "Confirm"])
           /\ UNCHANGED <<offline, task>>
    \/ \* confirm_offline; if zpool refuses, nothing is written
       /\ offline' = offline \cup ({replacement.disk} \ {NoDisk})
       /\ RememberR([replacement EXCEPT !.step = "insert", !.message = "Insert"])
       /\ UNCHANGED task
    \/ \* insert: the goroutine starts before the step is written (Answer)
       \E d \in Device :
           /\ Spawn(t, "replace", [replacement EXCEPT !.new = d, !.step = "resilver", !.message = "Resilvering"])
           /\ UNCHANGED <<burnin, scan, ddt, replacement, expansion, offline, tested>>
    \/ \* insert, without a device: nothing is started
       /\ RememberR([replacement EXCEPT !.new = NoDisk, !.step = "resilver", !.message = "Resilvering"])
       /\ UNCHANGED <<offline, task>>
    \/ \* resilver: the wizard takes the word of the request
       /\ RememberR([replacement EXCEPT !.step = "complete", !.message = "Resilver complete!"])
       /\ UNCHANGED <<offline, task>>

\* The outcome of zpool replace is ignored, also that it was killed or not even
\* started because the context was gone.
ReplaceEnds(t) ==
    /\ Returned(t, "replace")
    /\ replacement' = [task[t].arg EXCEPT !.step = "complete", !.message = "Replacement complete!"]
    /\ task' = [task EXCEPT ![t] = Ended(t)]
    /\ UNCHANGED <<burnin, scan, ddt, expansion, offline, tested>>

RememberE(w) ==
    /\ expansion' = w
    /\ UNCHANGED <<burnin, scan, ddt, replacement, offline, tested>>

PoolExpansionStep(t) ==
    \/ /\ \/ RememberE([expansion EXCEPT !.step = "confirm_vdev", !.message = "Choose"])
          \/ RememberE([expansion EXCEPT !.step = "add_device", !.message = "Add"])
          \/ \E d \in Device :
                RememberE([expansion EXCEPT !.devices = @ \cup {d}, !.step = "verify", !.message = "Verify"])
          \/ RememberE(ExpansionStart)
       /\ UNCHANGED task
    \/ \* confirm_add
       /\ Spawn(t, "expand", [expansion EXCEPT !.step = "complete", !.message = "In progress"])
       /\ UNCHANGED <<burnin, scan, ddt, replacement, expansion, offline, tested>>

\* So is that of zpool add.
ExpandEnds(t) ==
    /\ Returned(t, "expand")
    /\ expansion' = [task[t].arg EXCEPT !.message = "Pool expanded successfully!"]
    /\ task' = [task EXCEPT ![t] = Ended(t)]
    /\ UNCHANGED <<burnin, scan, ddt, replacement, offline, tested>>

\* The handler returns; a wizard's writes its step first.
Answer(t) ==
    /\ task[t] # Free /\ task[t].open
    /\ task' = [task EXCEPT ![t] = Answered(t)]
    /\ replacement' = IF task[t].kind = "replace" THEN task[t].arg ELSE replacement
    /\ expansion' = IF task[t].kind = "expand" THEN task[t].arg ELSE expansion
    /\ UNCHANGED <<burnin, scan, ddt, offline, tested>>

Work(t) ==
    CommandExits(t) \/ BurnInEnds(t) \/ DedupScanEnds(t) \/ DDTProjectionEnds(t)
    \/ ReplaceEnds(t) \/ ExpandEnds(t)

\* The handlers pass the request on with its context; Answer ends them.
startDiskBurnInHandler(t, d) == StartDiskBurnIn(t, d)
startDedupScanHandler(t) == StartDedupScan(t)
zfsDDTProjectionHandler(t) == ZFSDDTProjection(t)
replacementWizardStepHandler(t) == ReplacementWizardStep(t)
poolExpansionStepHandler(t) == PoolExpansionStep(t)

\* The three with a status file, and the two wizards; they share nothing but
\* the server.
BurnInNext == \E t \in Task : (\E d \in Device : startDiskBurnInHandler(t, d)) \/ Work(t) \/ Answer(t)
ScanNext == \E t \in Task : startDedupScanHandler(t) \/ Work(t) \/ Answer(t)
ProjectionNext == \E t \in Task : zfsDDTProjectionHandler(t) \/ Work(t) \/ Answer(t)
ReplaceNext == \E t \in Task : replacementWizardStepHandler(t) \/ Work(t) \/ Answer(t)
ExpandNext == \E t \in Task : poolExpansionStepHandler(t) \/ Work(t) \/ Answer(t)
TaskNext == BurnInNext \/ ScanNext \/ ProjectionNext \/ ReplaceNext \/ ExpandNext

TaskSpec == TaskInit /\ [][TaskNext]_taskVars
-----------------------------------------------------------------------------
\* A disk whose burn-in is shown as passed has had badblocks run over it to its
\* end, whatever requests were answered, and their commands killed, or started
\* meanwhile (StartDiskBurnIn).
PassedRanOut == burnin.status = "passed" => burnin.disk \in tested

\* Work that is shown as running ends some time, if nasd goes on.
Settles ==
    /\ (burnin.status = "running") ~> (burnin.status # "running")
    /\ (scan = "running") ~> (scan # "running")
    /\ (ddt.status = "computing") ~> (ddt.status # "computing")
=============================================================================
