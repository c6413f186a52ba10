------------------------------- MODULE MCJobs -------------------------------
(***************************************************************************)
(* The goroutines of nasd that run commands and have to end, for TLC: the  *)
(* backup jobs of the scheduler, the rsync jobs, the system updates, the   *)
(* jobs of the app catalog and the long work on disks and pools.  They     *)
(* share no state; each is explored on its own (focus) while the others    *)
(* stay in their first state.                                              *)
(***************************************************************************)
EXTENDS Jobs, TLC

VARIABLES
    focus,
    apps, appsFile, dir, up, appJobs, mixed, appRestarts

appVars == <<apps, appsFile, dir, up, appJobs, mixed, appRestarts>>
all == <<focus, vars, rsyncVars, updateVars, taskVars, appVars>>
-----------------------------------------------------------------------------
(* The instances.  Those that are extended get their constants from the    *)
(* .cfg: runs of one rsync job that overlap, with overlong lines, failing  *)
(* saves and a restart; a check and an upgrade that overlap; two disks     *)
(* with two requests that overlap.                                         *)

\* A job that is due every minute and one that is due once.
TwoJobs == "every" :> {2, 4, 6} @@ "once" :> {4}

\* Two jobs of one app that overlap.
Catalog == INSTANCE AppCatalog WITH
    App <- {"jellyfin"}, Job <- {"a", "b", "c"}, Overlong <- TRUE, MaxData <- 0, MaxAppRestarts <- 0

MCInit ==
    /\ focus \in {"poller", "rsync", "update", "apps", "burnin", "scan", "projection"}
    /\ Init /\ RsyncInit /\ UpdateInit /\ TaskInit /\ Catalog!AppInit

PollerStep(A) ==
    focus = "poller" /\ A /\ UNCHANGED <<focus, rsyncVars, updateVars, taskVars, appVars>>
RsyncStep(A) ==
    focus = "rsync" /\ A /\ UNCHANGED <<focus, vars, updateVars, taskVars, appVars>>
UpdateStep(A) ==
    focus = "update" /\ A /\ UNCHANGED <<focus, vars, rsyncVars, taskVars, appVars>>
TaskStep(f, A) ==
    focus = f /\ A /\ UNCHANGED <<focus, vars, rsyncVars, updateVars, appVars>>
AppStep(A) ==
    focus = "apps" /\ A /\ UNCHANGED <<focus, vars, rsyncVars, updateVars, taskVars>>

MCNext ==
    \/ PollerStep(Next)
    \/ RsyncStep(RsyncNext)
    \/ UpdateStep(UpdateNext)
    \/ TaskStep("burnin", BurnInNext)
    \/ TaskStep("scan", ScanNext)
    \/ TaskStep("projection", ProjectionNext)
    \/ AppStep(Catalog!AppNext)

\* What the Go runtime and the deadlines of the code guarantee: a goroutine
\* that can go on does, a backup run ends with its context, and a command goes
\* on as long as its output is read.
Fairness ==
    /\ \A j \in Job : WF_all(PollerStep(RunEnds(j)))
    /\ \A n \in 1..MaxSerial : WF_all(RsyncStep(Progress(n)))
    /\ \A j \in UpdateJob : WF_all(UpdateStep(goroutine(j)))
    /\ \A t \in Task : WF_all(TaskStep(focus, Work(t)))
    /\ \A j \in {"a", "b", "c"} : WF_all(AppStep(Catalog!step(j)))

MCSpec == MCInit /\ [][MCNext]_all /\ Fairness
-----------------------------------------------------------------------------
\* What was started ends: a backup job is released (JobPoller), an rsync run, an
\* update and a job of the app catalog end unless the program is blocked on its
\* output (RsyncManager, SysUpdate, AppCatalog), and work that is shown as
\* running is not shown so for ever (StorageTasks).
JobsEnd == Released /\ RsyncRunEnds /\ UpdateEnds /\ Settles /\ Catalog!JobEnds
=============================================================================
