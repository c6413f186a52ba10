-------------------------------- MODULE Jobs --------------------------------
(***************************************************************************)
(* The goroutines of nasd that run commands: the backup jobs of the        *)
(* scheduler, the rsync jobs, the system updates and the long work on      *)
(* disks and pools.  They share no state; a behaviour of the daemon is one *)
(* of each of them.                                                        *)
(***************************************************************************)
EXTENDS JobPoller, RsyncManager, SysUpdate, StorageTasks

JobsSpec ==
    /\ Spec
    /\ RsyncSpec
    /\ UpdateInit /\ [][UpdateNext]_updateVars
    /\ TaskSpec

\* What is shown of work is true: the status of an rsync job is about its newest
\* run (RsyncManager), an update shown as done has been counted (SysUpdate), and
\* a burn-in shown as passed has run to its end (StorageTasks).
StatusTruthful == RsyncTruthful /\ DoneIsRecorded /\ PassedRanOut
=============================================================================
