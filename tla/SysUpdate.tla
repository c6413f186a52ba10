------------------------------ MODULE SysUpdate ------------------------------
(***************************************************************************)
(* The update jobs of internal/sysupdate/sysupdate.go.  StartCheck and     *)
(* StartApply each start a goroutine that runs apt, appends its output to  *)
(* the job, records how many packages can be upgraded, and finishes the    *)
(* job.  Nothing keeps two jobs from running at the same time, and the     *)
(* count is recorded in whatever order the goroutines get there.           *)
(*                                                                         *)
(* apt is external: it prints lines and exits, and it stops for good when  *)
(* nobody reads its output any more.  StartApply reads the output through  *)
(* a bufio.Scanner, which gives up on a line longer than its buffer;       *)
(* cmd.Wait then waits for the copy into the pipe, and the job for         *)
(* cmd.Wait.  StartCheck reads whole outputs and is not exposed to this.   *)
(***************************************************************************)
EXTENDS Integers, FiniteSets

CONSTANTS
    UpdateJob,      \* the identifiers genID draws
    OverlongApt, \* whether apt-get upgrade may print a line longer than the buffer
    MaxOutput, \* bound: lines of output per job
    MaxClock   \* bound: the clock

VARIABLES
    clock,    \* the time
    updates,  \* updates[j]: what GetJob shows, and where the goroutine is
    info      \* LastChecked of Info: when a count was recorded last, 0 if never

updateVars == <<clock, updates, info>>

NoJob == [action |-> "none", status |-> "none", lines |-> 0, pc |-> "none",
          started |-> 0]

-----------------------------------------------------------------------------
newJob(j, action) ==
    /\ updates[j].status = "none"
    /\ updates' = [updates EXCEPT ![j] =
          [action |-> action, status |-> "running", lines |-> 0, pc |-> "apt",
           started |-> clock]]
    /\ UNCHANGED <<clock, info>>

StartCheck(j) == newJob(j, "check")
StartApply(j) == newJob(j, "apply")

\* Each request of an administrator starts a job of its own, whatever runs.
startCheckHandler(j) == StartCheck(j)
startApplyHandler(j) == StartApply(j)

\* emit: a line of output, appended under the job's lock.
emit(j) ==
    /\ \/ updates[j].pc = "apt"
       \/ updates[j].pc = "list" /\ updates[j].action = "check"
    /\ updates[j].lines < MaxOutput
    /\ updates' = [updates EXCEPT ![j].lines = @ + 1]
    /\ UNCHANGED <<clock, info>>

finished(j, status) == [updates[j] EXCEPT !.status = status, !.lines = @ + 1, !.pc = "end"]

\* apt-get fails, or cannot be started: the job ends here.
AptFails(j) ==
    /\ updates[j].pc = "apt"
    /\ updates' = [updates EXCEPT ![j] = finished(j, "failed")]
    /\ UNCHANGED <<clock, info>>

\* apt-get succeeds: the packages are listed and counted.
Count(j) ==
    /\ updates[j].pc = "apt"
    /\ updates' = [updates EXCEPT ![j].pc = "list"]
    /\ UNCHANGED <<clock, info>>

\* The count is recorded with the present time.
Record(j) ==
    /\ updates[j].pc = "list"
    /\ info' = clock
    /\ updates' = [updates EXCEPT ![j].pc = "info"]
    /\ UNCHANGED clock

\* The status and the last line are set together, under the job's lock.
finish(j) ==
    /\ updates[j].pc = "info"
    /\ updates' = [updates EXCEPT ![j] = finished(j, "done")]
    /\ UNCHANGED <<clock, info>>

\* The scanner gives up on a line of apt-get upgrade, which has more to print.
Unread(j) ==
    /\ OverlongApt /\ updates[j].pc = "apt" /\ updates[j].action = "apply"
    /\ updates' = [updates EXCEPT ![j].pc = "wait"]
    /\ UNCHANGED <<clock, info>>

Clock ==
    /\ clock < MaxClock
    /\ clock' = clock + 1
    /\ UNCHANGED <<updates, info>>

UpdateInit ==
    /\ clock = 1
    /\ updates = [j \in UpdateJob |-> NoJob]
    /\ info = 0

goroutine(j) ==
    emit(j) \/ AptFails(j) \/ Count(j) \/ Record(j) \/ finish(j) \/ Unread(j)

UpdateNext ==
    \/ Clock
    \/ \E j \in UpdateJob : startCheckHandler(j) \/ startApplyHandler(j) \/ goroutine(j)

\* A goroutine goes on as long as apt does, and apt as long as it is read.
UpdateSpec == UpdateInit /\ [][UpdateNext]_updateVars /\ \A j \in UpdateJob : WF_updateVars(goroutine(j))

-----------------------------------------------------------------------------
(* Properties.                                                             *)

\* A job that is shown as done has recorded its count before: Info is no older
\* than any job that succeeded, whatever other jobs run.
DoneIsRecorded ==
    \A j \in UpdateJob : updates[j].status = "done" => info >= updates[j].started

\* A job ends, unless it is an upgrade whose output the scanner gave up on: a
\* check always ends.
UpdateEnds ==
    \A j \in UpdateJob :
       updates[j].status = "running" ~>
          \/ updates[j].status \in {"done", "failed"}
          \/ updates[j].action = "apply" /\ updates[j].pc = "wait"
=============================================================================
