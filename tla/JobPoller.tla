------------------------------ MODULE JobPoller ------------------------------
(***************************************************************************)
(* The backup jobs of internal/scheduler/scheduler.go.  Every tick starts  *)
(* a goroutine that lists the jobs (pollBackupJobs), reads the clock once  *)
(* the listing is there, and starts the jobs whose cron time lies in the   *)
(* minute before, unless sync.Map "running" holds them; runBackupJob       *)
(* releases its entry when it returns.  The HTTP handler                   *)
(* runBackupJobHandler calls the provider directly.                        *)
(*                                                                         *)
(* Time is counted in fractions of a minute.  The cron expression of a job *)
(* is the set of the times it names, each the beginning of a minute.       *)
(***************************************************************************)
EXTENDS Integers, FiniteSets, FiniteSetsExt

CONSTANTS
    Job,      \* the backup jobs
    Poll,     \* bound: the pollBackupJobs goroutines that may overlap
    MinuteLength, \* the units of time in a minute
    Offset,   \* when, within the minute, the daemon's ticker fires
    Cron,     \* Cron[j]: the times the cron expression of j names
    Latency,  \* bound: the units of time that listing the jobs may take
    MaxTime,  \* bound: the units of time the clock counts
    MaxManual \* bound: runs started over HTTP at the same time

ASSUME PollerAssumption ==
    /\ MinuteLength \in Nat \ {0} /\ Offset \in 0..(MinuteLength - 1) /\ Latency \in Nat
    /\ Cron \in [Job -> SUBSET Nat]
    /\ IsFiniteSet(Job)

VARIABLES
    now,      \* the clock
    nextTick, \* when the ticker fires next
    poll,     \* poll[q]: the state of a pollBackupJobs goroutine
    enabled,  \* the jobs that are enabled in the provider's list
    running,  \* the keys of the sync.Map
    active,   \* active[j]: the runBackupJob goroutines of j
    manual,   \* manual[j]: the runs of j started over HTTP
    \* History, read by properties only:
    fired,    \* fired[j]: for each cron time of j, how often it was acted on
    slow      \* some listing arrived later than the tick that asked for it

vars == <<now, nextTick, poll, enabled, running, active, manual, fired, slow>>

\* A goroutine that does not exist, one that lists the jobs since a given time,
\* and one that walks the list it got at a given time.
Idle == [pc |-> "idle", at |-> 0, jobs |-> {}]

\* schedule.Next: the first cron time after t, 0 when there is none.
Next_(j, t) ==
    LET later == {c \in Cron[j] : c > t}
    IN  IF later = {} THEN 0 ELSE Min(later)

SlipCronTime(j, t) == Next_(j, t - 2 * MinuteLength)

\* The cron time that a poll at time t looks at.
CronTime(j, t) == Next_(j, t - MinuteLength)

IsDue(j, t) == CronTime(j, t) # 0 /\ t > CronTime(j, t)

-----------------------------------------------------------------------------
\* Time does not pass the moment at which the ticker fires, nor the bound on
\* the listing of a goroutine.
Pass ==
    /\ now < MaxTime
    /\ nextTick > now
    /\ \A q \in Poll : poll[q].pc = "list" => now < poll[q].at + Latency
    /\ \A q \in Poll : poll[q].pc # "walk"
    /\ now' = now + 1
    /\ UNCHANGED <<nextTick, poll, enabled, running, active, manual, fired, slow>>

StartPoll(q) ==
    /\ now = nextTick /\ poll[q].pc = "idle"
    /\ nextTick' = nextTick + MinuteLength
    /\ poll' = [poll EXCEPT ![q] = [pc |-> "list", at |-> now, jobs |-> {}]]
    /\ UNCHANGED <<now, enabled, running, active, manual, fired, slow>>

\* The listing arrives; disabled jobs and jobs that are not due are skipped.
Listed(q) ==
    /\ poll[q].pc = "list"
    /\ poll' = [poll EXCEPT ![q] = [pc |-> "walk", at |-> now,
                                    jobs |-> {j \in enabled : IsDue(j, now)}]]
    /\ slow' = (slow \/ now > poll[q].at)
    /\ UNCHANGED <<now, nextTick, enabled, running, active, manual, fired>>

\* BackupJobs fails: the goroutine returns.
ListFails(q) ==
    /\ poll[q].pc = "list"
    /\ poll' = [poll EXCEPT ![q] = Idle]
    /\ UNCHANGED <<now, nextTick, enabled, running, active, manual, fired, slow>>

Fire(q, j) ==
    fired' = [fired EXCEPT ![j][CronTime(j, poll[q].at)] = @ + 1]

SlipStart(q, j) ==
    /\ poll[q].pc = "walk" /\ j \in poll[q].jobs
    /\ poll' = [poll EXCEPT ![q].jobs = @ \ {j}]
    /\ Fire(q, j)
    /\ running' = running \cup {j}
    /\ active' = [active EXCEPT ![j] = @ + 1]
    /\ UNCHANGED <<now, nextTick, enabled, manual, slow>>

\* running.LoadOrStore stored the job: it is run in a goroutine of its own.
Start(q, j) ==
    /\ poll[q].pc = "walk" /\ j \in poll[q].jobs \ running
    /\ poll' = [poll EXCEPT ![q].jobs = @ \ {j}]
    /\ Fire(q, j)
    /\ running' = running \cup {j}
    /\ active' = [active EXCEPT ![j] = @ + 1]
    /\ UNCHANGED <<now, nextTick, enabled, manual, slow>>

\* running.LoadOrStore found the job: it is skipped.
Skip(q, j) ==
    /\ poll[q].pc = "walk" /\ j \in poll[q].jobs \cap running
    /\ poll' = [poll EXCEPT ![q].jobs = @ \ {j}]
    /\ Fire(q, j)
    /\ UNCHANGED <<now, nextTick, enabled, running, active, manual, slow>>

PollEnds(q) ==
    /\ poll[q].pc = "walk" /\ poll[q].jobs = {}
    /\ poll' = [poll EXCEPT ![q] = Idle]
    /\ UNCHANGED <<now, nextTick, enabled, running, active, manual, fired, slow>>

\* runBackupJob returns, with or without an error, at the latest after the six
\* hours of its context; the deferred call deletes the entry of the sync.Map.
RunEnds(j) ==
    /\ active[j] > 0
    /\ active' = [active EXCEPT ![j] = @ - 1]
    /\ running' = running \ {j}
    /\ UNCHANGED <<now, nextTick, poll, enabled, manual, fired, slow>>

-----------------------------------------------------------------------------
\* runBackupJobHandler: RunBackupJob within the request.
ManualRun(j) ==
    /\ manual[j] < MaxManual
    /\ manual' = [manual EXCEPT ![j] = @ + 1]
    /\ UNCHANGED <<now, nextTick, poll, enabled, running, active, fired, slow>>

ManualEnds(j) ==
    /\ manual[j] > 0
    /\ manual' = [manual EXCEPT ![j] = @ - 1]
    /\ UNCHANGED <<now, nextTick, poll, enabled, running, active, fired, slow>>

\* An administrator edits the list of the provider: UpdateBackupJob.
Toggle(j) ==
    /\ enabled' = IF j \in enabled THEN enabled \ {j} ELSE enabled \cup {j}
    /\ UNCHANGED <<now, nextTick, poll, running, active, manual, fired, slow>>

Init ==
    /\ now = 0 /\ nextTick = Offset
    /\ poll = [q \in Poll |-> Idle]
    /\ enabled = Job
    /\ running = {}
    /\ active = [j \in Job |-> 0] /\ manual = [j \in Job |-> 0]
    /\ fired = [j \in Job |-> [c \in Cron[j] |-> 0]]
    /\ slow = FALSE

Next ==
    \/ Pass
    \/ \E q \in Poll : \/ StartPoll(q) \/ Listed(q) \/ ListFails(q) \/ PollEnds(q)
                       \/ \E j \in Job : Start(q, j) \/ Skip(q, j)
    \/ \E j \in Job : RunEnds(j) \/ ManualRun(j) \/ ManualEnds(j) \/ Toggle(j)

Spec == Init /\ [][Next]_vars

\* A run ends: its context expires after six hours at the latest.
FairSpec == Spec /\ \A j \in Job : WF_vars(RunEnds(j))

-----------------------------------------------------------------------------
(* Properties.                                                             *)

\* However many polls overlap, the scheduler runs a job at most once at a time,
\* and the sync.Map holds exactly the jobs it is running.
RunsAlone ==
    \A j \in Job : active[j] = IF j \in running THEN 1 ELSE 0

\* As long as every listing that arrived did so within the tick that asked for
\* it, no cron time was acted on twice, although consecutive polls look back a
\* whole minute each and slower listings are still on their way or failed.
FiresOnce ==
    ~slow => \A j \in Job : \A c \in Cron[j] : fired[j][c] <= 1

\* A job that runs is released again, so that its next cron time can start it.
Released == \A j \in Job : j \in running ~> j \notin running
=============================================================================
