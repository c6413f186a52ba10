------------------------------- MODULE Monitor -------------------------------
(***************************************************************************)
(* The alerts of internal/monitor/monitor.go.  One goroutine polls the     *)
(* disks, the pools and the backup jobs, one after the other, and calls    *)
(* raise; raise drops an alert whose key was raised within the last hour.  *)
(* Handlers dismiss alerts and change the thresholds while a poll is under *)
(* way (the poll reads m.threshold without its lock), and a restart        *)
(* forgets everything but the state of the backup jobs.                    *)
(*                                                                         *)
(* Time is counted in polls.  Webhook and e-mail are sent by goroutines    *)
(* that change nothing; an alert that was raised counts as sent.           *)
(***************************************************************************)
EXTENDS Integers, Sequences, FiniteSets, SequencesExt

CONSTANTS
    Disk, Pool, Job,  \* what is monitored
    Temp,             \* the temperatures a disk may report
    NoTemp,           \* a disk that reports none
    Thresholds,       \* the values SetThresholds is called with
    Threshold0,       \* the defaults
    ReAlert,          \* reAlertAfter (one hour)
    MaxAlerts,        \* maxAlerts (100)
    MaxTime,          \* bound: the polls
    MaxDismiss,       \* bound: the alerts dismissed
    MaxRestarts       \* bound: restarts of the daemon

VARIABLES
    now,        \* the clock
    polled,     \* whether the poll of this interval was started
    todo,       \* the steps of the poll under way that are left
    alerts,     \* the list of alerts, newest first
    lastSeen,   \* when a key was raised last
    diskState, poolState,   \* the states of the last poll
    threshold,  \* the thresholds
    fails,      \* the alert states of the backup jobs, in memory
    backupFile, \* the same in monitor-backup-state.json
    result,     \* the last result of every backup job
    raised,     \* every alert that was ever raised
    dismissed,  \* the numbers of those that were dismissed
    unsaved,    \* whether the last write of that file failed
    cut,        \* whether a restart found a backup alert that was not saved
    restarts

vars == <<now, polled, todo, alerts, lastSeen, diskState, poolState, threshold,
          fails, backupFile, result, raised, dismissed, unsaved, cut, restarts>>

alertVars == <<alerts, lastSeen, raised>>
stateVars == <<diskState, poolState>>
backupVars == <<fails, backupFile, result, unsaved, cut>>

Never == 0 - 1000

-----------------------------------------------------------------------------
(* raise.                                                                  *)

SlipRemember(seen) == {k \in DOMAIN seen : now - seen[k] < ReAlert \div 2}

\* The keys that raise leaves in lastSeen: the others are older than two hours.
Remember(seen) == {k \in DOMAIN seen : now - seen[k] <= 2 * ReAlert}

\* The list with a new alert in front, cut to its maximum.
Push(a) ==
    LET all == <<a>> \o alerts
    IN  IF Len(all) > MaxAlerts THEN SubSeq(all, 1, MaxAlerts) ELSE all

raise(level, key) ==
    IF key \in DOMAIN lastSeen /\ now - lastSeen[key] < ReAlert
      THEN UNCHANGED alertVars
      ELSE LET a    == [n |-> Cardinality(raised) + 1, key |-> key, level |-> level, at |-> now]
               seen == [k \in DOMAIN lastSeen \cup {key} |-> IF k = key THEN now ELSE lastSeen[k]]
           IN  /\ alerts' = Push(a)
               /\ raised' = raised \cup {a}
               /\ lastSeen' = [k \in Remember(seen) |-> seen[k]]

RaiseIf(cond, level, key) == IF cond THEN raise(level, key) ELSE UNCHANGED alertVars

-----------------------------------------------------------------------------
(* The polling goroutine.  A poll is the list of its steps; each step ends *)
(* with a call of raise, or without one.                                   *)

DiskSteps(d, r) ==
    << [on |-> "smart", of |-> d, r |-> r], [on |-> "temp", of |-> d, r |-> r],
       [on |-> "realloc", of |-> d, r |-> r], [on |-> "disk", of |-> d, r |-> r] >>

Reading == [smart : BOOLEAN, temp : Temp \cup {NoTemp}, realloc : BOOLEAN]
Health == [state : {"", "online", "degraded", "faulted"}, scrubErrors : BOOLEAN]

PoolSteps(p, h) ==
    << [on |-> "health", of |-> p, r |-> h], [on |-> "scrub", of |-> p, r |-> h],
       [on |-> "pool", of |-> p, r |-> h] >>

JobStep(j) == << [on |-> "job", of |-> j, r |-> "enabled"] >>

Save == << [on |-> "save", of |-> "jobs", r |-> "enabled"] >>

\* The steps of all members of S, one member after the other.
Steps(S, step(_)) ==
    LET order == SetToSeq(S) IN FlattenSeq([i \in DOMAIN order |-> step(order[i])])

\* poll: what the provider reports of the disks, of the pools whose health can
\* be read, and of the jobs that are enabled.  A list that cannot be read is
\* skipped.
poll ==
    /\ ~polled /\ todo = <<>>
    /\ polled' = TRUE
    /\ \E ds \in {{}, Disk}, ps \in SUBSET Pool, js \in SUBSET Job, listed \in BOOLEAN :
         \E reading \in [ds -> Reading], health \in [ps -> Health] :
            todo' = Steps(ds, LAMBDA d : DiskSteps(d, reading[d]))
                    \o Steps(ps, LAMBDA p : PoolSteps(p, health[p]))
                    \o (IF listed THEN Steps(js, JobStep) \o Save ELSE <<>>)
    /\ UNCHANGED <<now, threshold, dismissed, restarts, alertVars, stateVars, backupVars>>

Hot(r, limit) == r.temp # NoTemp /\ r.temp >= limit

\* pollDisks: the alerts of one disk.
pollDisks ==
    LET s == Head(todo)
    IN  /\ todo # <<>> /\ s.on \in {"smart", "temp", "realloc"}
        /\ todo' = Tail(todo)
        /\ CASE s.on = "smart"   -> RaiseIf(~s.r.smart, "crit", <<"smart", s.of>>)
             [] s.on = "realloc" -> RaiseIf(s.r.realloc, "warn", <<"realloc", s.of>>)
             [] Hot(s.r, threshold.crit) -> raise("crit", <<"tempcrit", s.of>>)
             [] OTHER            -> RaiseIf(Hot(s.r, threshold.warn), "warn", <<"tempwarn", s.of>>)
        /\ UNCHANGED <<now, polled, threshold, dismissed, restarts, stateVars, backupVars>>

DiskNow(r) ==
    IF ~r.smart THEN "smart-fail" ELSE IF Hot(r, threshold.crit) THEN "temp-crit" ELSE "ok"

\* pollDisks: the state of the disk, and its recovery.
DiskRecovery ==
    LET s   == Head(todo)
        cur == DiskNow(s.r)
    IN  /\ todo # <<>> /\ s.on = "disk"
        /\ todo' = Tail(todo)
        /\ diskState' = [diskState EXCEPT ![s.of] = cur]
        /\ RaiseIf(diskState[s.of] \notin {"unknown", "ok"} /\ cur = "ok",
                   "info", <<"recovery", s.of>>)
        /\ UNCHANGED <<now, polled, threshold, dismissed, restarts, poolState, backupVars>>

\* pollPools: the alerts of one pool.
pollPools ==
    LET s == Head(todo)
    IN  /\ todo # <<>> /\ s.on \in {"health", "scrub"}
        /\ todo' = Tail(todo)
        /\ IF s.on = "health"
             THEN RaiseIf(s.r.state \notin {"", "online"}, "crit", <<s.r.state, s.of>>)
             ELSE RaiseIf(s.r.scrubErrors, "crit", <<"scrub", s.of>>)
        /\ UNCHANGED <<now, polled, threshold, dismissed, restarts, stateVars, backupVars>>

PoolNow(h) == IF h.state = "" THEN "online" ELSE h.state

\* pollPools: the state of the pool, and its recovery.
PoolRecovery ==
    LET s   == Head(todo)
        cur == PoolNow(s.r)
    IN  /\ todo # <<>> /\ s.on = "pool"
        /\ todo' = Tail(todo)
        /\ poolState' = [poolState EXCEPT ![s.of] = cur]
        /\ RaiseIf(poolState[s.of] \notin {"unknown", "online"} /\ cur = "online",
                   "info", <<"recovery", s.of>>)
        /\ UNCHANGED <<now, polled, threshold, dismissed, restarts, diskState, backupVars>>

NoFails == [n |-> 0, last |-> Never]

\* Whether a failure alert of a job has to wait.
Limited(f) == now - f.last < threshold.recovery

\* pollBackupJobs for a job that is enabled and has failed, or succeeded, or has
\* not been run yet.
pollBackupJobs ==
    LET s == Head(todo)
        f == fails[s.of]
        n == f.n + 1
    IN  /\ todo # <<>> /\ s.on = "job"
        /\ todo' = Tail(todo)
        /\ \/ /\ result[s.of] = "failed"
              /\ RaiseIf(~Limited(f), IF n >= threshold.consecutive THEN "crit" ELSE "warn",
                         <<"fail", s.of>>)
              /\ fails' = [fails EXCEPT ![s.of] =
                    [n |-> n, last |-> IF Limited(f) THEN f.last ELSE now]]
           \/ /\ result[s.of] = "ok"
              /\ RaiseIf(f.n > 0, "info", <<"recovered", s.of>>)
              /\ fails' = [fails EXCEPT ![s.of].n = 0]
           \/ /\ result[s.of] = "none"
              /\ UNCHANGED <<fails, alertVars>>
        /\ UNCHANGED <<now, polled, threshold, dismissed, restarts, stateVars, backupFile, result, unsaved, cut>>

saveBackupAlertState ==
    /\ todo # <<>> /\ Head(todo).on = "save"
    /\ todo' = Tail(todo)
    /\ backupFile' = fails /\ unsaved' = FALSE
    /\ UNCHANGED <<now, polled, threshold, dismissed, restarts, alertVars, stateVars,
                   fails, result, cut>>

\* The write fails and is logged; the state stays in memory.
SaveFails ==
    /\ todo # <<>> /\ Head(todo).on = "save"
    /\ todo' = Tail(todo)
    /\ unsaved' = TRUE
    /\ UNCHANGED <<now, polled, threshold, dismissed, restarts, alertVars, stateVars,
                   fails, backupFile, result, cut>>

-----------------------------------------------------------------------------
(* The surroundings: time, handlers, the backup jobs, restarts.            *)

Interval ==
    /\ polled /\ todo = <<>> /\ now < MaxTime
    /\ now' = now + 1 /\ polled' = FALSE
    /\ UNCHANGED <<todo, threshold, dismissed, restarts, alertVars, stateVars, backupVars>>

\* The thresholds that are positive are set.
SetThresholds(t) ==
    /\ threshold' = [k \in DOMAIN threshold |-> IF t[k] > 0 THEN t[k] ELSE threshold[k]]
    /\ UNCHANGED <<now, polled, todo, dismissed, restarts, alertVars, stateVars, backupVars>>

Dismiss(i) ==
    /\ Cardinality(dismissed) < MaxDismiss
    /\ alerts' = SubSeq(alerts, 1, i - 1) \o SubSeq(alerts, i + 1, Len(alerts))
    /\ dismissed' = dismissed \cup {alerts[i].n}
    /\ UNCHANGED <<now, polled, todo, threshold, restarts, lastSeen, raised, stateVars, backupVars>>

setMonitorConfigHandler(t) == SetThresholds(t)

\* The answer is the same whether an alert had the identifier or not.
dismissAlertHandler(i) == Dismiss(i)

\* A backup job is run; its last result is what BackupJobs reports from now on.
BackupRun(j, res) ==
    /\ polled /\ todo = <<>>
    /\ result' = [result EXCEPT ![j] = res]
    /\ UNCHANGED <<now, polled, todo, threshold, dismissed, restarts, alertVars, stateVars,
                   fails, backupFile, unsaved, cut>>

\* A restart: New starts with the file and the default thresholds.
Restart ==
    /\ restarts < MaxRestarts
    /\ restarts' = restarts + 1
    /\ cut' = (cut \/ unsaved \/ \E i \in DOMAIN todo : todo[i].on = "save")
    /\ todo' = <<>> /\ alerts' = <<>> /\ lastSeen' = <<>>
    /\ diskState' = [d \in Disk |-> "unknown"] /\ poolState' = [p \in Pool |-> "unknown"]
    /\ threshold' = Threshold0
    /\ fails' = backupFile
    /\ polled' = FALSE
    /\ unsaved' = FALSE
    /\ UNCHANGED <<now, raised, dismissed, backupFile, result>>

Init ==
    /\ now = 0 /\ polled = FALSE /\ todo = <<>>
    /\ alerts = <<>> /\ lastSeen = <<>> /\ raised = {} /\ dismissed = {}
    /\ diskState = [d \in Disk |-> "unknown"] /\ poolState = [p \in Pool |-> "unknown"]
    /\ threshold = Threshold0
    /\ fails = [j \in Job |-> NoFails] /\ backupFile = [j \in Job |-> NoFails]
    /\ result = [j \in Job |-> "none"]
    /\ unsaved = FALSE /\ cut = FALSE /\ restarts = 0

Next ==
    \/ poll \/ pollDisks \/ DiskRecovery \/ pollPools \/ PoolRecovery
    \/ pollBackupJobs \/ saveBackupAlertState \/ SaveFails
    \/ Interval \/ Restart
    \/ \E t \in Thresholds : setMonitorConfigHandler(t)
    \/ \E i \in DOMAIN alerts : dismissAlertHandler(i)
    \/ \E j \in Job, res \in {"ok", "failed"} : BackupRun(j, res)

Spec == Init /\ [][Next]_vars

-----------------------------------------------------------------------------
(* Properties.                                                             *)

\* Between restarts an alert is raised at most once an hour for a key, although
\* lastSeen forgets its old entries (raise).
OncePerWindow ==
    restarts = 0 =>
       \A a, b \in raised :
          a.key = b.key /\ a.n < b.n => b.at - a.at >= ReAlert

\* The list holds the newest alerts that nobody dismissed, newest first, unless
\* so many newer ones were raised that it had to be cut.
NewestListed ==
    restarts = 0 =>
       /\ \A i, j \in DOMAIN alerts : i < j => alerts[i].n > alerts[j].n
       /\ \A a \in raised :
             \/ a.n \in dismissed
             \/ \E i \in DOMAIN alerts : alerts[i] = a
             \/ Cardinality({b \in raised : b.n > a.n}) >= MaxAlerts

\* A pool whose state was not online at one poll and is online at the next gets
\* a recovery alert, now or within the last hour.
RecoveryAnnounced ==
    \A p \in Pool :
       /\ poolState[p] \in {"degraded", "faulted"}
       /\ poolState'[p] \notin {"degraded", "faulted", "unknown"}
       => \E a \in raised' : a.key = <<"recovery", p>> /\ now - a.at < ReAlert

PoolRecoveryRaised == [][RecoveryAnnounced]_vars

\* Two failure alerts of a job are as far apart as the thresholds ask for, over
\* restarts too, because the time of the last one is saved; only a restart
\* before it was saved can repeat one.
BackupRateLimited ==
    ~cut => \A a, b \in raised :
               a.key[1] = "fail" /\ a.key = b.key /\ a.n < b.n =>
                  b.at - a.at >= Threshold0.recovery
=============================================================================
