------------------------------ MODULE Scheduler ------------------------------
(***************************************************************************)
(* The schedules of internal/scheduler/scheduler.go: the list of           *)
(* snapshot, scrub and replication schedules kept in memory and in         *)
(* schedules.json, the ticker that starts a goroutine for every due        *)
(* schedule once a minute, and the steps of those goroutines, which        *)
(* interleave with one another, with the administrator and with restarts.  *)
(*                                                                         *)
(* A run works on the COPY of the schedule that tick took.  NextRun moves  *)
(* only when a run ends, so a run that is slower than a minute is started  *)
(* again by the next tick, and the runs of one pool list and destroy       *)
(* snapshots side by side.                                                 *)
(*                                                                         *)
(* Time is counted in minutes, the period of the ticker.  The snapshots    *)
(* that the scheduler takes ("auto-" and the second of their creation) are *)
(* numbered, in each pool, in the order of their creation, which is the    *)
(* order prune sorts by; two of one pool in the same second collide, and   *)
(* the second one fails.                                                   *)
(***************************************************************************)
EXTENDS Integers, Sequences, FiniteSets, SequencesExt, FiniteSetsExt

CONSTANTS
    Id,          \* the identifiers genID draws, never twice the same
    Pool,        \* the pools
    Freq,        \* the frequencies a schedule may have
    Period,      \* Period[f]: the minutes that nextRun adds for f
    KeepInput,   \* the "keep" values a request may carry
    DefaultKeep, \* what Add stores for a value that is not positive (7)
    Faults,      \* the calls that may fail: "save", "create", "list", "destroy"
    MaxTime,     \* bound: the minutes the clock counts
    MaxRuns,     \* bound: runs under way at the same time
    MaxSnaps,    \* bound: automatic snapshots taken of a pool
    MaxRestarts  \* bound: restarts of the daemon

ASSUME SchedulerAssumption ==
    /\ Period \in [Freq -> Nat \ {0}]
    /\ KeepInput \subseteq Int /\ KeepInput # {}
    /\ DefaultKeep \in Nat \ {0}
    /\ Faults \subseteq {"save", "create", "list", "destroy"}

VARIABLES
    now,        \* the clock
    ticked,     \* whether the ticker fired in this minute
    schedules,  \* the list in memory, by identifier
    schedulesFile,       \* the list in schedules.json
    used,       \* the identifiers that were given out
    runs,       \* the goroutines under way, each with its copy
    snaps,      \* snaps[p]: the automatic snapshots of p that exist
    taken,      \* taken[p]: every automatic snapshot of p, with its schedule
    byHand,     \* byHand[p]: those an administrator destroyed
    restarts

vars == <<now, ticked, schedules, schedulesFile, used, runs, snaps, taken, byHand, restarts>>

Kind == {"snapshot", "scrub", "replication"}

Schedule == [kind : Kind, pool : Pool, freq : Freq, keep : Nat, enabled : BOOLEAN,
             lastRun : Nat, nextRun : Nat]

nextRun(f, t) == t + Period[f]

SlipPut(sc) ==
    IF sc.id \in used THEN (sc.id :> sc.copy) @@ schedules ELSE schedules

(***************************************************************************)
(* The list written back when a run ends: LastRun and NextRun of the entry *)
(* that still has the run's identifier, nothing when there is none.        *)
(***************************************************************************)
Put(sc) ==
    [id \in DOMAIN schedules |->
        IF id = sc.id
          THEN [schedules[id] EXCEPT !.lastRun = now,
                                     !.nextRun = nextRun(sc.copy.freq, now)]
          ELSE schedules[id]]

(***************************************************************************)
(* save: os.WriteFile of the whole list, which may fail.                   *)
(***************************************************************************)
save(list) == schedulesFile' = list \/ ("save" \in Faults /\ schedulesFile' = schedulesFile)

Without(i) == [j \in 1..(Len(runs) - 1) |-> IF j < i THEN runs[j] ELSE runs[j + 1]]

Step(i, r) == runs' = [runs EXCEPT ![i] = r]

-----------------------------------------------------------------------------
(* The ticker and the goroutines it starts.                                *)

Minute ==
    /\ ticked /\ now < MaxTime
    /\ now' = now + 1
    /\ ticked' = FALSE
    /\ UNCHANGED <<schedules, schedulesFile, used, runs, snaps, taken, byHand, restarts>>

Due == {id \in DOMAIN schedules : schedules[id].enabled /\ now > schedules[id].nextRun}

Started(id) == [id |-> id, copy |-> schedules[id], pc |-> "begin", doomed |-> {}]

tick ==
    /\ ~ticked
    /\ Len(runs) + Cardinality(Due) <= MaxRuns
    /\ ticked' = TRUE
    /\ LET due == SetToSeq(Due)
       IN  runs' = runs \o [i \in DOMAIN due |-> Started(due[i])]
    /\ UNCHANGED <<now, schedules, schedulesFile, used, snaps, taken, byHand, restarts>>

\* run for a scrub or a replication: the call is made, its error is dropped.
RunOther(i) ==
    LET r == runs[i]
    IN  /\ r.pc = "begin" /\ r.copy.kind # "snapshot"
        /\ Step(i, [r EXCEPT !.pc = "finish"])
        /\ UNCHANGED <<now, ticked, schedules, schedulesFile, used, snaps, taken, byHand, restarts>>

\* run for a snapshot, which CreateSnapshot takes.
CreateSnapshot(i) ==
    LET r == runs[i]
        p == r.copy.pool
        n == Cardinality(taken[p]) + 1
    IN  /\ r.pc = "begin" /\ r.copy.kind = "snapshot" /\ n <= MaxSnaps
        /\ snaps' = [snaps EXCEPT ![p] = @ \cup {n}]
        /\ taken' = [taken EXCEPT ![p] = @ \cup {[n |-> n, by |-> r.id]}]
        /\ Step(i, [r EXCEPT !.pc = IF r.copy.keep > 0 THEN "list" ELSE "finish"])
        /\ UNCHANGED <<now, ticked, schedules, schedulesFile, used, byHand, restarts>>

\* CreateSnapshot fails (a name that is taken, a pool that is gone, ...): run
\* returns, and NextRun stays where it is, so that the next tick tries again.
CreateFails(i) ==
    LET r == runs[i]
    IN  /\ "create" \in Faults
        /\ r.pc = "begin" /\ r.copy.kind = "snapshot"
        /\ runs' = Without(i)
        /\ UNCHANGED <<now, ticked, schedules, schedulesFile, used, snaps, taken, byHand, restarts>>

SlipOldest(s, keep) == {n \in s : Cardinality({m \in s : m > n}) + 1 >= keep}

\* The oldest members of s, so many that "keep" are left.
Oldest(s, keep) == {n \in s : Cardinality({m \in s : m > n}) >= keep}

\* prune: the listing, from which the snapshots to destroy are chosen.
prune(i) ==
    LET r == runs[i]
    IN  /\ r.pc = "list"
        /\ Step(i, [r EXCEPT !.pc = "destroy", !.doomed = Oldest(snaps[r.copy.pool], r.copy.keep)])
        /\ UNCHANGED <<now, ticked, schedules, schedulesFile, used, snaps, taken, byHand, restarts>>

\* prune: the listing fails.
PruneFails(i) ==
    LET r == runs[i]
    IN  /\ "list" \in Faults
        /\ r.pc = "list"
        /\ Step(i, [r EXCEPT !.pc = "finish"])
        /\ UNCHANGED <<now, ticked, schedules, schedulesFile, used, snaps, taken, byHand, restarts>>

\* prune: the oldest of the chosen snapshots is destroyed, unless the call
\* fails (a hold, or another run was faster), and prune goes on either way.
DeleteSnapshot(i) ==
    LET r == runs[i]
        p == r.copy.pool
        n == Min(r.doomed)
    IN  /\ r.pc = "destroy" /\ r.doomed # {}
        /\ \/ snaps' = [snaps EXCEPT ![p] = @ \ {n}]
           \/ "destroy" \in Faults /\ snaps' = snaps
        /\ Step(i, [r EXCEPT !.doomed = @ \ {n}])
        /\ UNCHANGED <<now, ticked, schedules, schedulesFile, used, taken, byHand, restarts>>

\* The end of run.
Finish(i) ==
    LET r == runs[i]
    IN  /\ r.pc = "finish" \/ (r.pc = "destroy" /\ r.doomed = {})
        /\ schedules' = Put(r)
        /\ save(schedules')
        /\ runs' = Without(i)
        /\ UNCHANGED <<now, ticked, used, snaps, taken, byHand, restarts>>

-----------------------------------------------------------------------------
(* The administrator.                                                      *)

Insert(id, sc) ==
    /\ id \in Id \ used
    /\ used' = used \cup {id}
    /\ schedules' = [x \in DOMAIN schedules \cup {id} |-> IF x = id THEN sc ELSE schedules[x]]
    /\ save(schedules')
    /\ UNCHANGED <<now, ticked, runs, snaps, taken, byHand, restarts>>

New(kind, p, f, keep) ==
    [kind |-> kind, pool |-> p, freq |-> f, keep |-> keep, enabled |-> TRUE,
     lastRun |-> 0, nextRun |-> nextRun(f, now)]

\* The count that Add stores for the one it is asked for.
Stored(k) == IF k <= 0 THEN DefaultKeep ELSE k

\* A failing save leaves the schedule in memory, although the caller is told
\* that it was not created.
Add(id, p, f, k) == Insert(id, New("snapshot", p, f, Stored(k)))

AddScrub(id, p, f) == Insert(id, New("scrub", p, f, 0))

AddReplication(id, p, f) == Insert(id, New("replication", p, f, 0))

Delete(id) ==
    /\ id \in DOMAIN schedules
    /\ schedules' = [x \in DOMAIN schedules \ {id} |-> schedules[x]]
    /\ save(schedules')
    /\ UNCHANGED <<now, ticked, used, runs, snaps, taken, byHand, restarts>>

SetEnabled(id, on) ==
    /\ id \in DOMAIN schedules
    /\ schedules' = [schedules EXCEPT
            ![id].enabled = on,
            ![id].nextRun = IF on THEN nextRun(schedules[id].freq, now) ELSE @]
    /\ save(schedules')
    /\ UNCHANGED <<now, ticked, used, runs, snaps, taken, byHand, restarts>>

\* A scrub is asked for by its kind, a replication by its kind or its target,
\* and anything else is a snapshot schedule, whatever kind it names.
createScheduleHandler(id, kind, remote, p, f, k) ==
    IF kind = "scrub" THEN AddScrub(id, p, f)
    ELSE IF remote \/ kind = "replication" THEN AddReplication(id, p, f)
    ELSE Add(id, p, f, k)

deleteScheduleHandler(id) == Delete(id)

\* A body without "enabled" is refused.
patchScheduleHandler(id, on) == SetEnabled(id, on)

\* An administrator destroys an automatic snapshot (the snapshot handlers).
DestroyByHand(p, n) ==
    /\ n \in snaps[p]
    /\ snaps' = [snaps EXCEPT ![p] = @ \ {n}]
    /\ byHand' = [byHand EXCEPT ![p] = @ \cup {n}]
    /\ UNCHANGED <<now, ticked, schedules, schedulesFile, used, runs, taken, restarts>>

-----------------------------------------------------------------------------
\* The daemon stops with its goroutines; New loads the file.  The clock of the
\* new ticker starts with the new process.
load ==
    /\ restarts < MaxRestarts
    /\ restarts' = restarts + 1
    /\ schedules' = schedulesFile
    /\ runs' = <<>>
    /\ ticked' = TRUE
    /\ UNCHANGED <<now, schedulesFile, used, snaps, taken, byHand>>

Init ==
    /\ now = 0 /\ ticked = TRUE
    /\ schedules = <<>> /\ schedulesFile = <<>>
    /\ used = {} /\ runs = <<>>
    /\ snaps = [p \in Pool |-> {}] /\ taken = [p \in Pool |-> {}]
    /\ byHand = [p \in Pool |-> {}]
    /\ restarts = 0

run(i) ==
    \/ RunOther(i) \/ CreateSnapshot(i) \/ CreateFails(i)
    \/ prune(i) \/ PruneFails(i) \/ DeleteSnapshot(i) \/ Finish(i)

Next ==
    \/ Minute \/ tick \/ load
    \/ \E i \in DOMAIN runs : run(i)
    \/ \E id \in Id, p \in Pool, f \in Freq, k \in KeepInput, kind \in Kind, remote \in BOOLEAN :
          createScheduleHandler(id, kind, remote, p, f, k)
    \/ \E id \in Id : \/ deleteScheduleHandler(id)
                      \/ \E on \in BOOLEAN : patchScheduleHandler(id, on)
    \/ \E p \in Pool : \E n \in snaps[p] : DestroyByHand(p, n)

Spec == Init /\ [][Next]_vars

-----------------------------------------------------------------------------
(* Properties.                                                             *)

\* Every variable has its type; a snapshot schedule always has a count to keep
\* (Add replaces one that is not positive), so that a run always prunes.
TypeOK ==
    /\ now \in 0..MaxTime /\ ticked \in BOOLEAN
    /\ used \subseteq Id
    /\ \A list \in {schedules, schedulesFile} :
          /\ DOMAIN list \subseteq used
          /\ \A id \in DOMAIN list :
                /\ list[id] \in Schedule
                /\ list[id].kind = "snapshot" => list[id].keep > 0
    /\ Len(runs) <= MaxRuns
    /\ \A i \in DOMAIN runs :
          /\ runs[i].id \in used /\ runs[i].copy \in Schedule
          /\ runs[i].pc \in {"list", "destroy"} => runs[i].copy.keep > 0
    /\ \A p \in Pool : snaps[p] \subseteq {s.n : s \in taken[p]}

\* The smallest count that any schedule can keep.
LeastKeep == Min({Stored(k) : k \in KeepInput})

Newest(p, k) == {s.n : s \in {x \in taken[p] : Cardinality({y \in taken[p] : y.n > x.n}) < k}}

\* However many prunes of a pool work on stale listings side by side, the
\* newest snapshots of the pool, as many as the smallest Keep, are destroyed by
\* nobody but the administrator (prune deletes what its listing showed).
RetentionFloor ==
    \A p \in Pool : Newest(p, LeastKeep) \subseteq snaps[p] \cup byHand[p]

\* A run that ends late changes LastRun and NextRun only: a schedule that was
\* deleted while the run was under way does not come back, and one that was
\* disabled, or enabled, stays so (run's last loop).
RunKeepsSettings ==
    [][\A i \in DOMAIN runs : Finish(i) =>
          /\ DOMAIN schedules' = DOMAIN schedules
          /\ \A id \in DOMAIN schedules :
                /\ schedules'[id].enabled = schedules[id].enabled
                /\ schedules'[id].keep = schedules[id].keep]_vars
=============================================================================
