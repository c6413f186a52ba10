---------------------------- MODULE RsyncManager ----------------------------
(***************************************************************************)
(* The rsync jobs of internal/rsync/manager.go: the list of jobs, the map  *)
(* of their statuses, and the goroutines that the ticker and RunNow start. *)
(* A goroutine makes a status of its own, puts it into the map and keeps   *)
(* the pointer; a goroutine that is started while another one of the same  *)
(* job is under way replaces the status in the map, and the older one goes *)
(* on writing to a status that nobody can read.                            *)
(*                                                                         *)
(* rsync is external: it prints lines, exits, and stops for good when      *)
(* nobody reads its output.  That happens after a line that is longer than *)
(* the buffer of bufio.Scanner, which ends the loop that reads the pipe.   *)
(***************************************************************************)
EXTENDS Integers, Sequences, FiniteSets, SequencesExt

CONSTANTS
    Id,        \* the identifiers genID draws, never twice the same
    Period,    \* the minutes that nextRun adds
    MaxLines,  \* how many lines of output a status keeps (500)
    Overlong,  \* whether rsync may print a line longer than the buffer
    SaveFails, \* whether writing rsync.json may fail
    MaxMinutes, \* bound: the minutes the clock counts
    MaxReloads, \* bound: restarts of the daemon
    MaxSerial  \* bound: the goroutines ever started

ASSUME RsyncAssumption == Period \in Nat \ {0} /\ MaxLines \in Nat \ {0}

VARIABLES
    minute, ticked, \* the clock, and whether the ticker fired in this minute
    rsyncJobs,   \* the list of jobs, by identifier
    rsyncFile,   \* the list in rsync.json
    used,        \* the identifiers that were given out
    status,      \* the status that the map holds for an identifier
    runs,        \* the goroutines under way
    serial,      \* how many goroutines were started
    reloads      \* how often the daemon was restarted

rsyncVars == <<minute, ticked, rsyncJobs, rsyncFile, used, status, runs, serial, reloads>>

\* The output of a run is abstracted to the numbers of its lines.
NoStatus == [serial |-> 0, running |-> FALSE, done |-> FALSE, failed |-> FALSE, lines |-> <<>>]

nextRun(t) == t + Period

Started(id, n) == [id |-> id, serial |-> n, pc |-> "begin", line |-> 0]

\* save: os.WriteFile of the whole list; most callers drop its error.
save(list) == rsyncFile' = list \/ (SaveFails /\ rsyncFile' = rsyncFile)

SlipWrite(r, st) == status' = [status EXCEPT ![r.id] = st]

\* A goroutine writes through its pointer: what it writes can be read while
\* the map still holds that status.
Write(r, st) ==
    status' = IF status[r.id].serial = r.serial THEN [status EXCEPT ![r.id] = st] ELSE status

-----------------------------------------------------------------------------
Minute ==
    /\ ticked /\ minute < MaxMinutes
    /\ minute' = minute + 1 /\ ticked' = FALSE
    /\ UNCHANGED <<rsyncJobs, rsyncFile, used, status, runs, serial, reloads>>

tick ==
    LET due == SetToSeq({id \in DOMAIN rsyncJobs :
                           rsyncJobs[id].enabled /\ minute > rsyncJobs[id].nextRun})
    IN  /\ ~ticked
        /\ serial + Len(due) <= MaxSerial
        /\ ticked' = TRUE
        /\ serial' = serial + Len(due)
        /\ runs' = runs \cup {Started(due[i], serial + i) : i \in DOMAIN due}
        /\ UNCHANGED <<minute, rsyncJobs, rsyncFile, used, status, reloads>>

RunNow(id) ==
    /\ id \in DOMAIN rsyncJobs /\ serial < MaxSerial
    /\ serial' = serial + 1
    /\ runs' = runs \cup {Started(id, serial + 1)}
    /\ UNCHANGED <<minute, ticked, rsyncJobs, rsyncFile, used, status, reloads>>

\* The goroutine r goes on as q.
Goes(r, q) == runs' = (runs \ {r}) \cup {q}

\* run: a new status, whatever the map holds, then rsync is started.
Begin(r) ==
    /\ r.pc = "begin"
    /\ status' = [status EXCEPT ![r.id] =
            [NoStatus EXCEPT !.serial = r.serial, !.running = TRUE]]
    /\ Goes(r, [r EXCEPT !.pc = "scan"])
    /\ UNCHANGED <<minute, ticked, rsyncJobs, rsyncFile, used, serial, reloads>>

\* The last MaxLines lines of the output.
Capped(all) ==
    IF Len(all) > MaxLines THEN SubSeq(all, Len(all) - MaxLines + 1, Len(all)) ELSE all

\* run: a line of output, of which the last MaxLines are kept.
Line(r) ==
    LET all == Append(status[r.id].lines, <<r.serial, r.line + 1>>)
    IN  /\ r.pc = "scan" /\ r.line < MaxLines + 1
        /\ Goes(r, [r EXCEPT !.line = @ + 1])
        /\ Write(r, [status[r.id] EXCEPT !.lines = Capped(all)])
        /\ UNCHANGED <<minute, ticked, rsyncJobs, rsyncFile, used, serial, reloads>>

\* run: the scanner gives up on a line that is too long; rsync fills the pipe
\* and stops, and cmd.Wait waits for it.
Stall(r) ==
    /\ Overlong /\ r.pc = "scan"
    /\ Goes(r, [r EXCEPT !.pc = "stalled"])
    /\ UNCHANGED <<minute, ticked, rsyncJobs, rsyncFile, used, status, serial, reloads>>

SlipDone(r) ==
    rsyncJobs' = IF r.id \in used
              THEN [x \in DOMAIN rsyncJobs \cup {r.id} |->
                      IF x = r.id THEN [enabled |-> TRUE, nextRun |-> nextRun(minute)] ELSE rsyncJobs[x]]
              ELSE rsyncJobs

\* The end of run for the job that still has its identifier, if there is one.
Done(r) ==
    rsyncJobs' = IF r.id \in DOMAIN rsyncJobs
                   THEN [rsyncJobs EXCEPT ![r.id].nextRun = nextRun(minute)] ELSE rsyncJobs

\* rsync exits, or could not be started at all.
Exit(r, failed) ==
    /\ r.pc = "scan"
    /\ Write(r, [status[r.id] EXCEPT !.running = FALSE, !.done = TRUE, !.failed = failed])
    /\ Done(r)
    /\ save(rsyncJobs')
    /\ runs' = runs \ {r}
    /\ UNCHANGED <<minute, ticked, used, serial, reloads>>

-----------------------------------------------------------------------------
Add(id) ==
    /\ id \in Id \ used
    /\ used' = used \cup {id}
    /\ rsyncJobs' = [x \in DOMAIN rsyncJobs \cup {id} |->
                  IF x = id THEN [enabled |-> TRUE, nextRun |-> nextRun(minute)] ELSE rsyncJobs[x]]
    /\ save(rsyncJobs')
    /\ UNCHANGED <<minute, ticked, status, runs, serial, reloads>>

\* The status stays in the map, and a run that is under way goes on.
Delete(id) ==
    /\ id \in DOMAIN rsyncJobs
    /\ rsyncJobs' = [x \in DOMAIN rsyncJobs \ {id} |-> rsyncJobs[x]]
    /\ save(rsyncJobs')
    /\ UNCHANGED <<minute, ticked, used, status, runs, serial, reloads>>

SetEnabled(id, on) ==
    /\ id \in DOMAIN rsyncJobs
    /\ rsyncJobs' = [rsyncJobs EXCEPT ![id].enabled = on,
                            ![id].nextRun = IF on THEN nextRun(minute) ELSE @]
    /\ save(rsyncJobs')
    /\ UNCHANGED <<minute, ticked, used, status, runs, serial, reloads>>

createRsyncJobHandler(id) == Add(id)
deleteRsyncJobHandler(id) == Delete(id)
runRsyncJobHandler(id) == RunNow(id)

\* A body without "enabled" changes nothing and is confirmed.
patchRsyncJobHandler(id, on) == SetEnabled(id, on)

\* The daemon stops, and with it its goroutines; NewManager loads the file and
\* makes an empty map of statuses.  (An rsync that stays behind is not ours.)
load ==
    /\ reloads < MaxReloads
    /\ reloads' = reloads + 1
    /\ rsyncJobs' = rsyncFile
    /\ status' = [id \in Id |-> NoStatus]
    /\ runs' = {}
    /\ ticked' = TRUE
    /\ UNCHANGED <<minute, rsyncFile, used, serial>>

RsyncInit ==
    /\ minute = 0 /\ ticked = TRUE
    /\ rsyncJobs = <<>> /\ rsyncFile = <<>> /\ used = {}
    /\ status = [id \in Id |-> NoStatus]
    /\ runs = {} /\ serial = 0 /\ reloads = 0

run(r) == Begin(r) \/ Line(r) \/ Stall(r) \/ \E failed \in BOOLEAN : Exit(r, failed)

RsyncNext ==
    \/ Minute \/ tick \/ load
    \/ \E r \in runs : run(r)
    \/ \E id \in Id : \/ runRsyncJobHandler(id)
                      \/ createRsyncJobHandler(id) \/ deleteRsyncJobHandler(id)
                      \/ \E on \in BOOLEAN : patchRsyncJobHandler(id, on)

RsyncSpec == RsyncInit /\ [][RsyncNext]_rsyncVars

\* The goroutine with serial n, and rsync as long as its output is read, go on.
Progress(n) ==
    \E r \in runs : r.serial = n /\ run(r)

RsyncFairSpec == RsyncSpec /\ \A n \in 1..MaxSerial : WF_rsyncVars(Progress(n))

-----------------------------------------------------------------------------
(* Properties.                                                             *)

Active(n) == \E r \in runs : r.serial = n /\ r.pc # "begin"

\* What Status returns is about one goroutine, the newest that began: it says
\* "running" while that goroutine is under way and "done" once it has ended,
\* and shows no line of another one, whatever the older goroutines of the same
\* job do when they end.
RsyncTruthful ==
    \A id \in Id :
       LET st == status[id]
       IN  st.serial # 0 =>
             /\ st.running = Active(st.serial)
             /\ st.done = ~Active(st.serial)
             /\ \A k \in DOMAIN st.lines : st.lines[k][1] = st.serial

\* A goroutine that ends does not bring back a job that was deleted, nor enable
\* one that was disabled, while it was under way.
KeepsJob ==
    \A r \in runs : \A failed \in BOOLEAN : Exit(r, failed) =>
       /\ DOMAIN rsyncJobs' = DOMAIN rsyncJobs
       /\ \A id \in DOMAIN rsyncJobs : rsyncJobs'[id].enabled = rsyncJobs[id].enabled

RunKeepsJob == [][KeepsJob]_rsyncVars

\* A goroutine that was started ends, unless the scanner met an overlong line:
\* then its status says "running" for ever.
UnderWay(n) == \E r \in runs : r.serial = n
UnderWayUnread(n) == \E r \in runs : r.serial = n /\ r.pc = "stalled"

RsyncRunEnds == \A n \in 1..MaxSerial : UnderWay(n) ~> ~UnderWay(n) \/ UnderWayUnread(n)
=============================================================================
