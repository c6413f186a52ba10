------------------------------ MODULE AuditLog ------------------------------
(***************************************************************************)
(* The audit log: AuditMiddleware (internal/api/audit_middleware.go), the  *)
(* logger (internal/audit/audit.go) with its list in memory, newest first, *)
(* and the goroutines that write the whole list to audit.json, and the     *)
(* retention policy (internal/storage/linux.go).                           *)
(*                                                                         *)
(* Requests overlap: an entry gets its time before it gets the lock.  So   *)
(* do the goroutines of persist, which read the list under the lock and    *)
(* write the file without one, in any order: one opens the file (which     *)
(* empties it), then writes it, while another one does the same.           *)
(***************************************************************************)
EXTENDS Integers, Sequences, FiniteSets, SequencesExt

CONSTANTS
    Caller,      \* requests that may be under way at the same time
    Writer,      \* bound: goroutines of persist at the same time
    MaxEntries,  \* maxEntries
    Days,        \* the retentions an administrator may set
    MaxTime,     \* bound: the days the clock counts
    MaxLogged,   \* bound: entries ever logged
    MaxRestarts  \* bound: restarts of the daemon

VARIABLES
    now,        \* the day
    request,    \* request[c]: an entry that waits for the lock, or NoEntry
    entries,    \* the list in memory, newest first
    retention,  \* retentionDays of the logger; 0 is "no limit"
    writer,     \* writer[w]: the state of a goroutine of persist
    auditFile,  \* audit.json
    logged,     \* how many entries were made
    full,       \* the entries that were dropped because the list was full
    overlap,    \* whether two goroutines of persist were ever under way at once
    failed,     \* whether a write ever failed
    restarts

vars == <<now, request, entries, retention, writer, auditFile, logged, full,
          overlap, failed, restarts>>

NoEntry == [n |-> 0, day |-> 0]
Numbers(list) == {list[i].n : i \in DOMAIN list}

Idle == [pc |-> "idle", list |-> <<>>]

\* Unreadable content, of which New makes an empty list.
Garbled == <<NoEntry>>

-----------------------------------------------------------------------------
(* AuditMiddleware and LogEnriched.                                        *)

\* A mutating request is answered; the entry gets its time.
AuditMiddleware(c) ==
    /\ request[c] = NoEntry /\ logged < MaxLogged
    /\ logged' = logged + 1
    /\ request' = [request EXCEPT ![c] = [n |-> logged + 1, day |-> now]]
    /\ UNCHANGED <<now, entries, retention, writer, auditFile, full, overlap, failed, restarts>>

Cap(list) == IF Len(list) > MaxEntries THEN SubSeq(list, 1, MaxEntries) ELSE list

Old(e) == retention > 0 /\ e.day < now - retention

SlipPrune(list) == SelectSeq(list, LAMBDA e : ~(retention > 0 /\ e.day <= now - retention))

\* The entries at the end of the list that are older than the retention go.
Prune(list) ==
    LET keep == {n \in 0..Len(list) : \A i \in (n + 1)..Len(list) : Old(list[i])}
    IN  SubSeq(list, 1, CHOOSE n \in keep : \A m \in keep : n <= m)

\* LogEnriched under the lock; then persist is started.
LogEnriched(c, w) ==
    /\ request[c] # NoEntry /\ writer[w].pc = "idle"
    /\ LET capped == Cap(<<request[c]>> \o entries)
       IN  /\ entries' = Prune(capped)
           /\ full' = full \cup (Numbers(entries) \ Numbers(capped))
    /\ request' = [request EXCEPT ![c] = NoEntry]
    /\ writer' = [writer EXCEPT ![w] = [pc |-> "begin", list |-> <<>>]]
    /\ overlap' = (overlap \/ \E v \in Writer : writer[v].pc # "idle")
    /\ UNCHANGED <<now, retention, auditFile, logged, failed, restarts>>

-----------------------------------------------------------------------------
(* persist.                                                                *)

Marshal(w) ==
    /\ writer[w].pc = "begin"
    /\ writer' = [writer EXCEPT ![w] = [pc |-> "open", list |-> entries]]
    /\ UNCHANGED <<now, request, entries, retention, auditFile, logged, full,
                   overlap, failed, restarts>>

\* os.WriteFile opens the file and empties it ...
Open(w) ==
    /\ writer[w].pc = "open"
    /\ auditFile' = <<>>
    /\ writer' = [writer EXCEPT ![w].pc = "write"]
    /\ UNCHANGED <<now, request, entries, retention, logged, full,
                   overlap, failed, restarts>>

\* ... and writes from the beginning: what another goroutine wrote since stays
\* behind the end of a shorter text.
WriteFile(w) ==
    LET list == writer[w].list
    IN  /\ writer[w].pc = "write"
        /\ auditFile' \in IF \/ auditFile \in {<<>>, list}
                             \/ auditFile # Garbled /\ Len(auditFile) < Len(list)
                       THEN {list} ELSE {list, Garbled}
        /\ writer' = [writer EXCEPT ![w] = Idle]
        /\ UNCHANGED <<now, request, entries, retention, logged, full,
                       overlap, failed, restarts>>

\* The file cannot be opened.
WriteFails(w) ==
    /\ writer[w].pc = "open"
    /\ writer' = [writer EXCEPT ![w] = Idle]
    /\ failed' = TRUE
    /\ UNCHANGED <<now, request, entries, retention, auditFile, logged, full,
                   overlap, restarts>>

-----------------------------------------------------------------------------
\* setAuditRetentionHandler tells the logger; the policy file it also writes is
\* not read when the daemon starts.
SetRetention(d) ==
    /\ retention' = d
    /\ UNCHANGED <<now, request, entries, writer, auditFile, logged, full, overlap, failed, restarts>>

Day ==
    /\ now < MaxTime
    /\ now' = now + 1
    /\ UNCHANGED <<request, entries, retention, writer, auditFile, logged, full,
                   overlap, failed, restarts>>

\* New: what the file holds, nothing when it cannot be parsed.
New == entries' = IF auditFile = Garbled THEN <<>> ELSE auditFile

\* A restart: the requests and the goroutines end where they are.
Restart ==
    /\ restarts < MaxRestarts
    /\ restarts' = restarts + 1
    /\ New
    /\ request' = [c \in Caller |-> NoEntry]
    /\ writer' = [w \in Writer |-> Idle]
    /\ retention' = 0
    /\ UNCHANGED <<now, auditFile, logged, full, overlap, failed>>

Init ==
    /\ now = 0
    /\ request = [c \in Caller |-> NoEntry]
    /\ entries = <<>> /\ retention = 0
    /\ writer = [w \in Writer |-> Idle]
    /\ auditFile = <<>> /\ logged = 0 /\ full = {}
    /\ overlap = FALSE /\ failed = FALSE /\ restarts = 0

Next ==
    \/ \E c \in Caller : \/ AuditMiddleware(c)
                         \/ \E w \in Writer : LogEnriched(c, w)
    \/ \E w \in Writer : Marshal(w) \/ Open(w) \/ WriteFile(w) \/ WriteFails(w)
    \/ \E d \in Days : SetRetention(d)
    \/ Day \/ Restart

Spec == Init /\ [][Next]_vars

-----------------------------------------------------------------------------
(* Properties.                                                             *)

Quiet == \A w \in Writer : writer[w].pc = "idle"

\* An entry leaves the list only because the list is full or because it is
\* older than the retention, although overlapping requests log their entries
\* out of the order of their times (LogEnriched).
DropsOnlyOld ==
    restarts' = restarts =>
       \A i \in DOMAIN entries :
          \/ entries[i].n \in Numbers(entries')
          \/ entries[i].n \in full'
          \/ retention > 0 /\ entries[i].day < now - retention

OnlyOldDropped == [][DropsOnlyOld]_vars

\* When no two goroutines of persist were ever under way at the same time and
\* all writes succeeded, the file is the list as soon as they are done.
FileCurrent == Quiet /\ ~overlap /\ ~failed /\ restarts = 0 => auditFile = entries
=============================================================================
