------------------------------- MODULE Backups ------------------------------
(***************************************************************************)
(* The backup routes of internal/api/backup_handlers.go.  They check their *)
(* fields, call the Backuper once (the sync of a remote: twice) and turn   *)
(* its error into an answer.  The Backuper is an interface: the repository *)
(* holds only the stub that refuses every call (backup_stub.go); the Pro   *)
(* one is external and is modelled by the effect each of its names stands  *)
(* for.  Names, archives, jobs and paths are small values, and an empty    *)
(* string is a field the request left out.                                 *)
(***************************************************************************)
EXTENDS Integers, Sequences, FiniteSets

CONSTANTS
  Target,  \* names of repositories and remotes
  Entry,   \* archives, snapshots and jobs
  Paths,   \* the paths of remotes
  Caller   \* requests that may overlap

VARIABLES
  pro,     \* whether the Backuper is the Pro one
  repos,   \* the repositories: <<tool, name>>
  held,    \* the archives and snapshots: <<tool, name, entry>>
  remotes, \* the remotes in the order they are listed: [name, paths]
  jobs,    \* the backup jobs
  sync,    \* sync[c]: the sync of c between its two calls, or NoSync
  answer   \* the last answer

backupVars == <<pro, repos, held, remotes, jobs, sync, answer>>
kept == <<repos, held, remotes, jobs>>

Field == Target \cup {""}
NoSync == [name |-> "", paths |-> ""]

\* The paths of the remote called n in a listing; an unknown one has none.
Known(list, n) == {i \in 1..Len(list) : list[i].name = n}
PathsOf(list, n) == IF Known(list, n) = {} THEN ""
                    ELSE list[CHOOSE i \in Known(list, n) : TRUE].paths

BackupInit == /\ pro \in BOOLEAN
              /\ repos = {} /\ held = {} /\ remotes = <<>> /\ jobs = {}
              /\ sync = [c \in Caller |-> NoSync] /\ answer = "none"
-----------------------------------------------------------------------------
(* How a handler ends.                                                     *)

BadRequest == /\ answer' = "400"
              /\ UNCHANGED <<pro, kept, sync>>

\* handleLicenseErr: the refusal of the stub is a 402, any other error a 500.
handleLicenseErr == answer' = IF pro THEN "500" ELSE "402"
Fails == handleLicenseErr /\ UNCHANGED <<pro, kept, sync>>

\* Slip: the stub does as it is told.
SlipCalls(ok, Effect) ==
  \/ Fails
  \/ /\ Effect /\ answer' = ok
     /\ UNCHANGED <<pro, sync>>

\* A call of the Backuper: it fails, and the stub always does, or it does what
\* its name says.
Calls(ok, Effect) ==
  \/ Fails
  \/ /\ pro /\ Effect /\ answer' = ok
     /\ UNCHANGED <<pro, sync>>

\* Listings, verifications, restores: nothing that is modelled changes.
Reads == UNCHANGED kept
-----------------------------------------------------------------------------
(* borg and restic.                                                        *)

MakeRepo(t, n) == repos' = repos \cup {<<t, n>>} /\ UNCHANGED <<held, remotes, jobs>>
MakeBackup(t, n, e) == /\ <<t, n>> \in repos
                       /\ held' = held \cup {<<t, n, e>>} /\ UNCHANGED <<repos, remotes, jobs>>
DropBackup(t, n, e) == /\ <<t, n, e>> \in held
                       /\ held' = held \ {<<t, n, e>>} /\ UNCHANGED <<repos, remotes, jobs>>
Prune(t, n) == /\ \E S \in SUBSET held : held' = held \ {h \in S : h[1] = t /\ h[2] = n}
               /\ UNCHANGED <<repos, remotes, jobs>>

borgInitHandler(n) == IF n = "" THEN BadRequest ELSE Calls("201", MakeRepo("borg", n))

\* The route is registered without an audit log, and the entry about a failure
\* is written to it before the error is looked at: the handler panics, and the
\* middleware Recoverer answers 500.
borgCreateBackupHandler(n, paths, e) ==
  \/ paths = "" /\ BadRequest
  \/ paths # "" /\ answer' = "500" /\ UNCHANGED <<pro, kept, sync>>
  \/ paths # "" /\ pro /\ Calls("201", MakeBackup("borg", n, e))
borgListArchivesHandler(n) == IF n = "" THEN BadRequest ELSE Calls("200", Reads)
borgDeleteArchiveHandler(n, e) == Calls("200", DropBackup("borg", n, e))
borgPruneHandler(n) == Calls("200", Prune("borg", n))
borgRestoreHandler(n, e, target) ==
  IF target = "" THEN BadRequest ELSE Calls("200", <<"borg", n, e>> \in held /\ Reads)
borgVerifyHandler(n, e) == Calls("200", Reads)

resticInitHandler(n) == IF n = "" THEN BadRequest ELSE Calls("201", MakeRepo("restic", n))
resticCreateBackupHandler(n, paths, e) ==
  IF paths = "" THEN BadRequest ELSE Calls("201", MakeBackup("restic", n, e))
resticListSnapshotsHandler(n) == IF n = "" THEN BadRequest ELSE Calls("200", Reads)
resticDeleteSnapshotHandler(n, e) == Calls("200", DropBackup("restic", n, e))
resticRestoreHandler(n, e, target) ==
  IF target = "" THEN BadRequest ELSE Calls("200", <<"restic", n, e>> \in held /\ Reads)
resticVerifyHandler(n, e) == Calls("200", Reads)
-----------------------------------------------------------------------------
(* Remotes.                                                                *)

AddRemote(n, p) ==
  /\ remotes' = Append(SelectSeq(remotes, LAMBDA r : r.name # n), [name |-> n, paths |-> p])
  /\ UNCHANGED <<repos, held, jobs>>
RemoveRemote(n) == /\ remotes' = SelectSeq(remotes, LAMBDA r : r.name # n)
                   /\ UNCHANGED <<repos, held, jobs>>

\* bandwidth: "" for none, "ok" for one of the accepted syntax.
rcloneRemoteAddHandler(n, type, p, bandwidth) ==
  IF n = "" \/ type = "" \/ bandwidth \notin {"", "ok"} THEN BadRequest
  ELSE Calls("201", AddRemote(n, p))
rcloneRemoteRemoveHandler(n) == Calls("200", RemoveRemote(n))
rcloneRemoteListHandler == Calls("200", Reads)

\* The first half of the sync: the remotes are listed and the paths of the one
\* with this name are taken.
Listed(c, n) ==
  /\ sync[c] = NoSync /\ pro
  /\ sync' = [sync EXCEPT ![c] = [name |-> n, paths |-> PathsOf(remotes, n)]]
  /\ UNCHANGED <<pro, kept, answer>>

rcloneSyncHandler(c, n) ==
  \/ n = "" /\ BadRequest
  \/ n # "" /\ Fails
  \/ n # "" /\ Listed(c, n)

\* The second half: RcloneSync with the name and those paths, of a remote that
\* may have been changed or removed in between.
SyncEnds(c) ==
  /\ sync[c] # NoSync
  /\ answer' \in {"200", "500"}
  /\ sync' = [sync EXCEPT ![c] = NoSync]
  /\ UNCHANGED <<pro, kept>>
-----------------------------------------------------------------------------
(* Jobs, and the routes that only read.                                    *)

backupStatusHandler == Calls("200", Reads)
backupJobsHandler == Calls("200", Reads)
createBackupJobHandler(j) == Calls("201", jobs' = jobs \cup {j} /\ UNCHANGED <<repos, held, remotes>>)
updateBackupJobHandler(j) == Calls("200", j \in jobs /\ Reads)
deleteBackupJobHandler(j) == Calls("200", jobs' = jobs \ {j} /\ UNCHANGED <<repos, held, remotes>>)
runBackupJobHandler(j) == Calls("200", j \in jobs /\ Reads)
backupJobRunsHandler(j) == Calls("200", Reads)
backupJobRunHandler(j) == Calls("200", Reads)
\* The log of a run is a file of nasd itself; no call of the Backuper.
backupJobRunLogHandler(j) ==
  answer' \in {"404", "500", "200"} /\ UNCHANGED <<pro, kept, sync>>
restorePointsHandler(type, n) ==
  IF type = "" \/ n = "" THEN BadRequest ELSE Calls("200", Reads)
cloudCostEstimateHandler == Calls("200", Reads)

RepoNext ==
  \/ backupJobsHandler \/ backupStatusHandler \/ cloudCostEstimateHandler
  \/ \E n \in Field :
       \/ borgInitHandler(n) \/ borgListArchivesHandler(n) \/ borgPruneHandler(n)
       \/ resticInitHandler(n) \/ resticListSnapshotsHandler(n)
       \/ \E t \in {"", "borg", "restic"} : restorePointsHandler(t, n)
       \/ \E e \in Entry :
            \/ borgDeleteArchiveHandler(n, e) \/ resticDeleteSnapshotHandler(n, e)
            \/ borgVerifyHandler(n, e) \/ resticVerifyHandler(n, e)
            \/ \E p \in Paths \cup {""} :
                 \/ borgCreateBackupHandler(n, p, e) \/ resticCreateBackupHandler(n, p, e)
                 \/ borgRestoreHandler(n, e, p) \/ resticRestoreHandler(n, e, p)
  \/ \E j \in Entry :
       \/ createBackupJobHandler(j) \/ updateBackupJobHandler(j) \/ deleteBackupJobHandler(j)
       \/ runBackupJobHandler(j) \/ backupJobRunsHandler(j) \/ backupJobRunHandler(j)
       \/ backupJobRunLogHandler(j)

RemoteNext ==
  \/ rcloneRemoteListHandler
  \/ \E n \in Field, p \in Paths, type \in {"", "b2"}, bandwidth \in {"", "ok", "bad"} :
       rcloneRemoteAddHandler(n, type, p, bandwidth)
  \/ \E n \in Target : rcloneRemoteRemoveHandler(n)
  \/ \E c \in Caller : SyncEnds(c) \/ \E n \in Field : rcloneSyncHandler(c, n)

BackupNext == RepoNext \/ RemoteNext
BackupSpec == BackupInit /\ [][BackupNext]_backupVars
-----------------------------------------------------------------------------
\* The stub keeps nothing and starts nothing (backup_stub.go), repositories
\* hold what was stored, and a sync has its name (backup_handlers.go).
BackupTypeOK ==
  /\ pro \in BOOLEAN
  /\ ~pro => repos = {} /\ held = {} /\ remotes = <<>> /\ jobs = {}
  /\ \A h \in held : <<h[1], h[2]>> \in repos
  /\ \A c \in Caller : sync[c].name \in Field
=============================================================================
