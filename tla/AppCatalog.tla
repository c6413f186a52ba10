----------------------------- MODULE AppCatalog -----------------------------
(***************************************************************************)
(* The deployed apps: the manager of internal/appcatalog/catalog.go, whose *)
(* jobs (deploy, start, stop, remove) run in goroutines, and the update,   *)
(* rollback and import of internal/storage/linux.go, which run in their    *)
(* request.  They share the list of apps, the directory of an app with its *)
(* compose file, its data and its backups, and its containers.  Nothing    *)
(* keeps two of them from working on one app at the same time.             *)
(*                                                                         *)
(* docker-compose is external: it fails where there is no compose file, it *)
(* may fail for any other reason, and it stops for good when its output is *)
(* not read any more (runCompose reads it through a bufio.Scanner, which   *)
(* gives up on an overlong line).                                          *)
(***************************************************************************)
EXTENDS Integers, Sequences, FiniteSets

CONSTANTS
    App,      \* the templates of the catalog
    Job,      \* the identifiers of jobs and requests, each used once
    Overlong, \* whether docker-compose may print an overlong line
    MaxData,  \* bound: the states of an app's data
    MaxAppRestarts

\* No template has the name that stands for "no app".
ASSUME AppAssumption == "none" \notin App

VARIABLES
    apps,     \* m.apps: the names of the deployed apps, in order
    appsFile, \* apps.json
    dir,      \* dir[a]: the directory of an app
    up,       \* up[a]: its containers: "none", "up" or "stopped"
    appJobs,  \* appJobs[j]: a job or request, and where it is
    mixed,    \* the apps whose jobs overlapped or were cut by a restart
    appRestarts

appVars == <<apps, appsFile, dir, up, appJobs, mixed, appRestarts>>

NoDir == [there |-> FALSE, compose |-> FALSE, data |-> 0, backups |-> {}]
NoJob == [app |-> "none", action |-> "none", status |-> "none", pc |-> "none", want |-> 0]

Busy(a) == \E j \in Job : appJobs[j].app = a /\ appJobs[j].pc # "end"

\* A job in a goroutine, or a request that works on the app itself.
startJob(j, a, action, pc, want) ==
    /\ appJobs[j] = NoJob
    /\ appJobs' = [appJobs EXCEPT ![j] = [app |-> a, action |-> action, status |-> "running",
                                    pc |-> pc, want |-> want]]
    /\ mixed' = IF Busy(a) THEN mixed \cup {a} ELSE mixed
    /\ UNCHANGED <<apps, appsFile, dir, up, appRestarts>>

finish(j, status) == appJobs' = [appJobs EXCEPT ![j].status = status, ![j].pc = "end"]

Go(j, pc) == appJobs' = [appJobs EXCEPT ![j].pc = pc]

\* Any step of a job but the ones that ignore errors may fail and end the job
\* (an import that could not write fails at its docker compose up -d).
Fails(j) ==
    /\ appJobs[j].pc \in {"mkdir", "write", "pull", "up", "down", "start", "stop", "again"}
    /\ finish(j, "failed")
    /\ UNCHANGED <<apps, appsFile, dir, up, mixed, appRestarts>>

-----------------------------------------------------------------------------
(* Manager.                                                                *)

Listed(a) == \E i \in DOMAIN apps : apps[i] = a

Deploy(j, a) == ~Listed(a) /\ startJob(j, a, "deploy", "mkdir", 0)

Start(j, a) == Listed(a) /\ startJob(j, a, "start", "start", 0)
Stop(j, a) == Listed(a) /\ startJob(j, a, "stop", "stop", 0)
ManagerRemove(j, a) == Listed(a) /\ startJob(j, a, "remove", "down", 0)

MkdirAll(j) ==
    LET a == appJobs[j].app
    IN  /\ appJobs[j].pc = "mkdir"
        /\ dir' = [dir EXCEPT ![a].there = TRUE]
        /\ Go(j, "write")
        /\ UNCHANGED <<apps, appsFile, up, mixed, appRestarts>>

\* The directory may have been removed since.
WriteCompose(j) ==
    LET a == appJobs[j].app
    IN  /\ appJobs[j].pc = "write" /\ dir[a].there
        /\ dir' = [dir EXCEPT ![a].compose = TRUE]
        /\ Go(j, IF appJobs[j].action = "import" THEN "again" ELSE "pull")
        /\ UNCHANGED <<apps, appsFile, up, mixed, appRestarts>>

\* docker-compose needs the directory and the compose file.
runCompose(j) == dir[appJobs[j].app].there /\ dir[appJobs[j].app].compose

Pull(j) ==
    /\ appJobs[j].pc = "pull" /\ runCompose(j)
    /\ Go(j, "up")
    /\ UNCHANGED <<apps, appsFile, dir, up, mixed, appRestarts>>

Up(j) ==
    /\ appJobs[j].pc = "up" /\ runCompose(j)
    /\ up' = [up EXCEPT ![appJobs[j].app] = "up"]
    /\ Go(j, "list")
    /\ UNCHANGED <<apps, appsFile, dir, mixed, appRestarts>>

save(list) == appsFile' \in {list, appsFile}

\* The app is listed, under the lock; an error of save is ignored.
AddApp(j) ==
    /\ appJobs[j].pc = "list"
    /\ apps' = Append(apps, appJobs[j].app)
    /\ save(apps')
    /\ finish(j, "done")
    /\ UNCHANGED <<dir, up, mixed, appRestarts>>

StartStop(j) ==
    /\ appJobs[j].pc \in {"start", "stop"} /\ runCompose(j)
    /\ LET a == appJobs[j].app
       IN  up' = [up EXCEPT ![a] = IF @ = "none" THEN "none"
                                   ELSE IF appJobs[j].pc = "start" THEN "up" ELSE "stopped"]
    /\ finish(j, "done")
    /\ UNCHANGED <<apps, appsFile, dir, mixed, appRestarts>>

SlipDown(j) ==
    /\ appJobs[j].pc = "down"
    /\ \/ runCompose(j) /\ up' = [up EXCEPT ![appJobs[j].app] = "none"]
       \/ UNCHANGED up
    /\ Go(j, "rm")
    /\ UNCHANGED <<apps, appsFile, dir, mixed, appRestarts>>

Down(j) ==
    /\ appJobs[j].pc = "down" /\ runCompose(j)
    /\ up' = [up EXCEPT ![appJobs[j].app] = "none"]
    /\ Go(j, "rm")
    /\ UNCHANGED <<apps, appsFile, dir, mixed, appRestarts>>

\* What os.RemoveAll may leave of a directory: nothing, or what it could not
\* remove.
Left(d, kept) == [d EXCEPT !.compose = kept.compose, !.data = kept.data, !.backups = kept.backups]
Remnants(d) ==
    {NoDir} \cup {Left(d, kept) : kept \in [compose : {d.compose, FALSE}, data : {d.data, 0},
                                            backups : SUBSET d.backups]}

\* Its error is ignored.
RemoveAll(j) ==
    LET a == appJobs[j].app
    IN  /\ appJobs[j].pc = "rm"
        /\ \E d \in Remnants(dir[a]) : dir' = [dir EXCEPT ![a] = d]
        /\ Go(j, "unlist")
        /\ UNCHANGED <<apps, appsFile, up, mixed, appRestarts>>

SlipUnlisted(a) == apps

\* The list without its first entry of the app: the entries after it move up.
Unlisted(a) ==
    IF ~Listed(a) THEN apps
    ELSE [i \in 1..(Len(apps) - 1) |-> IF \E k \in 1..i : apps[k] = a THEN apps[i + 1] ELSE apps[i]]

RemoveApp(j) ==
    /\ appJobs[j].pc = "unlist"
    /\ apps' = Unlisted(appJobs[j].app)
    /\ save(apps')
    /\ finish(j, "done")
    /\ UNCHANGED <<dir, up, mixed, appRestarts>>

\* The output is not read any more and docker-compose blocks.
Stall(j) ==
    /\ Overlong /\ appJobs[j].pc \in {"pull", "up", "down", "start", "stop"}
    /\ Go(j, "stalled")
    /\ UNCHANGED <<apps, appsFile, dir, up, mixed, appRestarts>>

-----------------------------------------------------------------------------
(* The requests of the storage provider.                                   *)

\* appDir finds the app by its compose file, listed or not.
appDir(a) == dir[a].there /\ dir[a].compose

AppUpdate(j, a, backup) ==
    /\ appDir(a)
    /\ startJob(j, a, "update", IF backup THEN "backup" ELSE "pullq", 0)

\* The directory is copied into a new directory of its own backups.
Backup(j) ==
    LET a == appJobs[j].app
    IN  /\ appJobs[j].pc = "backup"
        /\ dir' = [dir EXCEPT ![a].there = TRUE, ![a].backups = @ \cup {dir[a].data}]
        /\ Go(j, "pullq")
        /\ UNCHANGED <<apps, appsFile, up, mixed, appRestarts>>

\* An error of the pull is ignored.
PullQuietly(j) ==
    /\ appJobs[j].pc = "pullq"
    /\ Go(j, "again")
    /\ UNCHANGED <<apps, appsFile, dir, up, mixed, appRestarts>>

AppRollback(j, a, b) ==
    /\ appDir(a) /\ b \in dir[a].backups
    /\ startJob(j, a, "rollback", "wipe", b)

Wipe(j) ==
    LET a == appJobs[j].app
    IN  /\ appJobs[j].pc = "wipe"
        /\ \E d \in Remnants(dir[a]) : dir' = [dir EXCEPT ![a] = d]
        /\ Go(j, "copy")
        /\ UNCHANGED <<apps, appsFile, up, mixed, appRestarts>>

\* What is left of the backup is copied.
CopyBack(j) ==
    LET a == appJobs[j].app
        b == appJobs[j].want
    IN  /\ appJobs[j].pc = "copy"
        /\ dir' = IF b \in dir[a].backups
                    THEN [dir EXCEPT ![a].there = TRUE, ![a].compose = TRUE, ![a].data = b]
                    ELSE dir
        /\ Go(j, "again")
        /\ UNCHANGED <<apps, appsFile, up, mixed, appRestarts>>

\* The last docker compose up -d of the three requests.
UpAgain(j) ==
    /\ appJobs[j].pc = "again" /\ runCompose(j)
    /\ up' = [up EXCEPT ![appJobs[j].app] = "up"]
    /\ finish(j, "done")
    /\ UNCHANGED <<apps, appsFile, dir, mixed, appRestarts>>

AppImportConfig(j, a) == startJob(j, a, "import", "mkdir", 0)

-----------------------------------------------------------------------------
(* The handlers of the manager's jobs and of the provider's requests.      *)

deployAppHandler(j, a) == Deploy(j, a)
removeAppHandler(j, a) == ManagerRemove(j, a)
appActionHandler(j, a, action) ==
    (action = "start" /\ Start(j, a)) \/ (action = "stop" /\ Stop(j, a))

\* A body that cannot be decoded is an update without a backup.
appUpdateHandler(j, a, backup) == AppUpdate(j, a, backup)
appRollbackHandler(j, a, b) == AppRollback(j, a, b)
appImportConfigHandler(j, a) == AppImportConfig(j, a)

-----------------------------------------------------------------------------
\* A running app changes its data.
AppWrites(a) ==
    /\ up[a] = "up" /\ dir[a].there /\ dir[a].data < MaxData
    /\ dir' = [dir EXCEPT ![a].data = @ + 1]
    /\ UNCHANGED <<apps, appsFile, up, appJobs, mixed, appRestarts>>

\* The daemon ends and starts again: NewManager loads the list.
NewManager ==
    /\ appRestarts < MaxAppRestarts
    /\ appRestarts' = appRestarts + 1
    /\ apps' = appsFile
    /\ mixed' = mixed \cup {a \in App : Busy(a)} \cup {a \in App : appsFile # apps}
    /\ appJobs' = [j \in Job |-> IF appJobs[j] = NoJob THEN NoJob
                                 ELSE [appJobs[j] EXCEPT !.pc = "end"]]
    /\ UNCHANGED <<appsFile, dir, up>>

AppInit ==
    /\ apps = <<>> /\ appsFile = <<>>
    /\ dir = [a \in App |-> NoDir]
    /\ up = [a \in App |-> "none"]
    /\ appJobs = [j \in Job |-> NoJob]
    /\ mixed = {} /\ appRestarts = 0

step(j) ==
    \/ Fails(j) \/ MkdirAll(j) \/ WriteCompose(j) \/ Pull(j) \/ Up(j) \/ AddApp(j) \/ StartStop(j)
    \/ Down(j) \/ RemoveAll(j) \/ RemoveApp(j) \/ Stall(j)
    \/ Backup(j) \/ PullQuietly(j) \/ Wipe(j) \/ CopyBack(j) \/ UpAgain(j)

AppNext ==
    \/ \E j \in Job : step(j)
    \/ \E j \in Job, a \in App :
          \/ deployAppHandler(j, a) \/ removeAppHandler(j, a) \/ appImportConfigHandler(j, a)
          \/ \E action \in {"start", "stop"} : appActionHandler(j, a, action)
          \/ \E backup \in BOOLEAN : appUpdateHandler(j, a, backup)
          \/ \E b \in 0..MaxData : appRollbackHandler(j, a, b)
    \/ \E a \in App : AppWrites(a)
    \/ NewManager

AppSpec == AppInit /\ [][AppNext]_appVars

\* A goroutine goes on while docker-compose does.
AppFairSpec == AppSpec /\ \A j \in Job : WF_appVars(step(j))

-----------------------------------------------------------------------------
(* Properties.                                                             *)

Ends(j, action) ==
    appJobs[j].pc # "end" /\ appJobs'[j].pc = "end" /\ appJobs[j].action = action

\* Jobs of an app that do not overlap list it at most once, whatever fails and
\* although Deploy looks at the list long before it appends to it.
ListedOnce ==
    \A a \in App \ mixed : Cardinality({i \in DOMAIN apps : apps[i] = a}) <= 1

\* A remove that is shown as done, on an app with no other job in between, has
\* left no containers and no entry, whatever happened to the directory: nothing
\* goes on running that is not listed any more.
RemovesAll ==
    \A j \in Job : LET a == appJobs[j].app IN
       Ends(j, "remove") /\ appJobs'[j].status = "done" /\ a \notin mixed =>
          up'[a] = "none" /\ \A i \in DOMAIN apps' : apps'[i] # a

RemovedClean == [][RemovesAll]_appVars

\* An app that is listed and idle, whose jobs never overlapped and that was not
\* rolled back, has its compose file: it can be started, stopped and removed.
HasCompose ==
    \A a \in App \ mixed :
       /\ Listed(a) /\ ~Busy(a)
       /\ ~\E j \in Job : appJobs[j].app = a /\ appJobs[j].action = "rollback"
       => dir[a].there /\ dir[a].compose

\* Jobs of an app that do not overlap leave it listed at most once, and with its
\* compose file while it is.
Manageable == HasCompose /\ ListedOnce

\* A job of the manager ends, unless docker-compose is blocked on output that
\* nobody reads.
JobEnds ==
    \A j \in Job : appJobs[j].status = "running" /\ appJobs[j].pc # "end"
                      ~> appJobs[j].pc \in {"end", "stalled"}

\* docs/admin/apps.md: "Rollback: Restore a previous backup directory and re-run
\* docker compose up -d": after a rollback with nothing else under way the data
\* of the app is that of the backup.
RestoresBackup ==
    \A j \in Job : LET a == appJobs[j].app IN
       Ends(j, "rollback") /\ a \notin mixed /\ appRestarts' = appRestarts =>
          dir'[a].data = appJobs[j].want /\ dir'[a].there

RollbackRestores == [][RestoresBackup]_appVars
=============================================================================
