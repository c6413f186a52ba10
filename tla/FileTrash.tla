----------------------------- MODULE FileTrash -----------------------------
(***************************************************************************)
(* The trash of the file manager (internal/storage/linux.go, behind        *)
(* internal/api/files.go).  FileDelete renames a file into the trash       *)
(* directory of its pool, under its path with "_" for "/" and the second   *)
(* of the deletion, and then writes a sidecar (.meta) with the path.       *)
(* TrashRestore reads the sidecar, renames the file back and removes the   *)
(* sidecar; TrashEmpty removes what it listed.  There is no lock: the      *)
(* steps of requests interleave, and rename replaces what is in its way.   *)
(*                                                                         *)
(* A file outside of all pools goes to the trash of the mount point        *)
(* (Root), which the first TrashList of a process moves into a pool,       *)
(* entry by entry, leaving behind what cannot be moved.                    *)
(* Files are numbered; number 0 is "no file".                              *)
(***************************************************************************)
EXTENDS Integers, FiniteSets, Functions

CONSTANTS
    Path,      \* the paths of files
    Pool,      \* the mounted pools
    Root,      \* the mount point of all pools
    DirOf,     \* DirOf[p]: the trash directory FileDelete chooses for p
    Flat,      \* Flat[p]: the path with its slashes replaced
    Fallback,  \* Fallback[d, f]: where a file without a sidecar is restored to
    FirstPool, \* arrays[0]
    Request,   \* requests that may be under way at the same time
    MaxFiles,  \* bound: files ever made
    MaxTime,   \* bound: the clock
    MaxRestarts

Dir == Pool \cup {Root}

ASSUME TrashAssumption ==
    /\ Root \notin Pool /\ FirstPool \in Pool /\ DirOf \in [Path -> Dir]
    /\ \A d \in Dir, p \in Path : Fallback[d, Flat[p]] \in Path

VARIABLES
    now,       \* the second
    files,     \* files[p]: the file at p, or 0
    bin,       \* bin[d]: the files in a trash directory, by name
    meta,      \* meta[d]: the sidecars in it, by the same names
    req,       \* req[r]: where a request is
    migrated,  \* trashMigrated of this process
    made,      \* how many files were made
    origin,    \* origin[n]: the path file n was deleted from
    gone,      \* the files that were emptied or replaced by a rename
    calm,      \* no two requests overlapped, no sidecar failed, no name was reused
    restarts

vars == <<now, files, bin, meta, req, migrated, made, origin, gone, calm, restarts>>

Empty == [x \in {} |-> 0]
Put(f, x, v) == [y \in DOMAIN f \cup {x} |-> IF y = x THEN v ELSE f[y]]
Drop(f, x) == Restrict(f, DOMAIN f \ {x})
At(f, x) == IF x \in DOMAIN f THEN f[x] ELSE 0
Idle == [pc |-> "idle"]

Begin(r, q) ==
    /\ req[r] = Idle
    /\ req' = [req EXCEPT ![r] = q]

Alone == \A r \in Request : req[r] = Idle

Finish(r) == req' = [req EXCEPT ![r] = Idle]

-----------------------------------------------------------------------------
(* FileDelete.                                                             *)

trashName(p) == <<Flat[p], now>>

FileDelete(r, p) ==
    LET d == DirOf[p]
        n == trashName(p)
    IN  /\ files[p] # 0
        /\ Begin(r, [pc |-> "meta", dir |-> d, name |-> n, path |-> p])
        /\ bin' = [bin EXCEPT ![d] = Put(@, n, files[p])]
        /\ gone' = gone \cup ({At(bin[d], n)} \ {0})
        /\ files' = [files EXCEPT ![p] = 0]
        /\ origin' = Put(origin, files[p], p)
        /\ calm' = (calm /\ Alone /\ n \notin DOMAIN bin[d] \cup DOMAIN meta[d])
        /\ UNCHANGED <<now, meta, migrated, made, restarts>>

SlipWriteMeta(r) ==
    /\ req[r].pc = "meta"
    /\ meta' = [meta EXCEPT ![req[r].dir] = Put(@, req[r].name, Fallback[req[r].dir, Flat[req[r].path]])]
    /\ Finish(r)
    /\ UNCHANGED <<now, files, bin, migrated, made, origin, gone, calm, restarts>>

WriteMeta(r) ==
    /\ req[r].pc = "meta"
    /\ meta' = [meta EXCEPT ![req[r].dir] = Put(@, req[r].name, req[r].path)]
    /\ Finish(r)
    /\ UNCHANGED <<now, files, bin, migrated, made, origin, gone, calm, restarts>>

\* A sidecar that cannot be written is not an error.
WriteMetaFails(r) ==
    /\ req[r].pc = "meta"
    /\ Finish(r)
    /\ calm' = FALSE
    /\ UNCHANGED <<now, files, bin, meta, migrated, made, origin, gone, restarts>>

-----------------------------------------------------------------------------
(* TrashRestore.                                                           *)

\* The path in the sidecar, or the name of the file in the mount point.
origPath(d, n) == IF n \in DOMAIN meta[d] THEN meta[d][n] ELSE Fallback[d, n[1]]

\* A path that is in no trash directory ends with the failing rename.
TrashRestore(r, d, n) ==
    /\ Begin(r, [pc |-> "rename", dir |-> d, name |-> n, to |-> origPath(d, n)])
    /\ calm' = (calm /\ Alone)
    /\ UNCHANGED <<now, files, bin, meta, migrated, made, origin, gone, restarts>>

SlipRename(r) ==
    LET q == req[r]
    IN  /\ q.pc = "rename" /\ q.name \in DOMAIN bin[q.dir]
        /\ files' = IF files[q.to] # 0 THEN files ELSE [files EXCEPT ![q.to] = bin[q.dir][q.name]]
        /\ bin' = [bin EXCEPT ![q.dir] = Drop(@, q.name)]
        /\ req' = [req EXCEPT ![r].pc = "unmeta"]
        /\ UNCHANGED <<now, meta, migrated, made, origin, gone, calm, restarts>>

Rename(r) ==
    LET q == req[r]
    IN  /\ q.pc = "rename" /\ q.name \in DOMAIN bin[q.dir]
        /\ gone' = gone \cup ({files[q.to]} \ {0})
        /\ files' = [files EXCEPT ![q.to] = bin[q.dir][q.name]]
        /\ bin' = [bin EXCEPT ![q.dir] = Drop(@, q.name)]
        /\ req' = [req EXCEPT ![r].pc = "unmeta"]
        /\ UNCHANGED <<now, meta, migrated, made, origin, calm, restarts>>

\* The file is not there any more, or its directory is gone.
RenameFails(r) ==
    /\ req[r].pc = "rename"
    /\ Finish(r)
    /\ UNCHANGED <<now, files, bin, meta, migrated, made, origin, gone, calm, restarts>>

RemoveMeta(r) ==
    /\ req[r].pc = "unmeta"
    /\ meta' = [meta EXCEPT ![req[r].dir] = Drop(@, req[r].name)]
    /\ Finish(r)
    /\ UNCHANGED <<now, files, bin, migrated, made, origin, gone, calm, restarts>>

-----------------------------------------------------------------------------
(* TrashEmpty and TrashList.                                               *)

\* What the walk over the pools' trash directories is going to visit.
TrashEmpty(r) ==
    /\ LET names(d) == DOMAIN bin[d] \cup DOMAIN meta[d]
           found == {e \in Pool \X UNION {names(d) : d \in Pool} : e[2] \in names(e[1])}
       IN  Begin(r, [pc |-> "empty", todo |-> found])
    /\ calm' = (calm /\ Alone)
    /\ UNCHANGED <<now, files, bin, meta, migrated, made, origin, gone, restarts>>

\* A file and its sidecar, neighbours in the walk.
Unlink(r, d, n) ==
    /\ req[r].pc = "empty" /\ <<d, n>> \in req[r].todo
    /\ req' = [req EXCEPT ![r].todo = @ \ {<<d, n>>}]
    /\ gone' = gone \cup ({At(bin[d], n)} \ {0})
    /\ bin' = [bin EXCEPT ![d] = Drop(@, n)]
    /\ meta' = [meta EXCEPT ![d] = Drop(@, n)]
    /\ UNCHANGED <<now, files, migrated, made, origin, calm, restarts>>

Emptied(r) ==
    /\ req[r].pc = "empty" /\ req[r].todo = {}
    /\ Finish(r)
    /\ UNCHANGED <<now, files, bin, meta, migrated, made, origin, gone, calm, restarts>>

\* The first listing of a process moves the trash of the mount point into a pool,
\* unless it cannot be read or no pool is listed.
migrateLegacyTrash(r) ==
    /\ ~migrated
    /\ migrated' = TRUE
    /\ \/ Begin(r, [pc |-> "migrate", todo |-> DOMAIN bin[Root] \cup DOMAIN meta[Root]])
       \/ req[r] = Idle /\ UNCHANGED req
    /\ calm' = (calm /\ Alone)
    /\ UNCHANGED <<now, files, bin, meta, made, origin, gone, restarts>>

Moved(f, n, done) ==
    IF done /\ n \in DOMAIN f[Root]
      THEN [f EXCEPT ![FirstPool] = Put(@, n, f[Root][n]), ![Root] = Drop(@, n)]
      ELSE f

\* A file and its sidecar, neighbours in the listing; a rename that fails, as one
\* to another file system does, is logged only.
MigrateEntry(r, n) ==
    /\ req[r].pc = "migrate" /\ n \in req[r].todo
    /\ req' = [req EXCEPT ![r].todo = @ \ {n}]
    /\ \E file, sidecar \in BOOLEAN :
          /\ bin' = Moved(bin, n, file)
          /\ meta' = Moved(meta, n, sidecar)
          /\ gone' = IF file /\ n \in DOMAIN bin[Root] THEN gone \cup ({At(bin[FirstPool], n)} \ {0}) ELSE gone
          /\ calm' = (calm /\ file = sidecar /\ n \notin DOMAIN bin[FirstPool] \cup DOMAIN meta[FirstPool])
    /\ UNCHANGED <<now, files, migrated, made, origin, restarts>>

Migrated(r) ==
    /\ req[r].pc = "migrate" /\ req[r].todo = {}
    /\ Finish(r)
    /\ UNCHANGED <<now, files, bin, meta, migrated, made, origin, gone, calm, restarts>>

-----------------------------------------------------------------------------
(* The handlers; safePath refuses what is outside of the mount point.      *)

fileDeleteHandler(r, p) == FileDelete(r, p)
trashRestoreHandler(r, d, n) == TrashRestore(r, d, n)
trashEmptyHandler(r) == TrashEmpty(r)
trashListHandler(r) == migrateLegacyTrash(r)

-----------------------------------------------------------------------------
\* A user puts a new file to a free path.
NewFile(p) ==
    /\ files[p] = 0 /\ made < MaxFiles
    /\ made' = made + 1
    /\ files' = [files EXCEPT ![p] = made + 1]
    /\ UNCHANGED <<now, bin, meta, req, migrated, origin, gone, calm, restarts>>

Second ==
    /\ now < MaxTime
    /\ now' = now + 1
    /\ UNCHANGED <<files, bin, meta, req, migrated, made, origin, gone, calm, restarts>>

\* The daemon ends, with its requests where they are, and starts again.
Restart ==
    /\ restarts < MaxRestarts
    /\ restarts' = restarts + 1
    /\ calm' = (calm /\ Alone)
    /\ req' = [r \in Request |-> Idle]
    /\ migrated' = FALSE
    /\ UNCHANGED <<now, files, bin, meta, made, origin, gone>>

Init ==
    /\ now = 0
    /\ files = [p \in Path |-> 0]
    /\ bin = [d \in Dir |-> Empty] /\ meta = [d \in Dir |-> Empty]
    /\ req = [r \in Request |-> Idle]
    /\ migrated = FALSE /\ made = 0 /\ origin = Empty /\ gone = {}
    /\ calm = TRUE /\ restarts = 0

Next ==
    \/ \E p \in Path : NewFile(p)
    \/ Second \/ Restart
    \/ \E r \in Request :
          \/ \E p \in Path : fileDeleteHandler(r, p)
          \/ WriteMeta(r) \/ WriteMetaFails(r)
          \/ \E d \in Dir : \E n \in DOMAIN bin[d] : trashRestoreHandler(r, d, n)
          \/ Rename(r) \/ RenameFails(r) \/ RemoveMeta(r)
          \/ trashEmptyHandler(r) \/ Emptied(r)
          \/ req[r].pc = "empty" /\ \E e \in req[r].todo : Unlink(r, e[1], e[2])
          \/ trashListHandler(r) \/ Migrated(r)
          \/ req[r].pc = "migrate" /\ \E n \in req[r].todo : MigrateEntry(r, n)

Spec == Init /\ [][Next]_vars

-----------------------------------------------------------------------------
(* Properties.                                                             *)

Restored(p) == files[p] # files'[p] /\ files'[p] \in DOMAIN origin

\* A deleted file is in the trash or back in the tree, however requests overlap
\* and wherever a restart cuts them, unless it was emptied or a later rename
\* replaced it: no other step of the trash loses a file.
NothingElseLost ==
    \A n \in 1..made : \/ n \in gone
                       \/ \E p \in Path : files[p] = n
                       \/ \E d \in Dir : \E x \in DOMAIN bin[d] : bin[d][x] = n

RestoresOrigin == calm' => \A p \in Path : Restored(p) => p = origin[files'[p]]

\* Requests that do not overlap, with sidecars that are written and names that
\* differ, restore a file to the path it was deleted from.
SerialRestore == [][RestoresOrigin]_vars
=============================================================================
