------------------------------ MODULE MCFiles ------------------------------
(***************************************************************************)
(* What the requests of nasd do to files without a lock, for TLC: the      *)
(* trash, the share links, the file manager and the directories of the     *)
(* apps.  They share no state but the clock; each is explored on its own   *)
(* (focus) while the others stay in their first state.                     *)
(***************************************************************************)
EXTENDS FileTrash, ShareLinks, AppCatalog, TLC

VARIABLES
    focus,
    tree, walk, scope, upload,
    asked   \* requests to the file manager so far

trashVars == <<files, bin, meta, req, migrated, made, origin, gone, calm>>
treeVars == <<tree, walk, scope, upload, asked>>
all == <<focus, now, restarts, trashVars, linkVars, appVars, treeVars>>
-----------------------------------------------------------------------------
(* The instances.  FileTrash and ShareLinks get their constants from the   *)
(* .cfg.  The trash has a path of a pool, a path outside of the pool, and  *)
(* the place the fallback restores to; the links are two, with requests    *)
(* that overlap and writes that fail.                                      *)

Paths == {"tank/a/b", "other", "tank/flat"}
Dirs == [p \in Paths |-> IF p = "other" THEN Root ELSE "tank"]
Flats == "other" :> "other" @@ "tank/flat" :> "tank_flat" @@ "tank/a/b" :> "tank_a_b"
Fallbacks == [d \in {"tank", Root}, f \in {"other", "tank_a_b", "tank_flat"} |-> "tank/flat"]

\* Two pools, the name of one the beginning of the other's.
Manager == INSTANCE FileManager WITH
    Pool <- {<<"t">>, <<"t", "2">>}, Name <- {<<"a">>, <<"b">>}, MaxDepth <- 4, req <- walk

MCInit ==
    /\ focus \in {"trash", "links", "apps", "walks", "symlinks", "pools", "attributes"}
    /\ Init /\ LinkInit /\ AppInit
    /\ Manager!FileInit /\ asked = 0
    /\ \E p \in (IF focus \in {"pools", "attributes"} THEN {<<"t">>, <<"t", "2">>} ELSE {<<"t">>}) :
        <<<<"mnt">>, p, <<"a">>, <<"a">>>> \in DOMAIN tree
    /\ focus \notin {"symlinks", "pools", "attributes"} => \A p \in DOMAIN tree : tree[p].kind # "symlink"

\* Requests overlap within the first second, before and after the restart; in
\* the next second they follow one another.
TrashScope ==
    now > 0 => restarts = 0 /\ \A r, s \in Request : r = s \/ req[r] = Idle \/ req[s] = Idle

TrashStep(A) == focus = "trash" /\ A /\ TrashScope' /\ UNCHANGED <<focus, linkVars, appVars, treeVars>>
LinkStep(A) == focus = "links" /\ A /\ UNCHANGED <<focus, now, restarts, trashVars, appVars, treeVars>>
AppStep(A) == focus = "apps" /\ A /\ UNCHANGED <<focus, now, restarts, trashVars, linkVars, treeVars>>

\* A request, of which there are at most n, and a step of one under way.
Ask(f, n, A) == focus = f /\ A /\ asked < n /\ asked' = asked + 1
                  /\ UNCHANGED <<focus, now, restarts, trashVars, linkVars, appVars>>
Goes(f, A) == focus = f /\ A
                /\ UNCHANGED <<focus, now, restarts, trashVars, linkVars, appVars, asked>>

MCNext ==
    \/ TrashStep(Next)
    \/ LinkStep(LinkNext)
    \/ AppStep(AppNext)
    \/ \E f \in {"walks", "symlinks"} :
        Ask(f, IF f = "walks" THEN 2 ELSE 1,
            \/ Manager!fileRenameHandler
            \/ \E r \in Request : Manager!fileCopyHandler(r) \/ Manager!bulkMoveHandler(r))
    \/ Goes(focus, focus \in {"walks", "symlinks"} /\ \E r \in Request : Manager!copyDir(r) \/ Manager!CopyEnds(r) \/ Manager!BulkMove(r))
    \/ Ask("pools", 3, \E p \in {<<"t">>, <<"t", "2">>} :
                          \/ Manager!filesDeleteHandler(p) \/ Manager!filesMkdirHandler(p)
                          \/ Manager!filesMoveHandler(p))
    \/ Ask("attributes", 3, \/ Manager!fileChmodHandler \/ Manager!fileChownHandler
                            \/ \E p \in Manager!Raw, body \in {"form", "broken form", "other"} :
                                  Manager!fileUploadHandler(p, body))

MCSpec == MCInit /\ [][MCNext]_all

\* The behaviours of one of them.
RollbackSpec == MCInit /\ focus = "apps" /\ [][MCNext]_all
UploadSpec == MCInit /\ focus = "attributes" /\ [][MCNext]_all

\* Caller are the same requests as Request.
Symmetry == Permutations(Request) \cup Permutations(Link)
-----------------------------------------------------------------------------
\* A copy that nothing disturbed is complete, and a request changes and shows only
\* what is in the pool it names or what a link in there leads to; an archive
\* follows no link out of /mnt (FileManager).
TreeChange == focus \in {"walks", "symlinks", "pools", "attributes"} => Manager!CopyComplete /\ Manager!InScope
CopiesInScope == [][TreeChange]_all /\ [](focus = "pools" => Manager!ReadsInScope)

\* A file that is uploaded is there afterwards (FileManager!UploadStored).
UploadStored == Manager!UploadStored
=============================================================================
