---------------------------- MODULE FileManager ----------------------------
(***************************************************************************)
(* The file manager: the handlers of internal/api/files.go, which take     *)
(* absolute paths below /mnt, those of internal/api/router.go, which take  *)
(* a pool and a path in it, and the operations of linuxProvider behind     *)
(* them.  Trash and share links are modules of their own.  A copy of a     *)
(* directory is a walk that takes as many steps as there are files; a bulk *)
(* move is one rename after the other; other requests come in between.     *)
(*                                                                         *)
(* A path is a sequence of names, a name a sequence of characters.  Users  *)
(* of a share leave symbolic links in the pools, which the kernel follows  *)
(* whatever the handlers think of the path; no route makes one.  The       *)
(* route of filesRenameHandler is taken by fileRenameHandler, which is     *)
(* registered later: it is never called.                                   *)
(***************************************************************************)
EXTENDS Naturals, Sequences, SequencesExt, FiniteSets, Functions

CONSTANTS
    Pool,      \* names of the pools, which are mounted in /mnt
    Name,      \* names of files
    Request,   \* requests that can be in progress at the same time
    MaxDepth   \* bound: the longest path the system accepts

Mnt == <<"mnt">>
Etc == <<"etc">>
Up == <<"..">>
Base(pool) == <<Mnt, pool>>
Outside == <<Etc>>
MaxLinks == 2  \* bound: links followed in one path (40 in the kernel)

\* The paths requests ask for, as they come, and below a pool.
Below == {<<>>} \cup {<<n>> : n \in Name} \cup {<<n, n>> : n \in Name}
Relative == Below \cup {<<Up, p>> : p \in Pool} \cup {<<Up, p, n>> : p \in Pool, n \in Name}
Raw == {Base(p) \o b : p \in Pool, b \in Below} \cup {<<Mnt>>, Outside, <<Mnt, Up, Etc>>}

VARIABLES
    tree,    \* tree[p]: the file or the directory at p
    req,     \* req[c]: a walk or a bulk move under way
    scope,   \* ghost: the directory the last step was allowed to change
    upload   \* ghost: the path the last step was to store a file at

fileVars == <<tree, req, scope, upload>>

Idle == [op |-> "none"]
Dir == [kind |-> "dir", data |-> 0, to |-> <<>>, mode |-> 493, uid |-> 0]
File(d) == [Dir EXCEPT !.kind = "file", !.data = d]

\* A link holds the path it leads to.
Symlink(to) == [Dir EXCEPT !.kind = "symlink", !.to = to]

\* A directory of a pool with a file in it, and beside it a file, or a link to
\* something in the pool, in the other pool or outside.
FileInit ==
    /\ \E p \in Pool, n \in Name :
        LET dir == <<Mnt, p, n>>
            file == Append(dir, n)
            others == {<<Mnt, p, m>> : m \in Name \ {n}}
        IN \E beside \in {File(2)} \cup {Symlink(to) : to \in {dir, file, Outside} \cup {Base(x) : x \in Pool \ {p}}} :
            tree = [q \in {<<Mnt>>, Outside, dir, file, Append(Outside, n)} \cup {Base(x) : x \in Pool} \cup others |->
                        CASE q \in others -> beside
                          [] q = file -> File(1)
                          [] q = Append(Outside, n) -> File(3)
                          [] OTHER -> Dir]
    /\ req = [c \in Request |-> Idle]
    /\ scope = <<Mnt>> /\ upload = <<>>

IsDir(p) == p \in DOMAIN tree /\ tree[p].kind = "dir"
IsFile(p) == p \in DOMAIN tree /\ tree[p].kind = "file"
IsLink(p) == p \in DOMAIN tree /\ tree[p].kind = "symlink"
Inside(p, q) == IsStrictPrefix(q, p)
Subtree(p) == {q \in DOMAIN tree : IsPrefix(p, q)}
Children(p) == {q \in DOMAIN tree : Inside(q, p) /\ Len(q) = Len(p) + 1}
Moved(q, p, r) == r \o SubSeq(q, Len(p) + 1, Len(q))

-----------------------------------------------------------------------------
(* What the operating system does.                                         *)

\* Where a path leads: every link on the way is followed, but the last name only
\* if it is asked for.  A path that is still on a link leads nowhere.
Follow(p) == FoldLeft(LAMBDA at, n : LET q == Append(at, n) IN IF IsLink(q) THEN tree[q].to ELSE q, <<>>, p)
Resolve(p) ==
    IF \E q \in DOMAIN tree : IsLink(q) THEN FoldLeft(LAMBDA q, i : Follow(q), p, [i \in 1 .. MaxLinks |-> i])
    ELSE p
Real(p) == IF Len(p) < 2 THEN p ELSE Append(Resolve(Front(p)), Last(p))

\* A mount point is busy, and nothing moves from one pool to another.
Device(p) == IF Len(p) > 1 /\ p[1] = Mnt /\ p[2] \in Pool THEN Base(p[2]) ELSE <<>>
Mounted(p) == Len(p) < 2 \/ p = Device(p)
SameDevice(p, q) == ~Mounted(p) /\ ~Mounted(q) /\ Device(p) = Device(q)

CanRename(p, q) ==
    /\ p \in DOMAIN tree /\ SameDevice(p, q)
    /\ IsDir(Front(q)) /\ ~Inside(q, p) /\ \A r \in Subtree(p) : Len(Moved(r, p, q)) <= MaxDepth
    /\ IsDir(p) => q \notin DOMAIN tree \/ (IsDir(q) /\ Children(q) = {}) \/ q = p
    /\ ~IsDir(p) => ~IsDir(q)

Renamed(p, q) ==
    LET new == {Moved(r, p, q) : r \in Subtree(p)}
        source(r) == Moved(r, q, p)
    IN [r \in (DOMAIN tree \ Subtree(p)) \cup new |-> IF r \in new THEN tree[source(r)] ELSE tree[r]]

\* With the directories above it that are missing.
CanMake(p) ==
    /\ Len(Resolve(p)) <= MaxDepth
    /\ \A i \in 1 .. Len(p) :
        LET q == SubSeq(p, 1, i) IN IsDir(Resolve(q)) \/ (Real(q) \notin DOMAIN tree /\ Resolve(q) \notin DOMAIN tree)
MadeAll(p) ==
    LET dirs == {SubSeq(Resolve(p), 1, i) : i \in 1 .. Len(Resolve(p))}
    IN [q \in DOMAIN tree \cup dirs |-> IF q \in DOMAIN tree THEN tree[q] ELSE Dir]
-----------------------------------------------------------------------------
(* Checks of paths.                                                        *)

\* filepath.Clean of an absolute path.
Clean(p) ==
    IF ~Contains(p, Up) THEN p ELSE
    FoldLeft(LAMBDA acc, n : IF n = Up THEN (IF acc = <<>> THEN acc ELSE Front(acc)) ELSE Append(acc, n), <<>>, p)

\* The path as it is written, wherever it leads.
safePath(p) == ~Contains(p, Up) /\ IsPrefix(<<Mnt>>, Clean(p))

\* The path, or the empty one if it is not in the pool.
resolvePoolPath(pool, rel) ==
    LET abs == Clean(Base(pool) \o rel)
    IN IF abs = Base(pool) \/ Inside(abs, Base(pool)) THEN abs ELSE <<>>
-----------------------------------------------------------------------------
(* What is only read.                                                      *)

typeFromMode(n) == n.kind

\* What is shown of a directory, by where it really is.
FileList(p) ==
    LET dir == Resolve(p) IN IF IsDir(dir) THEN {<<q, typeFromMode(tree[q])>> : q \in Children(dir)} ELSE {}

\* A link is shown, not followed.
buildFileTree(dir) == {<<q, typeFromMode(tree[q])>> : q \in Subtree(dir) \ {dir}}

FileTree(p) == IF IsDir(Resolve(p)) THEN buildFileTree(Resolve(p)) ELSE {}

FileRead(p) == IF IsFile(Resolve(p)) THEN {<<Resolve(p), tree[Resolve(p)].data>>} ELSE {}

fileListHandler(p) == IF safePath(p) THEN FileList(Clean(p)) ELSE {}
fileTreeHandler(p) == IF safePath(p) THEN FileTree(Clean(p)) ELSE {}
fileReadHandler(p) == IF safePath(p) THEN FileRead(Clean(p)) ELSE {}
fileDownloadHandler(p) == IF safePath(p) THEN FileRead(p) ELSE {}

EvalSymlinks(p) == IF Resolve(p) \in DOMAIN tree /\ ~IsLink(Resolve(p)) THEN Resolve(p) ELSE <<>>

\* Slip: the path is not looked at again once its links are followed.
SlipfolderZipHandler(p) ==
    LET root == EvalSymlinks(p) IN
    IF ~safePath(p) \/ root = <<>> THEN {}
    ELSE {<<q, SubSeq(q, Len(root), Len(q))>> : q \in {x \in Subtree(root) : ~IsLink(x)}}

\* Directories and files, with their paths from the directory above; the links
\* in them are left out.
folderZipHandler(p) ==
    LET root == EvalSymlinks(p) IN
    IF ~safePath(p) \/ root = <<>> \/ ~safePath(root) THEN {}
    ELSE {<<q, SubSeq(q, Len(root), Len(q))>> : q \in {x \in Subtree(root) : ~IsLink(x)}}

filesListHandler(pool, rel) == IF resolvePoolPath(pool, rel) = <<>> THEN {} ELSE FileList(resolvePoolPath(pool, rel))
-----------------------------------------------------------------------------
(* Absolute paths.                                                         *)

\* The copies of requests other than c see the tree change.
Disturbed(c) == [o \in Request |-> IF o # c /\ req[o].op = "copy" THEN [req[o] EXCEPT !.alone = FALSE] ELSE req[o]]
Nobody == "nobody"
Scope(p) == scope' = p /\ upload' = <<>>
Done == req' = Disturbed(Nobody) /\ Scope(<<Mnt>>)
Become(c, r) == req' = [req EXCEPT ![c] = r]

\* A link that is renamed is not followed.
FileRename(p, q) ==
    /\ CanRename(Real(Clean(p)), Real(Clean(q)))
    /\ tree' = Renamed(Real(Clean(p)), Real(Clean(q)))

fileRenameHandler == \E p, q \in Raw : safePath(p) /\ safePath(q) /\ FileRename(p, q) /\ Done

\* Four octal digits are parsed, but os.Chmod only knows three of them.
parseMode(digits) == (digits[1] * 512 + digits[2]) % 512

FileChmod(p, digits) == p \in DOMAIN tree /\ tree' = [tree EXCEPT ![p].mode = parseMode(digits)]

fileChmodHandler == \E p \in Raw, d \in {<<0, 420>>, <<1, 493>>} : safePath(p) /\ FileChmod(Resolve(Clean(p)), d) /\ Done

FileChown(p, uid) == p \in DOMAIN tree /\ tree' = [tree EXCEPT ![p].uid = uid]

fileChownHandler == \E p \in Raw, uid \in {0, 1} : safePath(p) /\ FileChown(Resolve(Clean(p)), uid) /\ Done

\* FormValue reads a form that is well formed, with its files, into memory;
\* MultipartReader then refuses it, as it does a body of another type.  Of a form
\* that is not well formed nothing is left to read: no part is ever written.
FormValue(body) == IF body = "form" THEN "read" ELSE body
MultipartReader(body) == body \notin {"read", "other"}
Parts(body) == IF body = "form" THEN {1} ELSE {}

\* os.Create: the file a link leads to is made if it is not there.
CanCreate(p) ==
    LET q == Resolve(p) IN Len(q) \in 2 .. MaxDepth /\ IsDir(Front(q)) /\ ~IsDir(q) /\ ~IsLink(q)
Written(p, data) ==
    [x \in DOMAIN tree \cup {p} |->
        IF x # p THEN tree[x] ELSE IF IsFile(p) THEN [tree[p] EXCEPT !.data = data] ELSE File(data)]

fileUploadHandler(p, body) ==
    LET left == FormValue(body) IN
    /\ safePath(p) /\ CanCreate(p)
    /\ tree' = IF MultipartReader(left) /\ Parts(left) # {} THEN Written(Resolve(p), 2) ELSE tree
    /\ req' = Disturbed(Nobody)
    /\ scope' = <<Mnt>> /\ upload' = IF body = "form" THEN p ELSE <<>>

\* A directory can be opened, but not read.
CanCopy(p, q) == Resolve(p) \in DOMAIN tree /\ ~IsLink(Resolve(p)) /\ CanCreate(q)

\* os.Create empties the file before it is read, if it is the source as well.
copyFile(p, q) ==
    LET from == Resolve(p)
        to == Resolve(q)
    IN Written(to, IF from = to \/ IsDir(from) THEN 0 ELSE tree[from].data)

FileCopy(c, p, q) ==
    /\ req[c] = Idle /\ Resolve(p) \in DOMAIN tree /\ Len(q) > 2
    /\ Become(c, [op |-> "copy", src |-> p, dst |-> q, todo |-> <<p>>, alone |-> TRUE])
    /\ UNCHANGED tree /\ Scope(<<Mnt>>)

fileCopyHandler(c) ==
    \E p, q \in Raw : safePath(p) /\ safePath(q) /\ FileCopy(c, Clean(p), Clean(q))

\* One call of the function of the walk, which follows no link; the names in a
\* directory are read after the directory of the copy has been made.  A link to
\* a directory is copied like a file: an empty one is made, and reading fails.
copyDir(c) ==
    LET r == req[c]
        p == IF r.todo = <<>> THEN <<>> ELSE r.todo[1]
        q == Moved(p, r.src, r.dst)
        isDir == IsDir(Real(p))
        names == {Append(p, Last(x)) : x \in {y \in DOMAIN tree' : Inside(y, Real(p)) /\ Len(y) = Len(Real(p)) + 1}}
    IN  /\ r.op = "copy" /\ r.todo # <<>>
        /\ IF isDir THEN CanMake(q) ELSE CanCopy(p, q)
        /\ tree' = IF isDir THEN MadeAll(q) ELSE copyFile(p, q)
        /\ req' = [Disturbed(c) EXCEPT ![c] =
                      IF ~isDir /\ IsDir(Resolve(p)) THEN Idle
                      ELSE [r EXCEPT !.todo = (IF isDir THEN SetToSeq(names) ELSE <<>>) \o Tail(@)]]
        /\ Scope(<<Mnt>>)

\* The walk is over, or ends at an error.
CopyEnds(c) ==
    /\ req[c].op = "copy"
    /\ Become(c, Idle)
    /\ UNCHANGED tree /\ Scope(<<Mnt>>)

\* The rest is not done if one fails.
BulkMove(c) ==
    /\ req[c].op = "move"
    /\ LET o == req[c].ops[1] IN
       \/ /\ FileRename(o[1], o[2])
          /\ req' = [Disturbed(c) EXCEPT ![c] = IF Len(req[c].ops) = 1 THEN Idle ELSE [req[c] EXCEPT !.ops = Tail(@)]]
       \/ ~CanRename(Real(Clean(o[1])), Real(Clean(o[2]))) /\ Become(c, Idle) /\ UNCHANGED tree
    /\ Scope(<<Mnt>>)

bulkMoveHandler(c) ==
    \E p, q \in Raw :
        /\ safePath(p) /\ safePath(q)
        /\ req[c] = Idle
        /\ Become(c, [op |-> "move", ops |-> <<<<p, q>>, <<q, p>>>>])
        /\ UNCHANGED tree /\ Scope(<<Mnt>>)
-----------------------------------------------------------------------------
(* Paths in a pool.                                                        *)

InPool(pool) == req' = Disturbed(Nobody) /\ Scope(Base(pool))

filesDeleteHandler(pool) ==
    \E rel \in Relative :
        LET abs == resolvePoolPath(pool, rel) IN
        /\ abs # <<>> /\ abs # Base(pool)
        /\ tree' = Restrict(tree, DOMAIN tree \ Subtree(Real(abs)))
        /\ InPool(pool)

filesMkdirHandler(pool) ==
    \E rel \in Relative :
        LET abs == resolvePoolPath(pool, rel) IN
        /\ abs # <<>> /\ Real(abs) \notin DOMAIN tree /\ IsDir(Front(Real(abs))) /\ Len(Real(abs)) <= MaxDepth
        /\ tree' = MadeAll(abs)
        /\ InPool(pool)

filesMoveHandler(pool) ==
    \E p, q \in Relative :
        /\ resolvePoolPath(pool, p) # <<>> /\ resolvePoolPath(pool, q) # <<>>
        /\ CanRename(Real(resolvePoolPath(pool, p)), Real(resolvePoolPath(pool, q)))
        /\ tree' = Renamed(Real(resolvePoolPath(pool, p)), Real(resolvePoolPath(pool, q)))
        /\ InPool(pool)

FileNext ==
    \/ \E c \in Request :
        fileCopyHandler(c) \/ copyDir(c) \/ CopyEnds(c) \/ bulkMoveHandler(c) \/ BulkMove(c)
    \/ fileRenameHandler \/ fileChmodHandler \/ fileChownHandler
    \/ \E p \in Raw, body \in {"form", "broken form", "other"} : fileUploadHandler(p, body)
    \/ \E pool \in Pool : filesDeleteHandler(pool) \/ filesMkdirHandler(pool) \/ filesMoveHandler(pool)
-----------------------------------------------------------------------------
\* What a path leads to: the directory, and what the links in it lead to.
Reach(dir) == {dir} \cup {tree[q].to : q \in {x \in Subtree(dir) : IsLink(x)}}
Reached(dir, p) == \E d \in Reach(dir) : IsPrefix(d, p)

\* A copy that ends without an error has what the source has, files in the place
\* of links to files, if no other request changed the tree since it began, the
\* one is not in the other, no link leads from the source into the copy and there
\* is none in the copy; what was in the way is replaced (FileCopy, copyDir,
\* copyFile).
CopyComplete ==
    \A c \in Request :
        LET r == req[c]
            src == Real(r.src)
            dst == Resolve(r.dst)
        IN
        /\ r.op = "copy" /\ r.todo = <<>> /\ r.alone /\ req'[c] = Idle
        /\ ~IsPrefix(src, dst) /\ \A p \in Subtree(src) : ~IsPrefix(dst, Resolve(p)) /\ ~IsPrefix(Resolve(p), dst)
        /\ \A q \in Subtree(dst) : ~IsLink(q)
        => \A p \in Subtree(src) :
            LET q == Moved(p, src, dst)
            IN q \in DOMAIN tree /\ tree[q].kind = tree[Resolve(p)].kind /\ tree[q].data = tree[Resolve(p)].data

\* A request changes nothing outside of the pool it names, and no request
\* anything outside of /mnt, but what a symbolic link in there leads to, whatever
\* its paths go through (resolvePoolPath, safePath).
InScope ==
    \A p \in DOMAIN tree \cup DOMAIN tree' :
        (p \in DOMAIN tree \cap DOMAIN tree' /\ tree[p] = tree'[p]) \/ Reached(scope', p)

\* No request shows anything outside of /mnt, or of the pool it names, but what a
\* symbolic link in there leads to; the tree shows in a directory what the list
\* of it shows.  An archive is one directory of /mnt, wherever the links on the
\* path and in it lead (folderZipHandler).
ReadsInScope ==
    /\ \A p \in Raw :
        /\ \A e \in fileListHandler(p) \cup fileTreeHandler(p) \cup fileReadHandler(p) \cup fileDownloadHandler(p) :
                Reached(<<Mnt>>, e[1])
        /\ fileListHandler(p) = {e \in fileTreeHandler(p) : Len(e[1]) = Len(Resolve(p)) + 1}
        /\ \A e \in folderZipHandler(p) : IsPrefix(<<Mnt>>, e[1]) /\ e[2][1] = Last(Resolve(p))
    /\ \A pool \in Pool, rel \in Relative : \A e \in filesListHandler(pool, rel) : Reached(Base(pool), e[1])

\* "File manager. Browse, upload, search": a file that is uploaded is there
\* afterwards (fileUploadHandler).
UploadStored == upload # <<>> => IsFile(Resolve(upload))
=============================================================================
