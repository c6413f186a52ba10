---------------------------- MODULE FileProofs ------------------------------
(***************************************************************************)
(* The trash of the file manager loses nothing and restores a file to its  *)
(* place, for any number of paths, pools, requests, files and restarts;    *)
(* then the apps, the share links and the containers, for any number of    *)
(* apps, jobs, links, requests, restarts and containers.                   *)
(*                                                                         *)
(* NothingElseLost alone is not inductive: a rename that replaced a file   *)
(* of which a second copy existed would not lose it, so a file has to be   *)
(* in one place at most (Once).  SerialRestore needs Paired: a file in the *)
(* trash has a sidecar with the path it came from, except in the window in *)
(* which its request is about to write it, and a sidecar has its file.     *)
(* Paired holds only while calm does; the rest holds in every state.       *)
(***************************************************************************)
EXTENDS FileTrash, ShareLinks, AppCatalog, Containers, FiniteSetTheorems, TLAPS

\* The names of files in a trash directory, and what a request remembers.
Names == {<<Flat[p], t>> : p \in Path, t \in Nat}
Deleting == [pc : {"meta"}, dir : Dir, name : Names, path : Path]
Restoring == [pc : {"rename", "unmeta"}, dir : Dir, name : Names, to : Path]
Emptying == [pc : {"empty"}, todo : SUBSET (Pool \X Names)]
Migrating == [pc : {"migrate"}, todo : SUBSET Names]

\* What is in the trash directories, by name.
Dirs(f) == f = [e \in Dir |-> f[e]]

\* The files in the tree, in the trash and its sidecars, and the requests.
TrashOK ==
  /\ now \in Nat /\ made \in Nat
  /\ files \in [Path -> 0 .. made]
  /\ Dirs(bin) /\ Dirs(meta)
  /\ \A d \in Dir : DOMAIN bin[d] \subseteq Names /\ DOMAIN meta[d] \subseteq Names
  /\ \A d \in Dir : \A x \in DOMAIN bin[d] : bin[d][x] \in 1 .. made
  /\ \A d \in Dir : \A x \in DOMAIN meta[d] : meta[d][x] \in Path
  /\ req \in [Request -> Deleting \cup Restoring \cup Emptying \cup Migrating \cup {Idle}]
  /\ DOMAIN origin \subseteq 1 .. made

\* A file is in one place at most.
Once ==
  /\ \A p, q \in Path : files[p] = files[q] /\ files[p] # 0 => p = q
  /\ \A p \in Path, d \in Dir : \A x \in DOMAIN bin[d] : bin[d][x] # files[p]
  /\ \A d, e \in Dir : \A x \in DOMAIN bin[d], y \in DOMAIN bin[e] :
        bin[d][x] = bin[e][y] => d = e /\ x = y

\* A sidecar that is about to be written for the file x of d.
Coming(r, d, x) == req[r].pc = "meta" /\ req[r].dir = d /\ req[r].name = x

\* What holds while requests follow one another: a file in the trash has a sidecar
\* with its path, or is about to get it, and a sidecar has its file, or is about to
\* be removed.
Paired ==
  /\ \A r, s \in Request : r = s \/ req[r] = Idle \/ req[s] = Idle
  /\ \A d \in Dir : \A x \in DOMAIN bin[d] :
        /\ bin[d][x] \in DOMAIN origin
        /\ \/ x \in DOMAIN meta[d] /\ meta[d][x] = origin[bin[d][x]]
           \/ \E r \in Request : Coming(r, d, x)
  /\ \A d \in Dir : \A x \in DOMAIN meta[d] \ DOMAIN bin[d] :
        \E r \in Request : req[r].pc = "unmeta" /\ req[r].dir = d /\ req[r].name = x
  /\ \A r \in Request :
        /\ req[r].pc = "meta" => /\ req[r].name \in DOMAIN bin[req[r].dir]
                                 /\ origin[bin[req[r].dir][req[r].name]] = req[r].path
        /\ req[r].pc = "rename" /\ req[r].name \in DOMAIN bin[req[r].dir] =>
              req[r].to = origin[bin[req[r].dir][req[r].name]]
        /\ req[r].pc = "unmeta" => req[r].name \notin DOMAIN bin[req[r].dir]

\* The inductive invariant.
TrashInv == TrashOK /\ Once /\ NothingElseLost /\ (calm => Paired)

-----------------------------------------------------------------------------
(* The helpers of FileTrash.                                               *)

\* A name is put into a directory,
Puts(f, g, d, x, v) ==
  /\ Dirs(g) /\ \A e \in Dir \ {d} : g[e] = f[e]
  /\ DOMAIN g[d] = DOMAIN f[d] \cup {x} /\ g[d][x] = v
  /\ \A y \in DOMAIN f[d] : y # x => g[d][y] = f[d][y]

LEMMA PutIn ==
  ASSUME NEW f, Dirs(f), NEW d \in Dir, NEW x, NEW v, NEW g, g = [f EXCEPT ![d] = Put(f[d], x, v)]
  PROVE  Puts(f, g, d, x, v)
<1>1. Dirs(g) /\ g[d] = Put(f[d], x, v) /\ \A e \in Dir \ {d} : g[e] = f[e]
  BY DEF Dirs
<1> QED
  BY <1>1 DEF Put, Puts

\* or taken from it.
Drops(f, g, d, x) ==
  /\ Dirs(g) /\ \A e \in Dir \ {d} : g[e] = f[e]
  /\ DOMAIN g[d] = DOMAIN f[d] \ {x}
  /\ \A y \in DOMAIN g[d] : g[d][y] = f[d][y]

LEMMA DropIn ==
  ASSUME NEW f, Dirs(f), NEW d \in Dir, NEW x, NEW g, g = [f EXCEPT ![d] = Drop(f[d], x)]
  PROVE  Drops(f, g, d, x)
<1>1. Dirs(g) /\ g[d] = Drop(f[d], x) /\ \A e \in Dir \ {d} : g[e] = f[e]
  BY DEF Dirs
<1> QED
  BY <1>1 DEF Drop, Restrict, Drops

LEMMA PoolsAreDirs == Root \in Dir /\ FirstPool \in Dir /\ Root # FirstPool
BY TrashAssumption DEF Dir

\* An entry of the mount point's trash is moved into a pool, or stays.
Carries(f, g, n, done) ==
  /\ Dirs(g) /\ \A e \in Dir \ {FirstPool, Root} : g[e] = f[e]
  /\ ~(done /\ n \in DOMAIN f[Root]) => g = f
  /\ done /\ n \in DOMAIN f[Root] =>
        /\ DOMAIN g[Root] = DOMAIN f[Root] \ {n}
        /\ DOMAIN g[FirstPool] = DOMAIN f[FirstPool] \cup {n} /\ g[FirstPool][n] = f[Root][n]
        /\ \A x \in DOMAIN g[Root] : g[Root][x] = f[Root][x]
        /\ \A x \in DOMAIN f[FirstPool] : x # n => g[FirstPool][x] = f[FirstPool][x]

LEMMA MoveIn ==
  ASSUME NEW f, Dirs(f), NEW n, NEW done \in BOOLEAN, NEW g, g = Moved(f, n, done)
  PROVE  Carries(f, g, n, done)
<1>1. CASE done /\ n \in DOMAIN f[Root]
  <2>1. g = [f EXCEPT ![FirstPool] = Put(f[FirstPool], n, f[Root][n]), ![Root] = Drop(f[Root], n)]
    BY <1>1, PoolsAreDirs DEF Moved, Dirs
  <2>2. /\ Dirs(g) /\ g[FirstPool] = Put(f[FirstPool], n, f[Root][n]) /\ g[Root] = Drop(f[Root], n)
        /\ \A e \in Dir \ {FirstPool, Root} : g[e] = f[e]
    BY <2>1, PoolsAreDirs DEF Dirs
  <2> QED
    BY <1>1, <2>2 DEF Put, Drop, Restrict, Carries
<1>2. CASE ~(done /\ n \in DOMAIN f[Root])
  BY <1>2 DEF Moved, Carries
<1> QED
  BY <1>1, <1>2

LEMMA IdleIs == Idle.pc = "idle"
BY DEF Idle

LEMMA ReqKinds ==
  ASSUME TrashOK, NEW r \in Request
  PROVE  /\ req[r].pc = "meta" => req[r] \in Deleting
         /\ req[r].pc \in {"rename", "unmeta"} => req[r] \in Restoring
         /\ req[r].pc = "empty" => req[r] \in Emptying
         /\ req[r].pc = "migrate" => req[r] \in Migrating
         /\ req[r].pc \in {"meta", "rename", "unmeta", "empty", "migrate"} => req[r] # Idle
BY IdleIs DEF TrashOK, Deleting, Restoring, Emptying, Migrating

\* A request that moves on, and the others that stay where they are.
LEMMA ReqMoves ==
  ASSUME TrashOK, NEW r \in Request, NEW q \in Deleting \cup Restoring \cup Emptying \cup Migrating \cup {Idle},
         req' = [req EXCEPT ![r] = q]
  PROVE  /\ req' \in [Request -> Deleting \cup Restoring \cup Emptying \cup Migrating \cup {Idle}]
         /\ req'[r] = q /\ \A s \in Request \ {r} : req'[s] = req[s]
BY DEF TrashOK

LEMMA NameIsName == ASSUME TrashOK, NEW p \in Path PROVE trashName(p) \in Names
BY DEF trashName, Names, TrashOK

-----------------------------------------------------------------------------
LEMMA TrashInit_Inv == ASSUME Init PROVE TrashInv
<1>1. DOMAIN Empty = {}
  BY DEF Empty
<1>2. TrashOK
  <2>1. now \in Nat /\ made = 0 /\ files \in [Path -> 0 .. made] /\ DOMAIN origin = {}
    BY <1>1 DEF Init
  <2>2. Dirs(bin) /\ Dirs(meta)
    BY DEF Init, Dirs
  <2>3. \A d \in Dir : DOMAIN bin[d] = {} /\ DOMAIN meta[d] = {}
    BY <1>1 DEF Init
  <2>4. req \in [Request -> Deleting \cup Restoring \cup Emptying \cup Migrating \cup {Idle}]
    BY DEF Init
  <2> QED
    BY <2>1, <2>2, <2>3, <2>4 DEF TrashOK
<1>3. Once
  <2>1. \A p \in Path : files[p] = 0
    BY DEF Init
  <2>2. \A d \in Dir : DOMAIN bin[d] = {}
    BY <1>1 DEF Init
  <2> QED
    BY <2>1, <2>2 DEF Once
<1>4. NothingElseLost
  BY DEF Init, NothingElseLost
<1>5. Paired
  <2>1. \A d \in Dir : DOMAIN bin[d] = {} /\ DOMAIN meta[d] = {}
    BY <1>1 DEF Init
  <2>2. \A r \in Request : req[r] = Idle /\ req[r].pc = "idle"
    BY IdleIs DEF Init
  <2> QED
    BY <2>1, <2>2 DEF Paired
<1> QED
  BY <1>2, <1>3, <1>4, <1>5 DEF TrashInv

\* Steps that move no file.
LEMMA Unmoved ==
  ASSUME Once, NothingElseLost, UNCHANGED <<files, bin, made, gone>>
  PROVE  Once' /\ NothingElseLost'
<1>1. Once'
  BY DEF Once
<1>2. NothingElseLost'
  BY DEF NothingElseLost
<1> QED
  BY <1>1, <1>2

\* What is left when nothing is under way.
LEMMA PairedAlone ==
  ASSUME Paired, Alone
  PROVE  /\ \A d \in Dir : \A x \in DOMAIN bin[d] :
              /\ bin[d][x] \in DOMAIN origin
              /\ x \in DOMAIN meta[d] /\ meta[d][x] = origin[bin[d][x]]
         /\ \A d \in Dir : DOMAIN meta[d] \subseteq DOMAIN bin[d]
<1>1. \A r \in Request : req[r].pc = "idle"
  BY IdleIs DEF Alone
<1>2. ASSUME NEW d \in Dir, NEW x \in DOMAIN bin[d]
      PROVE  bin[d][x] \in DOMAIN origin /\ x \in DOMAIN meta[d] /\ meta[d][x] = origin[bin[d][x]]
  BY <1>1 DEF Paired, Coming
<1>3. ASSUME NEW d \in Dir
      PROVE  DOMAIN meta[d] \subseteq DOMAIN bin[d]
  BY <1>1 DEF Paired
<1> QED
  BY <1>2, <1>3

\* The same after a step, as what suffices.
LEMMA AlonePaired ==
  ASSUME Alone',
         \A d \in Dir : \A x \in DOMAIN bin'[d] :
              /\ bin'[d][x] \in DOMAIN origin'
              /\ x \in DOMAIN meta'[d] /\ meta'[d][x] = origin'[bin'[d][x]],
         \A d \in Dir : DOMAIN meta'[d] \subseteq DOMAIN bin'[d]
  PROVE  Paired'
<1>1. \A r \in Request : req'[r] = Idle /\ req'[r].pc = "idle"
  BY IdleIs DEF Alone
<1> QED
  BY <1>1 DEF Paired

\* The only request under way ends.
LEMMA FinishesAlone ==
  ASSUME TrashOK, Paired, NEW r \in Request, req[r] # Idle, Finish(r)
  PROVE  /\ Alone' /\ \A s \in Request \ {r} : req[s] = Idle
         /\ req' \in [Request -> Deleting \cup Restoring \cup Emptying \cup Migrating \cup {Idle}]
<1>1. \A s \in Request \ {r} : req[s] = Idle
  BY DEF Paired
<1>2. req' = [req EXCEPT ![r] = Idle]
  BY DEF Finish
<1> QED
  BY <1>1, <1>2, ReqMoves DEF Alone

LEMMA WriteMeta_Inv ==
  ASSUME TrashInv, NEW r \in Request, WriteMeta(r)
  PROVE  TrashInv'
<1> DEFINE q == req[r]
<1>1. q \in Deleting /\ q # Idle /\ q.dir \in Dir /\ q.name \in Names /\ q.path \in Path
  BY ReqKinds DEF WriteMeta, TrashInv, Deleting
<1>2. /\ meta' = [meta EXCEPT ![q.dir] = Put(meta[q.dir], q.name, q.path)] /\ Finish(r)
      /\ UNCHANGED <<now, files, bin, made, origin, gone, calm>>
  BY DEF WriteMeta
<1>3. Puts(meta, meta', q.dir, q.name, q.path)
  BY <1>1, <1>2, PutIn DEF TrashInv, TrashOK
<1>4. /\ Dirs(meta') /\ \A d \in Dir \ {q.dir} : meta'[d] = meta[d]
      /\ DOMAIN meta'[q.dir] = DOMAIN meta[q.dir] \cup {q.name} /\ meta'[q.dir][q.name] = q.path
      /\ \A x \in DOMAIN meta[q.dir] : x # q.name => meta'[q.dir][x] = meta[q.dir][x]
  BY <1>3 DEF Puts
<1>5. TrashOK'
  <2>1. req' \in [Request -> Deleting \cup Restoring \cup Emptying \cup Migrating \cup {Idle}]
    BY <1>2, ReqMoves DEF Finish, TrashInv
  <2>2. \A d \in Dir : DOMAIN meta'[d] \subseteq Names /\ \A x \in DOMAIN meta'[d] : meta'[d][x] \in Path
    BY <1>1, <1>4 DEF TrashInv, TrashOK
  <2> QED
    BY <1>2, <1>4, <2>1, <2>2 DEF TrashInv, TrashOK
<1>6. ASSUME calm'  PROVE Paired'
  <2>1. Paired
    BY <1>2, <1>6 DEF TrashInv
  <2>2. Alone' /\ \A s \in Request \ {r} : req[s] = Idle
    BY <1>1, <1>2, <2>1, FinishesAlone DEF TrashInv
  <2>3. q.pc = "meta" /\ q.name \in DOMAIN bin[q.dir] /\ origin[bin[q.dir][q.name]] = q.path
    BY <2>1 DEF Paired, WriteMeta
  <2>4. ASSUME NEW d \in Dir, NEW x \in DOMAIN bin[d]
        PROVE  bin[d][x] \in DOMAIN origin /\ x \in DOMAIN meta'[d] /\ meta'[d][x] = origin[bin[d][x]]
    <3>1. bin[d][x] \in DOMAIN origin
      BY <2>1 DEF Paired
    <3>2. CASE d = q.dir /\ x = q.name
      BY <3>1, <3>2, <2>3, <1>4
    <3>3. CASE ~(d = q.dir /\ x = q.name)
      <4>1. \A s \in Request : ~Coming(s, d, x)
        BY <2>2, <3>3, IdleIs DEF Coming
      <4>2. x \in DOMAIN meta[d] /\ meta[d][x] = origin[bin[d][x]]
        BY <2>1, <4>1 DEF Paired
      <4> QED
        BY <4>2, <3>1, <3>3, <1>4
    <3> QED
      BY <3>2, <3>3
  <2>5. ASSUME NEW d \in Dir  PROVE DOMAIN meta'[d] \subseteq DOMAIN bin[d]
    <3>1. \A s \in Request : req[s].pc # "unmeta"
      BY <2>2, <2>3, IdleIs
    <3>2. DOMAIN meta[d] \subseteq DOMAIN bin[d]
      BY <2>1, <3>1 DEF Paired
    <3> QED
      BY <3>2, <2>3, <1>4
  <2> QED
    BY <2>2, <2>4, <2>5, <1>2, AlonePaired
<1> QED
  BY <1>2, <1>5, <1>6, Unmoved DEF TrashInv

\* Steps of requests that only move on, or start.
LEMMA WriteMetaFails_Inv ==
  ASSUME TrashInv, NEW r \in Request, WriteMetaFails(r)
  PROVE  TrashInv'
<1>1. /\ Finish(r) /\ ~calm'
      /\ UNCHANGED <<now, files, bin, meta, made, origin, gone>>
  BY DEF WriteMetaFails
<1>2. req' \in [Request -> Deleting \cup Restoring \cup Emptying \cup Migrating \cup {Idle}]
  BY <1>1, ReqMoves DEF Finish, TrashInv
<1> QED
  BY <1>1, <1>2, Unmoved DEF TrashInv, TrashOK

LEMMA RestorePath ==
  ASSUME TrashOK, NEW d \in Dir, NEW n \in Names
  PROVE  origPath(d, n) \in Path
<1>1. PICK p \in Path, t \in Nat : n = <<Flat[p], t>>
  BY DEF Names
<1>2. Fallback[d, n[1]] \in Path
  BY <1>1, TrashAssumption
<1> QED
  BY <1>2 DEF origPath, TrashOK

LEMMA TrashRestore_Inv ==
  ASSUME TrashInv, NEW r \in Request, NEW d \in Dir, NEW n \in DOMAIN bin[d], TrashRestore(r, d, n)
  PROVE  TrashInv'
<1> DEFINE q == [pc |-> "rename", dir |-> d, name |-> n, to |-> origPath(d, n)]
<1>1. n \in Names /\ origPath(d, n) \in Path
  BY RestorePath DEF TrashInv, TrashOK
<1>2. q \in Restoring /\ q.pc = "rename" /\ q.dir = d /\ q.name = n /\ q.to = origPath(d, n)
  BY <1>1 DEF Restoring
<1>3. /\ req' = [req EXCEPT ![r] = q] /\ calm' = (calm /\ Alone)
      /\ UNCHANGED <<now, files, bin, meta, made, origin, gone>>
  BY DEF TrashRestore, Begin
<1> HIDE DEF q
<1>4. /\ req' \in [Request -> Deleting \cup Restoring \cup Emptying \cup Migrating \cup {Idle}]
      /\ req'[r] = q /\ \A s \in Request \ {r} : req'[s] = req[s]
  BY <1>2, <1>3, ReqMoves DEF TrashInv
<1>5. TrashOK'
  BY <1>3, <1>4 DEF TrashInv, TrashOK
<1>6. ASSUME calm'  PROVE Paired'
  <2>1. Paired /\ Alone
    BY <1>3, <1>6 DEF TrashInv
  <2>2. /\ \A e \in Dir : \A x \in DOMAIN bin[e] :
             /\ bin[e][x] \in DOMAIN origin
             /\ x \in DOMAIN meta[e] /\ meta[e][x] = origin[bin[e][x]]
        /\ \A e \in Dir : DOMAIN meta[e] \subseteq DOMAIN bin[e]
    BY <2>1, PairedAlone
  <2>3. \A s \in Request \ {r} : req'[s] = Idle /\ req'[s].pc = "idle"
    BY <2>1, <1>4, IdleIs DEF Alone
  <2>4. origPath(d, n) = origin[bin[d][n]]
    BY <2>2 DEF origPath
  <2> QED
    BY <2>2, <2>3, <2>4, <1>2, <1>3, <1>4 DEF Paired
<1> QED
  BY <1>3, <1>5, <1>6, Unmoved DEF TrashInv

LEMMA RenameFails_Inv ==
  ASSUME TrashInv, NEW r \in Request, RenameFails(r)
  PROVE  TrashInv'
<1>1. /\ req[r].pc = "rename" /\ req[r] # Idle /\ Finish(r)
      /\ UNCHANGED <<now, files, bin, meta, made, origin, gone, calm>>
  BY ReqKinds DEF RenameFails, TrashInv
<1>2. TrashOK'
  BY <1>1, ReqMoves DEF Finish, TrashInv, TrashOK
<1>3. ASSUME calm'  PROVE Paired'
  <2>1. Paired
    BY <1>1, <1>3 DEF TrashInv
  <2>2. Alone' /\ \A s \in Request \ {r} : req[s] = Idle
    BY <1>1, <2>1, FinishesAlone DEF TrashInv
  <2>3. \A s \in Request : req[s].pc \notin {"meta", "unmeta"}
    BY <1>1, <2>2, IdleIs
  <2>4. \A d \in Dir : \A x \in DOMAIN bin[d] :
             /\ bin[d][x] \in DOMAIN origin
             /\ x \in DOMAIN meta[d] /\ meta[d][x] = origin[bin[d][x]]
    BY <2>1, <2>3 DEF Paired, Coming
  <2>5. \A d \in Dir : DOMAIN meta[d] \subseteq DOMAIN bin[d]
    BY <2>1, <2>3 DEF Paired
  <2> QED
    BY <2>2, <2>4, <2>5, <1>1, AlonePaired
<1> QED
  BY <1>1, <1>2, <1>3, Unmoved DEF TrashInv

LEMMA RemoveMeta_Inv ==
  ASSUME TrashInv, NEW r \in Request, RemoveMeta(r)
  PROVE  TrashInv'
<1> DEFINE q == req[r]
<1>1. q \in Restoring /\ q # Idle /\ q.pc = "unmeta" /\ q.dir \in Dir /\ q.name \in Names
  BY ReqKinds DEF RemoveMeta, TrashInv, Restoring
<1>2. /\ meta' = [meta EXCEPT ![q.dir] = Drop(meta[q.dir], q.name)] /\ Finish(r)
      /\ UNCHANGED <<now, files, bin, made, origin, gone, calm>>
  BY DEF RemoveMeta
<1>3. Drops(meta, meta', q.dir, q.name)
  BY <1>1, <1>2, DropIn DEF TrashInv, TrashOK
<1>4. TrashOK'
  <2>1. req' \in [Request -> Deleting \cup Restoring \cup Emptying \cup Migrating \cup {Idle}]
    BY <1>2, ReqMoves DEF Finish, TrashInv
  <2>2. \A d \in Dir : DOMAIN meta'[d] \subseteq Names /\ \A x \in DOMAIN meta'[d] : meta'[d][x] \in Path
    BY <1>1, <1>3 DEF Drops, TrashInv, TrashOK
  <2> QED
    BY <1>2, <1>3, <2>1, <2>2 DEF Drops, TrashInv, TrashOK
<1>5. ASSUME calm'  PROVE Paired'
  <2>1. Paired
    BY <1>2, <1>5 DEF TrashInv
  <2>2. Alone' /\ \A s \in Request \ {r} : req[s] = Idle
    BY <1>1, <1>2, <2>1, FinishesAlone DEF TrashInv
  <2>3. q.name \notin DOMAIN bin[q.dir]
    BY <2>1, <1>1 DEF Paired
  <2>4. \A s \in Request : req[s].pc # "meta"
    BY <1>1, <2>2, IdleIs
  <2>5. \A d \in Dir : \A x \in DOMAIN bin[d] :
             /\ bin[d][x] \in DOMAIN origin
             /\ x \in DOMAIN meta[d] /\ meta[d][x] = origin[bin[d][x]]
    BY <2>1, <2>4 DEF Paired, Coming
  <2>6. \A d \in Dir : \A x \in DOMAIN bin[d] :
             /\ bin[d][x] \in DOMAIN origin
             /\ x \in DOMAIN meta'[d] /\ meta'[d][x] = origin[bin[d][x]]
    BY <2>3, <2>5, <1>1, <1>3 DEF Drops
  <2>7. ASSUME NEW d \in Dir, NEW x \in DOMAIN meta'[d]  PROVE x \in DOMAIN bin[d]
    <3>1. x \in DOMAIN meta[d] /\ ~(d = q.dir /\ x = q.name)
      BY <1>1, <1>3 DEF Drops
    <3>2. \A s \in Request : ~(req[s].pc = "unmeta" /\ req[s].dir = d /\ req[s].name = x)
      BY <3>1, <2>2, IdleIs
    <3> QED
      BY <3>1, <3>2, <2>1 DEF Paired
  <2> QED
    BY <2>2, <2>6, <2>7, <1>2, AlonePaired
<1> QED
  BY <1>2, <1>4, <1>5, Unmoved DEF TrashInv

LEMMA TrashEmpty_Inv ==
  ASSUME TrashInv, NEW r \in Request, TrashEmpty(r)
  PROVE  TrashInv'
<1>1. PICK todo \in SUBSET (Pool \X Names) : Begin(r, [pc |-> "empty", todo |-> todo])
  <2> DEFINE found == {e \in Pool \X UNION {DOMAIN bin[d] \cup DOMAIN meta[d] : d \in Pool} :
                         e[2] \in DOMAIN bin[e[1]] \cup DOMAIN meta[e[1]]}
  <2>1. Begin(r, [pc |-> "empty", todo |-> found])
    BY DEF TrashEmpty
  <2>2. \A d \in Pool : DOMAIN bin[d] \cup DOMAIN meta[d] \subseteq Names
    BY DEF TrashInv, TrashOK, Dir
  <2>3. found \subseteq Pool \X Names
    BY <2>2
  <2> QED
    BY <2>1, <2>3
<1> DEFINE q == [pc |-> "empty", todo |-> todo]
<1>2. q \in Emptying /\ q.pc = "empty"
  BY DEF Emptying
<1>3. /\ req' = [req EXCEPT ![r] = q] /\ calm' = (calm /\ Alone)
      /\ UNCHANGED <<now, files, bin, meta, made, origin, gone>>
  BY <1>1 DEF TrashEmpty, Begin
<1> HIDE DEF q
<1>4. /\ req' \in [Request -> Deleting \cup Restoring \cup Emptying \cup Migrating \cup {Idle}]
      /\ req'[r] = q /\ \A s \in Request \ {r} : req'[s] = req[s]
  BY <1>2, <1>3, ReqMoves DEF TrashInv
<1>5. TrashOK'
  BY <1>3, <1>4 DEF TrashInv, TrashOK
<1>6. ASSUME calm'  PROVE Paired'
  <2>1. Paired /\ Alone
    BY <1>3, <1>6 DEF TrashInv
  <2>2. /\ \A e \in Dir : \A x \in DOMAIN bin[e] :
             /\ bin[e][x] \in DOMAIN origin
             /\ x \in DOMAIN meta[e] /\ meta[e][x] = origin[bin[e][x]]
        /\ \A e \in Dir : DOMAIN meta[e] \subseteq DOMAIN bin[e]
    BY <2>1, PairedAlone
  <2>3. \A s \in Request \ {r} : req'[s] = Idle /\ req'[s].pc = "idle"
    BY <2>1, <1>4, IdleIs DEF Alone
  <2> QED
    BY <2>2, <2>3, <1>2, <1>3, <1>4 DEF Paired
<1> QED
  BY <1>3, <1>5, <1>6, Unmoved DEF TrashInv

LEMMA Emptied_Inv ==
  ASSUME TrashInv, NEW r \in Request, Emptied(r)
  PROVE  TrashInv'
<1>1. /\ req[r].pc = "empty" /\ req[r] # Idle /\ Finish(r)
      /\ UNCHANGED <<now, files, bin, meta, made, origin, gone, calm>>
  BY ReqKinds DEF Emptied, TrashInv
<1>2. TrashOK'
  BY <1>1, ReqMoves DEF Finish, TrashInv, TrashOK
<1>3. ASSUME calm'  PROVE Paired'
  <2>1. Paired
    BY <1>1, <1>3 DEF TrashInv
  <2>2. Alone' /\ \A s \in Request \ {r} : req[s] = Idle
    BY <1>1, <2>1, FinishesAlone DEF TrashInv
  <2>3. \A s \in Request : req[s].pc \notin {"meta", "unmeta"}
    BY <1>1, <2>2, IdleIs
  <2>4. \A d \in Dir : \A x \in DOMAIN bin[d] :
             /\ bin[d][x] \in DOMAIN origin
             /\ x \in DOMAIN meta[d] /\ meta[d][x] = origin[bin[d][x]]
    BY <2>1, <2>3 DEF Paired, Coming
  <2>5. \A d \in Dir : DOMAIN meta[d] \subseteq DOMAIN bin[d]
    BY <2>1, <2>3 DEF Paired
  <2> QED
    BY <2>2, <2>4, <2>5, <1>1, AlonePaired
<1> QED
  BY <1>1, <1>2, <1>3, Unmoved DEF TrashInv

\* A restart forgets the requests; it is calm only if there were none.
LEMMA Restart_Inv == ASSUME TrashInv, Restart PROVE TrashInv'
<1>1. /\ req' = [r \in Request |-> Idle] /\ calm' = (calm /\ Alone)
      /\ UNCHANGED <<now, files, bin, meta, made, origin, gone>>
  BY DEF Restart
<1>2. TrashOK'
  BY <1>1 DEF TrashInv, TrashOK
<1>3. ASSUME calm'  PROVE Paired'
  <2>1. Paired /\ Alone
    BY <1>1, <1>3 DEF TrashInv
  <2>2. Alone'
    BY <1>1 DEF Alone
  <2> QED
    BY <2>1, <2>2, <1>1, PairedAlone, AlonePaired
<1> QED
  BY <1>1, <1>2, <1>3, Unmoved DEF TrashInv

LEMMA Still_Inv == ASSUME TrashInv, Second \/ UNCHANGED vars PROVE TrashInv'
<1>1. now' \in Nat /\ UNCHANGED <<files, bin, meta, req, made, origin, gone, calm>>
  BY DEF Second, vars, TrashInv, TrashOK
<1>2. TrashOK'
  BY <1>1 DEF TrashInv, TrashOK
<1>3. Paired => Paired'
  BY <1>1 DEF Paired, Coming
<1> QED
  BY <1>1, <1>2, <1>3, Unmoved DEF TrashInv

\* A new file is nowhere else.
LEMMA NewFile_Inv == ASSUME TrashInv, NEW p \in Path, NewFile(p) PROVE TrashInv'
<1>1. /\ files[p] = 0 /\ made' = made + 1 /\ files' = [files EXCEPT ![p] = made + 1]
      /\ UNCHANGED <<now, bin, meta, req, origin, gone, calm>>
  BY DEF NewFile
<1>2. /\ made \in Nat /\ files'[p] = made + 1 /\ \A q \in Path \ {p} : files'[q] = files[q]
      /\ \A q \in Path : files[q] \in 0 .. made
      /\ \A d \in Dir : \A x \in DOMAIN bin[d] : bin[d][x] \in 1 .. made
  BY <1>1 DEF TrashInv, TrashOK
<1>3. TrashOK'
  <2>1. made' \in Nat /\ files' \in [Path -> 0 .. made']
    BY <1>1, <1>2 DEF TrashInv, TrashOK
  <2>2. \A d \in Dir : \A x \in DOMAIN bin[d] : bin[d][x] \in 1 .. made'
    BY <1>1, <1>2
  <2>3. DOMAIN origin \subseteq 1 .. made'
    BY <1>1, <1>2 DEF TrashInv, TrashOK
  <2> QED
    BY <1>1, <2>1, <2>2, <2>3 DEF TrashInv, TrashOK
<1>4. Once'
  <2>1. \A q \in Path : files[q] # made + 1
    BY <1>2
  <2>2. \A d \in Dir : \A x \in DOMAIN bin[d] : bin[d][x] # made + 1
    BY <1>2
  <2> QED
    BY <1>1, <1>2, <2>1, <2>2 DEF TrashInv, Once
<1>5. NothingElseLost'
  <2> SUFFICES ASSUME NEW n \in 1 .. made', n \notin gone
               PROVE  \/ \E q \in Path : files'[q] = n
                      \/ \E d \in Dir : \E x \in DOMAIN bin[d] : bin[d][x] = n
    BY <1>1 DEF NothingElseLost
  <2>1. CASE n = made + 1
    BY <2>1, <1>2
  <2>2. CASE n # made + 1
    <3>1. n \in 1 .. made /\ n # 0
      BY <2>2, <1>1, <1>2
    <3>2. \/ \E q \in Path : files[q] = n
          \/ \E d \in Dir : \E x \in DOMAIN bin[d] : bin[d][x] = n
      BY <3>1 DEF TrashInv, NothingElseLost
    <3> QED
      BY <3>1, <3>2, <1>1, <1>2
  <2> QED
    BY <2>1, <2>2
<1>6. Paired => Paired'
  BY <1>1 DEF Paired, Coming
<1> QED
  BY <1>1, <1>3, <1>4, <1>5, <1>6 DEF TrashInv

LEMMA FileDelete_Inv ==
  ASSUME TrashInv, NEW r \in Request, NEW p \in Path, FileDelete(r, p)
  PROVE  TrashInv'
<1> DEFINE d == DirOf[p]
           n == trashName(p)
           v == files[p]
           q == [pc |-> "meta", dir |-> d, name |-> n, path |-> p]
<1>1. d \in Dir /\ n \in Names /\ v # 0 /\ v \in 1 .. made
  <2>1. d \in Dir
    BY TrashAssumption
  <2>2. n \in Names
    BY NameIsName DEF TrashInv
  <2>3. v # 0 /\ v \in 0 .. made /\ made \in Nat
    BY DEF FileDelete, TrashInv, TrashOK
  <2> QED
    BY <2>1, <2>2, <2>3
<1>2. q \in Deleting /\ q.pc = "meta" /\ q.dir = d /\ q.name = n /\ q.path = p
  BY <1>1 DEF Deleting
<1>3. /\ req' = [req EXCEPT ![r] = q] /\ bin' = [bin EXCEPT ![d] = Put(bin[d], n, v)]
      /\ gone' = gone \cup ({At(bin[d], n)} \ {0}) /\ files' = [files EXCEPT ![p] = 0]
      /\ origin' = Put(origin, v, p)
      /\ calm' = (calm /\ Alone /\ n \notin DOMAIN bin[d] \cup DOMAIN meta[d])
      /\ UNCHANGED <<now, meta, made>>
  BY DEF FileDelete, Begin
<1> HIDE DEF q, n, d, v
<1>4. /\ req' \in [Request -> Deleting \cup Restoring \cup Emptying \cup Migrating \cup {Idle}]
      /\ req'[r] = q /\ \A s \in Request \ {r} : req'[s] = req[s]
  BY <1>2, <1>3, ReqMoves DEF TrashInv
<1>5. Puts(bin, bin', d, n, v)
  BY <1>1, <1>3, PutIn DEF TrashInv, TrashOK
<1>6. files'[p] = 0 /\ (\A k \in Path \ {p} : files'[k] = files[k]) /\ files[p] = v
  BY <1>3 DEF TrashInv, TrashOK, v
<1>7. DOMAIN origin' = DOMAIN origin \cup {v} /\ origin'[v] = p /\ \A k \in DOMAIN origin : k # v => origin'[k] = origin[k]
  BY <1>3 DEF Put
<1>8. TrashOK'
  <2>1. files' \in [Path -> 0 .. made]
    BY <1>3, <1>1 DEF TrashInv, TrashOK
  <2>2. \A e \in Dir : DOMAIN bin'[e] \subseteq Names /\ \A x \in DOMAIN bin'[e] : bin'[e][x] \in 1 .. made
    BY <1>1, <1>5 DEF Puts, TrashInv, TrashOK
  <2> QED
    BY <1>1, <1>3, <1>4, <1>5, <1>7, <2>1, <2>2 DEF Puts, TrashInv, TrashOK
<1>9. \A e \in Dir : \A x \in DOMAIN bin[e] : bin[e][x] # v /\ bin[e][x] # 0
  BY <1>6 DEF TrashInv, Once, TrashOK
<1>10. Once'
  <2>1. \A k, m \in Path : files'[k] = files'[m] /\ files'[k] # 0 => k = m
    BY <1>6 DEF TrashInv, Once
  <2>2. ASSUME NEW k \in Path, NEW e \in Dir, NEW x \in DOMAIN bin'[e]
        PROVE  bin'[e][x] # files'[k]
    <3>1. CASE e = d /\ x = n
      BY <3>1, <1>1, <1>5, <1>6 DEF Puts, TrashInv, Once
    <3>2. CASE ~(e = d /\ x = n)
      <4>1. x \in DOMAIN bin[e] /\ bin'[e][x] = bin[e][x]
        BY <3>2, <1>1, <1>5 DEF Puts
      <4> QED
        BY <4>1, <1>6, <1>9 DEF TrashInv, Once
    <3> QED
      BY <3>1, <3>2
  <2>3. ASSUME NEW e \in Dir, NEW h \in Dir, NEW x \in DOMAIN bin'[e], NEW y \in DOMAIN bin'[h],
               bin'[e][x] = bin'[h][y]
        PROVE  e = h /\ x = y
    <3>1. \/ e = d /\ x = n /\ bin'[e][x] = v
          \/ x \in DOMAIN bin[e] /\ bin'[e][x] = bin[e][x]
      BY <1>1, <1>5 DEF Puts
    <3>2. \/ h = d /\ y = n /\ bin'[h][y] = v
          \/ y \in DOMAIN bin[h] /\ bin'[h][y] = bin[h][y]
      BY <1>1, <1>5 DEF Puts
    <3> QED
      BY <2>3, <3>1, <3>2, <1>9 DEF TrashInv, Once
  <2> QED
    BY <2>1, <2>2, <2>3 DEF Once
<1>11. NothingElseLost'
  <2> SUFFICES ASSUME NEW m \in 1 .. made, m \notin gone'
               PROVE  \/ \E k \in Path : files'[k] = m
                      \/ \E e \in Dir : \E x \in DOMAIN bin'[e] : bin'[e][x] = m
    BY <1>3 DEF NothingElseLost
  <2>1. \/ \E k \in Path : files[k] = m
        \/ \E e \in Dir : \E x \in DOMAIN bin[e] : bin[e][x] = m
    BY <1>3 DEF TrashInv, NothingElseLost
  <2>2. CASE \E k \in Path : files[k] = m
    <3>1. PICK k \in Path : files[k] = m
      BY <2>2
    <3> QED
      BY <3>1, <1>1, <1>5, <1>6 DEF Puts
  <2>3. CASE \E e \in Dir : \E x \in DOMAIN bin[e] : bin[e][x] = m
    <3>1. PICK e \in Dir : \E x \in DOMAIN bin[e] : bin[e][x] = m
      BY <2>3
    <3>2. PICK x \in DOMAIN bin[e] : bin[e][x] = m
      BY <3>1
    <3>3. ~(e = d /\ x = n)
      BY <3>2, <1>3, <1>9 DEF At
    <3> QED
      BY <3>2, <3>3, <1>1, <1>5 DEF Puts
  <2> QED
    BY <2>1, <2>2, <2>3
<1>12. ASSUME calm'  PROVE Paired'
  <2>1. Paired /\ Alone /\ n \notin DOMAIN bin[d] /\ n \notin DOMAIN meta[d]
    BY <1>3, <1>12 DEF TrashInv
  <2>2. /\ \A e \in Dir : \A x \in DOMAIN bin[e] :
             /\ bin[e][x] \in DOMAIN origin
             /\ x \in DOMAIN meta[e] /\ meta[e][x] = origin[bin[e][x]]
        /\ \A e \in Dir : DOMAIN meta[e] \subseteq DOMAIN bin[e]
    BY <2>1, PairedAlone
  <2>3. \A s \in Request \ {r} : req'[s] = Idle /\ req'[s].pc = "idle"
    BY <2>1, <1>4, IdleIs DEF Alone
  <2>4. req'[r].pc = "meta" /\ req'[r].dir = d /\ req'[r].name = n
    BY <1>2, <1>4
  <2>5. ASSUME NEW e \in Dir, NEW x \in DOMAIN bin'[e]
        PROVE  /\ bin'[e][x] \in DOMAIN origin'
               /\ \/ x \in DOMAIN meta[e] /\ meta[e][x] = origin'[bin'[e][x]]
                  \/ e = d /\ x = n
    <3>1. CASE e = d /\ x = n
      BY <3>1, <1>5, <1>7 DEF Puts
    <3>2. CASE ~(e = d /\ x = n)
      <4>1. x \in DOMAIN bin[e] /\ bin'[e][x] = bin[e][x]
        BY <3>2, <1>1, <1>5 DEF Puts
      <4> QED
        BY <4>1, <2>2, <1>7, <1>9
    <3> QED
      BY <3>1, <3>2
  <2>6. \A e \in Dir : DOMAIN meta[e] \subseteq DOMAIN bin'[e]
    BY <2>2, <1>1, <1>5 DEF Puts
  <2>7. n \in DOMAIN bin'[d] /\ origin'[bin'[d][n]] = p
    BY <1>5, <1>7 DEF Puts
  <2>8. \A e \in Dir : \A x \in DOMAIN bin'[e] :
           /\ bin'[e][x] \in DOMAIN origin'
           /\ \/ x \in DOMAIN meta'[e] /\ meta'[e][x] = origin'[bin'[e][x]]
              \/ \E s \in Request : req'[s].pc = "meta" /\ req'[s].dir = e /\ req'[s].name = x
    BY <2>4, <2>5, <1>3
  <2>9. /\ req'[r].pc = "meta" /\ req'[r].name \in DOMAIN bin'[req'[r].dir]
        /\ origin'[bin'[req'[r].dir][req'[r].name]] = req'[r].path
    BY <2>7, <1>2, <1>4
  <2>10. \A s, t \in Request : s = t \/ req'[s] = Idle \/ req'[t] = Idle
    BY <2>3
  <2>11. \A e \in Dir : DOMAIN meta'[e] \ DOMAIN bin'[e] = {}
    BY <2>6, <1>3
  <2>12. \A s \in Request : \/ req'[s].pc = "idle"
                            \/ /\ req'[s].pc = "meta" /\ req'[s].name \in DOMAIN bin'[req'[s].dir]
                               /\ origin'[bin'[req'[s].dir][req'[s].name]] = req'[s].path
    BY <2>3, <2>9
  <2> QED
    BY <2>8, <2>10, <2>11, <2>12 DEF Paired, Coming
<1> QED
  BY <1>8, <1>10, <1>11, <1>12 DEF TrashInv

LEMMA Rename_Inv ==
  ASSUME TrashInv, NEW r \in Request, Rename(r)
  PROVE  TrashInv'
<1> DEFINE q == req[r]
           v == bin[q.dir][q.name]
           q2 == [q EXCEPT !.pc = "unmeta"]
<1>1. /\ q \in Restoring /\ q # Idle /\ q.pc = "rename" /\ q.dir \in Dir /\ q.to \in Path
      /\ q.name \in DOMAIN bin[q.dir]
  BY ReqKinds DEF Rename, TrashInv, Restoring
<1>2. q2 \in Restoring /\ q2.pc = "unmeta" /\ q2.dir = q.dir /\ q2.name = q.name
  BY <1>1 DEF Restoring
<1>3. /\ req' = [req EXCEPT ![r] = q2] /\ bin' = [bin EXCEPT ![q.dir] = Drop(bin[q.dir], q.name)]
      /\ gone' = gone \cup ({files[q.to]} \ {0}) /\ files' = [files EXCEPT ![q.to] = v]
      /\ UNCHANGED <<now, meta, made, origin, calm>>
  BY DEF Rename
<1> HIDE DEF q2
<1>4. /\ req' \in [Request -> Deleting \cup Restoring \cup Emptying \cup Migrating \cup {Idle}]
      /\ req'[r] = q2 /\ \A s \in Request \ {r} : req'[s] = req[s]
  BY <1>2, <1>3, ReqMoves DEF TrashInv
<1>5. Drops(bin, bin', q.dir, q.name)
  BY <1>1, <1>3, DropIn DEF TrashInv, TrashOK
<1>6. v \in 1 .. made /\ v # 0
  BY <1>1 DEF TrashInv, TrashOK
<1> HIDE DEF v
<1>7. files'[q.to] = v /\ \A k \in Path \ {q.to} : files'[k] = files[k]
  BY <1>1, <1>3 DEF TrashInv, TrashOK
<1>8. \A e \in Dir : \A x \in DOMAIN bin'[e] :
         x \in DOMAIN bin[e] /\ bin'[e][x] = bin[e][x] /\ ~(e = q.dir /\ x = q.name)
  BY <1>1, <1>5 DEF Drops
<1>9. TrashOK'
  <2>1. files' \in [Path -> 0 .. made]
    <3>1. v \in 0 .. made
      BY <1>6 DEF TrashInv, TrashOK
    <3>2. files \in [Path -> 0 .. made]
      BY DEF TrashInv, TrashOK
    <3> QED
      BY <3>1, <3>2, <1>1, <1>3
  <2>2. \A e \in Dir : DOMAIN bin'[e] \subseteq Names /\ \A x \in DOMAIN bin'[e] : bin'[e][x] \in 1 .. made
    BY <1>8 DEF TrashInv, TrashOK
  <2> QED
    BY <1>3, <1>4, <1>5, <2>1, <2>2 DEF Drops, TrashInv, TrashOK
<1>10. \A e \in Dir : \A x \in DOMAIN bin'[e] : bin'[e][x] # v
  BY <1>1, <1>8 DEF TrashInv, Once, v
<1>11. Once'
  <2>1. \A k \in Path : files[k] # v
    BY <1>1 DEF TrashInv, Once, v
  <2>2. \A k, m \in Path : files'[k] = files'[m] /\ files'[k] # 0 => k = m
    BY <1>7, <2>1 DEF TrashInv, Once
  <2>3. ASSUME NEW k \in Path, NEW e \in Dir, NEW x \in DOMAIN bin'[e]
        PROVE  bin'[e][x] # files'[k]
    BY <1>7, <1>8, <1>10 DEF TrashInv, Once
  <2>4. ASSUME NEW e \in Dir, NEW h \in Dir, NEW x \in DOMAIN bin'[e], NEW y \in DOMAIN bin'[h],
               bin'[e][x] = bin'[h][y]
        PROVE  e = h /\ x = y
    BY <2>4, <1>8 DEF TrashInv, Once
  <2> QED
    BY <2>2, <2>3, <2>4 DEF Once
<1>12. NothingElseLost'
  <2> SUFFICES ASSUME NEW m \in 1 .. made, m \notin gone'
               PROVE  \/ \E k \in Path : files'[k] = m
                      \/ \E e \in Dir : \E x \in DOMAIN bin'[e] : bin'[e][x] = m
    BY <1>3 DEF NothingElseLost
  <2>1. \/ \E k \in Path : files[k] = m
        \/ \E e \in Dir : \E x \in DOMAIN bin[e] : bin[e][x] = m
    BY <1>3 DEF TrashInv, NothingElseLost
  <2>2. CASE \E k \in Path : files[k] = m
    <3>1. PICK k \in Path : files[k] = m
      BY <2>2
    <3>2. m # 0
      BY <1>9 DEF TrashOK
    <3>3. k # q.to
      BY <3>1, <3>2, <1>3
    <3> QED
      BY <3>1, <3>3, <1>7
  <2>3. CASE \E e \in Dir : \E x \in DOMAIN bin[e] : bin[e][x] = m
    <3>1. PICK e \in Dir : \E x \in DOMAIN bin[e] : bin[e][x] = m
      BY <2>3
    <3>2. PICK x \in DOMAIN bin[e] : bin[e][x] = m
      BY <3>1
    <3>3. CASE e = q.dir /\ x = q.name
      BY <3>2, <3>3, <1>1, <1>7 DEF v
    <3>4. CASE ~(e = q.dir /\ x = q.name)
      BY <3>2, <3>4, <1>1, <1>5 DEF Drops
    <3> QED
      BY <3>3, <3>4
  <2> QED
    BY <2>1, <2>2, <2>3
<1>13. ASSUME calm'  PROVE Paired'
  <2>1. Paired
    BY <1>3, <1>13 DEF TrashInv
  <2>2. \A s \in Request \ {r} : req[s] = Idle /\ req[s].pc = "idle" /\ req'[s] = Idle /\ req'[s].pc = "idle"
    BY <2>1, <1>1, <1>4, IdleIs DEF Paired
  <2>3. \A s \in Request : req[s].pc \notin {"meta", "unmeta"}
    BY <2>2, <1>1
  <2>4. \A e \in Dir : \A x \in DOMAIN bin'[e] :
           /\ bin'[e][x] \in DOMAIN origin'
           /\ x \in DOMAIN meta'[e] /\ meta'[e][x] = origin'[bin'[e][x]]
    BY <2>1, <2>3, <1>3, <1>8 DEF Paired, Coming
  <2>5. ASSUME NEW e \in Dir, NEW x \in DOMAIN meta'[e] \ DOMAIN bin'[e]
        PROVE  req'[r].pc = "unmeta" /\ req'[r].dir = e /\ req'[r].name = x
    <3>1. x \in DOMAIN bin[e]
      BY <2>1, <2>3, <1>3 DEF Paired
    <3>2. e = q.dir /\ x = q.name
      BY <3>1, <1>1, <1>5 DEF Drops
    <3> QED
      BY <3>2, <1>2, <1>4
  <2>6. req'[r].pc = "unmeta" /\ req'[r].name \notin DOMAIN bin'[req'[r].dir]
    BY <1>1, <1>2, <1>4, <1>5 DEF Drops
  <2> QED
    BY <2>2, <2>4, <2>5, <2>6 DEF Paired
<1> QED
  BY <1>9, <1>11, <1>12, <1>13 DEF TrashInv

LEMMA Remove_Inv ==
  ASSUME TrashInv, NEW r \in Request, NEW d, NEW n, Unlink(r, d, n)
  PROVE  TrashInv'
<1> DEFINE q == req[r]
           q2 == [q EXCEPT !.todo = @ \ {<<d, n>>}]
<1>1. q \in Emptying /\ q # Idle /\ q.pc = "empty" /\ d \in Dir /\ n \in Names
  <2>1. q \in Emptying /\ q # Idle /\ q.pc = "empty" /\ <<d, n>> \in q.todo
    BY ReqKinds DEF Unlink, TrashInv
  <2>2. <<d, n>> \in Pool \X Names
    BY <2>1 DEF Emptying
  <2> QED
    BY <2>1, <2>2 DEF Dir
<1>2. q2 \in Emptying /\ q2.pc = "empty"
  BY <1>1 DEF Emptying
<1>3. /\ req' = [req EXCEPT ![r] = q2] /\ bin' = [bin EXCEPT ![d] = Drop(bin[d], n)]
      /\ meta' = [meta EXCEPT ![d] = Drop(meta[d], n)]
      /\ gone' = gone \cup ({At(bin[d], n)} \ {0})
      /\ UNCHANGED <<now, files, made, origin, calm>>
  BY DEF Unlink
<1> HIDE DEF q2
<1>4. /\ req' \in [Request -> Deleting \cup Restoring \cup Emptying \cup Migrating \cup {Idle}]
      /\ req'[r] = q2 /\ \A s \in Request \ {r} : req'[s] = req[s]
  BY <1>2, <1>3, ReqMoves DEF TrashInv
<1>5. Drops(bin, bin', d, n) /\ Drops(meta, meta', d, n)
  BY <1>1, <1>3, DropIn DEF TrashInv, TrashOK
<1>6. /\ \A e \in Dir : \A x \in DOMAIN bin'[e] :
            x \in DOMAIN bin[e] /\ bin'[e][x] = bin[e][x] /\ ~(e = d /\ x = n)
      /\ \A e \in Dir : \A x \in DOMAIN meta'[e] :
            x \in DOMAIN meta[e] /\ meta'[e][x] = meta[e][x] /\ ~(e = d /\ x = n)
  BY <1>1, <1>5 DEF Drops
<1>7. /\ \A e \in Dir : \A x \in DOMAIN bin[e] : ~(e = d /\ x = n) => x \in DOMAIN bin'[e]
      /\ \A e \in Dir : \A x \in DOMAIN meta[e] : ~(e = d /\ x = n) => x \in DOMAIN meta'[e]
  BY <1>1, <1>5 DEF Drops
<1>8. TrashOK'
  <2>1. Dirs(bin') /\ Dirs(meta')
    BY <1>5 DEF Drops
  <2> QED
    BY <1>3, <1>4, <1>6, <2>1 DEF TrashInv, TrashOK
<1>9. Once'
  BY <1>3, <1>6 DEF TrashInv, Once
<1>10. NothingElseLost'
  <2> SUFFICES ASSUME NEW m \in 1 .. made, m \notin gone', ~(\E k \in Path : files[k] = m)
               PROVE  \E e \in Dir : \E x \in DOMAIN bin'[e] : bin'[e][x] = m
    BY <1>3 DEF NothingElseLost
  <2>1. PICK e \in Dir : \E x \in DOMAIN bin[e] : bin[e][x] = m
    BY <1>3 DEF TrashInv, NothingElseLost
  <2>2. PICK x \in DOMAIN bin[e] : bin[e][x] = m
    BY <2>1
  <2>3. m # 0
    BY <1>8 DEF TrashOK
  <2>4. ~(e = d /\ x = n)
    BY <2>2, <2>3, <1>3 DEF At
  <2> QED
    BY <2>2, <2>4, <1>6, <1>7
<1>11. ASSUME calm'  PROVE Paired'
  <2>1. Paired
    BY <1>3, <1>11 DEF TrashInv
  <2>2. \A s \in Request \ {r} : req[s] = Idle /\ req[s].pc = "idle" /\ req'[s] = Idle /\ req'[s].pc = "idle"
    BY <2>1, <1>1, <1>4, IdleIs DEF Paired
  <2>3. \A s \in Request : req[s].pc \notin {"meta", "unmeta"}
    BY <2>2, <1>1
  <2>4. \A e \in Dir : \A x \in DOMAIN bin[e] :
           bin[e][x] \in DOMAIN origin /\ x \in DOMAIN meta[e] /\ meta[e][x] = origin[bin[e][x]]
    BY <2>1, <2>3 DEF Paired, Coming
  <2>5. \A e \in Dir : DOMAIN meta[e] \subseteq DOMAIN bin[e]
    BY <2>1, <2>3 DEF Paired
  <2>6. \A e \in Dir : \A x \in DOMAIN bin'[e] :
           bin'[e][x] \in DOMAIN origin' /\ x \in DOMAIN meta'[e] /\ meta'[e][x] = origin'[bin'[e][x]]
    BY <2>4, <1>3, <1>6, <1>7
  <2>7. \A e \in Dir : DOMAIN meta'[e] \subseteq DOMAIN bin'[e]
    BY <2>5, <1>6, <1>7
  <2> QED
    BY <2>2, <2>6, <2>7, <1>2, <1>4 DEF Paired
<1> QED
  BY <1>8, <1>9, <1>10, <1>11 DEF TrashInv

LEMMA Migrate_Inv ==
  ASSUME TrashInv, NEW r \in Request, migrateLegacyTrash(r)
  PROVE  TrashInv'
<1>1. calm' = (calm /\ Alone) /\ UNCHANGED <<now, files, bin, meta, made, origin, gone>>
  BY DEF migrateLegacyTrash
<1>2. CASE UNCHANGED req
  <2>1. TrashOK'
    BY <1>1, <1>2 DEF TrashInv, TrashOK
  <2>2. Paired => Paired'
    BY <1>1, <1>2 DEF Paired, Coming
  <2> QED
    BY <1>1, <2>1, <2>2, Unmoved DEF TrashInv
<1>3. CASE Begin(r, [pc |-> "migrate", todo |-> DOMAIN bin[Root] \cup DOMAIN meta[Root]])
  <2> DEFINE q == [pc |-> "migrate", todo |-> DOMAIN bin[Root] \cup DOMAIN meta[Root]]
  <2>1. q \in Migrating /\ q.pc = "migrate" /\ req' = [req EXCEPT ![r] = q]
    BY <1>3, PoolsAreDirs DEF Begin, Migrating, TrashInv, TrashOK
  <2> HIDE DEF q
  <2>2. /\ req' \in [Request -> Deleting \cup Restoring \cup Emptying \cup Migrating \cup {Idle}]
        /\ req'[r] = q /\ \A s \in Request \ {r} : req'[s] = req[s]
    BY <2>1, ReqMoves DEF TrashInv
  <2>3. TrashOK'
    BY <1>1, <2>2 DEF TrashInv, TrashOK
  <2>4. ASSUME calm'  PROVE Paired'
    <3>1. Paired /\ Alone
      BY <1>1, <2>4 DEF TrashInv
    <3>2. /\ \A e \in Dir : \A x \in DOMAIN bin[e] :
               /\ bin[e][x] \in DOMAIN origin
               /\ x \in DOMAIN meta[e] /\ meta[e][x] = origin[bin[e][x]]
          /\ \A e \in Dir : DOMAIN meta[e] \subseteq DOMAIN bin[e]
      BY <3>1, PairedAlone
    <3>3. \A s \in Request \ {r} : req'[s] = Idle /\ req'[s].pc = "idle"
      BY <3>1, <2>2, IdleIs DEF Alone
    <3> QED
      BY <3>2, <3>3, <1>1, <2>1, <2>2 DEF Paired
  <2> QED
    BY <1>1, <2>3, <2>4, Unmoved DEF TrashInv
<1> QED
  BY <1>2, <1>3 DEF migrateLegacyTrash

LEMMA MigrateEntry_Inv ==
  ASSUME TrashInv, NEW r \in Request, NEW n, MigrateEntry(r, n)
  PROVE  TrashInv'
<1> DEFINE q == req[r]
           q2 == [q EXCEPT !.todo = @ \ {n}]
<1>1. q \in Migrating /\ q # Idle /\ q.pc = "migrate" /\ n \in Names
  <2>1. q \in Migrating /\ q # Idle /\ q.pc = "migrate" /\ n \in q.todo
    BY ReqKinds DEF MigrateEntry, TrashInv
  <2> QED
    BY <2>1 DEF Migrating
<1>2. q2 \in Migrating /\ q2.pc = "migrate"
  BY <1>1 DEF Migrating
<1>3. PICK file \in BOOLEAN, sidecar \in BOOLEAN :
         /\ bin' = Moved(bin, n, file) /\ meta' = Moved(meta, n, sidecar)
         /\ gone' = IF file /\ n \in DOMAIN bin[Root] THEN gone \cup ({At(bin[FirstPool], n)} \ {0}) ELSE gone
         /\ calm' = (calm /\ file = sidecar /\ n \notin DOMAIN bin[FirstPool] \cup DOMAIN meta[FirstPool])
  BY DEF MigrateEntry
<1>4. req' = [req EXCEPT ![r] = q2] /\ UNCHANGED <<now, files, made, origin>>
  BY DEF MigrateEntry
<1> HIDE DEF q2
<1>5. /\ req' \in [Request -> Deleting \cup Restoring \cup Emptying \cup Migrating \cup {Idle}]
      /\ req'[r] = q2 /\ \A s \in Request \ {r} : req'[s] = req[s]
  BY <1>2, <1>4, ReqMoves DEF TrashInv
<1>6. Carries(bin, bin', n, file) /\ Carries(meta, meta', n, sidecar)
  BY <1>3, MoveIn DEF TrashInv, TrashOK
<1>7. ASSUME NEW e \in Dir, NEW x \in DOMAIN bin'[e]
      PROVE  \E e0 \in Dir : /\ x \in DOMAIN bin[e0] /\ bin'[e][x] = bin[e0][x]
                             /\ \/ e0 = e /\ ~(x = n /\ file /\ n \in DOMAIN bin[Root] /\ e \in {Root, FirstPool})
                                \/ e0 = Root /\ e = FirstPool /\ x = n /\ file /\ n \in DOMAIN bin[Root]
  <2>1. CASE file /\ n \in DOMAIN bin[Root]
    <3>1. CASE e = FirstPool /\ x = n
      BY <2>1, <3>1, <1>6, PoolsAreDirs DEF Carries
    <3>2. CASE ~(e = FirstPool /\ x = n)
      <4>1. x \in DOMAIN bin[e] /\ bin'[e][x] = bin[e][x] /\ ~(e = Root /\ x = n)
        BY <2>1, <3>2, <1>6, PoolsAreDirs DEF Carries
      <4> QED
        BY <4>1, <3>2
    <3> QED
      BY <3>1, <3>2
  <2>2. CASE ~(file /\ n \in DOMAIN bin[Root])
    BY <2>2, <1>6 DEF Carries
  <2> QED
    BY <2>1, <2>2
<1>8. ASSUME NEW e \in Dir, NEW x \in DOMAIN meta'[e]
      PROVE  \E e0 \in Dir : x \in DOMAIN meta[e0] /\ meta'[e][x] = meta[e0][x]
  <2>1. CASE sidecar /\ n \in DOMAIN meta[Root] /\ e \in {Root, FirstPool}
    BY <2>1, <1>6, PoolsAreDirs DEF Carries
  <2>2. CASE ~(sidecar /\ n \in DOMAIN meta[Root] /\ e \in {Root, FirstPool})
    BY <2>2, <1>6, PoolsAreDirs DEF Carries
  <2> QED
    BY <2>1, <2>2
<1>9. TrashOK'
  <2>1. Dirs(bin') /\ Dirs(meta')
    BY <1>6 DEF Carries
  <2>2. \A e \in Dir : \A x \in DOMAIN bin'[e] : x \in Names /\ bin'[e][x] \in 1 .. made
    BY <1>7 DEF TrashInv, TrashOK
  <2>3. \A e \in Dir : \A x \in DOMAIN meta'[e] : x \in Names /\ meta'[e][x] \in Path
    BY <1>8 DEF TrashInv, TrashOK
  <2> QED
    BY <1>4, <1>5, <2>1, <2>2, <2>3 DEF TrashInv, TrashOK
<1>10. Once'
  <2>1. \A p \in Path, e \in Dir : \A x \in DOMAIN bin'[e] : bin'[e][x] # files[p]
    BY <1>7 DEF TrashInv, Once
  <2>2. ASSUME NEW e \in Dir, NEW h \in Dir, NEW x \in DOMAIN bin'[e], NEW y \in DOMAIN bin'[h],
               bin'[e][x] = bin'[h][y]
        PROVE  e = h /\ x = y
    <3>1. PICK e0 \in Dir : /\ x \in DOMAIN bin[e0] /\ bin'[e][x] = bin[e0][x]
                            /\ \/ e0 = e /\ ~(x = n /\ file /\ n \in DOMAIN bin[Root] /\ e \in {Root, FirstPool})
                               \/ e0 = Root /\ e = FirstPool /\ x = n /\ file /\ n \in DOMAIN bin[Root]
      BY <1>7
    <3>2. PICK h0 \in Dir : /\ y \in DOMAIN bin[h0] /\ bin'[h][y] = bin[h0][y]
                            /\ \/ h0 = h /\ ~(y = n /\ file /\ n \in DOMAIN bin[Root] /\ h \in {Root, FirstPool})
                               \/ h0 = Root /\ h = FirstPool /\ y = n /\ file /\ n \in DOMAIN bin[Root]
      BY <1>7
    <3>3. e0 = h0 /\ x = y
      <4>1. bin[e0][x] = bin[h0][y]
        BY <2>2, <3>1, <3>2
      <4>2. x \in DOMAIN bin[e0] /\ y \in DOMAIN bin[h0]
        BY <3>1, <3>2
      <4> QED
        BY <4>1, <4>2 DEF TrashInv, Once
    <3> QED
      BY <3>1, <3>2, <3>3
  <2> QED
    BY <1>4, <2>1, <2>2 DEF TrashInv, Once
<1>11. NothingElseLost'
  <2> SUFFICES ASSUME NEW m \in 1 .. made, m \notin gone', ~(\E k \in Path : files[k] = m)
               PROVE  \E e \in Dir : \E x \in DOMAIN bin'[e] : bin'[e][x] = m
    BY <1>4 DEF NothingElseLost
  <2>1. PICK e \in Dir : \E x \in DOMAIN bin[e] : bin[e][x] = m
    BY <1>3, <1>4 DEF TrashInv, NothingElseLost
  <2>2. PICK x \in DOMAIN bin[e] : bin[e][x] = m
    BY <2>1
  <2>3. CASE ~(file /\ n \in DOMAIN bin[Root])
    BY <2>2, <2>3, <1>6 DEF Carries
  <2>4. CASE file /\ n \in DOMAIN bin[Root]
    <3>1. CASE e = Root /\ x = n
      BY <2>2, <2>4, <3>1, <1>6, PoolsAreDirs DEF Carries
    <3>2. CASE e = Root /\ x # n
      BY <2>2, <2>4, <3>2, <1>6, PoolsAreDirs DEF Carries
    <3>3. CASE e = FirstPool
      <4>1. m # 0
        BY <1>9 DEF TrashOK
      <4>2. x # n
        BY <2>2, <2>4, <3>3, <4>1, <1>3 DEF At
      <4> QED
        BY <2>2, <2>4, <3>3, <4>2, <1>6, PoolsAreDirs DEF Carries
    <3>4. CASE e \notin {Root, FirstPool}
      BY <2>2, <3>4, <1>6 DEF Carries
    <3> QED
      BY <3>1, <3>2, <3>3, <3>4
  <2> QED
    BY <2>3, <2>4
<1>12. ASSUME calm'  PROVE Paired'
  <2>1. Paired /\ file = sidecar /\ n \notin DOMAIN bin[FirstPool] /\ n \notin DOMAIN meta[FirstPool]
    BY <1>3, <1>12 DEF TrashInv
  <2>2. \A s \in Request \ {r} : req[s] = Idle /\ req[s].pc = "idle" /\ req'[s] = Idle /\ req'[s].pc = "idle"
    BY <2>1, <1>1, <1>5, IdleIs DEF Paired
  <2>3. \A s \in Request : req[s].pc \notin {"meta", "unmeta"}
    BY <2>2, <1>1
  <2>4. \A e \in Dir : \A x \in DOMAIN bin[e] :
           bin[e][x] \in DOMAIN origin /\ x \in DOMAIN meta[e] /\ meta[e][x] = origin[bin[e][x]]
    BY <2>1, <2>3 DEF Paired, Coming
  <2>5. \A e \in Dir : DOMAIN meta[e] = DOMAIN bin[e]
    <3>1. \A e \in Dir : DOMAIN bin[e] \subseteq DOMAIN meta[e]
      BY <2>4
    <3>2. \A e \in Dir : \A x \in DOMAIN meta[e] \ DOMAIN bin[e] : \E s \in Request : req[s].pc = "unmeta"
      BY <2>1 DEF Paired
    <3> QED
      BY <2>3, <3>1, <3>2
  <2>6. CASE ~(file /\ n \in DOMAIN bin[Root])
    <3>1. bin' = bin /\ meta' = meta
      BY <2>1, <2>5, <2>6, <1>6, PoolsAreDirs DEF Carries
    <3> QED
      BY <2>2, <2>4, <2>5, <3>1, <1>2, <1>4, <1>5 DEF Paired
  <2>7. CASE file /\ n \in DOMAIN bin[Root]
    <3>1. n \in DOMAIN meta[Root] /\ sidecar
      BY <2>1, <2>5, <2>7, PoolsAreDirs
    <3>2. \A e \in Dir : DOMAIN meta'[e] = DOMAIN bin'[e]
      BY <2>5, <2>7, <3>1, <1>6, PoolsAreDirs DEF Carries
    <3>3. ASSUME NEW e \in Dir, NEW x \in DOMAIN bin'[e]
          PROVE  bin'[e][x] \in DOMAIN origin /\ meta'[e][x] = origin[bin'[e][x]]
      <4>1. CASE e = FirstPool /\ x = n
        <5>1. bin'[e][x] = bin[Root][n] /\ meta'[e][x] = meta[Root][n]
          BY <2>7, <3>1, <4>1, <1>6 DEF Carries
        <5> QED
          BY <5>1, <2>4, <2>7, PoolsAreDirs
      <4>2. CASE ~(e = FirstPool /\ x = n)
        <5>1. x \in DOMAIN bin[e] /\ bin'[e][x] = bin[e][x]
          BY <2>7, <4>2, <1>6, PoolsAreDirs DEF Carries
        <5>2. meta'[e][x] = meta[e][x]
          BY <2>5, <2>7, <3>1, <3>2, <4>2, <1>6, PoolsAreDirs DEF Carries
        <5> QED
          BY <5>1, <5>2, <2>4
      <4> QED
        BY <4>1, <4>2
    <3> QED
      BY <2>2, <3>2, <3>3, <1>2, <1>4, <1>5 DEF Paired
  <2> QED
    BY <2>6, <2>7
<1> QED
  BY <1>9, <1>10, <1>11, <1>12 DEF TrashInv

LEMMA Migrated_Inv ==
  ASSUME TrashInv, NEW r \in Request, Migrated(r)
  PROVE  TrashInv'
<1>1. /\ req[r].pc = "migrate" /\ req[r] # Idle /\ Finish(r)
      /\ UNCHANGED <<now, files, bin, meta, made, origin, gone, calm>>
  BY ReqKinds DEF Migrated, TrashInv
<1>2. TrashOK'
  BY <1>1, ReqMoves DEF Finish, TrashInv, TrashOK
<1>3. ASSUME calm'  PROVE Paired'
  <2>1. Paired
    BY <1>1, <1>3 DEF TrashInv
  <2>2. Alone' /\ \A s \in Request \ {r} : req[s] = Idle
    BY <1>1, <2>1, FinishesAlone DEF TrashInv
  <2>3. \A s \in Request : req[s].pc \notin {"meta", "unmeta"}
    BY <1>1, <2>2, IdleIs
  <2>4. \A d \in Dir : \A x \in DOMAIN bin[d] :
             /\ bin[d][x] \in DOMAIN origin
             /\ x \in DOMAIN meta[d] /\ meta[d][x] = origin[bin[d][x]]
    BY <2>1, <2>3 DEF Paired, Coming
  <2>5. \A d \in Dir : DOMAIN meta[d] \subseteq DOMAIN bin[d]
    BY <2>1, <2>3 DEF Paired
  <2> QED
    BY <2>2, <2>4, <2>5, <1>1, AlonePaired
<1> QED
  BY <1>1, <1>2, <1>3, Unmoved DEF TrashInv

-----------------------------------------------------------------------------
(* The step and the theorems.                                              *)

LEMMA TrashStep == ASSUME TrashInv, [Next]_vars PROVE TrashInv'
<1>1. CASE \E p \in Path : NewFile(p)
  BY <1>1, NewFile_Inv
<1>2. CASE Second \/ UNCHANGED vars
  BY <1>2, Still_Inv
<1>3. CASE Restart
  BY <1>3, Restart_Inv
<1>4. ASSUME NEW r \in Request,
             \/ \E p \in Path : fileDeleteHandler(r, p)
             \/ WriteMeta(r) \/ WriteMetaFails(r)
             \/ \E d \in Dir : \E n \in DOMAIN bin[d] : trashRestoreHandler(r, d, n)
             \/ Rename(r) \/ RenameFails(r) \/ RemoveMeta(r)
             \/ trashEmptyHandler(r) \/ Emptied(r)
             \/ req[r].pc = "empty" /\ \E e \in req[r].todo : Unlink(r, e[1], e[2])
             \/ trashListHandler(r) \/ Migrated(r)
             \/ req[r].pc = "migrate" /\ \E n \in req[r].todo : MigrateEntry(r, n)
      PROVE  TrashInv'
  <2>1. CASE \E p \in Path : fileDeleteHandler(r, p)
    BY <2>1, FileDelete_Inv DEF fileDeleteHandler
  <2>2. CASE WriteMeta(r) \/ WriteMetaFails(r)
    BY <2>2, WriteMeta_Inv, WriteMetaFails_Inv
  <2>3. CASE \E d \in Dir : \E n \in DOMAIN bin[d] : trashRestoreHandler(r, d, n)
    BY <2>3, TrashRestore_Inv DEF trashRestoreHandler
  <2>4. CASE Rename(r) \/ RenameFails(r) \/ RemoveMeta(r)
    BY <2>4, Rename_Inv, RenameFails_Inv, RemoveMeta_Inv
  <2>5. CASE trashEmptyHandler(r) \/ Emptied(r)
    BY <2>5, TrashEmpty_Inv, Emptied_Inv DEF trashEmptyHandler
  <2>6. CASE req[r].pc = "empty" /\ \E e \in req[r].todo : Unlink(r, e[1], e[2])
    BY <2>6, Remove_Inv
  <2>7. CASE trashListHandler(r) \/ Migrated(r)
    BY <2>7, Migrate_Inv, Migrated_Inv DEF trashListHandler
  <2>8. CASE req[r].pc = "migrate" /\ \E n \in req[r].todo : MigrateEntry(r, n)
    BY <2>8, MigrateEntry_Inv
  <2> QED
    BY <1>4, <2>1, <2>2, <2>3, <2>4, <2>5, <2>6, <2>7, <2>8
<1> QED
  BY <1>1, <1>2, <1>3, <1>4 DEF Next

LEMMA TrashAlways == Spec => []TrashInv
BY TrashInit_Inv, TrashStep, PTL DEF Spec

\* FileDelete, TrashRestore, TrashEmpty and migrateLegacyTrash, however their steps
\* interleave and wherever a restart cuts them: a file that was not emptied and not
\* replaced by a later rename is in the tree or in a trash directory.
THEOREM TrashKeeps == Spec => []NothingElseLost
<1>1. TrashInv => NothingElseLost
  BY DEF TrashInv
<1> QED
  BY <1>1, TrashAlways, PTL

\* A step that leaves the tree alone restores nothing.
LEMMA RestoresNothing == ASSUME UNCHANGED files PROVE RestoresOrigin
BY DEF RestoresOrigin, Restored

LEMMA RenameRestores ==
  ASSUME TrashInv, NEW r \in Request, Rename(r)
  PROVE  RestoresOrigin
<1> DEFINE q == req[r]
<1>1. SUFFICES ASSUME calm', NEW p \in Path, Restored(p) PROVE p = origin[files'[p]]
  BY DEF RestoresOrigin
<1>2. /\ q \in Restoring /\ q.pc = "rename" /\ q.dir \in Dir /\ q.to \in Path
      /\ q.name \in DOMAIN bin[q.dir]
  BY ReqKinds DEF Rename, TrashInv, Restoring
<1>3. files' = [files EXCEPT ![q.to] = bin[q.dir][q.name]] /\ calm' = calm
  BY DEF Rename
<1>4. p = q.to
  BY <1>1, <1>3 DEF Restored, TrashInv, TrashOK
<1>5. files'[p] = bin[q.dir][q.name]
  BY <1>2, <1>3, <1>4 DEF TrashInv, TrashOK
<1>6. q.to = origin[bin[q.dir][q.name]]
  BY <1>1, <1>2, <1>3 DEF TrashInv, Paired
<1> QED
  BY <1>4, <1>5, <1>6

LEMMA RestoreStep == ASSUME TrashInv, [Next]_vars PROVE RestoresOrigin
<1>1. CASE \E p \in Path : NewFile(p)
  <2>1. PICK k \in Path : NewFile(k)
    BY <1>1
  <2>2. \A p \in Path : files'[p] = files[p] \/ files'[p] = made + 1
    BY <2>1 DEF NewFile, TrashInv, TrashOK
  <2>3. made + 1 \notin DOMAIN origin
    BY DEF TrashInv, TrashOK
  <2> QED
    BY <2>2, <2>3 DEF RestoresOrigin, Restored
<1>2. ASSUME NEW r \in Request, NEW k \in Path, FileDelete(r, k)  PROVE RestoresOrigin
  <2>1. \A p \in Path : files'[p] = files[p] \/ files'[p] = 0
    BY <1>2 DEF FileDelete, TrashInv, TrashOK
  <2>2. 0 \notin DOMAIN origin
    BY DEF TrashInv, TrashOK
  <2> QED
    BY <2>1, <2>2 DEF RestoresOrigin, Restored
<1>3. ASSUME NEW r \in Request, Rename(r)  PROVE RestoresOrigin
  BY <1>3, RenameRestores
<1>4. CASE UNCHANGED files
  BY <1>4, RestoresNothing
<1>5. \/ \E p \in Path : NewFile(p)
      \/ \E r \in Request, k \in Path : FileDelete(r, k)
      \/ \E r \in Request : Rename(r)
      \/ UNCHANGED files
  <2>1. UNCHANGED vars \/ Second \/ Restart => UNCHANGED files
    BY DEF vars, Second, Restart
  <2>2. \A r \in Request :
           WriteMeta(r) \/ WriteMetaFails(r) \/ RenameFails(r) \/ RemoveMeta(r) \/ TrashEmpty(r) \/ Emptied(r)
              \/ migrateLegacyTrash(r) \/ Migrated(r) => UNCHANGED files
    BY DEF WriteMeta, WriteMetaFails, RenameFails, RemoveMeta, TrashEmpty, Emptied, migrateLegacyTrash, Migrated
  <2>3. \A r \in Request : \A d, n : TrashRestore(r, d, n) \/ Unlink(r, d, n) \/ MigrateEntry(r, n) => UNCHANGED files
    BY DEF TrashRestore, Unlink, MigrateEntry
  <2> QED
    BY <2>1, <2>2, <2>3, Zenon
       DEF Next, fileDeleteHandler, trashRestoreHandler, trashEmptyHandler, trashListHandler
<1> QED
  BY <1>1, <1>2, <1>3, <1>4, <1>5

\* FileDelete and TrashRestore: while requests follow one another, every sidecar is
\* written and no name of a second is used twice, a file that reappears in the tree
\* is at the path it was deleted from.
THEOREM RestoresInPlace == Spec => SerialRestore
<1>1. TrashInv /\ [Next]_vars => [RestoresOrigin]_vars
  BY RestoreStep
<1> QED
  BY <1>1, TrashAlways, PTL DEF Spec, SerialRestore
-----------------------------------------------------------------------------
(* Apps (AppCatalog).  Neither HasCompose nor ListedOnce is inductive: a   *)
(* deploy appends to the list long after it looked at it, and a remove has *)
(* taken the directory before the entry.  While the jobs of an app do not  *)
(* overlap there is one under way at most (OneUnderWay), and how far it    *)
(* has come says what it relies on (JobSound): an app that is being        *)
(* deployed is not listed, an app that is about to be listed has its       *)
(* compose file, one that is about to be taken from the list has no        *)
(* containers left.                                                        *)

AtMostOnce(list, a) == \A i, k \in 1..Len(list) : list[i] = a /\ list[k] = a => i = k
ListedIn(list, a) == \E i \in 1..Len(list) : list[i] = a
Whole(d) == d.there /\ d.compose

PlacesOK ==
    /\ apps \in Seq(App) /\ appsFile \in Seq(App)
    /\ DOMAIN dir = App /\ DOMAIN up = App
    /\ \A a \in App : DOMAIN dir[a] = {"there", "compose", "data", "backups"}

\* What a job does at its steps.
Under(q) ==
    /\ q.app \in App /\ q.pc # "none"
    /\ DOMAIN q = {"app", "action", "status", "pc", "want"}
    /\ q.pc \in {"mkdir", "write"} => q.action \in {"deploy", "import"}
    /\ q.pc \in {"pull", "up", "list"} => q.action = "deploy"
    /\ q.pc \in {"down", "rm", "unlist"} => q.action = "remove"
    /\ q.pc = "wipe" => q.action = "rollback"
    /\ q.pc \in {"start", "stop"} => q.action \in {"start", "stop"}
    /\ q.pc \in {"backup", "pullq"} => q.action = "update"
    /\ q.pc = "copy" => q.action = "rollback"
    /\ q.pc = "again" => q.action \in {"import", "update", "rollback"}
    /\ q.pc # "end" => q.status = "running"

JobsOK == DOMAIN appJobs = Job /\ \A j \in Job : appJobs[j] = NoJob \/ Under(appJobs[j])

OneUnderWay ==
    \A j, k \in Job :
       /\ appJobs[j].app = appJobs[k].app /\ appJobs[j].app \in App \ mixed
       /\ appJobs[j].pc # "end" /\ appJobs[k].pc # "end"
       => j = k

\* What a job q relies on, with the app listed or not, its directory d and its
\* containers u.
JobSound(q, listed, d, u) ==
    /\ q.action = "deploy" /\ q.pc # "end" => ~listed
    /\ q.pc \in {"pull", "up", "list"} => Whole(d)
    /\ q.pc \in {"rm", "unlist"} => u = "none"

NoRoll(jobs, a) == ~\E j \in Job : jobs[j].app = a /\ jobs[j].action = "rollback"
Unlisting(jobs, a) == \E j \in Job : jobs[j].app = a /\ jobs[j].pc = "unlist"

AppOK(a) ==
    /\ AtMostOnce(apps, a)
    /\ \A j \in Job : appJobs[j].app = a => JobSound(appJobs[j], ListedIn(apps, a), dir[a], up[a])
    /\ NoRoll(appJobs, a) /\ ListedIn(apps, a) => Whole(dir[a]) \/ Unlisting(appJobs, a)

\* The inductive invariant.
AppInv == PlacesOK /\ JobsOK /\ OneUnderWay /\ \A a \in App \ mixed : AppOK(a)

LEMMA ListedIs == ASSUME PlacesOK, NEW a PROVE Listed(a) <=> ListedIn(apps, a)
<1>1. DOMAIN apps = 1..Len(apps)
  BY DEF PlacesOK
<1> QED
  BY <1>1 DEF Listed, ListedIn

LEMMA AppInvImplies == ASSUME AppInv PROVE Manageable
<1>1. HasCompose
  <2> SUFFICES ASSUME NEW a \in App \ mixed, Listed(a), ~Busy(a),
                      ~\E j \in Job : appJobs[j].app = a /\ appJobs[j].action = "rollback"
               PROVE  dir[a].there /\ dir[a].compose
    BY DEF HasCompose
  <2>1. NoRoll(appJobs, a) /\ ~Unlisting(appJobs, a)
    BY DEF NoRoll, Unlisting, Busy
  <2> QED
    BY <2>1, ListedIs DEF AppInv, AppOK, Whole
<1>2. ListedOnce
  <2> SUFFICES ASSUME NEW a \in App \ mixed
               PROVE  Cardinality({i \in DOMAIN apps : apps[i] = a}) <= 1
    BY DEF ListedOnce
  <2> DEFINE S == {i \in DOMAIN apps : apps[i] = a}
  <2>1. DOMAIN apps = 1..Len(apps) /\ AtMostOnce(apps, a)
    BY DEF AppInv, PlacesOK, AppOK
  <2>2. S = {} \/ \E i : S = {i}
    BY <2>1 DEF AtMostOnce
  <2> HIDE DEF S
  <2>3. Cardinality(S) <= 1
    BY <2>2, FS_EmptySet, FS_Singleton
  <2> QED
    BY <2>3 DEF S
<1> QED
  BY <1>1, <1>2 DEF Manageable

LEMMA NoJobIs ==
    NoJob.app = "none" /\ NoJob.pc = "none" /\ NoJob.action = "none" /\ NoJob.status = "none"
BY DEF NoJob

LEMMA AppInitInv == ASSUME AppInit PROVE AppInv
<1>1. /\ apps = <<>> /\ appsFile = <<>> /\ mixed = {} /\ DOMAIN appJobs = Job /\ \A j \in Job : appJobs[j] = NoJob
  BY DEF AppInit
<1>2. PlacesOK
  BY DEF AppInit, PlacesOK, NoDir
<1>3. JobsOK /\ OneUnderWay
  BY <1>1, NoJobIs, AppAssumption DEF JobsOK, OneUnderWay
<1>4. ASSUME NEW a \in App PROVE AppOK(a)
  <2>1. Len(apps) = 0
    BY <1>1
  <2>2. AtMostOnce(apps, a) /\ ~ListedIn(apps, a)
    BY <2>1 DEF AtMostOnce, ListedIn
  <2>3. \A j \in Job : appJobs[j].app # a
    BY <1>1, NoJobIs, AppAssumption
  <2> QED
    BY <2>2, <2>3 DEF AppOK
<1> QED
  BY <1>2, <1>3, <1>4 DEF AppInv

\* A job j that goes on as q and changes what belongs to its app.
LEMMA JobGoes ==
    ASSUME AppInv, NEW j \in Job, appJobs[j].pc \notin {"none", "end"},
           NEW q, appJobs' = [appJobs EXCEPT ![j] = q], Under(q),
           q.app = appJobs[j].app, q.action = appJobs[j].action, mixed' = mixed, PlacesOK',
           \A x \in App \ {q.app} : /\ dir'[x] = dir[x] /\ up'[x] = up[x]
                                    /\ ListedIn(apps', x) => ListedIn(apps, x)
                                    /\ AtMostOnce(apps, x) => AtMostOnce(apps', x),
           q.app \notin mixed => /\ AtMostOnce(apps', q.app)
                                 /\ JobSound(q, ListedIn(apps', q.app), dir'[q.app], up'[q.app])
                                 /\ NoRoll(appJobs, q.app) /\ ListedIn(apps', q.app)
                                       => Whole(dir'[q.app]) \/ q.pc = "unlist"
    PROVE  AppInv'
<1>1. DOMAIN appJobs' = Job /\ \A k \in Job : appJobs'[k] = IF k = j THEN q ELSE appJobs[k]
  BY DEF AppInv, JobsOK
<1>2. JobsOK'
  BY <1>1 DEF AppInv, JobsOK
<1>3. \A k \in Job : /\ appJobs'[k].app = appJobs[k].app /\ appJobs'[k].action = appJobs[k].action
                     /\ appJobs'[k].pc # "end" => appJobs[k].pc # "end"
  BY <1>1
<1>4. OneUnderWay'
  BY <1>3 DEF AppInv, OneUnderWay
<1>5. \A x : NoRoll(appJobs', x) <=> NoRoll(appJobs, x)
  BY <1>3 DEF NoRoll
<1>6. ASSUME NEW a \in App \ mixed PROVE AppOK(a)'
  <2>1. CASE a = q.app
    <3>1. \A k \in Job \ {j} : appJobs[k].app = a => appJobs[k].pc = "end"
      BY <1>6, <2>1 DEF AppInv, OneUnderWay
    <3>2. \A k \in Job : appJobs'[k].app = a => JobSound(appJobs'[k], ListedIn(apps', a), dir'[a], up'[a])
      <4> SUFFICES ASSUME NEW k \in Job, appJobs'[k].app = a
                   PROVE  JobSound(appJobs'[k], ListedIn(apps', a), dir'[a], up'[a])
        OBVIOUS
      <4>1. CASE k = j
        BY <1>1, <1>6, <2>1, <4>1
      <4>2. CASE k # j
        BY <1>1, <1>3, <3>1, <4>2 DEF JobSound
      <4> QED
        BY <4>1, <4>2
    <3>3. q.pc = "unlist" => Unlisting(appJobs', a)
      BY <1>1, <2>1 DEF Unlisting
    <3> QED
      BY <1>5, <1>6, <2>1, <3>2, <3>3 DEF AppOK
  <2>2. CASE a # q.app
    <3>1. AppOK(a) /\ dir'[a] = dir[a] /\ up'[a] = up[a]
      BY <1>6, <2>2 DEF AppInv
    <3>2. AtMostOnce(apps', a) /\ (ListedIn(apps', a) => ListedIn(apps, a))
      BY <1>6, <2>2, <3>1 DEF AppOK
    <3>3. \A k \in Job : appJobs'[k].app = a => appJobs'[k] = appJobs[k]
      BY <1>1, <2>2
    <3>4. Unlisting(appJobs, a) => Unlisting(appJobs', a)
      BY <1>1, <2>2 DEF Unlisting
    <3>5. \A k \in Job : appJobs'[k].app = a => JobSound(appJobs'[k], ListedIn(apps', a), dir'[a], up'[a])
      BY <3>1, <3>2, <3>3 DEF AppOK, JobSound
    <3> QED
      BY <1>5, <3>1, <3>2, <3>4, <3>5 DEF AppOK
  <2> QED
    BY <2>1, <2>2
<1> QED
  BY <1>2, <1>4, <1>6 DEF AppInv

\* A job or a request starts.
LEMMA JobStarts ==
    ASSUME AppInv, NEW j \in Job, NEW a \in App, NEW action, NEW pc, NEW want, startJob(j, a, action, pc, want),
           pc \notin {"none", "end", "pull", "up", "list", "rm", "unlist"},
           pc \in {"mkdir", "write"} => action \in {"deploy", "import"},
           pc = "down" => action = "remove",
           pc \in {"wipe", "copy"} => action = "rollback",
           pc \in {"start", "stop"} => action \in {"start", "stop"},
           pc \in {"backup", "pullq"} => action = "update",
           pc # "again",
           action = "deploy" => ~Listed(a)
    PROVE  AppInv'
<1> DEFINE q == [app |-> a, action |-> action, status |-> "running", pc |-> pc, want |-> want]
<1>1. /\ appJobs[j] = NoJob /\ appJobs' = [appJobs EXCEPT ![j] = q]
      /\ mixed' = (IF Busy(a) THEN mixed \cup {a} ELSE mixed) /\ UNCHANGED <<apps, appsFile, dir, up>>
  BY DEF startJob
<1>2. /\ q.app = a /\ q.action = action /\ q.status = "running" /\ q.pc = pc
      /\ DOMAIN q = {"app", "action", "status", "pc", "want"}
  OBVIOUS
<1> HIDE DEF q
<1>3. Under(q)
  BY <1>2 DEF Under
<1>4. DOMAIN appJobs' = Job /\ \A k \in Job : appJobs'[k] = IF k = j THEN q ELSE appJobs[k]
  BY <1>1 DEF AppInv, JobsOK
<1>5. PlacesOK' /\ JobsOK'
  BY <1>1, <1>3, <1>4 DEF AppInv, PlacesOK, JobsOK
<1>6. appJobs[j].app \notin App
  BY <1>1, NoJobIs, AppAssumption
<1>7. a \notin mixed' => \A k \in Job \ {j} : appJobs[k].app = a => appJobs[k].pc = "end"
  BY <1>1 DEF Busy
<1>8. OneUnderWay'
  <2> SUFFICES ASSUME NEW i \in Job, NEW k \in Job,
                      appJobs'[i].app = appJobs'[k].app, appJobs'[i].app \in App \ mixed',
                      appJobs'[i].pc # "end", appJobs'[k].pc # "end"
               PROVE  i = k
    BY DEF OneUnderWay
  <2>1. mixed \subseteq mixed'
    BY <1>1
  <2>2. CASE appJobs'[i].app = a
    <3>1. a \notin mixed' /\ appJobs'[k].app = a
      BY <2>2
    <3>2. \A x \in Job \ {j} : appJobs'[x].app = a => appJobs'[x].pc = "end"
      BY <1>4, <1>7, <3>1
    <3> QED
      BY <2>2, <3>1, <3>2
  <2>3. CASE appJobs'[i].app # a
    <3>1. i # j /\ k # j
      BY <1>2, <1>4, <2>3
    <3>2. appJobs'[i] = appJobs[i] /\ appJobs'[k] = appJobs[k]
      BY <1>4, <3>1
    <3> QED
      BY <2>1, <3>2 DEF AppInv, OneUnderWay
  <2> QED
    BY <2>2, <2>3
<1>9. ASSUME NEW x \in App \ mixed' PROVE AppOK(x)'
  <2>1. x \in App \ mixed /\ AppOK(x)
    BY <1>1, <1>9 DEF AppInv
  <2>2. AtMostOnce(apps, x) /\ UNCHANGED <<apps, dir, up>>
    BY <1>1, <2>1 DEF AppOK
  <2>3. NoRoll(appJobs', x) => NoRoll(appJobs, x)
    BY <1>4, <1>6 DEF NoRoll
  <2>4. CASE x = a
    <3>1. ~Unlisting(appJobs, x)
      BY <1>1, <1>6, <1>7, <1>9, <2>4 DEF Unlisting
    <3>2. JobSound(q, ListedIn(apps, a), dir[a], up[a])
      BY <1>2, ListedIs DEF JobSound, AppInv
    <3>3. \A k \in Job : appJobs'[k].app = x => JobSound(appJobs'[k], ListedIn(apps, x), dir[x], up[x])
      BY <1>4, <2>1, <2>4, <3>2 DEF AppOK
    <3> QED
      BY <2>1, <2>2, <2>3, <3>1, <3>3 DEF AppOK
  <2>5. CASE x # a
    <3>1. \A k \in Job : appJobs'[k].app = x => appJobs'[k] = appJobs[k]
      BY <1>2, <1>4, <2>5
    <3>2. Unlisting(appJobs, x) => Unlisting(appJobs', x)
      BY <1>4, <1>6 DEF Unlisting
    <3> QED
      BY <2>1, <2>2, <2>3, <3>1, <3>2 DEF AppOK
  <2> QED
    BY <2>4, <2>5
<1> QED
  BY <1>5, <1>8, <1>9 DEF AppInv

LEMMA StartHandlers ==
    ASSUME AppInv, NEW j \in Job, NEW a \in App,
           \/ deployAppHandler(j, a) \/ removeAppHandler(j, a) \/ appImportConfigHandler(j, a)
           \/ \E action \in {"start", "stop"} : appActionHandler(j, a, action)
           \/ \E backup \in BOOLEAN : appUpdateHandler(j, a, backup)
           \/ \E b \in 0..MaxData : appRollbackHandler(j, a, b)
    PROVE  AppInv'
<1>1. CASE deployAppHandler(j, a)
  BY <1>1, JobStarts DEF deployAppHandler, Deploy
<1>2. CASE removeAppHandler(j, a)
  BY <1>2, JobStarts DEF removeAppHandler, ManagerRemove
<1>3. CASE appImportConfigHandler(j, a)
  BY <1>3, JobStarts DEF appImportConfigHandler, AppImportConfig
<1>4. CASE \E action \in {"start", "stop"} : appActionHandler(j, a, action)
  BY <1>4, JobStarts DEF appActionHandler, Start, Stop
<1>5. CASE \E backup \in BOOLEAN : appUpdateHandler(j, a, backup)
  <2>1. PICK pc \in {"backup", "pullq"} : startJob(j, a, "update", pc, 0)
    BY <1>5 DEF appUpdateHandler, AppUpdate
  <2> QED
    BY <2>1, JobStarts
<1>6. CASE \E b \in 0..MaxData : appRollbackHandler(j, a, b)
  BY <1>6, JobStarts DEF appRollbackHandler, AppRollback
<1> QED
  BY <1>1, <1>2, <1>3, <1>4, <1>5, <1>6
\* A job that is under way.
LEMMA JobIs ==
    ASSUME AppInv, NEW j \in Job, appJobs[j].pc # "none"
    PROVE  /\ appJobs[j].app \in App /\ Under(appJobs[j]) /\ DOMAIN appJobs = Job
           /\ appJobs[j].app \notin mixed =>
                 /\ AppOK(appJobs[j].app)
                 /\ JobSound(appJobs[j], ListedIn(apps, appJobs[j].app), dir[appJobs[j].app], up[appJobs[j].app])
                 /\ appJobs[j].pc # "end" /\ Unlisting(appJobs, appJobs[j].app) => appJobs[j].pc = "unlist"
<1>1. appJobs[j].app \in App /\ Under(appJobs[j]) /\ DOMAIN appJobs = Job
  BY NoJobIs DEF AppInv, JobsOK, Under
<1>2. ASSUME appJobs[j].app \notin mixed
      PROVE  /\ AppOK(appJobs[j].app)
             /\ JobSound(appJobs[j], ListedIn(apps, appJobs[j].app), dir[appJobs[j].app], up[appJobs[j].app])
             /\ appJobs[j].pc # "end" /\ Unlisting(appJobs, appJobs[j].app) => appJobs[j].pc = "unlist"
  <2>1. AppOK(appJobs[j].app)
    BY <1>1, <1>2 DEF AppInv
  <2>2. ASSUME appJobs[j].pc # "end", Unlisting(appJobs, appJobs[j].app) PROVE appJobs[j].pc = "unlist"
    BY <1>1, <1>2, <2>2 DEF AppInv, OneUnderWay, Unlisting
  <2> QED
    BY <2>1, <2>2 DEF AppOK
<1> QED
  BY <1>1, <1>2

\* The steps that change the directory d of the app, or its containers u, or
\* neither: not the list, and not by wiping a directory.
LEMMA PlaceStep ==
    ASSUME AppInv, NEW j \in Job, appJobs[j].pc \notin {"none", "end", "unlist"},
           NEW q, appJobs' = [appJobs EXCEPT ![j] = q], Under(q),
           q.app = appJobs[j].app, q.action = appJobs[j].action, UNCHANGED <<apps, mixed>>,
           appsFile' \in Seq(App), DOMAIN dir' = App, DOMAIN up' = App,
           \A x \in App \ {q.app} : dir'[x] = dir[x] /\ up'[x] = up[x],
           DOMAIN dir'[q.app] = {"there", "compose", "data", "backups"},
           Whole(dir[q.app]) => Whole(dir'[q.app]) \/ q.pc = "unlist" \/ q.action = "rollback",
           q.app \notin mixed => JobSound(q, ListedIn(apps, q.app), dir'[q.app], up'[q.app])
    PROVE  AppInv'
<1>1. PlacesOK'
  BY DEF AppInv, PlacesOK
<1>2. ASSUME q.app \notin mixed, NoRoll(appJobs, q.app), ListedIn(apps, q.app)
      PROVE  Whole(dir'[q.app]) \/ q.pc = "unlist"
  <2>1. Whole(dir[q.app])
    BY <1>2, JobIs DEF AppOK
  <2>2. q.action # "rollback"
    BY <1>2 DEF NoRoll
  <2> QED
    BY <2>1, <2>2
<1>3. q.app \notin mixed => AtMostOnce(apps, q.app)
  BY JobIs DEF AppOK
<1> QED
  BY <1>1, <1>2, <1>3, JobGoes

\* The job goes on, or ends.
GoneTo(job, pc) == [job EXCEPT !.pc = pc]
Ended(job, s) == [job EXCEPT !.status = s, !.pc = "end"]

LEMMA GoneIs ==
    ASSUME NEW job, Under(job), NEW pc
    PROVE  /\ GoneTo(job, pc).app = job.app /\ GoneTo(job, pc).action = job.action
           /\ GoneTo(job, pc).status = job.status /\ GoneTo(job, pc).pc = pc
           /\ DOMAIN GoneTo(job, pc) = {"app", "action", "status", "pc", "want"}
BY DEF Under, GoneTo

LEMMA EndedIs ==
    ASSUME NEW job, Under(job), NEW s
    PROVE  /\ Under(Ended(job, s)) /\ Ended(job, s).app = job.app /\ Ended(job, s).action = job.action
           /\ Ended(job, s).status = s /\ Ended(job, s).pc = "end"
BY DEF Under, Ended

LEMMA FinishIs ==
    ASSUME AppInv, NEW j \in Job, NEW s, finish(j, s)
    PROVE  appJobs' = [appJobs EXCEPT ![j] = Ended(appJobs[j], s)]
BY DEF finish, AppInv, JobsOK, Ended

LEMMA GoIs ==
    ASSUME AppInv, NEW j \in Job, NEW pc, Go(j, pc)
    PROVE  appJobs' = [appJobs EXCEPT ![j] = GoneTo(appJobs[j], pc)]
BY DEF Go, GoneTo

\* The steps of a job that change no place.
LEMMA QuietSteps ==
    ASSUME AppInv, NEW j \in Job, Fails(j) \/ Pull(j) \/ Stall(j) \/ PullQuietly(j)
    PROVE  AppInv'
<1> DEFINE a == appJobs[j].app
<1>1. UNCHANGED <<apps, appsFile, dir, up, mixed>> /\ appJobs[j].pc \notin {"none", "end", "unlist"}
  BY DEF Fails, Pull, Stall, PullQuietly
<1>2. /\ Under(appJobs[j]) /\ a \in App /\ PlacesOK
      /\ a \notin mixed => JobSound(appJobs[j], ListedIn(apps, a), dir[a], up[a])
  BY <1>1, JobIs DEF AppInv
<1>3. ASSUME NEW q, appJobs' = [appJobs EXCEPT ![j] = q], Under(q), q.app = a, q.action = appJobs[j].action,
             a \notin mixed => JobSound(q, ListedIn(apps, a), dir[a], up[a])
      PROVE  AppInv'
  BY <1>1, <1>2, <1>3, PlaceStep DEF PlacesOK
<1>4. CASE Fails(j)
  <2> DEFINE q == Ended(appJobs[j], "failed")
  <2>1. appJobs' = [appJobs EXCEPT ![j] = q]
    <3>1. finish(j, "failed")
      BY <1>4 DEF Fails
    <3> QED
      BY <3>1, FinishIs
  <2>2. Under(q) /\ q.app = a /\ q.action = appJobs[j].action /\ q.pc = "end"
    BY <1>2, EndedIs
  <2> HIDE DEF q
  <2>3. JobSound(q, ListedIn(apps, a), dir[a], up[a])
    BY <2>2 DEF JobSound
  <2> QED
    BY <1>3, <2>1, <2>2, <2>3
<1>5. CASE Pull(j) \/ Stall(j) \/ PullQuietly(j)
  <2>1. PICK pc \in {"up", "stalled", "again"} :
            /\ Go(j, pc)
            /\ pc = "up" => appJobs[j].pc = "pull"
            /\ pc = "again" => appJobs[j].pc = "pullq"
    BY <1>5 DEF Pull, Stall, PullQuietly
  <2> DEFINE q == GoneTo(appJobs[j], pc)
  <2>2. appJobs' = [appJobs EXCEPT ![j] = q]
    BY <2>1, GoIs
  <2>3. /\ q.app = a /\ q.action = appJobs[j].action /\ q.status = appJobs[j].status /\ q.pc = pc
        /\ DOMAIN q = {"app", "action", "status", "pc", "want"}
    BY <1>2, GoneIs
  <2> HIDE DEF q
  <2>4. Under(q)
    BY <1>1, <1>2, <2>1, <2>3 DEF Under
  <2>5. a \notin mixed => JobSound(q, ListedIn(apps, a), dir[a], up[a])
    BY <1>1, <1>2, <2>1, <2>3 DEF JobSound
  <2> QED
    BY <1>3, <2>2, <2>3, <2>4, <2>5
<1> QED
  BY <1>4, <1>5
\* The steps that add to the directory of the app, or start its containers.
LEMMA AddingSteps ==
    ASSUME AppInv, NEW j \in Job,
           MkdirAll(j) \/ WriteCompose(j) \/ Backup(j) \/ CopyBack(j) \/ Up(j) \/ StartStop(j) \/ UpAgain(j)
    PROVE  AppInv'
<1> DEFINE a == appJobs[j].app
<1>1. /\ UNCHANGED <<apps, appsFile, mixed>>
      /\ appJobs[j].pc \in {"mkdir", "write", "backup", "copy", "up", "start", "stop", "again"}
  BY DEF MkdirAll, WriteCompose, Backup, CopyBack, Up, StartStop, UpAgain
<1>2. /\ Under(appJobs[j]) /\ a \in App /\ PlacesOK
      /\ a \notin mixed => JobSound(appJobs[j], ListedIn(apps, a), dir[a], up[a])
  BY <1>1, JobIs DEF AppInv
<1>3. /\ DOMAIN dir' = App /\ DOMAIN up' = App
      /\ \A x \in App \ {a} : dir'[x] = dir[x] /\ up'[x] = up[x]
      /\ DOMAIN dir'[a] = {"there", "compose", "data", "backups"}
      /\ Whole(dir[a]) => Whole(dir'[a])
  <2>1. CASE MkdirAll(j)
    BY <1>2, <2>1 DEF MkdirAll, PlacesOK, Whole
  <2>2. CASE WriteCompose(j)
    BY <1>2, <2>2 DEF WriteCompose, PlacesOK, Whole
  <2>3. CASE Backup(j)
    BY <1>2, <2>3 DEF Backup, PlacesOK, Whole
  <2>4. CASE CopyBack(j)
    BY <1>2, <2>4 DEF CopyBack, PlacesOK, Whole
  <2>5. CASE Up(j) \/ StartStop(j) \/ UpAgain(j)
    BY <1>2, <2>5 DEF Up, StartStop, UpAgain, PlacesOK, Whole
  <2> QED
    BY <2>1, <2>2, <2>3, <2>4, <2>5
<1>4. ASSUME NEW q, appJobs' = [appJobs EXCEPT ![j] = q], Under(q), q.app = a, q.action = appJobs[j].action,
             a \notin mixed => JobSound(q, ListedIn(apps, a), dir'[a], up'[a])
      PROVE  AppInv'
  BY <1>1, <1>2, <1>3, <1>4, PlaceStep DEF PlacesOK
<1>5. CASE StartStop(j) \/ UpAgain(j)
  <2> DEFINE q == Ended(appJobs[j], "done")
  <2>1. appJobs' = [appJobs EXCEPT ![j] = q]
    <3>1. finish(j, "done")
      BY <1>5 DEF StartStop, UpAgain
    <3> QED
      BY <3>1, FinishIs
  <2>2. Under(q) /\ q.app = a /\ q.action = appJobs[j].action /\ q.pc = "end"
    BY <1>2, EndedIs
  <2> HIDE DEF q
  <2>3. JobSound(q, ListedIn(apps, a), dir'[a], up'[a])
    BY <2>2 DEF JobSound
  <2> QED
    BY <1>4, <2>1, <2>2, <2>3
<1>6. CASE MkdirAll(j) \/ WriteCompose(j) \/ Backup(j) \/ CopyBack(j) \/ Up(j)
  <2>1. PICK pc \in {"write", "pull", "again", "pullq", "list"} :
            /\ Go(j, pc)
            /\ pc = "write" => appJobs[j].pc = "mkdir"
            /\ pc = "pull" => appJobs[j].pc = "write" /\ appJobs[j].action # "import" /\ Whole(dir'[a])
            /\ pc = "again" => \/ appJobs[j].pc = "write" /\ appJobs[j].action = "import"
                               \/ appJobs[j].pc = "copy"
            /\ pc = "pullq" => appJobs[j].pc = "backup"
            /\ pc = "list" => appJobs[j].pc = "up"
    <3>1. CASE WriteCompose(j)
      <4>1. Whole(dir'[a]) /\ appJobs[j].pc = "write"
        BY <1>2, <3>1 DEF WriteCompose, PlacesOK, Whole
      <4>2. appJobs[j].action = "import" => Go(j, "again")
        BY <3>1 DEF WriteCompose
      <4>3. appJobs[j].action # "import" => Go(j, "pull")
        BY <3>1 DEF WriteCompose
      <4> QED
        BY <4>1, <4>2, <4>3
    <3>2. CASE MkdirAll(j) \/ Backup(j) \/ CopyBack(j) \/ Up(j)
      BY <3>2 DEF MkdirAll, Backup, CopyBack, Up
    <3> QED
      BY <1>6, <3>1, <3>2
  <2> DEFINE q == GoneTo(appJobs[j], pc)
  <2>2. appJobs' = [appJobs EXCEPT ![j] = q]
    BY <2>1, GoIs
  <2>3. /\ q.app = a /\ q.action = appJobs[j].action /\ q.status = appJobs[j].status /\ q.pc = pc
        /\ DOMAIN q = {"app", "action", "status", "pc", "want"}
    BY <1>2, GoneIs
  <2> HIDE DEF q
  <2>4. Under(q)
    BY <1>1, <1>2, <2>1, <2>3 DEF Under
  <2>5. a \notin mixed => JobSound(q, ListedIn(apps, a), dir'[a], up'[a])
    BY <1>1, <1>2, <1>3, <2>1, <2>3 DEF JobSound
  <2> QED
    BY <1>4, <2>2, <2>3, <2>4, <2>5
<1> QED
  BY <1>5, <1>6

LEMMA RemnantsAre ==
    ASSUME NEW d, NEW e \in Remnants(d), DOMAIN d = {"there", "compose", "data", "backups"}
    PROVE  DOMAIN e = {"there", "compose", "data", "backups"}
<1>1. CASE e = NoDir
  BY <1>1 DEF NoDir
<1>2. CASE e # NoDir
  <2>1. PICK kept : e = Left(d, kept)
    BY <1>2, Zenon DEF Remnants
  <2> QED
    BY <2>1 DEF Left
<1> QED
  BY <1>1, <1>2

\* The steps that take containers or the directory away.
LEMMA TakingSteps ==
    ASSUME AppInv, NEW j \in Job, Down(j) \/ RemoveAll(j) \/ Wipe(j)
    PROVE  AppInv'
<1> DEFINE a == appJobs[j].app
<1>1. UNCHANGED <<apps, appsFile, mixed>> /\ appJobs[j].pc \in {"down", "rm", "wipe"}
  BY DEF Down, RemoveAll, Wipe
<1>2. /\ Under(appJobs[j]) /\ a \in App /\ PlacesOK
      /\ a \notin mixed => JobSound(appJobs[j], ListedIn(apps, a), dir[a], up[a])
  BY <1>1, JobIs DEF AppInv
<1>3. PICK pc \in {"rm", "unlist", "copy"} :
         /\ Go(j, pc)
         /\ pc = "rm" => appJobs[j].pc = "down" /\ dir' = dir /\ up'[a] = "none"
         /\ pc = "unlist" => appJobs[j].pc = "rm" /\ up' = up
         /\ pc = "copy" => appJobs[j].pc = "wipe" /\ up' = up
         /\ DOMAIN dir' = App /\ DOMAIN up' = App
         /\ \A x \in App \ {a} : dir'[x] = dir[x] /\ up'[x] = up[x]
         /\ DOMAIN dir'[a] = {"there", "compose", "data", "backups"}
  <2>1. CASE Down(j)
    BY <1>2, <2>1 DEF Down, PlacesOK
  <2>2. CASE RemoveAll(j)
    <3>1. PICK d \in Remnants(dir[a]) : dir' = [dir EXCEPT ![a] = d]
      BY <2>2 DEF RemoveAll
    <3>2. DOMAIN d = {"there", "compose", "data", "backups"}
      BY <1>2, <3>1, RemnantsAre DEF PlacesOK
    <3> QED
      BY <1>2, <2>2, <3>1, <3>2 DEF RemoveAll, PlacesOK
  <2>3. CASE Wipe(j)
    <3>1. PICK d \in Remnants(dir[a]) : dir' = [dir EXCEPT ![a] = d]
      BY <2>3 DEF Wipe
    <3>2. DOMAIN d = {"there", "compose", "data", "backups"}
      BY <1>2, <3>1, RemnantsAre DEF PlacesOK
    <3> QED
      BY <1>2, <2>3, <3>1, <3>2 DEF Wipe, PlacesOK
  <2> QED
    BY <2>1, <2>2, <2>3
<1> DEFINE q == GoneTo(appJobs[j], pc)
<1>4. appJobs' = [appJobs EXCEPT ![j] = q]
  BY <1>3, GoIs
<1>5. /\ q.app = a /\ q.action = appJobs[j].action /\ q.status = appJobs[j].status /\ q.pc = pc
      /\ DOMAIN q = {"app", "action", "status", "pc", "want"}
  BY <1>2, GoneIs
<1> HIDE DEF q
<1>6. Under(q)
  BY <1>1, <1>2, <1>3, <1>5 DEF Under
<1>7. a \notin mixed => JobSound(q, ListedIn(apps, a), dir'[a], up'[a])
  <2>1. q.action # "deploy"
    BY <1>1, <1>2, <1>5 DEF Under
  <2> QED
    BY <1>2, <1>3, <1>5, <2>1 DEF JobSound
<1>8. Whole(dir[a]) => Whole(dir'[a]) \/ q.pc = "unlist" \/ q.action = "rollback"
  BY <1>2, <1>3, <1>5 DEF Under
<1> QED
  BY <1>1, <1>2, <1>3, <1>4, <1>5, <1>6, <1>7, <1>8, PlaceStep DEF PlacesOK
\* An entry more at the end of the list.
LEMMA Appended ==
    ASSUME NEW list \in Seq(App), NEW b \in App
    PROVE  /\ Append(list, b) \in Seq(App)
           /\ \A x \in App \ {b} : /\ ListedIn(Append(list, b), x) => ListedIn(list, x)
                                   /\ AtMostOnce(list, x) => AtMostOnce(Append(list, b), x)
           /\ ~ListedIn(list, b) => AtMostOnce(Append(list, b), b)
<1> DEFINE n == Len(list)
           more == Append(list, b)
<1>1. n \in Nat /\ more \in Seq(App) /\ Len(more) = n + 1
  OBVIOUS
<1>2. \A i \in 1..(n + 1) : more[i] = IF i = n + 1 THEN b ELSE list[i]
  OBVIOUS
<1> HIDE DEF more, n
<1>3. \A i \in 1..(n + 1) : i = n + 1 \/ i \in 1..n
  BY <1>1
<1>4. ASSUME NEW x \in App \ {b} PROVE ListedIn(more, x) => ListedIn(list, x)
  BY <1>1, <1>2, <1>3 DEF ListedIn, n
<1>5. ASSUME NEW x \in App \ {b}, AtMostOnce(list, x) PROVE AtMostOnce(more, x)
  BY <1>1, <1>2, <1>3, <1>5 DEF AtMostOnce, n
<1>6. ASSUME ~ListedIn(list, b) PROVE AtMostOnce(more, b)
  BY <1>1, <1>2, <1>3, <1>6 DEF AtMostOnce, ListedIn, n
<1> QED
  BY <1>1, <1>4, <1>5, <1>6 DEF more

\* The first entry of b less; no entry of b is left if there was one only.
LEMMA UnlistedIs ==
    ASSUME PlacesOK, NEW b \in App
    PROVE  /\ Unlisted(b) \in Seq(App)
           /\ \A x \in App \ {b} : /\ ListedIn(Unlisted(b), x) => ListedIn(apps, x)
                                   /\ AtMostOnce(apps, x) => AtMostOnce(Unlisted(b), x)
           /\ AtMostOnce(apps, b) => ~ListedIn(Unlisted(b), b)
<1>1. CASE ~Listed(b)
  BY <1>1, ListedIs DEF Unlisted, PlacesOK
<1>2. CASE Listed(b)
  <2> DEFINE n == Len(apps)
             Past(i) == \E k \in 1..i : apps[k] = b
             from(i) == IF Past(i) THEN i + 1 ELSE i
             rest == Unlisted(b)
  <2>1. n \in Nat \ {0} /\ \A i \in 1..n : apps[i] \in App
    BY <1>2, ListedIs DEF PlacesOK, ListedIn
  <2>2. rest = [i \in 1..(n - 1) |-> IF Past(i) THEN apps[i + 1] ELSE apps[i]]
    BY <1>2 DEF Unlisted
  <2>3. \A i, k \in 1..(n - 1) : i < k /\ Past(i) => Past(k)
    BY <2>1
  <2>4. \A i \in 1..(n - 1) : Past(i) \/ apps[i] # b
    BY <2>1
  <2>5. \A i \in 1..(n - 1) : from(i) \in 1..n /\ rest[i] = apps[from(i)]
    BY <2>1, <2>2
  <2>6. rest \in Seq(App) /\ Len(rest) = n - 1
    <3>1. rest \in [1..(n - 1) -> App]
      BY <2>1, <2>2
    <3>2. n - 1 \in Nat
      BY <2>1
    <3> HIDE DEF n, rest
    <3> QED
      BY <3>1, <3>2
  <2>7. \A i, k \in 1..(n - 1) : from(i) = from(k) => i = k
    BY <2>1, <2>3
  <2>8. ASSUME NEW i \in 1..(n - 1), rest[i] = b, AtMostOnce(apps, b) PROVE FALSE
    <3>1. apps[from(i)] = b /\ from(i) \in 1..n
      BY <2>5, <2>8
    <3>2. CASE Past(i)
      <4>1. PICK k \in 1..i : apps[k] = b
        BY <3>2
      <4>2. k \in 1..n /\ k # from(i)
        BY <2>1, <3>2
      <4> QED
        BY <2>8, <3>1, <4>1, <4>2 DEF AtMostOnce
    <3>3. CASE ~Past(i)
      BY <2>4, <3>1, <3>3
    <3> QED
      BY <3>2, <3>3
  <2> HIDE DEF from, rest, n, Past
  <2>9. ASSUME NEW x \in App PROVE ListedIn(rest, x) => ListedIn(apps, x)
    BY <2>5, <2>6 DEF ListedIn, n
  <2>10. ASSUME NEW x \in App, AtMostOnce(apps, x) PROVE AtMostOnce(rest, x)
    BY <2>5, <2>6, <2>7, <2>10 DEF AtMostOnce, n
  <2>11. AtMostOnce(apps, b) => ~ListedIn(rest, b)
    BY <2>6, <2>8 DEF ListedIn
  <2> QED
    BY <2>6, <2>9, <2>10, <2>11 DEF rest
<1> QED
  BY <1>1, <1>2

\* The steps that change the list.
LEMMA ListSteps ==
    ASSUME AppInv, NEW j \in Job, AddApp(j) \/ RemoveApp(j)
    PROVE  AppInv'
<1> DEFINE a == appJobs[j].app
           q == Ended(appJobs[j], "done")
<1>1. /\ UNCHANGED <<dir, up, mixed>> /\ appJobs[j].pc \in {"list", "unlist"} /\ finish(j, "done") /\ save(apps')
  BY DEF AddApp, RemoveApp
<1>2. /\ Under(appJobs[j]) /\ a \in App /\ PlacesOK
      /\ a \notin mixed => AppOK(a) /\ JobSound(appJobs[j], ListedIn(apps, a), dir[a], up[a])
  BY <1>1, JobIs DEF AppInv
<1>3. appJobs' = [appJobs EXCEPT ![j] = q]
  BY <1>1, FinishIs
<1>4. Under(q) /\ q.app = a /\ q.action = appJobs[j].action /\ q.pc = "end"
  BY <1>2, EndedIs
<1> HIDE DEF q
<1>5. /\ apps' \in Seq(App)
      /\ \A x \in App \ {a} : /\ ListedIn(apps', x) => ListedIn(apps, x)
                              /\ AtMostOnce(apps, x) => AtMostOnce(apps', x)
      /\ a \notin mixed => AtMostOnce(apps', a) /\ (ListedIn(apps', a) => Whole(dir[a]))
  <2>1. CASE AddApp(j)
    <3>1. apps' = Append(apps, a) /\ appJobs[j].pc = "list"
      BY <2>1 DEF AddApp
    <3>2. a \notin mixed => ~ListedIn(apps, a) /\ Whole(dir[a])
      BY <1>2, <3>1 DEF JobSound, Under
    <3> QED
      BY <1>2, <3>1, <3>2, Appended DEF PlacesOK
  <2>2. CASE RemoveApp(j)
    <3>1. apps' = Unlisted(a)
      BY <2>2 DEF RemoveApp
    <3>2. a \notin mixed => AtMostOnce(apps, a)
      BY <1>2 DEF AppOK
    <3>3. a \notin mixed => ~ListedIn(apps', a)
      BY <1>2, <3>1, <3>2, UnlistedIs
    <3>4. ~ListedIn(apps', a) => AtMostOnce(apps', a)
      BY DEF ListedIn, AtMostOnce
    <3> QED
      BY <1>2, <3>1, <3>3, <3>4, UnlistedIs
  <2> QED
    BY <1>1, <2>1, <2>2
<1>6. PlacesOK'
  BY <1>1, <1>2, <1>5 DEF PlacesOK, save
<1>7. JobSound(q, ListedIn(apps', a), dir'[a], up'[a])
  BY <1>4 DEF JobSound
<1> QED
  BY <1>1, <1>2, <1>3, <1>4, <1>5, <1>6, <1>7, JobGoes

\* A running app writes its data.
LEMMA WritesStep == ASSUME AppInv, NEW a \in App, AppWrites(a) PROVE AppInv'
<1>1. UNCHANGED <<apps, appsFile, up, appJobs, mixed>> /\ dir' = [dir EXCEPT ![a].data = @ + 1]
  BY DEF AppWrites
<1>2. /\ PlacesOK'
      /\ \A x \in App : dir'[x].there = dir[x].there /\ dir'[x].compose = dir[x].compose
  BY <1>1 DEF AppInv, PlacesOK
<1>3. \A x \in App : Whole(dir'[x]) <=> Whole(dir[x])
  BY <1>2 DEF Whole
<1>4. ASSUME NEW x \in App \ mixed PROVE AppOK(x)'
  BY <1>1, <1>2, <1>3 DEF AppInv, AppOK, JobSound
<1>5. JobsOK' /\ OneUnderWay'
  BY <1>1 DEF AppInv, JobsOK, OneUnderWay
<1> QED
  BY <1>1, <1>2, <1>4, <1>5 DEF AppInv

\* The daemon starts again: the apps with a job under way, and a list that was
\* not saved, are mixed.
LEMMA NewManagerStep == ASSUME AppInv, NewManager PROVE AppInv'
<1>1. /\ apps' = appsFile /\ UNCHANGED <<appsFile, dir, up>>
      /\ mixed' = mixed \cup {a \in App : Busy(a)} \cup {a \in App : appsFile # apps}
      /\ appJobs' = [j \in Job |-> IF appJobs[j] = NoJob THEN NoJob ELSE GoneTo(appJobs[j], "end")]
  BY DEF NewManager, GoneTo
<1>2. PlacesOK'
  BY <1>1 DEF AppInv, PlacesOK
<1>3. \A j \in Job : /\ appJobs'[j] = NoJob \/ (Under(appJobs'[j]) /\ appJobs'[j].pc = "end")
                     /\ appJobs'[j].app = appJobs[j].app /\ appJobs'[j].action = appJobs[j].action
  <2> SUFFICES ASSUME NEW j \in Job
               PROVE  /\ appJobs'[j] = NoJob \/ (Under(appJobs'[j]) /\ appJobs'[j].pc = "end")
                      /\ appJobs'[j].app = appJobs[j].app /\ appJobs'[j].action = appJobs[j].action
    OBVIOUS
  <2>1. CASE appJobs[j] = NoJob
    BY <1>1, <2>1
  <2>2. CASE appJobs[j] # NoJob
    <3>1. Under(appJobs[j]) /\ appJobs'[j] = GoneTo(appJobs[j], "end")
      BY <1>1, <2>2 DEF AppInv, JobsOK
    <3>2. /\ appJobs'[j].app = appJobs[j].app /\ appJobs'[j].action = appJobs[j].action
          /\ appJobs'[j].pc = "end" /\ DOMAIN appJobs'[j] = {"app", "action", "status", "pc", "want"}
      BY <3>1, GoneIs
    <3>3. Under(appJobs'[j])
      BY <3>1, <3>2 DEF Under
    <3> QED
      BY <3>2, <3>3
  <2> QED
    BY <2>1, <2>2
<1>4. JobsOK' /\ OneUnderWay'
  BY <1>1, <1>3, NoJobIs, AppAssumption DEF JobsOK, OneUnderWay
<1>5. ASSUME NEW x \in App \ mixed' PROVE AppOK(x)'
  <2>1. x \in App \ mixed /\ ~Busy(x) /\ apps' = apps /\ AppOK(x)
    BY <1>1, <1>5 DEF AppInv
  <2>2. ~Unlisting(appJobs, x)
    BY <2>1 DEF Unlisting, Busy
  <2>3. NoRoll(appJobs', x) <=> NoRoll(appJobs, x)
    BY <1>3 DEF NoRoll
  <2>4. \A j \in Job : appJobs'[j].app = x => appJobs'[j].pc = "end"
    BY <1>3, NoJobIs, AppAssumption
  <2>5. \A j \in Job : appJobs'[j].app = x => JobSound(appJobs'[j], ListedIn(apps', x), dir'[x], up'[x])
    BY <2>4 DEF JobSound
  <2> QED
    BY <1>1, <2>1, <2>2, <2>3, <2>5 DEF AppOK
<1> QED
  BY <1>2, <1>4, <1>5 DEF AppInv

LEMMA AppStep == ASSUME AppInv, [AppNext]_appVars PROVE AppInv'
<1>1. CASE UNCHANGED appVars
  BY <1>1 DEF appVars, AppInv, PlacesOK, JobsOK, OneUnderWay, AppOK
<1>2. CASE \E j \in Job : step(j)
  BY <1>2, QuietSteps, AddingSteps, TakingSteps, ListSteps DEF step
<1> QED
  BY <1>1, <1>2, StartHandlers, WritesStep, NewManagerStep DEF AppNext

\* An app whose jobs do not overlap is listed at most once, although Deploy
\* looks at the list long before it appends to it, and has its compose file
\* while it is listed and was not rolled back, whatever step fails (Manager,
\* AppUpdate, AppImportConfig).
THEOREM ManageableCorrect == AppSpec => []Manageable
<1>1. AppInit => AppInv
  BY AppInitInv
<1>2. AppInv /\ [AppNext]_appVars => AppInv'
  BY AppStep
<1>3. AppInv => Manageable
  BY AppInvImplies
<1> QED
  BY <1>1, <1>2, <1>3, PTL DEF AppSpec

\* Only the last step of a remove ends a job with this action as done.
LEMMA RemovesAllStep == ASSUME AppInv, [AppNext]_appVars PROVE RemovesAll
<1> SUFFICES ASSUME NEW j \in Job, appJobs[j].pc # "end", appJobs'[j].pc = "end",
                    appJobs[j].action = "remove", appJobs'[j].status = "done", appJobs[j].app \notin mixed
             PROVE  /\ up'[appJobs[j].app] = "none"
                    /\ \A i \in DOMAIN apps' : apps'[i] # appJobs[j].app
  BY DEF RemovesAll, Ends
<1> DEFINE a == appJobs[j].app
<1>1. /\ Under(appJobs[j]) /\ a \in App /\ PlacesOK /\ AppOK(a) /\ appJobs[j].status = "running"
      /\ JobSound(appJobs[j], ListedIn(apps, a), dir[a], up[a])
  BY NoJobIs, JobIs DEF AppInv, JobsOK, Under
<1>2. ASSUME RemoveApp(j)
      PROVE  up'[a] = "none" /\ \A i \in DOMAIN apps' : apps'[i] # a
  <2>1. apps' = Unlisted(a) /\ appJobs[j].pc = "unlist" /\ UNCHANGED <<dir, up>>
    BY <1>2 DEF RemoveApp
  <2>2. ~ListedIn(apps', a) /\ apps' \in Seq(App)
    BY <1>1, <2>1, UnlistedIs DEF AppOK
  <2>3. DOMAIN apps' = 1..Len(apps')
    BY <2>2
  <2> QED
    BY <1>1, <2>1, <2>2, <2>3 DEF JobSound, ListedIn
<1>3. appJobs' # appJobs
  OBVIOUS
<1>4. ASSUME NEW k \in Job, NEW b \in App, NEW action, NEW pc, NEW want, startJob(k, b, action, pc, want), pc # "end"
      PROVE  FALSE
  <2>1. appJobs'[j] = appJobs[j] \/ (appJobs'[j].pc = pc /\ k = j)
    BY <1>4 DEF startJob, AppInv, JobsOK
  <2> QED
    BY <1>4, <2>1
<1>5. ASSUME NEW k \in Job, NEW pc, Go(k, pc), pc # "end" PROVE FALSE
  <2>1. CASE k = j
    <3>1. appJobs'[j] = GoneTo(appJobs[j], pc)
      BY <1>5, <2>1, GoIs DEF AppInv, JobsOK
    <3> QED
      BY <1>1, <1>5, <3>1, GoneIs
  <2>2. CASE k # j
    BY <1>5, <2>2, GoIs DEF AppInv, JobsOK
  <2> QED
    BY <2>1, <2>2
<1>6. ASSUME NEW k \in Job, NEW s, finish(k, s) PROVE k = j /\ s = "done"
  <2>1. appJobs' = [appJobs EXCEPT ![k] = Ended(appJobs[k], s)] /\ DOMAIN appJobs = Job
    BY <1>6, FinishIs DEF AppInv, JobsOK
  <2>2. k = j
    BY <2>1
  <2>3. appJobs'[j] = Ended(appJobs[j], s)
    BY <2>1, <2>2
  <2> QED
    BY <1>1, <2>2, <2>3, EndedIs
<1>7. ~NewManager
  <2>1. ASSUME NewManager PROVE FALSE
    <3>1. appJobs'[j] = GoneTo(appJobs[j], "end") \/ appJobs'[j] = NoJob
      BY <2>1 DEF NewManager, GoneTo
    <3> QED
      BY <1>1, <3>1, GoneIs, NoJobIs
  <2> QED
    BY <2>1
<1>8. ASSUME NEW k \in Job, step(k) PROVE RemoveApp(j)
  <2>1. CASE Fails(k)
    BY <1>6, <2>1 DEF Fails
  <2>2. CASE AddApp(k) \/ StartStop(k) \/ UpAgain(k)
    <3>1. k = j
      BY <1>6, <2>2 DEF AddApp, StartStop, UpAgain
    <3>2. appJobs[j].pc \in {"list", "start", "stop", "again"}
      BY <2>2, <3>1 DEF AddApp, StartStop, UpAgain
    <3> QED
      BY <1>1, <3>2 DEF Under
  <2>3. CASE RemoveApp(k)
    BY <1>6, <2>3 DEF RemoveApp
  <2>4. CASE WriteCompose(k)
    <3>1. Go(k, "again") \/ Go(k, "pull")
      BY <2>4 DEF WriteCompose
    <3> QED
      BY <1>5, <3>1
  <2>5. CASE MkdirAll(k) \/ Pull(k) \/ Up(k) \/ Down(k) \/ RemoveAll(k) \/ Stall(k)
    BY <1>5, <2>5 DEF MkdirAll, Pull, Up, Down, RemoveAll, Stall
  <2>6. CASE Backup(k) \/ PullQuietly(k) \/ Wipe(k) \/ CopyBack(k)
    BY <1>5, <2>6 DEF Backup, PullQuietly, Wipe, CopyBack
  <2> QED
    BY <1>8, <2>1, <2>2, <2>3, <2>4, <2>5, <2>6 DEF step
<1>9. ASSUME NEW k \in Job, NEW b \in App,
             \/ deployAppHandler(k, b) \/ removeAppHandler(k, b) \/ appImportConfigHandler(k, b)
             \/ \E action \in {"start", "stop"} : appActionHandler(k, b, action)
             \/ \E backup \in BOOLEAN : appUpdateHandler(k, b, backup)
             \/ \E c \in 0..MaxData : appRollbackHandler(k, b, c)
      PROVE  FALSE
  <2>1. \E action, pc, want : startJob(k, b, action, pc, want) /\ pc # "end"
    BY <1>9 DEF deployAppHandler, Deploy, removeAppHandler, ManagerRemove, appImportConfigHandler,
       AppImportConfig, appActionHandler, Start, Stop, appUpdateHandler, AppUpdate,
       appRollbackHandler, AppRollback
  <2> QED
    BY <1>4, <2>1
<1>10. ASSUME NEW b \in App, AppWrites(b) PROVE FALSE
  BY <1>3, <1>10 DEF AppWrites
<1> QED
  BY <1>2, <1>3, <1>7, <1>8, <1>9, <1>10 DEF AppNext, appVars

\* A remove that is shown as done, on an app with no other job in between, has
\* left no containers and no entry, whatever failed on the way (Manager.Remove).
THEOREM RemovedCleanCorrect == AppSpec => RemovedClean
<1>1. AppInit => AppInv
  BY AppInitInv
<1>2. AppInv /\ [AppNext]_appVars => AppInv'
  BY AppStep
<1>3. AppInv /\ [AppNext]_appVars => [RemovesAll]_appVars
  BY RemovesAllStep
<1> QED
  BY <1>1, <1>2, <1>3, PTL DEF AppSpec, RemovedClean
-----------------------------------------------------------------------------
(* Share links (ShareLinks).  However requests overlap, a list that is     *)
(* read or about to be written counts no use that was not granted: a copy  *)
(* is only ever too old.  While requests follow one another, the one list  *)
(* that counts (the file, or the copy of the request under way) has        *)
(* counted every use that was served, and the one under way on top.        *)

Record == [used : Nat, max : Nat, expires : Nat]
Lists == UNION {[S -> Record] : S \in SUBSET Link}
Pending == [pc : {"idle", "open", "write"}, op : {"none", "create", "revoke", "resolve"},
            link : Link \cup {0}, list : Lists]

\* The links that were created, and the requests under way.
LinksOK ==
  /\ clock \in Nat
  /\ DOMAIN limit \subseteq Link /\ limit \in [DOMAIN limit -> Nat]
  /\ granted \in [Link -> Nat] /\ served \in [Link -> Nat]
  /\ linksFile \in Lists /\ pending \in [Caller -> Pending]
  /\ \A r \in Caller : pending[r] # NoCall => pending[r].link \in DOMAIN limit
  /\ revoked \subseteq DOMAIN limit
  /\ \A l \in Link \ DOMAIN limit : served[l] = 0

\* A list of links with the limits they were created with and no use too many.
Known(L) == \A l \in DOMAIN L : /\ l \in DOMAIN limit /\ L[l].max = limit[l]
                                /\ L[l].used <= granted[l]

ListsOK == Known(linksFile) /\ \A r \in Caller : Known(pending[r].list)

\* A list that has counted what was served, and no use beyond the limit.
Counts(L) == \A l \in DOMAIN L : /\ served[l] <= L[l].used
                                 /\ limit[l] > 0 => L[l].used <= limit[l]

\* A request that resolves a link has counted it; one that revokes has removed it.
Promised(q) ==
  /\ q.op = "resolve" => q.link \in DOMAIN q.list /\ served[q.link] < q.list[q.link].used
  /\ q.op = "revoke" => q.link \notin DOMAIN q.list

OneAtATime == \A r, q \in Caller : r = q \/ pending[r] = NoCall \/ pending[q] = NoCall
AllIdle == \A r \in Caller : pending[r] = NoCall
ServedWithin == \A l \in DOMAIN limit : limit[l] > 0 => served[l] <= limit[l]
Forgotten(L) == \A l \in revoked : l \notin DOMAIN L

\* What holds while requests follow one another.
Serial ==
  /\ OneAtATime /\ ServedWithin /\ Forgotten(linksFile)
  /\ AllIdle => Counts(linksFile)
  /\ \A r \in Caller : pending[r] # NoCall =>
        Counts(pending[r].list) /\ Promised(pending[r]) /\ Forgotten(pending[r].list)

\* The inductive invariant.
LinkInv == LinksOK /\ ListsOK /\ (orderly => Serial)

LEMMA ListElements ==
  ASSUME NEW L
  PROVE  L \in Lists <=> /\ DOMAIN L \subseteq Link /\ L \in [DOMAIN L -> Record]
BY DEF Lists

LEMMA NoLinksIsList == NoLinks \in Lists /\ DOMAIN NoLinks = {}
<1>1. DOMAIN NoLinks = {} /\ NoLinks \in [{} -> Record]
  BY DEF NoLinks
<1> QED
  BY <1>1, ListElements

LEMMA IdleIsPending ==
  /\ NoCall \in Pending /\ NoCall.pc = "idle" /\ NoCall.op = "none" /\ DOMAIN NoCall.list = {}
BY NoLinksIsList DEF NoCall, Pending

LEMMA LinkInit_Inv == ASSUME LinkInit PROVE LinkInv
<1>1. LinksOK
  <2>1. DOMAIN limit = {} /\ limit \in [DOMAIN limit -> Nat]
    BY DEF LinkInit, NoLinks
  <2>2. pending \in [Caller -> Pending] /\ AllIdle
    BY IdleIsPending DEF LinkInit, AllIdle
  <2>3. granted \in [Link -> Nat] /\ served \in [Link -> Nat] /\ \A l \in Link : served[l] = 0
    BY DEF LinkInit
  <2> QED
    BY <2>1, <2>2, <2>3, NoLinksIsList DEF LinkInit, LinksOK, AllIdle
<1>2. ListsOK
  BY NoLinksIsList, IdleIsPending DEF LinkInit, ListsOK, Known
<1>3. Serial
  <2>1. AllIdle /\ DOMAIN limit = {} /\ DOMAIN linksFile = {} /\ revoked = {}
    BY NoLinksIsList DEF LinkInit, AllIdle
  <2> QED
    BY <2>1 DEF Serial, OneAtATime, AllIdle, ServedWithin, Forgotten, Counts
<1> QED
  BY <1>1, <1>2, <1>3 DEF LinkInv

\* Lists stay good when links are created and uses are granted.
LEMMA KnownGrows ==
  ASSUME LinksOK, NEW L \in Lists, Known(L),
         \A l \in DOMAIN limit : l \in DOMAIN limit' /\ limit'[l] = limit[l],
         granted' \in [Link -> Nat], \A l \in Link : granted[l] <= granted'[l]
  PROVE  \A l \in DOMAIN L : /\ l \in DOMAIN limit' /\ L[l].max = limit'[l]
                             /\ L[l].used <= granted'[l]
<1> SUFFICES ASSUME NEW l \in DOMAIN L
             PROVE  l \in DOMAIN limit' /\ L[l].max = limit'[l] /\ L[l].used <= granted'[l]
  OBVIOUS
<1>1. l \in DOMAIN limit /\ L[l].max = limit[l] /\ L[l].used <= granted[l] /\ l \in Link
  BY DEF Known, LinksOK
<1>2. L[l] \in Record
  BY ListElements
<1>3. L[l].used \in Nat /\ granted[l] \in Nat /\ granted'[l] \in Nat /\ granted[l] <= granted'[l]
  BY <1>1, <1>2 DEF Record, LinksOK
<1> QED
  BY <1>1, <1>3

\* A request has read the file and made its copy.
LEMMA LoadStep ==
  ASSUME LinkInv, NEW r \in Caller, NEW op \in {"create", "revoke", "resolve"},
         NEW l \in DOMAIN limit', NEW list \in Lists, Load(r, op, l, list),
         UNCHANGED <<clock, linksFile, served, revoked>>,
         DOMAIN limit' \subseteq Link, limit' \in [DOMAIN limit' -> Nat],
         \A k \in DOMAIN limit : k \in DOMAIN limit' /\ limit'[k] = limit[k],
         granted' \in [Link -> Nat], \A k \in Link : granted[k] <= granted'[k],
         \A k \in DOMAIN list : /\ k \in DOMAIN limit' /\ list[k].max = limit'[k]
                                /\ list[k].used <= granted'[k],
         Serial => /\ \A k \in DOMAIN limit' \ DOMAIN limit : limit'[k] > 0 => served[k] <= limit'[k]
                   /\ AllIdle => /\ \A k \in DOMAIN list : /\ served[k] <= list[k].used
                                                           /\ limit'[k] > 0 => list[k].used <= limit'[k]
                                 /\ op = "resolve" => l \in DOMAIN list /\ served[l] < list[l].used
                                 /\ op = "revoke" => l \notin DOMAIN list
                                 /\ Forgotten(list)
  PROVE  LinkInv'
<1> DEFINE q == [pc |-> "open", op |-> op, link |-> l, list |-> list]
<1>1. /\ q \in Pending /\ q.op = op /\ q.link = l /\ q.list = list /\ q # NoCall
  <2>1. q \in Pending
    BY DEF Pending
  <2> QED
    BY <2>1, IdleIsPending
<1>2. pending[r] = NoCall /\ pending' = [pending EXCEPT ![r] = q] /\ (orderly' = (orderly /\ AllIdle))
  BY DEF Load, AllIdle
<1> HIDE DEF q
<1>3. pending' \in [Caller -> Pending] /\ pending'[r] = q /\ \A k \in Caller \ {r} : pending'[k] = pending[k]
  BY <1>1, <1>2 DEF LinkInv, LinksOK
<1>4. LinksOK'
  BY <1>1, <1>3 DEF LinkInv, LinksOK
<1>5. ListsOK'
  <2>1. Known(linksFile)'
    BY KnownGrows DEF LinkInv, ListsOK, LinksOK, Known
  <2>2. ASSUME NEW k \in Caller PROVE Known(pending[k].list)'
    <3>1. CASE k = r
      BY <3>1, <1>1, <1>3 DEF Known
    <3>2. CASE k # r
      <4>1. pending'[k].list = pending[k].list /\ pending[k].list \in Lists /\ Known(pending[k].list)
        BY <3>2, <1>3 DEF LinkInv, ListsOK, LinksOK, Pending
      <4> QED
        BY <4>1, KnownGrows DEF LinkInv, Known
    <3> QED
      BY <3>1, <3>2
  <2> QED
    BY <2>1, <2>2 DEF ListsOK
<1>6. ASSUME orderly'  PROVE Serial'
  <2>1. Serial /\ AllIdle
    BY <1>2, <1>6 DEF LinkInv
  <2>2. \A k \in Caller \ {r} : pending'[k] = NoCall
    BY <2>1, <1>3 DEF AllIdle
  <2>3. OneAtATime' /\ ~AllIdle'
    BY <2>2, <1>3, <1>1 DEF OneAtATime, AllIdle
  <2>4. ServedWithin'
    BY <2>1 DEF Serial, ServedWithin
  <2>5. Forgotten(linksFile)'
    BY <2>1 DEF Serial, Forgotten
  <2>6. (Counts(pending[r].list) /\ Promised(pending[r]) /\ Forgotten(pending[r].list))'
    <3>1. Counts(pending[r].list)'
      <4>1. /\ pending'[r].list = list /\ served' = served
            /\ \A k \in DOMAIN list : /\ served[k] <= list[k].used
                                      /\ limit'[k] > 0 => list[k].used <= limit'[k]
        BY <2>1, <1>1, <1>3
      <4> QED
        BY <4>1 DEF Counts
    <3>2. Promised(pending[r])'
      BY <2>1, <1>1, <1>3 DEF Promised
    <3>3. Forgotten(pending[r].list)'
      BY <2>1, <1>1, <1>3 DEF Forgotten
    <3> QED
      BY <3>1, <3>2, <3>3
  <2> QED
    BY <2>2, <2>3, <2>4, <2>5, <2>6 DEF Serial
<1> QED
  BY <1>4, <1>5, <1>6 DEF LinkInv

LEMMA CreateLink_Inv ==
  ASSUME LinkInv, NEW r \in Caller, NEW l \in Link,
         NEW max \in MaxUses, NEW t \in ExpiresIn, CreateShareLink(r, l, max, t)
  PROVE  LinkInv'
<1> DEFINE link == [used |-> 0, max |-> max, expires |-> IF t > 0 THEN clock + t ELSE 0]
           list == [k \in DOMAIN linksFile \cup {l} |-> IF k = l THEN link ELSE linksFile[k]]
<1>1. link \in Record /\ link.used = 0 /\ link.max = max
  BY LinkAssumption DEF Record, LinkInv, LinksOK
<1>2. l \notin DOMAIN limit /\ Load(r, "create", l, list)
      /\ limit' = [k \in DOMAIN limit \cup {l} |-> IF k = l THEN max ELSE limit[k]]
      /\ UNCHANGED <<clock, linksFile, granted, served, revoked>>
  BY DEF CreateShareLink, loadShareLinks
<1> HIDE DEF link
<1>3. DOMAIN linksFile \subseteq Link /\ linksFile \in [DOMAIN linksFile -> Record]
  BY ListElements DEF LinkInv, LinksOK
<1>4. DOMAIN list = DOMAIN linksFile \cup {l} /\ list[l] = link
      /\ \A k \in DOMAIN linksFile \ {l} : list[k] = linksFile[k]
  OBVIOUS
<1>5. list \in Lists
  <2>1. list \in [DOMAIN list -> Record] /\ DOMAIN list \subseteq Link
    BY <1>1, <1>3
  <2> QED
    BY <2>1, ListElements
<1> HIDE DEF list
<1>6. DOMAIN limit' = DOMAIN limit \cup {l} /\ limit'[l] = max
      /\ \A k \in DOMAIN limit : limit'[k] = limit[k]
  BY <1>2
<1>7. DOMAIN limit' \subseteq Link /\ limit' \in [DOMAIN limit' -> Nat]
  BY <1>2, <1>6, LinkAssumption DEF LinkInv, LinksOK
<1>8. l \notin DOMAIN linksFile /\ l \notin revoked /\ served[l] = 0 /\ granted[l] \in Nat
  BY <1>2 DEF LinkInv, LinksOK, ListsOK, Known
<1>9. \A k \in DOMAIN list : /\ k \in DOMAIN limit' /\ list[k].max = limit'[k]
                             /\ list[k].used <= granted'[k]
  BY <1>1, <1>2, <1>4, <1>6, <1>8 DEF LinkInv, LinksOK, ListsOK, Known
<1>10. granted' \in [Link -> Nat] /\ \A k \in Link : granted[k] <= granted'[k]
  BY <1>2 DEF LinkInv, LinksOK
<1>11. Serial => \A k \in DOMAIN limit' \ DOMAIN limit : limit'[k] > 0 => served[k] <= limit'[k]
  BY <1>6, <1>7, <1>8
<1>12. ASSUME Serial, AllIdle
       PROVE  /\ \A k \in DOMAIN list : /\ served[k] <= list[k].used
                                        /\ limit'[k] > 0 => list[k].used <= limit'[k]
              /\ Forgotten(list)
  <2>1. Counts(linksFile) /\ Forgotten(linksFile)
    BY <1>12 DEF Serial
  <2>2. Forgotten(list)
    BY <2>1, <1>4, <1>8 DEF Forgotten
  <2>3. ASSUME NEW k \in DOMAIN list
        PROVE  served[k] <= list[k].used /\ (limit'[k] > 0 => list[k].used <= limit'[k])
    <3>1. CASE k = l
      BY <3>1, <1>1, <1>4, <1>6, <1>8, LinkAssumption
    <3>2. CASE k # l
      BY <3>2, <2>1, <1>4, <1>6 DEF Counts, LinkInv, ListsOK, Known
    <3> QED
      BY <3>1, <3>2
  <2> QED
    BY <2>2, <2>3
<1> QED
  BY <1>2, <1>5, <1>6, <1>7, <1>9, <1>10, <1>11, <1>12, LoadStep

LEMMA RevokeLink_Inv ==
  ASSUME LinkInv, NEW r \in Caller, NEW l \in Link, RevokeShareLink(r, l)
  PROVE  LinkInv'
<1> DEFINE list == [k \in DOMAIN linksFile \ {l} |-> linksFile[k]]
<1>1. l \in DOMAIN linksFile /\ Load(r, "revoke", l, list)
      /\ UNCHANGED <<clock, linksFile, limit, granted, served, revoked>>
  BY DEF RevokeShareLink, loadShareLinks, Restrict
<1>2. DOMAIN linksFile \subseteq Link /\ linksFile \in [DOMAIN linksFile -> Record]
  BY ListElements DEF LinkInv, LinksOK
<1>3. DOMAIN list = DOMAIN linksFile \ {l} /\ \A k \in DOMAIN list : list[k] = linksFile[k]
  OBVIOUS
<1>4. list \in Lists
  <2>1. list \in [DOMAIN list -> Record] /\ DOMAIN list \subseteq Link
    BY <1>2
  <2> QED
    BY <2>1, ListElements
<1> HIDE DEF list
<1>5. l \in DOMAIN limit' /\ DOMAIN limit' \subseteq Link /\ limit' \in [DOMAIN limit' -> Nat]
  BY <1>1 DEF LinkInv, LinksOK, ListsOK, Known
<1>6. granted' \in [Link -> Nat] /\ \A k \in Link : granted[k] <= granted'[k]
  BY <1>1 DEF LinkInv, LinksOK
<1>7. \A k \in DOMAIN list : /\ k \in DOMAIN limit' /\ list[k].max = limit'[k]
                             /\ list[k].used <= granted'[k]
  BY <1>1, <1>3 DEF LinkInv, ListsOK, Known
<1>8. Serial /\ AllIdle => /\ \A k \in DOMAIN list : /\ served[k] <= list[k].used
                                                     /\ limit'[k] > 0 => list[k].used <= limit'[k]
                           /\ l \notin DOMAIN list
                           /\ Forgotten(list)
  BY <1>1, <1>3 DEF Serial, Counts, Forgotten
<1> QED
  BY <1>1, <1>4, <1>5, <1>6, <1>7, <1>8, LoadStep

LEMMA ResolveLink_Inv ==
  ASSUME LinkInv, NEW r \in Caller, NEW l \in Link, ResolveShareToken(r, l)
  PROVE  LinkInv'
<1> DEFINE link == [linksFile[l] EXCEPT !.used = @ + 1]
           list == [linksFile EXCEPT ![l] = link]
<1>1. /\ l \in DOMAIN linksFile /\ Load(r, "resolve", l, list)
      /\ linksFile[l].max > 0 => linksFile[l].used < linksFile[l].max
      /\ granted' = [granted EXCEPT ![l] = @ + 1]
      /\ UNCHANGED <<clock, linksFile, limit, served, revoked>>
  BY DEF ResolveShareToken, loadShareLinks, Usable
<1>2. DOMAIN linksFile \subseteq Link /\ linksFile \in [DOMAIN linksFile -> Record]
  BY ListElements DEF LinkInv, LinksOK
<1>3. link \in Record /\ link.used = linksFile[l].used + 1 /\ link.max = linksFile[l].max
      /\ linksFile[l].used \in Nat /\ linksFile[l].max \in Nat
  BY <1>1, <1>2 DEF Record
<1> HIDE DEF link
<1>4. DOMAIN list = DOMAIN linksFile /\ list[l] = link
      /\ \A k \in DOMAIN list \ {l} : list[k] = linksFile[k]
  BY <1>1, <1>2
<1>5. list \in Lists
  <2>1. list \in [DOMAIN list -> Record] /\ DOMAIN list \subseteq Link
    BY <1>2, <1>3, <1>4
  <2> QED
    BY <2>1, ListElements
<1> HIDE DEF list
<1>6. l \in DOMAIN limit /\ limit[l] = linksFile[l].max /\ linksFile[l].used <= granted[l]
  BY <1>1 DEF LinkInv, ListsOK, Known
<1>7. DOMAIN limit' \subseteq Link /\ limit' \in [DOMAIN limit' -> Nat]
  BY <1>1 DEF LinkInv, LinksOK
<1>8. /\ granted' \in [Link -> Nat] /\ \A k \in Link : granted[k] <= granted'[k]
      /\ granted'[l] = granted[l] + 1 /\ granted[l] \in Nat
  BY <1>1 DEF LinkInv, LinksOK
<1>9. \A k \in DOMAIN list : /\ k \in DOMAIN limit' /\ list[k].max = limit'[k]
                             /\ list[k].used <= granted'[k]
  <2>1. ASSUME NEW k \in DOMAIN list, k # l
        PROVE  k \in DOMAIN limit' /\ list[k].max = limit'[k] /\ list[k].used <= granted'[k]
    BY <2>1, <1>1, <1>2, <1>4 DEF LinkInv, LinksOK, ListsOK, Known
  <2>2. l \in DOMAIN limit' /\ list[l].max = limit'[l] /\ list[l].used <= granted'[l]
    BY <1>1, <1>3, <1>4, <1>6, <1>8
  <2> QED
    BY <2>1, <2>2
<1>10. ASSUME Serial, AllIdle
       PROVE  /\ \A k \in DOMAIN list : /\ served[k] <= list[k].used
                                        /\ limit'[k] > 0 => list[k].used <= limit'[k]
              /\ l \in DOMAIN list /\ served[l] < list[l].used
              /\ Forgotten(list)
  <2>1. Counts(linksFile) /\ Forgotten(linksFile) /\ served[l] \in Nat
    BY <1>10, <1>1 DEF Serial, LinkInv, LinksOK
  <2>2. Forgotten(list)
    BY <2>1, <1>4 DEF Forgotten
  <2>3. ASSUME NEW k \in DOMAIN list, k # l
        PROVE  served[k] <= list[k].used /\ (limit'[k] > 0 => list[k].used <= limit'[k])
    BY <2>3, <2>1, <1>1, <1>4 DEF Counts
  <2>4. served[l] <= linksFile[l].used
    BY <2>1, <1>1 DEF Counts
  <2>5. served[l] < list[l].used /\ served[l] <= list[l].used /\ (limit'[l] > 0 => list[l].used <= limit'[l])
    BY <2>1, <2>4, <1>1, <1>3, <1>4, <1>6
  <2> QED
    BY <2>2, <2>3, <2>5, <1>1, <1>4
<1> QED
  BY <1>1, <1>5, <1>6, <1>7, <1>8, <1>9, <1>10, LoadStep

\* The file is emptied: a list that knows nothing is only too old.
LEMMA Open_Inv ==
  ASSUME LinkInv, NEW r \in Caller, Open(r)
  PROVE  LinkInv'
<1> DEFINE q == [pending[r] EXCEPT !.pc = "write"]
<1>1. pending[r] \in Pending /\ pending[r].pc = "open" /\ pending[r] # NoCall
  BY IdleIsPending DEF Open, LinkInv, LinksOK
<1>2. q \in Pending /\ q.pc = "write" /\ q.op = pending[r].op /\ q.link = pending[r].link /\ q.list = pending[r].list
  BY <1>1 DEF Pending
<1>3. pending' = [pending EXCEPT ![r] = q] /\ linksFile' = NoLinks
      /\ UNCHANGED <<clock, limit, granted, served, revoked, orderly>>
  BY DEF Open
<1> HIDE DEF q
<1>4. q # NoCall
  BY <1>2, IdleIsPending
<1>5. pending' \in [Caller -> Pending] /\ pending'[r] = q /\ \A k \in Caller \ {r} : pending'[k] = pending[k]
  BY <1>2, <1>3 DEF LinkInv, LinksOK
<1>6. LinksOK'
  BY <1>1, <1>2, <1>3, <1>5, NoLinksIsList DEF LinkInv, LinksOK
<1>7. ListsOK'
  BY <1>2, <1>3, <1>5, NoLinksIsList DEF LinkInv, ListsOK, Known
<1>8. ASSUME orderly'  PROVE Serial'
  <2>1. Serial
    BY <1>3, <1>8 DEF LinkInv
  <2>2. OneAtATime' /\ ~AllIdle'
    BY <2>1, <1>1, <1>4, <1>5 DEF Serial, OneAtATime, AllIdle
  <2>3. ServedWithin' /\ Forgotten(linksFile)'
    BY <2>1, <1>3, NoLinksIsList DEF Serial, ServedWithin, Forgotten
  <2>4. ASSUME NEW k \in Caller, pending'[k] # NoCall
        PROVE  (Counts(pending[k].list) /\ Promised(pending[k]) /\ Forgotten(pending[k].list))'
    <3>1. /\ pending[k] # NoCall /\ pending'[k].op = pending[k].op
          /\ pending'[k].link = pending[k].link /\ pending'[k].list = pending[k].list
      BY <2>4, <1>1, <1>2, <1>5
    <3>2. Counts(pending[k].list) /\ Promised(pending[k]) /\ Forgotten(pending[k].list)
      BY <2>1, <3>1 DEF Serial
    <3>3. Counts(pending[k].list)'
      BY <3>1, <3>2, <1>3 DEF Counts
    <3>4. Promised(pending[k])'
      BY <3>1, <3>2, <1>3 DEF Promised
    <3>5. Forgotten(pending[k].list)'
      BY <3>1, <3>2, <1>3 DEF Forgotten
    <3> QED
      BY <3>3, <3>4, <3>5
  <2> QED
    BY <2>2, <2>3, <2>4 DEF Serial
<1> QED
  BY <1>6, <1>7, <1>8 DEF LinkInv

\* A request returns, with a file that holds its list, nothing, or what it held.
LEMMA Return_Inv ==
  ASSUME LinkInv, NEW r \in Caller, NEW ok \in BOOLEAN, pending[r].pc \in {"open", "write"}, Return(r, ok),
         UNCHANGED <<clock, limit, granted>>,
         linksFile' \in {linksFile, pending[r].list, NoLinks},
         orderly' => orderly /\ linksFile' \in {pending[r].list, NoLinks}
  PROVE  LinkInv'
<1> DEFINE q == pending[r]
<1>1. q \in Pending /\ q # NoCall /\ q.list \in Lists /\ q.link \in DOMAIN limit /\ q.link \in Link
  BY IdleIsPending DEF LinkInv, LinksOK, Pending
<1>2. /\ pending' = [pending EXCEPT ![r] = NoCall]
      /\ served' = IF q.op = "resolve" THEN [served EXCEPT ![q.link] = @ + 1] ELSE served
      /\ revoked' \subseteq IF q.op = "revoke" THEN revoked \cup {q.link} ELSE revoked
  BY DEF Return
<1>3. pending' \in [Caller -> Pending] /\ pending'[r] = NoCall /\ \A k \in Caller \ {r} : pending'[k] = pending[k]
  BY <1>2, IdleIsPending DEF LinkInv, LinksOK
<1>4. served' \in [Link -> Nat] /\ \A l \in Link : l # q.link \/ q.op # "resolve" => served'[l] = served[l]
  BY <1>1, <1>2 DEF LinkInv, LinksOK
<1>5. q.op = "resolve" => served'[q.link] = served[q.link] + 1
  BY <1>1, <1>2 DEF LinkInv, LinksOK
<1>6. LinksOK'
  BY <1>1, <1>2, <1>3, <1>4, NoLinksIsList DEF LinkInv, LinksOK
<1>7. ListsOK'
  BY <1>3, NoLinksIsList, IdleIsPending DEF LinkInv, ListsOK, Known
<1>8. ASSUME orderly'  PROVE Serial'
  <2>1. Serial /\ linksFile' \in {q.list, NoLinks}
    BY <1>8 DEF LinkInv
  <2>2. Counts(q.list) /\ Promised(q) /\ Forgotten(q.list)
    BY <2>1, <1>1 DEF Serial
  <2>3. AllIdle' /\ OneAtATime'
    BY <2>1, <1>1, <1>3 DEF Serial, OneAtATime, AllIdle
  <2>4. \A l \in DOMAIN q.list : /\ l \in Link /\ q.list[l] \in Record /\ l \in DOMAIN limit
                                 /\ served'[l] <= q.list[l].used
                                 /\ limit[l] > 0 => q.list[l].used <= limit[l]
    <3> SUFFICES ASSUME NEW l \in DOMAIN q.list
                 PROVE  /\ l \in Link /\ q.list[l] \in Record /\ l \in DOMAIN limit
                        /\ served'[l] <= q.list[l].used
                        /\ limit[l] > 0 => q.list[l].used <= limit[l]
      OBVIOUS
    <3>1. l \in Link /\ q.list[l] \in Record
      BY <1>1, ListElements
    <3>2. q.list[l].used \in Nat /\ served[l] \in Nat /\ l \in DOMAIN limit
      BY <3>1 DEF Record, LinkInv, LinksOK, ListsOK, Known
    <3>3. served[l] <= q.list[l].used /\ (limit[l] > 0 => q.list[l].used <= limit[l])
      BY <2>2 DEF Counts
    <3>4. CASE l # q.link \/ q.op # "resolve"
      BY <3>1, <3>2, <3>3, <3>4, <1>4
    <3>5. CASE l = q.link /\ q.op = "resolve"
      BY <3>1, <3>2, <3>3, <3>5, <1>5, <2>2 DEF Promised
    <3> QED
      BY <3>4, <3>5
  <2>5. Counts(linksFile)'
    BY <2>1, <2>4, NoLinksIsList DEF Counts
  <2>6. Forgotten(linksFile)'
    BY <2>1, <2>2, <1>2, NoLinksIsList DEF Forgotten, Promised
  <2>7. ServedWithin'
    <3> SUFFICES ASSUME NEW l \in DOMAIN limit, limit[l] > 0  PROVE served'[l] <= limit[l]
      BY DEF ServedWithin
    <3>1. CASE l # q.link \/ q.op # "resolve"
      BY <3>1, <1>4, <2>1 DEF Serial, ServedWithin, LinkInv, LinksOK
    <3>2. CASE l = q.link /\ q.op = "resolve"
      <4>1. l \in DOMAIN q.list
        BY <3>2, <2>2 DEF Promised
      <4>2. served'[l] <= q.list[l].used /\ q.list[l].used <= limit[l] /\ l \in Link /\ q.list[l] \in Record
        BY <4>1, <2>4
      <4>3. served'[l] \in Nat /\ q.list[l].used \in Nat /\ limit[l] \in Nat
        BY <4>2, <1>4 DEF Record, LinkInv, LinksOK
      <4> QED
        BY <4>2, <4>3
    <3> QED
      BY <3>1, <3>2
  <2> QED
    BY <2>3, <2>5, <2>6, <2>7 DEF Serial, AllIdle
<1> QED
  BY <1>6, <1>7, <1>8 DEF LinkInv

LEMMA LinkStep ==
  ASSUME LinkInv, [LinkNext]_linkVars
  PROVE  LinkInv'
<1>1. ASSUME NEW r \in Caller, NEW l \in Link, NEW max \in MaxUses, NEW t \in ExpiresIn,
             createShareLinkHandler(r, l, max, t)
      PROVE  LinkInv'
  BY <1>1, CreateLink_Inv DEF createShareLinkHandler
<1>2. ASSUME NEW r \in Caller, NEW l \in Link, revokeShareHandler(r, l) \/ publicShareHandler(r, l)
      PROVE  LinkInv'
  BY <1>2, RevokeLink_Inv, ResolveLink_Inv DEF revokeShareHandler, publicShareHandler
<1>3. ASSUME NEW r \in Caller, Open(r)  PROVE LinkInv'
  BY <1>3, Open_Inv
<1>4. ASSUME NEW r \in Caller, saveShareLinks(r)  PROVE LinkInv'
  <2>1. linksFile' \in {pending[r].list, NoLinks} /\ Return(r, TRUE) /\ orderly' = orderly
        /\ pending[r].pc \in {"open", "write"} /\ UNCHANGED <<clock, limit, granted>>
    BY <1>4 DEF saveShareLinks
  <2> QED
    BY <2>1, Return_Inv
<1>5. ASSUME NEW r \in Caller, SaveFailed(r)  PROVE LinkInv'
  <2>1. linksFile' = linksFile /\ Return(r, FALSE) /\ ~orderly'
        /\ pending[r].pc \in {"open", "write"} /\ UNCHANGED <<clock, limit, granted>>
    BY <1>5 DEF SaveFailed
  <2> QED
    BY <2>1, Return_Inv
<1>6. CASE ClockTicks \/ UNCHANGED linkVars
  <2>1. clock' \in Nat /\ UNCHANGED <<linksFile, pending, limit, granted, served, revoked, orderly>>
    BY <1>6 DEF ClockTicks, linkVars, LinkInv, LinksOK
  <2>2. LinksOK' /\ ListsOK'
    BY <2>1 DEF LinkInv, LinksOK, ListsOK, Known
  <2>3. Serial => Serial'
    BY <2>1 DEF Serial, OneAtATime, AllIdle, ServedWithin, Forgotten, Counts, Promised
  <2> QED
    BY <2>1, <2>2, <2>3 DEF LinkInv
<1> QED
  BY <1>1, <1>2, <1>3, <1>4, <1>5, <1>6 DEF LinkNext

\* However requests overlap, the counter of a link is never ahead of the uses
\* that were granted; and as long as requests follow one another and writes
\* succeed, a link is served no more often than its limit and one that was
\* revoked is gone from shares.json (ResolveShareToken, RevokeShareLink).
THEOREM LinksCorrect == LinkSpec => []LinksLimited
<1>1. LinkInit => LinkInv
  BY LinkInit_Inv
<1>2. LinkInv /\ [LinkNext]_linkVars => LinkInv'
  BY LinkStep
<1>3. LinkInv => LinksLimited
  BY DEF LinkInv, ListsOK, Known, LinksLimited, NeverOvercounted, OrderlyLimits, Serial, ServedWithin, Forgotten
<1> QED
  BY <1>1, <1>2, <1>3, PTL DEF LinkSpec
-----------------------------------------------------------------------------
(* Containers.  A container that is there has its image and its volumes.   *)

Fields == {"state", "image", "volumes", "tty", "restart", "mem", "cpu"}
Uses(c, im, vo) == c.state # "none" => c.image \in im /\ c.volumes \subseteq vo
KnownState(c) == c.state \in {"none", "running", "paused", "exited"} /\ DOMAIN c = Fields
EngineInv ==
  /\ DOMAIN containers = Id
  /\ images \subseteq Image /\ volumes \subseteq Volume
  /\ \A i \in Id : KnownState(containers[i]) /\ Uses(containers[i], images, volumes)

LEMMA NoneIs == \A im, vo : KnownState(None) /\ Uses(None, im, vo)
  BY DEF None, KnownState, Uses, Fields

LEMMA ChangeKeeps ==
  ASSUME EngineInv, NEW i \in Id, NEW c, Change(i, c), KnownState(c), Uses(c, images, volumes)
  PROVE  EngineInv'
<1>1. containers' = [containers EXCEPT ![i] = c] /\ images' = images /\ volumes' = volumes
  BY DEF Change
<1>2. DOMAIN containers' = Id /\ containers'[i] = c /\ \A j \in Id \ {i} : containers'[j] = containers[j]
  BY <1>1 DEF EngineInv
<1> QED
  BY <1>1, <1>2 DEF EngineInv

LEMMA BecomeKeeps ==
  ASSUME EngineInv, NEW i \in Id, NEW from, NEW to, Become(i, from, to), "none" \notin from,
         to \in {"running", "paused", "exited"}
  PROVE  EngineInv'
<1> DEFINE c == [containers[i] EXCEPT !.state = to]
<1>1. KnownState(containers[i]) /\ Uses(containers[i], images, volumes) /\ containers[i].state # "none"
  BY DEF EngineInv, Become
<1>2. DOMAIN c = Fields /\ c.state = to /\ c.image = containers[i].image /\ c.volumes = containers[i].volumes
  BY <1>1 DEF KnownState, Fields
<1>3. KnownState(c) /\ Uses(c, images, volumes)
  BY <1>1, <1>2 DEF KnownState, Uses
<1> QED
  BY <1>3, ChangeKeeps DEF Become

\* Settings of a container that say nothing of its state, image and volumes.
LEMMA SettingKeeps ==
  ASSUME EngineInv, NEW i \in Id, NEW c, Change(i, c), DOMAIN c = Fields, c.state = containers[i].state,
         c.image = containers[i].image, c.volumes = containers[i].volumes
  PROVE  EngineInv'
<1>1. KnownState(containers[i]) /\ Uses(containers[i], images, volumes)
  BY DEF EngineInv
<1>2. KnownState(c) /\ Uses(c, images, volumes)
  BY <1>1 DEF KnownState, Uses
<1> QED
  BY <1>2, ChangeKeeps

LEMMA PolicyKeeps ==
  ASSUME EngineInv, NEW i \in Id, NEW policy, SetContainerRestartPolicy(i, policy)
  PROVE  EngineInv'
<1> DEFINE c == [containers[i] EXCEPT !.restart = policy]
<1>1. DOMAIN containers[i] = Fields
  BY DEF EngineInv, KnownState
<1>2. DOMAIN c = Fields /\ c.state = containers[i].state /\ c.image = containers[i].image
      /\ c.volumes = containers[i].volumes
  BY <1>1 DEF Fields
<1>3. Change(i, c)
  BY DEF SetContainerRestartPolicy
<1> QED
  BY <1>2, <1>3, SettingKeeps

LEMMA LimitsKeep ==
  ASSUME EngineInv, NEW i \in Id, NEW mem, NEW cpu, UpdateContainerLimits(i, mem, cpu)
  PROVE  EngineInv'
<1> DEFINE c == [containers[i] EXCEPT !.mem = IF mem > 0 THEN mem ELSE @, !.cpu = IF cpu > 0 THEN cpu ELSE @]
<1>1. DOMAIN containers[i] = Fields
  BY DEF EngineInv, KnownState
<1>2. DOMAIN c = Fields /\ c.state = containers[i].state /\ c.image = containers[i].image
      /\ c.volumes = containers[i].volumes
  BY <1>1 DEF Fields
<1>3. Change(i, c)
  BY DEF UpdateContainerLimits
<1> QED
  BY <1>2, <1>3, SettingKeeps

LEMMA RunKeeps ==
  ASSUME EngineInv, NEW i \in Id, NEW image, NEW vs \in SUBSET Volume, NEW tty, Run(i, image, vs, tty)
  PROVE  EngineInv'
<1> DEFINE c == [None EXCEPT !.state = "running", !.image = image, !.volumes = vs, !.tty = tty]
<1>1. DOMAIN c = Fields /\ c.state = "running" /\ c.image = image /\ c.volumes = vs
  BY DEF None, Fields
<1> HIDE DEF c
<1>2. containers' = [containers EXCEPT ![i] = c] /\ images' = images /\ volumes' = volumes \cup vs
      /\ image \in images
  BY DEF Run, c
<1>3. DOMAIN containers' = Id /\ containers'[i] = c /\ \A j \in Id \ {i} : containers'[j] = containers[j]
  BY <1>2 DEF EngineInv
<1>4. KnownState(c) /\ Uses(c, images', volumes')
  BY <1>1, <1>2 DEF KnownState, Uses
<1>5. \A j \in Id \ {i} : KnownState(containers'[j]) /\ Uses(containers'[j], images', volumes')
  BY <1>2, <1>3 DEF EngineInv, Uses
<1>6. images' \subseteq Image /\ volumes' \subseteq Volume
  BY <1>2 DEF EngineInv
<1> QED
  BY <1>3, <1>4, <1>5, <1>6 DEF EngineInv

\* Images and volumes come, or go while no container uses them.
LEMMA ObjectsKeep ==
  ASSUME EngineInv, containers' = containers, images' \subseteq Image, volumes' \subseteq Volume,
         images \cap ImagesUsed \subseteq images', volumes \cap VolumesUsed \subseteq volumes'
  PROVE  EngineInv'
<1>1. ASSUME NEW i \in Id PROVE Uses(containers[i], images', volumes')
  <2>1. Uses(containers[i], images, volumes)
    BY DEF EngineInv
  <2>2. Has(i) => containers[i].image \in ImagesUsed /\ containers[i].volumes \subseteq VolumesUsed
    BY DEF ImagesUsed, VolumesUsed
  <2> QED
    BY <2>1, <2>2 DEF Uses, Has
<1> QED
  BY <1>1 DEF EngineInv

LEMMA PruneKeeps ==
  ASSUME EngineInv, NEW withVolumes, DockerPrune(withVolumes)
  PROVE  EngineInv'
<1> DEFINE left == [i \in Id |-> IF containers[i].state \in {"running", "paused"} THEN containers[i] ELSE None]
           alive == {i \in Id : left[i] # None}
<1>1. containers' = left /\ images' = images \cap {left[i].image : i \in alive}
      /\ (volumes' = volumes \cap UNION {left[i].volumes : i \in alive} \/ volumes' = volumes)
  BY DEF DockerPrune
<1>2. ASSUME NEW i \in Id PROVE KnownState(left[i]) /\ Uses(left[i], images, volumes)
  BY NoneIs DEF EngineInv
<1>3. DOMAIN left = Id
  OBVIOUS
<1> HIDE DEF left
<1>4. ASSUME NEW i \in Id PROVE Uses(left[i], images', volumes')
  <2>1. CASE left[i] = None
    BY <2>1, NoneIs
  <2>2. CASE left[i] # None
    <3>1. i \in alive
      BY <2>2
    <3>2. left[i].image \in {left[j].image : j \in alive}
      BY <3>1
    <3>3. left[i].volumes \subseteq UNION {left[j].volumes : j \in alive}
      BY <3>1
    <3> QED
      BY <1>1, <1>2, <3>2, <3>3 DEF Uses
  <2> QED
    BY <2>1, <2>2
<1>5. images' \subseteq Image /\ volumes' \subseteq Volume
  BY <1>1 DEF EngineInv
<1> QED
  BY <1>1, <1>2, <1>3, <1>4, <1>5 DEF EngineInv

LEMMA ComposeKeeps ==
  ASSUME EngineInv, NEW ps \in SUBSET Id, NEW action \in {"up", "down", "restart", "pull"},
         ComposeAction(ps, action)
  PROVE  EngineInv'
<1>1. CASE action \in {"up", "restart"}
  <2> DEFINE C(i) == [containers[i] EXCEPT !.state = "running"]
             to == [i \in Id |-> IF i \in ps /\ Has(i) THEN C(i) ELSE containers[i]]
  <2>1. containers' = to /\ images' = images /\ volumes' = volumes
    BY <1>1 DEF ComposeAction
  <2>2. ASSUME NEW i \in Id, Has(i) PROVE KnownState(C(i)) /\ Uses(C(i), images, volumes)
    <3>1. KnownState(containers[i]) /\ Uses(containers[i], images, volumes)
      BY DEF EngineInv
    <3>2. DOMAIN C(i) = Fields /\ C(i).state = "running" /\ C(i).image = containers[i].image
          /\ C(i).volumes = containers[i].volumes
      BY <3>1 DEF KnownState, Fields
    <3> QED
      BY <2>2, <3>1, <3>2 DEF KnownState, Uses, Has
  <2>3. ASSUME NEW i \in Id PROVE KnownState(to[i]) /\ Uses(to[i], images, volumes)
    BY <2>2 DEF EngineInv
  <2>4. DOMAIN to = Id
    OBVIOUS
  <2> HIDE DEF to
  <2> QED
    BY <2>1, <2>3, <2>4 DEF EngineInv
<1>2. CASE action = "down"
  <2> DEFINE to == [i \in Id |-> IF i \in ps THEN None ELSE containers[i]]
  <2>1. containers' = to /\ images' = images /\ volumes' = volumes
    BY <1>2 DEF ComposeAction
  <2>2. ASSUME NEW i \in Id PROVE KnownState(to[i]) /\ Uses(to[i], images, volumes)
    BY NoneIs DEF EngineInv
  <2>3. DOMAIN to = Id
    OBVIOUS
  <2> HIDE DEF to
  <2> QED
    BY <2>1, <2>2, <2>3 DEF EngineInv
<1>3. CASE action = "pull"
  <2>1. containers' = containers /\ volumes' = volumes
        /\ images' = images \cup {containers[i].image : i \in ps} /\ \A i \in ps : Has(i)
    BY <1>3 DEF ComposeAction
  <2>2. {containers[i].image : i \in ps} \subseteq images
    BY <2>1 DEF EngineInv, Uses, Has
  <2>3. images' = images
    BY <2>1, <2>2
  <2> QED
    BY <2>1, <2>3 DEF EngineInv
<1> QED
  BY <1>1, <1>2, <1>3

LEMMA EngineStep ==
  ASSUME EngineInv, [LogNext \/ EngineNext]_dockerVars
  PROVE  EngineInv'
<1>1. ASSUME NEW i \in Id, NEW image, NEW vs \in SUBSET Volume, NEW tty, Run(i, image, vs, tty)  PROVE EngineInv'
  BY <1>1, RunKeeps
<1>2. ASSUME NEW i \in Id, StartContainer(i) \/ StopContainer(i) \/ PauseContainer(i) \/ UnpauseContainer(i)
                           \/ RestartContainer(i)  PROVE EngineInv'
  BY <1>2, BecomeKeeps
     DEF StartContainer, StopContainer, PauseContainer, UnpauseContainer, RestartContainer
<1>3. ASSUME NEW i \in Id, RemoveContainer(i)  PROVE EngineInv'
  BY <1>3, NoneIs, ChangeKeeps DEF RemoveContainer
<1>4. ASSUME NEW i \in Id, SetContainerRestartPolicy(i, "always")  PROVE EngineInv'
  BY <1>4, PolicyKeeps
<1>5. ASSUME NEW i \in Id, UpdateContainerLimits(i, 1, 0) \/ UpdateContainerLimits(i, 0, 1)  PROVE EngineInv'
  BY <1>5, LimitsKeep
<1>6. ASSUME NEW image \in Image, PullImage(image)  PROVE EngineInv'
  <2>1. containers' = containers /\ images' = images \cup {image} /\ volumes' = volumes
    BY <1>6 DEF PullImage
  <2> QED
    BY <2>1, ObjectsKeep DEF EngineInv
<1>7. ASSUME NEW image \in Image, RemoveDockerImage(image)  PROVE EngineInv'
  <2>1. containers' = containers /\ images' = images \ {image} /\ volumes' = volumes /\ image \notin ImagesUsed
    BY <1>7 DEF RemoveDockerImage
  <2> QED
    BY <2>1, ObjectsKeep DEF EngineInv
<1>8. ASSUME NEW v \in Volume, RemoveDockerVolume(v)  PROVE EngineInv'
  <2>1. containers' = containers /\ volumes' = volumes \ {v} /\ images' = images /\ v \notin VolumesUsed
    BY <1>8 DEF RemoveDockerVolume
  <2> QED
    BY <2>1, ObjectsKeep DEF EngineInv
<1>9. ASSUME NEW withVolumes \in BOOLEAN, DockerPrune(withVolumes)  PROVE EngineInv'
  BY <1>9, PruneKeeps
<1>10. ASSUME NEW ps \in SUBSET Id, NEW action \in {"up", "down", "restart", "pull"}, ComposeAction(ps, action)
       PROVE  EngineInv'
  BY <1>10, ComposeKeeps
<1>11. ASSUME UNCHANGED <<containers, images, volumes>>  PROVE EngineInv'
  BY <1>11 DEF EngineInv
<1>12. CASE LogNext
  <2>1. ASSUME NEW i \in Id, NEW image \in images, NEW tty \in BOOLEAN, Run(i, image, {}, tty)  PROVE EngineInv'
    BY <1>1, <2>1
  <2>2. ASSUME NEW i \in Id, NEW stream, NEW text, Write(i, stream, text)  PROVE EngineInv'
    BY <1>11, <2>2 DEF Write
  <2>3. ASSUME NEW i \in Id, NEW n, containerLogsHandler(i, n)  PROVE EngineInv'
    BY <1>11, <2>3 DEF containerLogsHandler, ContainerLogs
  <2>4. ASSUME NEW image \in Image, pullImageHandler(image)  PROVE EngineInv'
    BY <1>6, <2>4 DEF pullImageHandler
  <2> QED
    BY <1>12, <2>1, <2>2, <2>3, <2>4 DEF LogNext
<1>13. CASE EngineNext
  BY <1>1, <1>2, <1>3, <1>4, <1>5, <1>6, <1>7, <1>8, <1>9, <1>10, <1>13
     DEF EngineNext, startContainerHandler, stopContainerHandler, removeContainerHandler,
         pauseContainerHandler, unpauseContainerHandler, restartContainerHandler, setRestartPolicyHandler,
         updateContainerLimitsHandler, pullImageHandler, removeDockerImageHandler,
         removeDockerVolumeHandler, dockerPruneHandler, composeActionHandler
<1>14. CASE UNCHANGED dockerVars
  BY <1>11, <1>14 DEF dockerVars
<1> QED
  BY <1>12, <1>13, <1>14

\* Whatever is run, stopped, removed, composed or pruned, in any order and for any
\* number of containers: a container keeps its image and its volumes as long as it
\* is there (RemoveDockerImage, RemoveDockerVolume, DockerPrune, ComposeAction).
THEOREM InUseCorrect == DockerSpec => [](DockerTypeOK /\ InUseKept)
<1>1. DockerInit => EngineInv
  BY NoneIs DEF DockerInit, EngineInv
<1>2. EngineInv /\ [LogNext \/ EngineNext]_dockerVars => EngineInv'
  BY EngineStep
<1>3. EngineInv => DockerTypeOK /\ InUseKept
  <2> SUFFICES ASSUME EngineInv PROVE DockerTypeOK /\ InUseKept
    OBVIOUS
  <2>1. ImagesUsed \subseteq images
    BY DEF EngineInv, Uses, Has, ImagesUsed
  <2>2. VolumesUsed \subseteq volumes
    BY DEF EngineInv, Uses, Has, VolumesUsed
  <2> QED
    BY <2>1, <2>2 DEF DockerTypeOK, InUseKept, EngineInv, KnownState
<1> QED
  BY <1>1, <1>2, <1>3, PTL DEF DockerSpec
=============================================================================
