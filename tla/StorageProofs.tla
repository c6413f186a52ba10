--------------------------- MODULE StorageProofs ----------------------------
(***************************************************************************)
(* Theorems about what keeps the data of the box, for any number of paths, *)
(* datasets, pools, disks and requests: restores of btrfs snapshots, the   *)
(* keys of datasets, the caps of the Home tier and the pools that are      *)
(* stopped, and the backup routes.  The components share no variable.      *)
(***************************************************************************)
EXTENDS BtrfsVolumes, Datasets, Pools, Backups, FiniteSetTheorems, TLAPS

-----------------------------------------------------------------------------
(* Restores of btrfs snapshots (BtrfsVolumes).  A version leaves the tree  *)
(* only in a step that notes it as dropped.  A rename keeps it because its *)
(* target is a place of the tree and is empty; that is where the types of  *)
(* a restore under way are needed.  A snapshot keeps it because what it    *)
(* overwrites is empty.                                                    *)

Node == [data : Nat, inner : Nat]
Restore == [step : {"idle", "moved"}, p : Path \cup {""}, snap : Path \cup {""}, t : Nat]

\* The tree and the restores under way, without the bounds that do not matter.
TreeOK ==
  /\ vol \in [Places -> Node]
  /\ second \in 0..MaxSecond /\ written \in Nat
  /\ flight \in [Restorer -> Restore]
  /\ \A c \in Restorer : flight[c].step = "moved" =>
        flight[c].p \in Path /\ flight[c].snap \in Path /\ flight[c].t \in 0..MaxSecond

\* The inductive invariant.
BtrfsInv == TreeOK /\ RestoreLosesNothing

LEMMA PlacesOfPath ==
  ASSUME NEW p \in Path, NEW t \in 0..MaxSecond
  PROVE  At(p) \in Places /\ Aside(p, t) \in Places
BY DEF Places

LEMMA AbsentIsNode == Absent \in Node /\ Absent.data = 0 /\ Absent.inner = 0
BY DEF Absent, Node

\* A rename to an empty place keeps every version, and the types.
LEMMA RenameKeeps ==
  ASSUME vol \in [Places -> Node], NEW x \in Places, NEW y \in Places, CanRename(x, y)
  PROVE  /\ Renamed(x, y) \in [Places -> Node]
         /\ VersionsOf(vol) \subseteq VersionsOf(Renamed(x, y))
<1>1. x # y /\ vol[y] = Absent
  BY DEF CanRename, There
<1>2. Renamed(x, y) \in [Places -> Node]
  BY AbsentIsNode DEF Renamed
<1>3. Renamed(x, y)[y] = vol[x] /\ \A z \in Places \ {x, y} : Renamed(x, y)[z] = vol[z]
  BY <1>1 DEF Renamed
<1>4. ASSUME NEW z \in Places, vol[z] # Absent
      PROVE  \E z2 \in Places : Renamed(x, y)[z2] = vol[z]
  BY <1>1, <1>3, <1>4
<1>5. ASSUME NEW v, v \in VersionsOf(vol)
      PROVE  v \in VersionsOf(Renamed(x, y))
  <2>1. PICK z \in Places : v # 0 /\ (vol[z].data = v \/ vol[z].inner = v)
    BY <1>5 DEF VersionsOf
  <2> QED
    BY <2>1, <1>4, AbsentIsNode DEF VersionsOf
<1> QED
  BY <1>2, <1>5

\* So does a snapshot: what it puts its data over is empty.
LEMMA SnapshotKeeps ==
  ASSUME vol \in [Places -> Node], NEW s \in Path, NEW p \in Path, CanSnapshot(s, p)
  PROVE  /\ Snapshot(s, p) \in [Places -> Node]
         /\ VersionsOf(vol) \subseteq VersionsOf(Snapshot(s, p))
<1> DEFINE w == Snapshot(s, p)
<1>1. At(s) \in Places /\ At(p) \in Places
  BY DEF Places
<1>2. w \in [Places -> Node] /\ \A z \in Places \ {At(p)} : w[z] = vol[z]
  BY <1>1 DEF Snapshot, Node
<1>3. \/ w[At(p)].data = vol[At(p)].data /\ vol[At(p)].inner = 0
      \/ vol[At(p)].data = 0 /\ vol[At(p)].inner = 0
  BY <1>1, AbsentIsNode DEF Snapshot, CanSnapshot, There, Node
<1>4. ASSUME NEW v, v \in VersionsOf(vol)
      PROVE  v \in VersionsOf(w)
  <2>1. PICK z \in Places : v # 0 /\ (vol[z].data = v \/ vol[z].inner = v)
    BY <1>4 DEF VersionsOf
  <2> QED
    BY <2>1, <1>2, <1>3 DEF VersionsOf
<1> QED
  BY <1>2, <1>4

\* A step that keeps all versions keeps the invariant,
LEMMA KeepingIsSafe ==
  ASSUME RestoreLosesNothing, VersionsOf(vol) \subseteq VersionsOf(vol'),
         written' = written, dropped' = dropped
  PROVE  RestoreLosesNothing'
BY DEF RestoreLosesNothing, VersionsOf

\* and so does one that notes what it drops.
LEMMA DroppingIsSafe ==
  ASSUME RestoreLosesNothing, Loses(vol'), written' = written
  PROVE  RestoreLosesNothing'
BY DEF RestoreLosesNothing, Loses, VersionsOf

\* A new version is in the tree.
LEMMA WritingIsSafe ==
  ASSUME TreeOK, RestoreLosesNothing, NEW x \in Places,
         written' = written + 1, vol' = [vol EXCEPT ![x].data = written + 1],
         (vol[x] = Absent /\ dropped' = dropped) \/ Loses(vol')
  PROVE  RestoreLosesNothing' /\ vol' \in [Places -> Node]
<1>1. vol' \in [Places -> Node] /\ vol'[x].data = written + 1
      /\ vol'[x].inner = vol[x].inner /\ \A z \in Places \ {x} : vol'[z] = vol[z]
  BY DEF TreeOK, Node
<1>2. written + 1 \in VersionsOf(vol')
  BY <1>1 DEF VersionsOf, TreeOK
<1>3. ASSUME NEW v \in 1..written
      PROVE  v \in VersionsOf(vol') \/ v \in dropped'
  <2>1. v \in VersionsOf(vol) \/ v \in dropped
    BY DEF RestoreLosesNothing
  <2>2. CASE Loses(vol')
    BY <2>1, <2>2 DEF Loses, VersionsOf
  <2>3. CASE vol[x] = Absent /\ dropped' = dropped
    <3>1. ASSUME v \in VersionsOf(vol)  PROVE v \in VersionsOf(vol')
      <4>1. PICK z \in Places : v # 0 /\ (vol[z].data = v \/ vol[z].inner = v)
        BY <3>1 DEF VersionsOf
      <4> QED
        BY <4>1, <1>1, <2>3, AbsentIsNode DEF VersionsOf
    <3> QED
      BY <2>1, <2>3, <3>1
  <2> QED
    BY <2>2, <2>3
<1>4. ASSUME NEW v \in 1..written'
      PROVE  v \in VersionsOf(vol') \/ v \in dropped'
  <2>1. v = written + 1 \/ v \in 1..written
    BY DEF TreeOK
  <2> QED
    BY <2>1, <1>2, <1>3
<1>5. RestoreLosesNothing'
  BY <1>4 DEF RestoreLosesNothing, VersionsOf
<1> QED
  BY <1>1, <1>5

LEMMA BtrfsInit_Inv == ASSUME BtrfsInit PROVE BtrfsInv
<1>1. vol \in [Places -> Node]
  BY AbsentIsNode DEF BtrfsInit
<1>2. flight \in [Restorer -> Restore] /\ \A c \in Restorer : flight[c].step = "idle"
  BY DEF BtrfsInit, Rest, Restore
<1>3. second \in 0..MaxSecond /\ written = 0
  BY SecondAssumption DEF BtrfsInit
<1>4. TreeOK
  BY <1>1, <1>2, <1>3 DEF TreeOK
<1>5. RestoreLosesNothing
  BY <1>3 DEF RestoreLosesNothing
<1> QED
  BY <1>4, <1>5 DEF BtrfsInv

LEMMA RestoreTypes ==
  ASSUME TreeOK, NEW c \in Restorer
  PROVE  [flight EXCEPT ![c] = Rest] \in [Restorer -> Restore]
BY DEF TreeOK, Rest, Restore

LEMMA BtrfsStep ==
  ASSUME BtrfsInv, [BtrfsNext]_btrfsVars
  PROVE  BtrfsInv'
<1> USE DEF BtrfsInv
<1>1. ASSUME NEW p \in Path, CreateBtrfsSubvol(p)
      PROVE  BtrfsInv'
  <2>1. At(p) \in Places
    BY DEF Places
  <2>2. RestoreLosesNothing' /\ vol' \in [Places -> Node]
    BY <1>1, <2>1, WritingIsSafe DEF CreateBtrfsSubvol, There
  <2>3. TreeOK'
    BY <1>1, <2>2 DEF CreateBtrfsSubvol, TreeOK
  <2> QED
    BY <2>2, <2>3
<1>2. ASSUME NEW p \in Path, Rewrite(p)
      PROVE  BtrfsInv'
  <2>1. At(p) \in Places
    BY DEF Places
  <2>2. RestoreLosesNothing' /\ vol' \in [Places -> Node]
    BY <1>2, <2>1, WritingIsSafe DEF Rewrite
  <2>3. TreeOK'
    BY <1>2, <2>2 DEF Rewrite, TreeOK
  <2> QED
    BY <2>2, <2>3
<1>3. ASSUME NEW x \in Places, DeleteBtrfsSubvol(x)
      PROVE  BtrfsInv'
  <2>1. vol' \in [Places -> Node]
    BY <1>3, AbsentIsNode DEF DeleteBtrfsSubvol, TreeOK, Node
  <2> QED
    BY <1>3, <2>1, DroppingIsSafe DEF DeleteBtrfsSubvol, TreeOK
<1>4. ASSUME NEW s \in Path, NEW p \in Path, CreateBtrfsSnapshot(s, p)
      PROVE  BtrfsInv'
  BY <1>4, SnapshotKeeps, KeepingIsSafe DEF CreateBtrfsSnapshot, TreeOK
<1>5. ASSUME NEW c \in Restorer, NEW p \in Path, NEW s \in Path, RestoreBtrfsSnapshot(c, p, s)
      PROVE  BtrfsInv'
  <2>1. At(p) \in Places /\ Aside(p, second) \in Places
    BY PlacesOfPath DEF TreeOK
  <2>2. vol' \in [Places -> Node] /\ VersionsOf(vol) \subseteq VersionsOf(vol')
    BY <1>5, <2>1, RenameKeeps DEF RestoreBtrfsSnapshot, MoveAside, TreeOK
  <2>3. flight' \in [Restorer -> Restore]
        /\ \A d \in Restorer : flight'[d].step = "moved" =>
              flight'[d].p \in Path /\ flight'[d].snap \in Path /\ flight'[d].t \in 0..MaxSecond
    <3> DEFINE r == [step |-> "moved", p |-> p, snap |-> s, t |-> second]
    <3>1. r \in Restore /\ r.p \in Path /\ r.snap \in Path /\ r.t \in 0..MaxSecond
      <4>1. second \in Nat /\ second \in 0..MaxSecond
        BY DEF TreeOK
      <4>2. r \in Restore
        BY <4>1 DEF Restore
      <4> QED
        BY <4>1, <4>2
    <3>2. flight \in [Restorer -> Restore]
      BY DEF TreeOK
    <3>3. flight' = [flight EXCEPT ![c] = r]
      BY <1>5 DEF RestoreBtrfsSnapshot
    <3> HIDE DEF r
    <3> QED
      BY <3>1, <3>2, <3>3 DEF TreeOK
  <2>4. TreeOK'
    BY <1>5, <2>2, <2>3 DEF RestoreBtrfsSnapshot, TreeOK
  <2>5. RestoreLosesNothing'
    BY <1>5, <2>2, KeepingIsSafe DEF RestoreBtrfsSnapshot
  <2> QED
    BY <2>4, <2>5
<1>6. ASSUME NEW c \in Restorer, RestoreSnapshotTaken(c)
      PROVE  BtrfsInv'
  <2>1. flight[c].p \in Path /\ flight[c].snap \in Path
    BY <1>6 DEF RestoreSnapshotTaken, TreeOK
  <2>2. vol' \in [Places -> Node] /\ VersionsOf(vol) \subseteq VersionsOf(vol')
    BY <1>6, <2>1, SnapshotKeeps DEF RestoreSnapshotTaken, TreeOK
  <2> QED
    BY <1>6, <2>2, KeepingIsSafe, RestoreTypes DEF RestoreSnapshotTaken, TreeOK, Rest
<1>7. ASSUME NEW c \in Restorer, RestoreMovedBack(c)
      PROVE  BtrfsInv'
  <2>1. At(flight[c].p) \in Places /\ Aside(flight[c].p, flight[c].t) \in Places
    BY <1>7, PlacesOfPath DEF RestoreMovedBack, TreeOK
  <2>2. vol' \in [Places -> Node] /\ VersionsOf(vol) \subseteq VersionsOf(vol')
    BY <1>7, <2>1, RenameKeeps DEF RestoreMovedBack, TreeOK
  <2> QED
    BY <1>7, <2>2, KeepingIsSafe, RestoreTypes DEF RestoreMovedBack, TreeOK, Rest
<1>8. CASE Cut
  BY <1>8, KeepingIsSafe DEF Cut, TreeOK, Rest, Restore
<1>9. CASE Second
  BY <1>9, SecondAssumption, KeepingIsSafe DEF Second, TreeOK
<1>10. CASE UNCHANGED btrfsVars
  BY <1>10, KeepingIsSafe DEF btrfsVars, TreeOK
<1> QED
  BY <1>1, <1>2, <1>3, <1>4, <1>5, <1>6, <1>7, <1>8, <1>9, <1>10
  DEF BtrfsNext, createBtrfsSubvolHandler, deleteBtrfsSubvolHandler, createBtrfsSnapshotHandler,
      deleteBtrfsSnapshotHandler, DeleteBtrfsSnapshot, btrfsRestoreSnapshotHandler,
      BtrfsSubvolumes, BtrfsSnapshots

\* Every version of the data that nobody deleted or wrote over stays in the tree,
\* whatever restores overlap, fail or are cut off (RestoreBtrfsSnapshot).
THEOREM RestoreCorrect == BtrfsSpec => []RestoreLosesNothing
<1>1. BtrfsInit => BtrfsInv
  BY BtrfsInit_Inv
<1>2. BtrfsInv /\ [BtrfsNext]_btrfsVars => BtrfsInv'
  BY BtrfsStep
<1>3. BtrfsInv => RestoreLosesNothing
  BY DEF BtrfsInv
<1> QED
  BY <1>1, <1>2, <1>3, PTL DEF BtrfsSpec

-----------------------------------------------------------------------------
(* The keys of datasets (Datasets).  Where zfs looks for a key is the key  *)
(* file of the dataset itself as long as neither its key nor its name were *)
(* changed.  What is in that file is what the request under way wrote, as  *)
(* long as no other touched it; that holds for the request that creates    *)
(* the dataset, so zfs takes the passphrase it gave, and for the one that  *)
(* loads the key, so zfs finds that passphrase again: what was in the file *)
(* in between, and who wrote it, does not matter.                          *)

Keyword == Phrase \cup {NoPhrase, Torn}

Dataset == [phrase : Keyword, given : Phrase \cup {NoPhrase}, location : Name \cup {NoPhrase, Prompt},
            loaded : BOOLEAN, mounted : BOOLEAN,
            readonly : {"on", "off"}, quota : Int, reservation : Int]

KeyRequest == [op : Steps, n : Name \cup {""}, p : Phrase \cup {NoPhrase}, quiet : BOOLEAN]

\* The datasets and the key files.
DatasetsOK ==
  /\ DOMAIN ds \subseteq Name /\ ds = [n \in DOMAIN ds |-> ds[n]]
  /\ \A n \in DOMAIN ds : ds[n] \in Dataset
  /\ keyfile \in [Name -> Keyword]

\* The requests under way.
AsksOK == /\ asks \in [Requester -> KeyRequest]
          /\ \A c \in Requester : asks[c].op # "none" => asks[c].n \in Name

\* A dataset that was neither renamed nor given another key has the passphrase its
\* creation came with, and looks for it in the file that has its name.
OwnFileOf(d, n) == d.given # NoPhrase => d.location = n /\ d.phrase = d.given
OwnFile == \A n \in DOMAIN ds : OwnFileOf(ds[n], n)

\* What a request wrote into a key file is in there until another touches it.
InFile(r, files) == r.op \in {"create", "load"} /\ r.quiet /\ r.p # NoPhrase => files[r.n] = r.p
StillThere == \A c \in Requester : InFile(asks[c], keyfile)

\* The inductive invariant.
KeysInv == DatasetsOK /\ OwnFile /\ AsksOK /\ StillThere

LEMMA PlainIsDataset == Plain \in Dataset /\ Plain.phrase = NoPhrase /\ Plain.given = NoPhrase
BY DEF Plain, Dataset, Keyword

LEMMA KeysInvUnlocks == ASSUME KeysInv PROVE OwnPhraseUnlocks
BY DEF KeysInv, DatasetsOK, OwnFile, OwnFileOf, AsksOK, StillThere, InFile, OwnPhraseUnlocks, Offered, Exists

LEMMA NoRequestFields == NoRequest \in KeyRequest /\ NoRequest.op = "none"
BY DEF NoRequest, Request, KeyRequest, Steps

LEMMA DatasetInit_Inv == ASSUME DatasetInit PROVE KeysInv
<1>1. DatasetsOK /\ OwnFile
  BY DEF DatasetInit, DatasetsOK, OwnFile, Keyword
<1>2. AsksOK /\ StillThere
  BY NoRequestFields DEF DatasetInit, AsksOK, StillThere, InFile
<1> QED
  BY <1>1, <1>2 DEF KeysInv

\* The requests and the key files are left alone.
LEMMA KeysKeep == ASSUME KeysInv, Keys PROVE AsksOK' /\ StillThere' /\ keyfile' \in [Name -> Keyword]
BY DEF KeysInv, DatasetsOK, AsksOK, StillThere, Keys

\* The datasets are left alone.
LEMMA DatasetsKeep ==
  ASSUME KeysInv, ds' = ds, keyfile' \in [Name -> Keyword]
  PROVE  DatasetsOK' /\ OwnFile'
BY DEF KeysInv, DatasetsOK, OwnFile

\* A request that goes on without touching a key file.
LEMMA GoesOn_Inv ==
  ASSUME KeysInv, NEW c \in Requester, NEW r \in KeyRequest, r.op # "none" => r.n \in Name,
         InFile(r, keyfile), GoesOn(c, r), keyfile' = keyfile
  PROVE  AsksOK' /\ StillThere'
<1>1. asks' = [asks EXCEPT ![c] = r] /\ asks \in [Requester -> KeyRequest]
  BY DEF GoesOn, KeysInv, AsksOK
<1>2. \A d \in Requester : asks'[d] = IF d = c THEN r ELSE asks[d]
  BY <1>1
<1>3. AsksOK'
  BY <1>1, <1>2 DEF KeysInv, AsksOK
<1>4. StillThere'
  BY <1>2 DEF KeysInv, StillThere
<1> QED
  BY <1>3, <1>4

\* A request that goes on after it touched the key file of n.
LEMMA Touched_Inv ==
  ASSUME KeysInv, NEW c \in Requester, NEW n \in Name, NEW v \in Keyword, NEW r \in KeyRequest,
         r.op # "none" => r.n \in Name,
         Touched(c, n, r), keyfile' = Keyed(n, v), InFile(r, Keyed(n, v))
  PROVE  AsksOK' /\ StillThere' /\ keyfile' \in [Name -> Keyword]
<1>1. keyfile' \in [Name -> Keyword] /\ \A m \in Name : m # n => keyfile'[m] = keyfile[m]
  BY DEF Keyed, KeysInv, DatasetsOK
<1>2. asks'[c] = r /\ DOMAIN asks' = Requester /\ asks' = [d \in Requester |-> asks'[d]]
  BY DEF Touched
<1>3. ASSUME NEW d \in Requester, d # c
      PROVE  /\ asks'[d] \in KeyRequest /\ (asks'[d].op # "none" => asks'[d].n \in Name)
             /\ InFile(asks'[d], keyfile')
  <2>1. asks[d] \in KeyRequest /\ (asks[d].op # "none" => asks[d].n \in Name) /\ InFile(asks[d], keyfile)
    BY DEF KeysInv, AsksOK, StillThere
  <2>2. CASE asks[d].n = n /\ asks[d].p # NoPhrase
    <3>1. asks'[d] = [asks[d] EXCEPT !.quiet = FALSE]
      BY <1>3, <2>2 DEF Touched
    <3>2. asks'[d] \in KeyRequest /\ asks'[d].op = asks[d].op /\ asks'[d].n = asks[d].n
      BY <2>1, <3>1 DEF KeyRequest
    <3>3. ~asks'[d].quiet
      BY <2>1, <3>1 DEF KeyRequest
    <3> QED
      BY <2>1, <3>2, <3>3 DEF InFile
  <2>3. CASE ~(asks[d].n = n /\ asks[d].p # NoPhrase)
    <3>1. asks'[d] = asks[d]
      BY <1>3, <2>3 DEF Touched
    <3> QED
      BY <1>1, <2>1, <2>3, <3>1 DEF InFile
  <2> QED
    BY <2>2, <2>3
<1>4. AsksOK'
  BY <1>2, <1>3 DEF AsksOK
<1>5. StillThere'
  BY <1>2, <1>3 DEF StillThere
<1> QED
  BY <1>1, <1>4, <1>5

\* A new dataset that looks for its key in its own file, or has none.
LEMMA Make_OK ==
  ASSUME KeysInv, NEW n \in Name, ~Exists(n), NEW d \in Dataset, OwnFileOf(d, n), Make(n, d),
         keyfile' \in [Name -> Keyword]
  PROVE  DatasetsOK' /\ OwnFile'
<1>1. /\ DOMAIN ds' = DOMAIN ds \cup {n} /\ ds' = [m \in DOMAIN ds' |-> ds'[m]]
      /\ ds'[n] = d /\ \A m \in DOMAIN ds : ds'[m] = ds[m]
  BY DEF Make, Exists
<1>2. DatasetsOK'
  BY <1>1 DEF KeysInv, DatasetsOK
<1>3. OwnFile'
  BY <1>1 DEF KeysInv, OwnFile
<1> QED
  BY <1>2, <1>3

LEMMA MakePlain ==
  ASSUME KeysInv, NEW n \in Name, ~Exists(n), Make(n, Plain), Keys
  PROVE  KeysInv'
<1>1. OwnFileOf(Plain, n)
  BY PlainIsDataset DEF OwnFileOf
<1> QED
  BY <1>1, PlainIsDataset, KeysKeep, Make_OK DEF KeysInv

\* A dataset that changes, and still has its own file if it had it.
LEMMA Change_OK ==
  ASSUME KeysInv, NEW n \in Name, NEW d \in Dataset, Change(n, d), OwnFileOf(d, n),
         keyfile' \in [Name -> Keyword]
  PROVE  DatasetsOK' /\ OwnFile'
<1>1. n \in DOMAIN ds /\ ds' = [ds EXCEPT ![n] = d] /\ ds = [m \in DOMAIN ds |-> ds[m]]
  BY DEF Change, Exists, KeysInv, DatasetsOK
<1>2. /\ DOMAIN ds' = DOMAIN ds /\ ds' = [m \in DOMAIN ds' |-> ds'[m]]
      /\ ds'[n] = d /\ \A m \in DOMAIN ds : m # n => ds'[m] = ds[m]
  BY <1>1
<1>3. DatasetsOK'
  BY <1>2 DEF KeysInv, DatasetsOK
<1>4. OwnFile'
  BY <1>2 DEF KeysInv, OwnFile
<1> QED
  BY <1>3, <1>4

\* A dataset that keeps its key and where it is looked for.
LEMMA SameKey ==
  ASSUME KeysInv, NEW n \in DOMAIN ds, NEW d,
         d.phrase = ds[n].phrase, d.location = ds[n].location, d.given = ds[n].given
  PROVE  OwnFileOf(d, n)
BY DEF KeysInv, OwnFile, OwnFileOf

LEMMA ChangeKeeps ==
  ASSUME KeysInv, NEW n \in Name, NEW d \in Dataset, Change(n, d), Keys,
         d.phrase = ds[n].phrase, d.location = ds[n].location, d.given = ds[n].given
  PROVE  KeysInv'
<1>1. n \in DOMAIN ds
  BY DEF Change, Exists
<1>2. OwnFileOf(d, n)
  BY <1>1, SameKey
<1> QED
  BY <1>2, KeysKeep, Change_OK DEF KeysInv

LEMMA Torn_Inv ==
  ASSUME KeysInv, NEW c \in Requester, NEW n \in Name, Tear(n), Touched(c, n, NoRequest), UNCHANGED ds
  PROVE  KeysInv'
<1>1. PICK v \in Keyword : keyfile' = Keyed(n, v)
  BY DEF Tear, Keyword
<1>2. InFile(NoRequest, Keyed(n, v))
  BY NoRequestFields DEF InFile
<1>3. AsksOK' /\ StillThere' /\ keyfile' \in [Name -> Keyword]
  BY <1>1, <1>2, NoRequestFields, Touched_Inv
<1> QED
  BY <1>3, DatasetsKeep DEF KeysInv

\* A request that wrote a passphrase.
LEMMA Written_Inv ==
  ASSUME KeysInv, NEW c \in Requester, NEW n \in Name, NEW p \in Phrase \cup {NoPhrase}, NEW op \in {"create", "load"},
         keyfile' = Keyed(n, p), Touched(c, n, Request(op, n, p)), UNCHANGED ds
  PROVE  KeysInv'
<1> DEFINE r == Request(op, n, p)
<1>1. r \in KeyRequest /\ r.n = n /\ r.p = p
  BY DEF Request, KeyRequest, Steps, KeysInv, AsksOK
<1>2. Keyed(n, p)[n] = p /\ p \in Keyword
  BY DEF Keyed, KeysInv, DatasetsOK, Keyword
<1> HIDE DEF r
<1>3. InFile(r, Keyed(n, p))
  BY <1>1, <1>2 DEF InFile
<1>4. Touched(c, n, r)
  BY DEF r
<1>5. AsksOK' /\ StillThere' /\ keyfile' \in [Name -> Keyword]
  BY <1>1, <1>2, <1>3, <1>4, Touched_Inv
<1> QED
  BY <1>5, DatasetsKeep DEF KeysInv

LEMMA Create_Inv ==
  ASSUME KeysInv, NEW c \in Requester, NEW n \in Name, NEW p \in Phrase \cup {NoPhrase},
         CreateEncryptedDataset(c, n, p)
  PROVE  KeysInv'
<1>1. CASE keyfile' = Keyed(n, p) /\ Touched(c, n, Request("create", n, p))
  BY <1>1, Written_Inv DEF CreateEncryptedDataset
<1>2. CASE Tear(n) /\ Touched(c, n, NoRequest)
  BY <1>2, Torn_Inv DEF CreateEncryptedDataset
<1> QED
  BY <1>1, <1>2 DEF CreateEncryptedDataset

\* A request that goes on to a step that reads no key file.
LEMMA After_Inv ==
  ASSUME KeysInv, NEW c \in Requester, NEW op \in {"remove", "mount"}, asks[c].n \in Name,
         GoesOn(c, NoRequest) \/ GoesOn(c, Request(op, asks[c].n, NoPhrase)), keyfile' = keyfile
  PROVE  AsksOK' /\ StillThere' /\ keyfile' \in [Name -> Keyword]
<1> DEFINE r == Request(op, asks[c].n, NoPhrase)
<1>1. r \in KeyRequest /\ r.op = op /\ r.n = asks[c].n
  BY DEF Request, KeyRequest, Steps, KeysInv, AsksOK
<1> HIDE DEF r
<1>2. InFile(r, keyfile) /\ InFile(NoRequest, keyfile)
  BY <1>1, NoRequestFields DEF InFile
<1>3. GoesOn(c, NoRequest) \/ GoesOn(c, r)
  BY DEF r
<1>4. keyfile' \in [Name -> Keyword]
  BY DEF KeysInv, DatasetsOK
<1> QED
  BY <1>1, <1>2, <1>3, <1>4, NoRequestFields, GoesOn_Inv

LEMMA ZfsCreate_Inv ==
  ASSUME KeysInv, NEW c \in Requester, ZfsCreate(c)
  PROVE  KeysInv'
<1>1. asks[c].op = "create" /\ asks[c].n \in Name /\ asks[c].p \in Phrase \cup {NoPhrase} /\ keyfile' = keyfile
  BY DEF ZfsCreate, KeysInv, AsksOK, KeyRequest
<1>2. AsksOK' /\ StillThere' /\ keyfile' \in [Name -> Keyword]
  BY <1>1, After_Inv DEF ZfsCreate
<1>3. CASE Encrypted(c)
  <2>1. PICK n : n = asks[c].n
    OBVIOUS
  <2>2. PICK g : g = IF asks[c].quiet THEN asks[c].p ELSE NoPhrase
    OBVIOUS
  <2>3. PICK d : d = [Plain EXCEPT !.phrase = keyfile[n], !.location = n, !.given = g]
    OBVIOUS
  <2>4. ~Exists(n) /\ Make(n, d)
    BY <1>3, <2>1, <2>2, <2>3 DEF Encrypted
  <2>5. g \in Phrase \cup {NoPhrase} /\ keyfile[n] \in Keyword /\ n \in Name
    BY <1>1, <2>1, <2>2 DEF KeysInv, DatasetsOK
  <2>6. d \in Dataset /\ d.phrase = keyfile[n] /\ d.location = n /\ d.given = g
    BY <2>3, <2>5, PlainIsDataset DEF Dataset
  <2>7. g # NoPhrase => keyfile[n] = g
    BY <1>1, <2>1, <2>2 DEF KeysInv, StillThere, InFile
  <2>8. OwnFileOf(d, n)
    BY <2>6, <2>7 DEF OwnFileOf
  <2>9. DatasetsOK' /\ OwnFile'
    BY <1>2, <2>4, <2>5, <2>6, <2>8, Make_OK
  <2> QED
    BY <1>2, <2>9 DEF KeysInv
<1>4. CASE UNCHANGED ds
  BY <1>2, <1>4, DatasetsKeep DEF KeysInv
<1> QED
  BY <1>3, <1>4 DEF ZfsCreate

LEMMA RemoveKey_Inv ==
  ASSUME KeysInv, NEW c \in Requester, RemoveKey(c)
  PROVE  KeysInv'
<1>1. asks[c].n \in Name /\ NoPhrase \in Keyword
  BY DEF RemoveKey, KeysInv, AsksOK, Keyword
<1>2. InFile(NoRequest, Keyed(asks[c].n, NoPhrase))
  BY NoRequestFields DEF InFile
<1>3. AsksOK' /\ StillThere' /\ keyfile' \in [Name -> Keyword]
  BY <1>1, <1>2, NoRequestFields, Touched_Inv DEF RemoveKey
<1> QED
  BY <1>3, DatasetsKeep DEF KeysInv, RemoveKey

LEMMA Load_Inv ==
  ASSUME KeysInv, NEW c \in Requester, NEW n \in Name, NEW p \in Phrase \cup {NoPhrase}, LoadEncryptionKey(c, n, p)
  PROVE  KeysInv'
<1>1. UNCHANGED ds
  BY DEF LoadEncryptionKey
<1>2. CASE Tear(n) /\ Touched(c, n, NoRequest)
  BY <1>1, <1>2, Torn_Inv
<1>3. CASE p # NoPhrase /\ keyfile' = KeyWritten(n, p) /\ Touched(c, n, Request("load", n, p))
  BY <1>1, <1>3, Written_Inv DEF KeyWritten
<1>4. CASE p = NoPhrase /\ keyfile' = KeyWritten(n, p) /\ GoesOn(c, Request("load", n, p))
  <2>1. PICK r : r = Request("load", n, p)
    OBVIOUS
  <2>2. r \in KeyRequest /\ r.n = n /\ r.p = NoPhrase
    BY <1>4, <2>1 DEF Request, KeyRequest, Steps
  <2>3. InFile(r, keyfile) /\ keyfile' = keyfile /\ keyfile' \in [Name -> Keyword]
    BY <1>4, <2>2 DEF InFile, KeyWritten, KeysInv, DatasetsOK
  <2>4. GoesOn(c, r)
    BY <1>4, <2>1
  <2>5. AsksOK' /\ StillThere'
    BY <2>2, <2>3, <2>4, GoesOn_Inv
  <2> QED
    BY <1>1, <2>3, <2>5, DatasetsKeep DEF KeysInv
<1> QED
  BY <1>2, <1>3, <1>4 DEF LoadEncryptionKey

LEMMA LoadKey_Inv ==
  ASSUME KeysInv, NEW c \in Requester, LoadKey(c)
  PROVE  KeysInv'
<1>1. asks[c].n \in Name /\ keyfile' = keyfile
  BY DEF LoadKey, KeysInv, AsksOK
<1>2. AsksOK' /\ StillThere' /\ keyfile' \in [Name -> Keyword]
  BY <1>1, After_Inv DEF LoadKey
<1>3. CASE UNCHANGED ds
  BY <1>2, <1>3, DatasetsKeep DEF KeysInv
<1>4. CASE Exists(asks[c].n) /\ ds' = [ds EXCEPT ![asks[c].n].loaded = TRUE]
  <2>1. PICK n : n = asks[c].n
    OBVIOUS
  <2>2. PICK d : d = [ds[n] EXCEPT !.loaded = TRUE]
    OBVIOUS
  <2>3. Change(n, d) /\ n \in DOMAIN ds /\ n \in Name
    BY <1>1, <1>4, <2>1, <2>2 DEF Change, Exists
  <2>4. d \in Dataset /\ d.phrase = ds[n].phrase /\ d.location = ds[n].location /\ d.given = ds[n].given
    BY <2>2, <2>3 DEF KeysInv, DatasetsOK, Dataset
  <2> QED
    BY <1>2, <2>3, <2>4, SameKey, Change_OK DEF KeysInv
<1> QED
  BY <1>3, <1>4 DEF LoadKey

LEMMA Mount_Inv ==
  ASSUME KeysInv, NEW c \in Requester, Mount(c)
  PROVE  KeysInv'
<1>1. asks[c].n \in Name /\ keyfile' = keyfile
  BY DEF Mount, KeysInv, AsksOK
<1>2. AsksOK' /\ StillThere' /\ keyfile' \in [Name -> Keyword]
  BY <1>1, After_Inv DEF Mount
<1>3. CASE UNCHANGED ds
  BY <1>2, <1>3, DatasetsKeep DEF KeysInv
<1>4. CASE Exists(asks[c].n) /\ ds' = [ds EXCEPT ![asks[c].n].mounted = TRUE]
  <2>1. PICK n : n = asks[c].n
    OBVIOUS
  <2>2. PICK d : d = [ds[n] EXCEPT !.mounted = TRUE]
    OBVIOUS
  <2>3. Change(n, d) /\ n \in DOMAIN ds /\ n \in Name
    BY <1>1, <1>4, <2>1, <2>2 DEF Change, Exists
  <2>4. d \in Dataset /\ d.phrase = ds[n].phrase /\ d.location = ds[n].location /\ d.given = ds[n].given
    BY <2>2, <2>3 DEF KeysInv, DatasetsOK, Dataset
  <2> QED
    BY <1>2, <2>3, <2>4, SameKey, Change_OK DEF KeysInv
<1> QED
  BY <1>3, <1>4 DEF Mount

LEMMA Forgotten_Inv == ASSUME KeysInv, Forgotten, keyfile' = keyfile PROVE AsksOK' /\ StillThere'
BY NoRequestFields DEF Forgotten, AsksOK, StillThere, InFile

LEMMA ChangeKey_Inv ==
  ASSUME KeysInv, NEW n \in Name, NEW p \in Phrase, ChangeEncryptionKey(n, p)
  PROVE  KeysInv'
<1>1. PICK d : d = [ds[n] EXCEPT !.phrase = p, !.location = Prompt, !.given = NoPhrase]
  OBVIOUS
<1>2. n \in DOMAIN ds /\ Change(n, d) /\ Keys
  BY <1>1 DEF ChangeEncryptionKey, Exists, Keys
<1>3. d \in Dataset /\ d.given = NoPhrase
  BY <1>1, <1>2 DEF KeysInv, DatasetsOK, Dataset, Keyword
<1>4. OwnFileOf(d, n)
  BY <1>3 DEF OwnFileOf
<1> QED
  BY <1>2, <1>3, <1>4, KeysKeep, Change_OK DEF KeysInv

LEMMA Destroy_Inv ==
  ASSUME KeysInv, NEW n \in Name, Destroy(n)
  PROVE  KeysInv'
<1>1. Keys /\ DOMAIN ds' = DOMAIN ds \ {n} /\ ds' = [m \in DOMAIN ds' |-> ds'[m]]
      /\ \A m \in DOMAIN ds' : ds'[m] = ds[m]
  BY DEF Destroy, Restrict, Keys
<1>2. DatasetsOK' /\ OwnFile'
  BY <1>1, KeysKeep DEF KeysInv, DatasetsOK, OwnFile
<1> QED
  BY <1>1, <1>2, KeysKeep DEF KeysInv

LEMMA Rename_Inv ==
  ASSUME KeysInv, NEW n \in Name, NEW m \in Name, ZFSRenameDataset(n, m)
  PROVE  KeysInv'
<1>1. PICK d : d = [ds[n] EXCEPT !.given = NoPhrase]
  OBVIOUS
<1>2. n \in DOMAIN ds /\ m \notin DOMAIN ds /\ Keys
      /\ ds' = [k \in (DOMAIN ds \ {n}) \cup {m} |-> IF k = m THEN d ELSE ds[k]]
  BY <1>1 DEF ZFSRenameDataset, Exists, Keys
<1>3. d \in Dataset /\ d.given = NoPhrase
  BY <1>1, <1>2 DEF KeysInv, DatasetsOK, Dataset
<1>4. OwnFileOf(d, m)
  BY <1>3 DEF OwnFileOf
<1>5. DOMAIN ds' = (DOMAIN ds \ {n}) \cup {m} /\ ds' = [k \in DOMAIN ds' |-> ds'[k]]
      /\ ds'[m] = d /\ \A k \in DOMAIN ds \ {n} : ds'[k] = ds[k]
  BY <1>2
<1>6. DatasetsOK'
  BY <1>2, <1>3, <1>5, KeysKeep DEF KeysInv, DatasetsOK
<1>7. OwnFile'
  BY <1>4, <1>5 DEF KeysInv, OwnFile
<1> QED
  BY <1>2, <1>6, <1>7, KeysKeep DEF KeysInv

LEMMA Reboot_Inv == ASSUME KeysInv, Reboot PROVE KeysInv'
<1>1. DOMAIN ds' = DOMAIN ds /\ ds' = [n \in DOMAIN ds' |-> ds'[n]] /\ keyfile' = keyfile /\ Forgotten
  BY DEF Reboot
<1>2. ASSUME NEW n \in DOMAIN ds
      PROVE  ds'[n] \in Dataset /\ OwnFileOf(ds'[n], n)
  <2> DEFINE on == (ds[n].phrase = NoPhrase)
  <2>1. ds'[n] = [ds[n] EXCEPT !.loaded = on, !.mounted = on] /\ on \in BOOLEAN
    BY DEF Reboot
  <2> HIDE DEF on
  <2>2. ds[n] \in Dataset
    BY DEF KeysInv, DatasetsOK
  <2>3. /\ ds'[n] \in Dataset /\ ds'[n].phrase = ds[n].phrase /\ ds'[n].location = ds[n].location
        /\ ds'[n].given = ds[n].given
    BY <2>1, <2>2 DEF Dataset
  <2> QED
    BY <2>3, SameKey
<1>3. DatasetsOK' /\ OwnFile'
  BY <1>1, <1>2 DEF KeysInv, DatasetsOK, OwnFile
<1> QED
  BY <1>1, <1>3, Forgotten_Inv DEF KeysInv

LEMMA Quota_Inv ==
  ASSUME KeysInv, NEW n \in Name, NEW q \in -1 .. 2, NEW r \in -1 .. 2, SetDatasetQuota(n, q, r)
  PROVE  KeysInv'
<1> DEFINE d1 == IF q >= 0 THEN [ds[n] EXCEPT !.quota = q] ELSE ds[n]
           d2 == IF r >= 0 THEN [d1 EXCEPT !.reservation = r] ELSE d1
<1>1. n \in DOMAIN ds /\ ds[n] \in Dataset
  BY DEF SetDatasetQuota, Exists, KeysInv, DatasetsOK
<1>2. d1 \in Dataset /\ d1.phrase = ds[n].phrase /\ d1.location = ds[n].location /\ d1.given = ds[n].given
  BY <1>1 DEF Dataset
<1> HIDE DEF d1
<1>3. d2 \in Dataset /\ d2.phrase = ds[n].phrase /\ d2.location = ds[n].location /\ d2.given = ds[n].given
  BY <1>2 DEF Dataset
<1>4. Keys /\ \E d \in {d1, d2} : Change(n, d)
  BY DEF SetDatasetQuota, d1
<1> HIDE DEF d2
<1> QED
  BY <1>2, <1>3, <1>4, ChangeKeeps

LEMMA Props_Inv ==
  ASSUME KeysInv, NEW n \in Name, NEW v \in {"on", "off"}, SetDatasetProps(n, v)
  PROVE  KeysInv'
<1> DEFINE d == [ds[n] EXCEPT !.readonly = v]
<1>1. n \in DOMAIN ds /\ Change(n, d) /\ Keys
  BY DEF SetDatasetProps, Exists
<1>2. d \in Dataset /\ d.phrase = ds[n].phrase /\ d.location = ds[n].location /\ d.given = ds[n].given
  BY <1>1 DEF KeysInv, DatasetsOK, Dataset
<1> HIDE DEF d
<1> QED
  BY <1>1, <1>2, ChangeKeeps

\* A step that leaves the datasets and their keys alone.
LEMMA Snapshots_Inv == ASSUME KeysInv, ds' = ds, Keys PROVE KeysInv'
BY KeysKeep, DatasetsKeep DEF KeysInv

LEMMA DatasetStep ==
  ASSUME KeysInv, [DatasetNext]_datasetVars
  PROVE  KeysInv'
<1>1. CASE KeyNext
  <2>1. CASE Reboot
    BY <2>1, Reboot_Inv
  <2>2. ASSUME NEW c \in Requester, NEW n \in Name, createDatasetHandler(c, n)  PROVE KeysInv'
    BY <2>2, Create_Inv, MakePlain DEF createDatasetHandler, CreateDataset
  <2>3. ASSUME NEW n \in Name, deleteDatasetHandler(n) \/ destroyDatasetHandler(n)  PROVE KeysInv'
    BY <2>3, Destroy_Inv DEF deleteDatasetHandler, destroyDatasetHandler, DeleteDataset, DestroyDatasetRecursive
  <2>4. ASSUME NEW c \in Requester, NEW n \in Name, loadEncryptionKeyHandler(c, n)  PROVE KeysInv'
    BY <2>4, Load_Inv DEF loadEncryptionKeyHandler
  <2>5. ASSUME NEW n \in Name, changeEncKeyHandler(n)  PROVE KeysInv'
    BY <2>5, ChangeKey_Inv DEF changeEncKeyHandler
  <2>6. ASSUME NEW n \in Name, zfsRenameHandler(n)  PROVE KeysInv'
    BY <2>6, Rename_Inv DEF zfsRenameHandler
  <2>7. ASSUME NEW c \in Requester, ZfsCreate(c) \/ RemoveKey(c) \/ LoadKey(c) \/ Mount(c)  PROVE KeysInv'
    BY <2>7, ZfsCreate_Inv, RemoveKey_Inv, LoadKey_Inv, Mount_Inv
  <2>8. CASE KeyRestart
    <3>1. keyfile' \in [Name -> Keyword]
      BY <2>8 DEF KeyRestart, KeysInv, DatasetsOK
    <3> QED
      BY <2>8, <3>1, Forgotten_Inv, DatasetsKeep DEF KeyRestart, KeysInv
  <2> QED
    BY <1>1, <2>1, <2>2, <2>3, <2>4, <2>5, <2>6, <2>7, <2>8 DEF KeyNext
<1>2. CASE LimitNext
  <2>1. ASSUME NEW n \in Name, CreateDataset(n)  PROVE KeysInv'
    BY <2>1, MakePlain DEF CreateDataset
  <2>2. ASSUME NEW n \in Name, deleteDatasetHandler(n)  PROVE KeysInv'
    BY <2>2, Destroy_Inv DEF deleteDatasetHandler, DeleteDataset
  <2>3. ASSUME NEW n \in Name, setQuotaHandler(n)  PROVE KeysInv'
    BY <2>3, Quota_Inv DEF setQuotaHandler
  <2>4. ASSUME NEW n \in Name, setDatasetPropsHandler(n) \/ setDatasetPropertyHandler(n)  PROVE KeysInv'
    BY <2>4, Props_Inv DEF setDatasetPropsHandler, setDatasetPropertyHandler, SetZFSDatasetProperty
  <2> QED
    BY <1>2, <2>1, <2>2, <2>3, <2>4 DEF LimitNext
<1>3. CASE SnapNext
  <2>1. ASSUME NEW n \in Name, deleteDatasetHandler(n) \/ zfsRenameHandler(n)  PROVE KeysInv'
    BY <2>1, Destroy_Inv, Rename_Inv DEF deleteDatasetHandler, DeleteDataset, zfsRenameHandler
  <2>2. ASSUME NEW s \in Snap, createSnapshotHandler(s) \/ deleteSnapshotHandler(s) \/ rollbackSnapshotHandler(s)
        PROVE  KeysInv'
    BY <2>2, Snapshots_Inv DEF createSnapshotHandler, CreateSnapshot, deleteSnapshotHandler, DeleteSnapshot,
                               rollbackSnapshotHandler, RollbackSnapshot
  <2>3. ASSUME NEW s \in Snap, addZFSHoldHandler(s) \/ releaseZFSHoldHandler(s)
        PROVE  KeysInv'
    BY <2>3, Snapshots_Inv DEF addZFSHoldHandler, ZFSAddHold, releaseZFSHoldHandler, ZFSReleaseHold
  <2>4. ASSUME NEW s \in Snap, cloneSnapshotHandler(s)
        PROVE  KeysInv'
    BY <2>4, MakePlain DEF cloneSnapshotHandler, CloneSnapshot
  <2> QED
    BY <1>3, <2>1, <2>2, <2>3, <2>4 DEF SnapNext
<1>4. CASE UNCHANGED datasetVars
  BY <1>4, Snapshots_Inv DEF datasetVars, Keys
<1> QED
  BY <1>1, <1>2, <1>3, <1>4 DEF DatasetNext

\* The passphrase that the request to create a dataset gave unlocks it while it
\* keeps its key and its name, whatever wrote, tore or removed its key file since,
\* for any number of requests between whose steps others take theirs; exempt are
\* requests with which another one about that key file overlaps (LoadEncryptionKey).
THEOREM OwnPhraseCorrect == DatasetSpec => []OwnPhraseUnlocks
<1>1. DatasetInit => KeysInv
  BY DatasetInit_Inv
<1>2. KeysInv /\ [DatasetNext]_datasetVars => KeysInv'
  BY DatasetStep
<1>3. KeysInv => OwnPhraseUnlocks
  BY KeysInvUnlocks
<1> QED
  BY <1>1, <1>2, <1>3, PTL DEF DatasetSpec
-----------------------------------------------------------------------------
(* Pools (Pools).  The cap is not inductive: a request that has passed     *)
(* its check creates or imports a pool later, whatever is imported by      *)
(* then.  As long as no two requests overlap and the listing it counts did *)
(* not fail, one that has passed its check found no pool and none came     *)
(* since.                                                                  *)

\* No two pools, said without counting.
OneOrNone == \A m, n \in DOMAIN pools : m = n

\* While the caps were not passed by, one request at most is past its check,
\* and it found the box without a pool.
CapInv ==
    tier = "home" /\ ~lax =>
        /\ OneOrNone
        /\ \A c, o \in Client : req[c] # Idle /\ req[o] # Idle => c = o
        /\ \A c \in Client : req[c] # Idle => DOMAIN pools = {}

ReqOK ==
    /\ DOMAIN req = Client
    /\ \A c \in Client : req[c].op = "create" => req[c].n \in Pool /\ req[c].D \subseteq Disk

LaxOK == lax \in BOOLEAN

\* The inductive invariant.
PoolInv == PoolTypeOK /\ ReqOK /\ LaxOK /\ CapInv

\* The box has at most one pool, counted.
LEMMA CountOfOne ==
    ASSUME NEW S, \A m, n \in S : m = n
    PROVE  IsFiniteSet(S) /\ Cardinality(S) <= 1
<1>1. CASE S = {}
  BY <1>1, FS_EmptySet
<1>2. CASE S # {}
  <2>1. PICK x \in S : TRUE
    BY <1>2
  <2>2. S = {x}
    BY <2>1
  <2>3. IsFiniteSet({x}) /\ Cardinality({x}) = 1
    BY FS_Singleton
  <2> QED
    BY <2>2, <2>3
<1> QED
  BY <1>1, <1>2

LEMMA CapInvImplies == ASSUME CapInv PROVE tier = "home" /\ ~lax => OnePool
<1> SUFFICES ASSUME tier = "home", ~lax PROVE Cardinality(DOMAIN pools) <= 1
  BY DEF OnePool
<1> QED
  BY CountOfOne DEF CapInv, OneOrNone

\* What the count of the handlers means on the Home tier.
LEMMA CountedNone ==
    ASSUME OneOrNone, tier = "home", enforcePoolCount(DOMAIN pools)
    PROVE  DOMAIN pools = {}
<1>1. IsFiniteSet(DOMAIN pools)
  BY CountOfOne DEF OneOrNone
<1>2. Cardinality(DOMAIN pools) < 1 /\ Cardinality(DOMAIN pools) \in Nat
  BY <1>1, FS_CardinalityType DEF enforcePoolCount, Licensed
<1>3. Cardinality(DOMAIN pools) = 0
  BY <1>2
<1> QED
  BY <1>1, <1>3, FS_EmptySet
-----------------------------------------------------------------------------
(* The functions that hold the pools.                                      *)

\* f gives vdevs to names of pools.
Listing(f) == DOMAIN f \subseteq Pool /\ \A n \in DOMAIN f : f[n] \in Vdevs

LEMMA ListingIs ==
    ASSUME NEW f
    PROVE  Listing(f) <=> (DOMAIN f \subseteq Pool /\ Range(f) \subseteq Vdevs)
BY DEF Listing, Range

LEMMA PutListing ==
    ASSUME NEW f, Listing(f), NEW n \in Pool, NEW v \in Vdevs
    PROVE  Listing(Put(f, n, v)) /\ DOMAIN Put(f, n, v) = DOMAIN f \cup {n}
BY DEF Listing, Put

LEMMA DropListing ==
    ASSUME NEW f, Listing(f), NEW N
    PROVE  Listing(Drop(f, N)) /\ DOMAIN Drop(f, N) = DOMAIN f \ N
BY DEF Listing, Drop, Restrict

LEMMA StripedVdevs == ASSUME NEW D \in SUBSET Disk PROVE Striped(D) \in Vdevs
BY DEF Striped, Vdevs, Classes

\* One class of vdevs of one pool changes.
LEMMA ClassListing ==
    ASSUME NEW f, Listing(f), NEW n \in DOMAIN f, NEW k \in Classes, NEW D \in SUBSET Disk,
           NEW g, g = [f EXCEPT ![n][k] = D]
    PROVE  Listing(g) /\ DOMAIN g = DOMAIN f
<1>1. DOMAIN g = DOMAIN f /\ \A m \in DOMAIN f : g[m] = IF m = n THEN [f[n] EXCEPT ![k] = D] ELSE f[m]
  OBVIOUS
<1>2. [f[n] EXCEPT ![k] = D] \in Vdevs
  BY DEF Listing, Vdevs
<1> QED
  BY <1>1, <1>2 DEF Listing

\* What is on disks that are not imported.
Shelf(X) == X \subseteq [name : Pool, vdevs : Vdevs]

LEMMA ShelfOf ==
    ASSUME NEW X, Shelf(X), NEW x \in X
    PROVE  x.name \in Pool /\ x.vdevs \in Vdevs
BY DEF Shelf

LEMMA TypeIs ==
    PoolTypeOK <=> /\ Listing(pools) /\ Shelf(exported)
                   /\ scrubbing \subseteq DOMAIN pools
                   /\ tier \in {"home", "pro", "expired"}
BY ListingIs DEF PoolTypeOK, Shelf

LEMMA TypeIsNext ==
    PoolTypeOK' <=> /\ Listing(pools') /\ Shelf(exported')
                    /\ scrubbing' \subseteq DOMAIN pools'
                    /\ tier' \in {"home", "pro", "expired"}
BY ListingIs DEF PoolTypeOK, Shelf
-----------------------------------------------------------------------------
(* One lemma per kind of step.                                             *)

LEMMA PoolInitInv == ASSUME PoolInit PROVE PoolInv
<1>1. Listing(pools) /\ Shelf(exported) /\ DOMAIN pools = {}
  BY DEF PoolInit, Listing, Shelf
<1>2. PoolTypeOK
  BY <1>1, TypeIs DEF PoolInit
<1>3. DOMAIN req = Client /\ \A c \in Client : req[c] = Idle
  BY DEF PoolInit
<1>4. ReqOK
  BY <1>3 DEF ReqOK, Idle
<1>5. CapInv
  BY <1>1, <1>3 DEF CapInv, OneOrNone
<1> QED
  BY <1>2, <1>4, <1>5 DEF PoolInv, LaxOK, PoolInit

\* No pool comes and no request is received or carried out.
LEMMA QuietStep ==
    ASSUME PoolInv, Quiet, Listing(pools'), Shelf(exported'),
           DOMAIN pools' \subseteq DOMAIN pools, scrubbing' \subseteq DOMAIN pools'
    PROVE  PoolInv'
<1>1. PoolTypeOK'
  BY TypeIsNext, TypeIs DEF PoolInv, Quiet
<1>2. ReqOK' /\ LaxOK'
  BY DEF PoolInv, Quiet, ReqOK, LaxOK
<1>3. CapInv'
  BY DEF PoolInv, Quiet, CapInv, OneOrNone
<1> QED
  BY <1>1, <1>2, <1>3 DEF PoolInv

\* The caps were passed by: what is left is the type.
LEMMA LaxStep ==
    ASSUME PoolInv, lax', lax' \in BOOLEAN, UNCHANGED req, Listing(pools'), Shelf(exported'),
           scrubbing' \subseteq DOMAIN pools', tier' \in {"home", "pro", "expired"}
    PROVE  PoolInv'
<1>1. PoolTypeOK'
  BY TypeIsNext
<1>2. ReqOK' /\ LaxOK'
  BY DEF PoolInv, ReqOK, LaxOK
<1> QED
  BY <1>1, <1>2 DEF PoolInv, CapInv

\* A request passes the check of the count, alone or not.
LEMMA CheckedStep ==
    ASSUME PoolInv, NEW c \in Client, NEW listed, NEW r, Checked(c, listed, r),
           r.op = "create" => r.n \in Pool /\ r.D \subseteq Disk
    PROVE  PoolInv'
<1>1. /\ req' = [req EXCEPT ![c] = r] /\ lax' = (lax \/ ~Alone(c) \/ listed # DOMAIN pools)
      /\ UNCHANGED <<pools, exported, scrubbing, tier>>
  BY DEF Checked
<1>2. PoolTypeOK'
  BY <1>1, TypeIs, TypeIsNext DEF PoolInv
<1>3. DOMAIN req' = Client /\ \A o \in Client : req'[o] = IF o = c THEN r ELSE req[o]
  BY <1>1 DEF PoolInv, ReqOK
<1>4. ReqOK'
  BY <1>3 DEF PoolInv, ReqOK
<1>5. LaxOK'
  BY <1>1 DEF LaxOK
<1>6. CapInv'
  <2> SUFFICES ASSUME tier = "home", ~lax, Alone(c), listed = DOMAIN pools
               PROVE  CapInv'
    BY <1>1 DEF CapInv
  <2>1. DOMAIN pools = {}
    BY CountedNone DEF PoolInv, CapInv, Checked
  <2>2. \A o \in Client : req'[o] # Idle => o = c
    BY <1>3 DEF Alone
  <2> QED
    BY <1>1, <2>1, <2>2 DEF CapInv, OneOrNone
<1> QED
  BY <1>2, <1>4, <1>5, <1>6 DEF PoolInv

\* The command of a request adds the pool n, or is refused.
LEMMA CommandStep ==
    ASSUME PoolInv, NEW c \in Client, req' = [req EXCEPT ![c] = Idle], UNCHANGED <<tier, lax>>,
           req[c] # Idle, NEW n,
           DOMAIN pools' \subseteq DOMAIN pools \cup {n},
           Listing(pools'), Shelf(exported'), scrubbing' \subseteq DOMAIN pools'
    PROVE  PoolInv'
<1>1. PoolTypeOK'
  BY TypeIs, TypeIsNext DEF PoolInv
<1>2. DOMAIN req' = Client /\ \A o \in Client : req'[o] = IF o = c THEN Idle ELSE req[o]
  BY DEF PoolInv, ReqOK
<1>3. ReqOK' /\ LaxOK'
  BY <1>2 DEF PoolInv, ReqOK, LaxOK, Idle
<1>4. CapInv'
  <2> SUFFICES ASSUME tier = "home", ~lax
               PROVE  CapInv'
    BY DEF CapInv
  <2>1. DOMAIN pools = {} /\ \A o \in Client : req[o] # Idle => o = c
    BY DEF PoolInv, CapInv
  <2>2. \A o \in Client : req'[o] = Idle
    BY <1>2, <2>1
  <2> QED
    BY <2>1, <2>2 DEF CapInv, OneOrNone
<1> QED
  BY <1>1, <1>3, <1>4 DEF PoolInv
-----------------------------------------------------------------------------
(* The commands: what zpool and wipefs do to the listings.                 *)

LEMMA CreateLists ==
    ASSUME PoolTypeOK, NEW n \in Pool, NEW D \in SUBSET Disk, NEW force, CreateArray(n, D, force)
    PROVE  /\ Listing(pools') /\ Shelf(exported') /\ DOMAIN pools' = DOMAIN pools \cup {n}
           /\ scrubbing' \subseteq DOMAIN pools'
<1>1. /\ pools' = Put(pools, n, Striped(D)) /\ UNCHANGED scrubbing
      /\ exported' \subseteq exported
  BY DEF CreateArray, Without, ZpoolCreate
<1>2. Listing(pools) /\ Shelf(exported) /\ scrubbing \subseteq DOMAIN pools
  BY TypeIs
<1>3. Listing(Put(pools, n, Striped(D))) /\ DOMAIN Put(pools, n, Striped(D)) = DOMAIN pools \cup {n}
  BY <1>2, StripedVdevs, PutListing
<1>4. Shelf(exported')
  BY <1>1, <1>2 DEF Shelf
<1> QED
  BY <1>1, <1>2, <1>3, <1>4

LEMMA ImportLists ==
    ASSUME PoolTypeOK, NEW x, ZpoolImport(x)
    PROVE  /\ Listing(pools') /\ Shelf(exported') /\ DOMAIN pools' = DOMAIN pools \cup {x.name}
           /\ scrubbing' \subseteq DOMAIN pools'
<1>1. /\ x \in exported /\ pools' = Put(pools, x.name, x.vdevs)
      /\ exported' = exported \ {x} /\ UNCHANGED scrubbing
  BY DEF ZpoolImport
<1>2. Listing(pools) /\ Shelf(exported) /\ scrubbing \subseteq DOMAIN pools
  BY TypeIs
<1>3. x.name \in Pool /\ x.vdevs \in Vdevs
  BY <1>1, <1>2, ShelfOf
<1>4. Listing(Put(pools, x.name, x.vdevs)) /\ DOMAIN Put(pools, x.name, x.vdevs) = DOMAIN pools \cup {x.name}
  BY <1>2, <1>3, PutListing
<1>5. Shelf(exported')
  BY <1>1, <1>2 DEF Shelf
<1> QED
  BY <1>1, <1>2, <1>4, <1>5

LEMMA LeaveLists ==
    ASSUME PoolTypeOK, NEW n \in Pool, ZpoolLeave(n)
    PROVE  /\ Listing(pools') /\ DOMAIN pools' \subseteq DOMAIN pools
           /\ scrubbing' \subseteq DOMAIN pools' /\ pools[n] \in Vdevs
<1>1. n \in DOMAIN pools /\ pools' = Drop(pools, {n}) /\ scrubbing' = scrubbing \ {n}
  BY DEF ZpoolLeave
<1>2. Listing(pools) /\ scrubbing \subseteq DOMAIN pools
  BY TypeIs
<1>3. Listing(Drop(pools, {n})) /\ DOMAIN Drop(pools, {n}) = DOMAIN pools \ {n}
  BY <1>2, DropListing
<1> QED
  BY <1>1, <1>2, <1>3 DEF Listing

LEMMA AddStep ==
    ASSUME PoolInv, NEW n \in Pool, NEW k \in Classes, NEW d \in Disk, ZpoolAdd(n, k, d), Quiet
    PROVE  PoolInv'
<1>1. Listing(pools) /\ Shelf(exported) /\ scrubbing \subseteq DOMAIN pools
  BY TypeIs DEF PoolInv
<1>2. n \in DOMAIN pools /\ pools' = [pools EXCEPT ![n][k] = pools[n][k] \cup {d}]
      /\ UNCHANGED <<exported, scrubbing>>
  BY DEF ZpoolAdd
<1>3. pools[n][k] \cup {d} \in SUBSET Disk
  BY <1>1, <1>2 DEF Listing, Vdevs
<1>4. Listing(pools') /\ DOMAIN pools' = DOMAIN pools
  BY <1>1, <1>2, <1>3, ClassListing
<1> QED
  BY <1>1, <1>2, <1>4, QuietStep

LEMMA ReplaceStep ==
    ASSUME PoolInv, NEW n \in Pool, NEW old \in Disk, NEW new \in Disk, ReplaceDisk(n, old, new), Quiet
    PROVE  PoolInv'
<1>1. Listing(pools) /\ Shelf(exported) /\ scrubbing \subseteq DOMAIN pools
  BY TypeIs DEF PoolInv
<1>2. n \in DOMAIN pools /\ pools' = [pools EXCEPT ![n]["data"] = (pools[n]["data"] \ {old}) \cup {new}]
      /\ UNCHANGED <<exported, scrubbing>>
  BY DEF ReplaceDisk
<1>3. "data" \in Classes
  BY DEF Classes
<1>4. (pools[n]["data"] \ {old}) \cup {new} \in SUBSET Disk
  BY <1>1, <1>2, <1>3 DEF Listing, Vdevs
<1>5. Listing(pools') /\ DOMAIN pools' = DOMAIN pools
  BY <1>1, <1>2, <1>3, <1>4, ClassListing
<1> QED
  BY <1>1, <1>2, <1>5, QuietStep

\* Handlers that leave the imported pools as they are.
LEMMA KeepStep ==
    ASSUME PoolInv, UNCHANGED pools, Quiet, Shelf(exported'), scrubbing' \subseteq DOMAIN pools
    PROVE  PoolInv'
BY TypeIs, QuietStep DEF PoolInv

LEMMA CreateStep == ASSUME PoolInv, NEW c \in Client, createArrayHandler(c) PROVE PoolInv'
<1>1. ASSUME NEW n \in Pool, NEW D \in SUBSET Disk, NEW force \in BOOLEAN, NEW listed,
             Checked(c, listed, [op |-> "create", n |-> n, D |-> D, force |-> force])
      PROVE  PoolInv'
  BY <1>1, CheckedStep
<1>2. CASE Command(c, "create", CreateArray(req[c].n, req[c].D, req[c].force))
  <2>1. /\ req[c].op = "create" /\ req' = [req EXCEPT ![c] = Idle] /\ UNCHANGED <<tier, lax>>
        /\ CreateArray(req[c].n, req[c].D, req[c].force) \/ UNCHANGED <<pools, exported, scrubbing>>
    BY <1>2 DEF Command
  <2>2. req[c] # Idle /\ req[c].n \in Pool /\ req[c].D \in SUBSET Disk
    BY <2>1 DEF PoolInv, ReqOK, Idle
  <2>3. CASE CreateArray(req[c].n, req[c].D, req[c].force)
    BY <2>1, <2>2, <2>3, CreateLists, CommandStep DEF PoolInv
  <2>4. CASE UNCHANGED <<pools, exported, scrubbing>>
    BY <2>1, <2>2, <2>4, TypeIs, CommandStep DEF PoolInv
  <2> QED
    BY <2>1, <2>3, <2>4
<1> QED
  BY <1>1, <1>2 DEF createArrayHandler

LEMMA ImportStep == ASSUME PoolInv, NEW c \in Client, importPoolHandler(c) PROVE PoolInv'
<1>1. ASSUME NEW n \in Pool, NEW guid \in BOOLEAN, NEW listed,
             Checked(c, listed, [op |-> "import", n |-> n, guid |-> guid])
      PROVE  PoolInv'
  <2>1. PICK r : r = [op |-> "import", n |-> n, guid |-> guid]
    OBVIOUS
  <2>2. r.op # "create" /\ Checked(c, listed, r)
    BY <1>1, <2>1
  <2> QED
    BY <2>2, CheckedStep
<1>2. CASE Command(c, "import", ImportPool(req[c].n, req[c].guid))
  <2>1. /\ req[c].op = "import" /\ req' = [req EXCEPT ![c] = Idle] /\ UNCHANGED <<tier, lax>>
        /\ (\E x : ZpoolImport(x)) \/ UNCHANGED <<pools, exported, scrubbing>>
    BY <1>2 DEF Command, ImportPool, ImportNamed
  <2>2. req[c] # Idle
    BY <2>1 DEF Idle
  <2>3. ASSUME NEW x, ZpoolImport(x) PROVE PoolInv'
    <3>1. /\ Listing(pools') /\ Shelf(exported') /\ DOMAIN pools' = DOMAIN pools \cup {x.name}
          /\ scrubbing' \subseteq DOMAIN pools'
      BY <2>3, ImportLists DEF PoolInv
    <3> QED
      BY <2>1, <2>2, <3>1, CommandStep
  <2>4. CASE UNCHANGED <<pools, exported, scrubbing>>
    BY <2>1, <2>2, <2>4, TypeIs, CommandStep DEF PoolInv
  <2> QED
    BY <2>1, <2>3, <2>4
<1> QED
  BY <1>1, <1>2 DEF importPoolHandler

\* The handlers of one pool.
PoolHandlers(n) ==
    \/ startArrayHandler(n) \/ stopArrayHandler(n) \/ deleteArrayHandler(n)
    \/ expandPoolHandler(n) \/ replaceDiskHandler(n)
    \/ startScrubHandler(n) \/ resilverHandler(n) \/ ScrubEnds(n) \/ zfsPoolTrimHandler(n)
    \/ zfsL2ARCAddHandler(n) \/ zfsSLOGAddHandler(n) \/ zfsSpecialVdevAddHandler(n)
    \/ zfsL2ARCRemoveHandler(n) \/ zfsSLOGRemoveHandler(n)

LEMMA PoolHandlersStep == ASSUME PoolInv, NEW n \in Pool, PoolHandlers(n) PROVE PoolInv'
<1>0. Listing(pools) /\ Shelf(exported) /\ scrubbing \subseteq DOMAIN pools
  BY TypeIs DEF PoolInv
<1>1. CASE startArrayHandler(n)
  <2>1. PICK x : ZpoolImport(x) /\ lax' = TRUE /\ UNCHANGED <<tier, req>>
    BY <1>1 DEF startArrayHandler, StartArray, ImportNamed
  <2>2. tier' \in {"home", "pro", "expired"}
    BY <2>1, TypeIs DEF PoolInv
  <2>3. Listing(pools') /\ Shelf(exported') /\ scrubbing' \subseteq DOMAIN pools'
    BY <2>1, ImportLists DEF PoolInv
  <2> QED
    BY <2>1, <2>2, <2>3, LaxStep
<1>2. CASE stopArrayHandler(n)
  <2>1. ZpoolLeave(n) /\ exported' = exported \cup {Stopped(n, pools[n])} /\ Quiet
    BY <1>2 DEF stopArrayHandler, StopArray
  <2>2. pools[n] \in Vdevs
    BY <2>1, LeaveLists DEF PoolInv
  <2>3. Shelf(exported')
    BY <1>0, <2>1, <2>2 DEF Shelf, Stopped
  <2> QED
    BY <2>1, <2>3, LeaveLists, QuietStep DEF PoolInv
<1>3. CASE deleteArrayHandler(n)
  <2>1. ZpoolLeave(n) /\ UNCHANGED exported /\ Quiet
    BY <1>3 DEF deleteArrayHandler, DeleteArray
  <2> QED
    BY <1>0, <2>1, LeaveLists, QuietStep DEF PoolInv
<1>4. CASE replaceDiskHandler(n)
  BY <1>4, ReplaceStep DEF replaceDiskHandler
<1>5. CASE startScrubHandler(n) \/ resilverHandler(n) \/ ScrubEnds(n)
  <2>1. UNCHANGED <<pools, exported>> /\ Quiet /\ scrubbing' \subseteq DOMAIN pools
    BY <1>0, <1>5 DEF startScrubHandler, StartScrub, resilverHandler, Resilver, ScrubEnds
  <2> QED
    BY <1>0, <2>1, KeepStep
<1>6. CASE zfsL2ARCAddHandler(n) \/ zfsSLOGAddHandler(n) \/ zfsSpecialVdevAddHandler(n)
  <2>1. PICK d \in Disk, k \in Classes : ZpoolAdd(n, k, d) /\ Quiet
    BY <1>6 DEF zfsL2ARCAddHandler, zfsSLOGAddHandler, zfsSpecialVdevAddHandler,
                ZFSL2ARCAdd, ZFSSLOGAdd, ZFSSpecialVdevAdd, Classes
  <2> QED
    BY <2>1, AddStep
<1>7. CASE \/ expandPoolHandler(n) \/ zfsPoolTrimHandler(n)
           \/ zfsL2ARCRemoveHandler(n) \/ zfsSLOGRemoveHandler(n)
  <2>1. UNCHANGED <<pools, exported, scrubbing>> /\ Quiet
    BY <1>7 DEF expandPoolHandler, ExpandPool, zfsPoolTrimHandler, TrimPool,
                zfsL2ARCRemoveHandler, ZFSL2ARCRemove, zfsSLOGRemoveHandler, ZFSSLOGRemove, ZpoolUsage
  <2> QED
    BY <1>0, <2>1, KeepStep
<1> QED
  BY <1>1, <1>2, <1>3, <1>4, <1>5, <1>6, <1>7 DEF PoolHandlers

LEMMA WipeStep == ASSUME PoolInv, NEW d \in Disk, wipeDiskHandler(d) PROVE PoolInv'
<1>1. Shelf(exported) /\ scrubbing \subseteq DOMAIN pools
  BY TypeIs DEF PoolInv
<1>2. /\ exported' \subseteq exported
      /\ UNCHANGED <<pools, scrubbing>> /\ Quiet
  BY DEF wipeDiskHandler, WipeDisk, Without
<1>3. Shelf(exported')
  BY <1>1, <1>2 DEF Shelf
<1> QED
  BY <1>1, <1>2, <1>3, KeepStep

LEMMA ExpiresStep == ASSUME PoolInv, Expires PROVE PoolInv'
BY TypeIs, LaxStep DEF Expires, PoolInv

LEMMA PoolNextIs ==
    PoolNext <=> \/ \E c \in Client : createArrayHandler(c) \/ importPoolHandler(c)
                 \/ \E n \in Pool : PoolHandlers(n)
                 \/ \E d \in Disk : wipeDiskHandler(d)
                 \/ Expires
BY DEF PoolNext, ImportNext, DeviceNext, PoolHandlers

LEMMA PoolNextInv == ASSUME PoolInv, [PoolNext]_poolVars PROVE PoolInv'
<1>1. CASE UNCHANGED poolVars
  <2>1. UNCHANGED <<pools, exported, scrubbing>> /\ Quiet
    BY <1>1 DEF poolVars, Quiet
  <2> QED
    BY <2>1, TypeIs, KeepStep DEF PoolInv
<1> QED
  BY <1>1, PoolNextIs, CreateStep, ImportStep, PoolHandlersStep, WipeStep, ExpiresStep
-----------------------------------------------------------------------------
(* Stopped pools.                                                          *)

\* A step that drops none.
LEMMA NoneLost == ASSUME exported \subseteq exported' PROVE StoppedStays
BY DEF StoppedStays

LEMMA ImportKeeps ==
    ASSUME NEW x, ZpoolImport(x)
    PROVE  StoppedStays
<1>1. exported' = exported \ {x} /\ pools' = Put(pools, x.name, x.vdevs)
  BY DEF ZpoolImport
<1>2. x.name \in DOMAIN pools' /\ pools'[x.name] = x.vdevs
  BY <1>1 DEF Put
<1> QED
  BY <1>1, <1>2 DEF StoppedStays

\* Only a create that says force takes the disks of a pool that is stopped.
LEMMA CreateKeeps ==
    ASSUME PoolInv, NEW c \in Client, req[c].op = "create", req' = [req EXCEPT ![c] = Idle],
           CreateArray(req[c].n, req[c].D, req[c].force)
    PROVE  StoppedStays
<1>1. req'[c] = Idle
  BY DEF PoolInv, ReqOK
<1>2. CASE req[c].force
  BY <1>1, <1>2 DEF StoppedStays
<1>3. CASE ~req[c].force
  <2>1. req[c].D \cap OnLabels = {} /\ exported' = Without(req[c].D)
    BY <1>3 DEF CreateArray, ZpoolCreate
  <2>2. \A x \in exported : Members(x.vdevs) \cap req[c].D = {}
    BY <2>1 DEF OnLabels
  <2>3. exported' = exported
    BY <2>1, <2>2 DEF Without
  <2> QED
    BY <2>3, NoneLost
<1> QED
  BY <1>2, <1>3

LEMMA StoppedStaysStep == ASSUME PoolInv, PoolNext PROVE StoppedStays
<1>1. ASSUME NEW c \in Client, createArrayHandler(c) PROVE StoppedStays
  <2>1. CASE Command(c, "create", CreateArray(req[c].n, req[c].D, req[c].force))
    BY <2>1, CreateKeeps, NoneLost DEF Command
  <2>2. CASE UNCHANGED exported
    BY <2>2, NoneLost
  <2> QED
    BY <1>1, <2>1, <2>2 DEF createArrayHandler, Checked
<1>2. ASSUME NEW c \in Client, importPoolHandler(c) PROVE StoppedStays
  <2>1. CASE \E x : ZpoolImport(x)
    BY <2>1, ImportKeeps
  <2>2. CASE UNCHANGED exported
    BY <2>2, NoneLost
  <2> QED
    BY <1>2, <2>1, <2>2 DEF importPoolHandler, Checked, Command, ImportPool, ImportNamed
<1>3. ASSUME NEW n \in Pool, PoolHandlers(n) PROVE StoppedStays
  <2>1. CASE startArrayHandler(n)
    BY <2>1, ImportKeeps DEF startArrayHandler, StartArray, ImportNamed
  <2>2. CASE stopArrayHandler(n)
    <3>1. exported \subseteq exported'
      BY <2>2 DEF stopArrayHandler, StopArray
    <3> QED
      BY <3>1, NoneLost
  <2>3. CASE UNCHANGED exported
    BY <2>3, NoneLost
  <2> QED
    BY <1>3, <2>1, <2>2, <2>3
    DEF PoolHandlers, deleteArrayHandler, DeleteArray, replaceDiskHandler, ReplaceDisk,
        startScrubHandler, StartScrub, resilverHandler, Resilver, ScrubEnds,
        zfsL2ARCAddHandler, zfsSLOGAddHandler, zfsSpecialVdevAddHandler,
        ZFSL2ARCAdd, ZFSSLOGAdd, ZFSSpecialVdevAdd, ZpoolAdd,
        expandPoolHandler, ExpandPool, zfsPoolTrimHandler, TrimPool,
        zfsL2ARCRemoveHandler, ZFSL2ARCRemove, zfsSLOGRemoveHandler, ZFSSLOGRemove, ZpoolUsage
\* wipefs opens no disk of an imported pool: what is in use stays.
<1>4. ASSUME NEW d \in Disk, wipeDiskHandler(d) PROVE StoppedStays
  <2>1. InUse' = InUse
    BY <1>4 DEF wipeDiskHandler, WipeDisk, InUse
  <2> QED
    BY <2>1 DEF StoppedStays
<1>5. CASE Expires
  BY <1>5, NoneLost DEF Expires
<1> QED
  BY <1>1, <1>2, <1>3, <1>4, <1>5, PoolNextIs

-----------------------------------------------------------------------------
\* The listings of the pools keep their type whatever the handlers and zpool
\* do to them, and only imported pools are scrubbed (router.go, linux.go).
THEOREM PoolsTypeCorrect == PoolSpec => []PoolTypeOK
<1>1. PoolInit => PoolInv
  BY PoolInitInv
<1>2. PoolInv /\ [PoolNext]_poolVars => PoolInv'
  BY PoolNextInv
<1>3. PoolInv => PoolTypeOK
  BY DEF PoolInv
<1> QED
  BY <1>1, <1>2, <1>3, PTL DEF PoolSpec

\* On the Home tier requests that do not overlap, whose count of the pools did not
\* fail and that start no stopped pool leave at most one pool imported
\* (enforcePoolCount); and no request loses a stopped pool, one whose name another
\* one has too included, but a wipe of its disks and a create that says force
\* (CreateArray, WipeDisk).
THEOREM PoolsKeptCorrect == PoolSpec => PoolsKept
<1>1. PoolInit => PoolInv
  BY PoolInitInv
<1>2. PoolInv /\ [PoolNext]_poolVars => PoolInv'
  BY PoolNextInv
<1>3. PoolInv => (tier = "home" /\ ~lax => OnePool)
  BY CapInvImplies DEF PoolInv
<1>4. PoolInv /\ [PoolNext]_poolVars => [StoppedStays]_poolVars
  BY StoppedStaysStep
<1> QED
  BY <1>1, <1>2, <1>3, <1>4, PTL DEF PoolSpec, PoolsKept
-----------------------------------------------------------------------------
(***************************************************************************)
(* The backup routes, for any sets of names, archives, paths and requests. *)
(***************************************************************************)
SyncOK == DOMAIN sync = Caller /\ \A c \in Caller : sync[c].name \in Field

StoreOK ==
    /\ pro \in BOOLEAN
    /\ ~pro => repos = {} /\ held = {} /\ remotes = <<>> /\ jobs = {}
    /\ \A h \in held : <<h[1], h[2]>> \in repos

\* The inductive invariant.
BackupInv == StoreOK /\ SyncOK

LEMMA BackupInvImplies == BackupInv => BackupTypeOK
BY DEF BackupInv, StoreOK, SyncOK, BackupTypeOK

LEMMA BackupInitInv == ASSUME BackupInit PROVE BackupInv
<1>1. NoSync.name \in Field
  BY DEF NoSync, Field
<1>2. SyncOK
  BY <1>1 DEF BackupInit, SyncOK
<1>3. StoreOK
  BY DEF BackupInit, StoreOK
<1> QED
  BY <1>2, <1>3 DEF BackupInv

\* A handler that is refused, and a call that the Pro Backuper carries out.
Refused == UNCHANGED <<pro, repos, held, remotes, jobs, sync>>
Carried == pro /\ UNCHANGED <<pro, sync>>

LEMMA RefusedStep == ASSUME BackupInv, Refused PROVE BackupInv'
BY DEF BackupInv, Refused, StoreOK, SyncOK

LEMMA CarriedStep ==
    ASSUME BackupInv, Carried, \A h \in held' : <<h[1], h[2]>> \in repos'
    PROVE  BackupInv'
BY DEF BackupInv, StoreOK, SyncOK, Carried

LEMMA ReadsStep == ASSUME BackupInv, Carried, Reads PROVE BackupInv'
<1>1. UNCHANGED <<repos, held>>
  BY DEF Reads, kept
<1> QED
  BY <1>1, CarriedStep DEF BackupInv, StoreOK

LEMMA MakeRepoStep ==
    ASSUME BackupInv, Carried, NEW t, NEW n, MakeRepo(t, n)
    PROVE  BackupInv'
BY CarriedStep DEF BackupInv, StoreOK, MakeRepo

LEMMA MakeBackupStep ==
    ASSUME BackupInv, Carried, NEW t, NEW n, NEW e, MakeBackup(t, n, e)
    PROVE  BackupInv'
BY CarriedStep DEF BackupInv, StoreOK, MakeBackup

LEMMA DropStep ==
    ASSUME BackupInv, Carried, held' \subseteq held, repos' = repos
    PROVE  BackupInv'
BY CarriedStep DEF BackupInv, StoreOK

LEMMA RemotesStep ==
    ASSUME BackupInv, Carried, UNCHANGED <<repos, held>>
    PROVE  BackupInv'
BY CarriedStep DEF BackupInv, StoreOK

\* How the handlers of borg, restic, the jobs and the remotes end.
LEMMA EndsAre ==
    /\ BadRequest => Refused
    /\ Fails => Refused
BY DEF BadRequest, Fails, Refused, kept

LEMMA RepoHandlers ==
    ASSUME BackupInv, NEW n,
           \/ borgInitHandler(n) \/ borgListArchivesHandler(n) \/ borgPruneHandler(n)
           \/ resticInitHandler(n) \/ resticListSnapshotsHandler(n)
           \/ \E t \in {"", "borg", "restic"} : restorePointsHandler(t, n)
    PROVE  BackupInv'
<1>1. CASE borgInitHandler(n) \/ resticInitHandler(n)
  <2>1. Refused \/ \E t \in {"borg", "restic"} : Carried /\ MakeRepo(t, n)
    BY <1>1, EndsAre DEF borgInitHandler, resticInitHandler, Calls, Carried
  <2> QED
    BY <2>1, RefusedStep, MakeRepoStep
<1>2. CASE borgPruneHandler(n)
  <2>1. Refused \/ (Carried /\ Prune("borg", n))
    BY <1>2, EndsAre DEF borgPruneHandler, Calls, Carried
  <2>2. Prune("borg", n) => held' \subseteq held /\ repos' = repos
    BY DEF Prune
  <2> QED
    BY <2>1, <2>2, RefusedStep, DropStep
<1>3. CASE \/ borgListArchivesHandler(n) \/ resticListSnapshotsHandler(n)
           \/ \E t \in {"", "borg", "restic"} : restorePointsHandler(t, n)
  <2>1. Refused \/ (Carried /\ Reads)
    BY <1>3, EndsAre DEF borgListArchivesHandler, resticListSnapshotsHandler, restorePointsHandler,
                         Calls, Carried
  <2> QED
    BY <2>1, RefusedStep, ReadsStep
<1> QED
  BY <1>1, <1>2, <1>3

LEMMA EntryHandlers ==
    ASSUME BackupInv, NEW n, NEW e,
           \/ borgDeleteArchiveHandler(n, e) \/ resticDeleteSnapshotHandler(n, e)
           \/ borgVerifyHandler(n, e) \/ resticVerifyHandler(n, e)
    PROVE  BackupInv'
<1>1. CASE borgDeleteArchiveHandler(n, e) \/ resticDeleteSnapshotHandler(n, e)
  <2>1. Refused \/ \E t \in {"borg", "restic"} : Carried /\ DropBackup(t, n, e)
    BY <1>1, EndsAre DEF borgDeleteArchiveHandler, resticDeleteSnapshotHandler, Calls, Carried
  <2>2. ASSUME NEW t, DropBackup(t, n, e) PROVE held' \subseteq held /\ repos' = repos
    BY <2>2 DEF DropBackup
  <2> QED
    BY <2>1, <2>2, RefusedStep, DropStep
<1>2. CASE borgVerifyHandler(n, e) \/ resticVerifyHandler(n, e)
  <2>1. Refused \/ (Carried /\ Reads)
    BY <1>2, EndsAre DEF borgVerifyHandler, resticVerifyHandler, Calls, Carried
  <2> QED
    BY <2>1, RefusedStep, ReadsStep
<1> QED
  BY <1>1, <1>2

LEMMA PathHandlers ==
    ASSUME BackupInv, NEW n, NEW e, NEW p,
           \/ borgCreateBackupHandler(n, p, e) \/ resticCreateBackupHandler(n, p, e)
           \/ borgRestoreHandler(n, e, p) \/ resticRestoreHandler(n, e, p)
    PROVE  BackupInv'
<1>1. CASE borgCreateBackupHandler(n, p, e) \/ resticCreateBackupHandler(n, p, e)
  <2>1. Refused \/ \E t \in {"borg", "restic"} : Carried /\ MakeBackup(t, n, e)
    BY <1>1, EndsAre DEF borgCreateBackupHandler, resticCreateBackupHandler, Calls, Carried, Refused, kept
  <2> QED
    BY <2>1, RefusedStep, MakeBackupStep
<1>2. CASE borgRestoreHandler(n, e, p) \/ resticRestoreHandler(n, e, p)
  <2>1. Refused \/ (Carried /\ Reads)
    BY <1>2, EndsAre DEF borgRestoreHandler, resticRestoreHandler, Calls, Carried
  <2> QED
    BY <2>1, RefusedStep, ReadsStep
<1> QED
  BY <1>1, <1>2

LEMMA JobHandlers ==
    ASSUME BackupInv, NEW j,
           \/ createBackupJobHandler(j) \/ updateBackupJobHandler(j) \/ deleteBackupJobHandler(j)
           \/ runBackupJobHandler(j) \/ backupJobRunsHandler(j) \/ backupJobRunHandler(j)
           \/ backupJobRunLogHandler(j)
    PROVE  BackupInv'
<1>1. CASE createBackupJobHandler(j) \/ deleteBackupJobHandler(j)
  <2>1. Refused \/ (Carried /\ UNCHANGED <<repos, held>>)
    BY <1>1, EndsAre DEF createBackupJobHandler, deleteBackupJobHandler, Calls, Carried
  <2> QED
    BY <2>1, RefusedStep, RemotesStep
<1>2. CASE \/ updateBackupJobHandler(j) \/ runBackupJobHandler(j) \/ backupJobRunsHandler(j)
           \/ backupJobRunHandler(j)
  <2>1. Refused \/ (Carried /\ Reads)
    BY <1>2, EndsAre DEF updateBackupJobHandler, runBackupJobHandler, backupJobRunsHandler,
                         backupJobRunHandler, Calls, Carried
  <2> QED
    BY <2>1, RefusedStep, ReadsStep
<1>3. CASE backupJobRunLogHandler(j)
  BY <1>3, RefusedStep DEF backupJobRunLogHandler, Refused, kept
<1> QED
  BY <1>1, <1>2, <1>3

LEMMA PlainHandlers ==
    ASSUME BackupInv,
           backupJobsHandler \/ backupStatusHandler \/ cloudCostEstimateHandler \/ rcloneRemoteListHandler
    PROVE  BackupInv'
<1>1. Refused \/ (Carried /\ Reads)
  BY EndsAre DEF backupJobsHandler, backupStatusHandler, cloudCostEstimateHandler,
                 rcloneRemoteListHandler, Calls, Carried
<1> QED
  BY <1>1, RefusedStep, ReadsStep

LEMMA RemoteHandlers ==
    ASSUME BackupInv, NEW n, NEW p, NEW type, NEW bandwidth,
           rcloneRemoteAddHandler(n, type, p, bandwidth) \/ rcloneRemoteRemoveHandler(n)
    PROVE  BackupInv'
<1>1. Refused \/ (Carried /\ (AddRemote(n, p) \/ RemoveRemote(n)))
  BY EndsAre DEF rcloneRemoteAddHandler, rcloneRemoteRemoveHandler, Calls, Carried
<1>2. AddRemote(n, p) \/ RemoveRemote(n) => UNCHANGED <<repos, held>>
  BY DEF AddRemote, RemoveRemote
<1> QED
  BY <1>1, <1>2, RefusedStep, RemotesStep

LEMMA ListedStep ==
    ASSUME BackupInv, NEW c \in Caller, NEW n \in Field, Listed(c, n)
    PROVE  BackupInv'
<1>1. PICK r : r = [name |-> n, paths |-> PathsOf(remotes, n)]
  OBVIOUS
<1>2. sync' = [sync EXCEPT ![c] = r] /\ UNCHANGED <<pro, repos, held, remotes, jobs>> /\ r.name = n
  BY <1>1 DEF Listed, kept
<1> QED
  BY <1>2 DEF BackupInv, StoreOK, SyncOK

LEMMA SyncEndsStep ==
    ASSUME BackupInv, NEW c \in Caller, SyncEnds(c)
    PROVE  BackupInv'
<1>1. sync' = [sync EXCEPT ![c] = NoSync] /\ UNCHANGED <<pro, repos, held, remotes, jobs>>
  BY DEF SyncEnds, kept
<1>2. NoSync.name \in Field
  BY DEF NoSync, Field
<1> QED
  BY <1>1, <1>2 DEF BackupInv, StoreOK, SyncOK

LEMMA BackupNextInv == ASSUME BackupInv, [BackupNext]_backupVars PROVE BackupInv'
<1>1. CASE RepoNext
  BY <1>1, PlainHandlers, RepoHandlers, EntryHandlers, PathHandlers, JobHandlers DEF RepoNext
<1>2. CASE RemoteNext
  <2>1. ASSUME NEW c \in Caller, NEW n \in Field, rcloneSyncHandler(c, n) PROVE BackupInv'
    BY <2>1, EndsAre, RefusedStep, ListedStep DEF rcloneSyncHandler
  <2> QED
    BY <1>2, <2>1, PlainHandlers, RemoteHandlers, SyncEndsStep DEF RemoteNext
<1>3. CASE UNCHANGED backupVars
  BY <1>3, RefusedStep DEF backupVars, Refused
<1> QED
  BY <1>1, <1>2, <1>3 DEF BackupNext

\* The stub keeps nothing, what is stored is of a repository, and a sync has a
\* name (backup_stub.go, backup_handlers.go).
THEOREM BackupTypeCorrect == BackupSpec => []BackupTypeOK
<1>1. BackupInit => BackupInv
  BY BackupInitInv
<1>2. BackupInv /\ [BackupNext]_backupVars => BackupInv'
  BY BackupNextInv
<1>3. BackupInv => BackupTypeOK
  BY BackupInvImplies
<1> QED
  BY <1>1, <1>2, <1>3, PTL DEF BackupSpec
=============================================================================
