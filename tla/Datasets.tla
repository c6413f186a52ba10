------------------------------ MODULE Datasets ------------------------------
(***************************************************************************)
(* The datasets of a pool, their encryption keys, properties and           *)
(* snapshots: the handlers of internal/api/router.go and the zfs commands  *)
(* linuxProvider runs for them.  The passphrase of an encrypted dataset is *)
(* kept in a file of nasd named after the dataset; zfs keeps where the key *)
(* comes from (keylocation) and what it is, and follows no rename.  A      *)
(* request that creates an encrypted dataset or loads its key writes that  *)
(* file, runs its commands and may remove the file again: requests overlap *)
(* between these steps, and nasd may be restarted there.                   *)
(***************************************************************************)
EXTENDS Naturals, Sequences, SequencesExt, FiniteSets, Functions

CONSTANTS
    Name,        \* names of datasets below the pool
    Phrase,      \* passphrases
    Requester,   \* requests about keys that may be under way at a time
    Snap, Tag,   \* names of snapshots and tags of holds
    MaxSnaps     \* bound on the snapshots of the pool

NoPhrase == "none"
Torn == "torn"   \* the part of a passphrase that a write cut off leaves in a file

VARIABLES
    ds,        \* the datasets that exist
    keyfile,   \* keyfile[n]: what /var/lib/kilasos/keys/<pool>/<n>.key holds
    snaps,     \* the snapshots of the pool, oldest first
    holds,     \* holds[s]: the tags that hold a snapshot
    origin,    \* origin[n]: the snapshot a dataset is a clone of
    asks       \* asks[c]: the request about a key that c has under way

datasetVars == <<ds, keyfile, snaps, holds, origin, asks>>

\* A dataset: its passphrase and the place zfs looks for it, whether the key is
\* loaded and the dataset mounted; its properties, its quota and its reservation
\* (0 is "none").  "given" is a ghost: the passphrase that the request to create it
\* came with, until the dataset is renamed or gets another key, and nothing if
\* another request touched the key file meanwhile.
Plain == [phrase |-> NoPhrase, given |-> NoPhrase, location |-> NoPhrase, loaded |-> TRUE,
          mounted |-> TRUE, readonly |-> "off", quota |-> 0, reservation |-> 0]

\* A request under way: what it does next, its dataset and passphrase, and
\* whether no other request touched that key file since it wrote it.
Request(op, n, p) == [op |-> op, n |-> n, p |-> p, quiet |-> TRUE]
NoRequest == Request("none", "", NoPhrase)
Steps == {"none", "create", "remove", "load", "mount"}

Prompt == "prompt"
Limits == 0 .. 2

DatasetInit ==
    /\ ds = [n \in {} |-> Plain]
    /\ keyfile = [n \in Name |-> NoPhrase]
    /\ snaps = <<>> /\ holds = [s \in Snap |-> {}] /\ origin = [n \in {} |-> CHOOSE s \in Snap : TRUE]
    /\ asks = [c \in Requester |-> NoRequest]

GetDatasetQuota(n) == <<ds[n].quota, ds[n].reservation>>

DatasetTypeOK ==
    /\ DOMAIN ds \subseteq Name /\ DOMAIN origin \subseteq DOMAIN ds
    /\ \A n \in DOMAIN ds : /\ ds[n].phrase \in Phrase \cup {NoPhrase, Torn}
                            /\ ds[n].location \in Name \cup {NoPhrase, Prompt}
                            /\ GetDatasetQuota(n) \in Limits \X Limits
    /\ keyfile \in [Name -> Phrase \cup {NoPhrase, Torn}]
    /\ \A c \in Requester : asks[c].op \in Steps /\ (asks[c] = NoRequest \/ asks[c].n \in Name)
    /\ IsInjective(snaps) /\ holds \in [Snap -> SUBSET Tag]

Exists(n) == n \in DOMAIN ds
Make(n, d) == ds' = [m \in DOMAIN ds \cup {n} |-> IF m = n THEN d ELSE ds[m]]
Change(n, d) == Exists(n) /\ ds' = [ds EXCEPT ![n] = d]
Keys == UNCHANGED <<keyfile, asks>>
Snapshotting == UNCHANGED <<snaps, holds, origin>>
Cloned(s) == \E n \in DOMAIN origin : origin[n] = s
-----------------------------------------------------------------------------
(* Datasets and keys.                                                      *)

CreateDataset(n) == ~Exists(n) /\ Make(n, Plain) /\ Keys /\ Snapshotting

\* The key file of n with p in it, and what a write that fails leaves of it.
Keyed(n, p) == [keyfile EXCEPT ![n] = p]
Tear(n) == keyfile' \in {Keyed(n, NoPhrase), Keyed(n, Torn)}

\* c goes on with r after it touched the key file of n, which the others that are
\* about n have not seen.
Touched(c, n, r) ==
    asks' = [d \in Requester |->
                IF d = c THEN r
                ELSE IF asks[d].n = n /\ asks[d].p # NoPhrase THEN [asks[d] EXCEPT !.quiet = FALSE]
                ELSE asks[d]]

GoesOn(c, r) == asks' = [asks EXCEPT ![c] = r]

\* The key file is written first.
CreateEncryptedDataset(c, n, p) ==
    /\ asks[c] = NoRequest
    /\ \/ keyfile' = Keyed(n, p) /\ Touched(c, n, Request("create", n, p))
       \/ Tear(n) /\ Touched(c, n, NoRequest)
    /\ UNCHANGED ds /\ Snapshotting

\* zfs create takes the passphrase that the file holds by now.
Encrypted(c) ==
    LET n == asks[c].n
    IN  /\ ~Exists(n) /\ keyfile[n] # NoPhrase
        /\ Make(n, [Plain EXCEPT !.phrase = keyfile[n], !.location = n,
                                 !.given = IF asks[c].quiet THEN asks[c].p ELSE NoPhrase])

\* If zfs refuses, or is stopped with the request though it has done its work, the
\* file is to be removed.
ZfsCreate(c) ==
    /\ asks[c].op = "create"
    /\ \/ Encrypted(c) /\ GoesOn(c, NoRequest)
       \/ /\ Encrypted(c) \/ UNCHANGED ds
          /\ GoesOn(c, Request("remove", asks[c].n, NoPhrase))
    /\ UNCHANGED keyfile /\ Snapshotting

\* Whosever key it is.
RemoveKey(c) ==
    /\ asks[c].op = "remove"
    /\ keyfile' = Keyed(asks[c].n, NoPhrase)
    /\ Touched(c, asks[c].n, NoRequest)
    /\ UNCHANGED ds /\ Snapshotting

\* What zfs load-key finds: nothing at a prompt, for it is given no input.
Offered(loc, files) == IF loc \in Name THEN files[loc] ELSE NoPhrase

\* Slip: a passphrase is only written where there is no key file yet.
SlipKeyWritten(n, p) ==
    IF p = NoPhrase \/ keyfile[n] # NoPhrase THEN keyfile ELSE Keyed(n, p)

\* The key file as the request leaves it: a passphrase that is given is written.
KeyWritten(n, p) == IF p = NoPhrase THEN keyfile ELSE Keyed(n, p)

LoadEncryptionKey(c, n, p) ==
    /\ asks[c] = NoRequest
    /\ LET r == Request("load", n, p)
       IN  \/ /\ keyfile' = KeyWritten(n, p)
              /\ IF p = NoPhrase THEN GoesOn(c, r) ELSE Touched(c, n, r)
           \/ p # NoPhrase /\ Tear(n) /\ Touched(c, n, NoRequest)
    /\ UNCHANGED ds /\ Snapshotting

\* zfs load-key; a key that is loaded already is an error.
LoadKey(c) ==
    LET n == asks[c].n
    IN  /\ asks[c].op = "load"
        /\ \/ /\ Exists(n) /\ ~ds[n].loaded /\ Offered(ds[n].location, keyfile) = ds[n].phrase
              /\ ds' = [ds EXCEPT ![n].loaded = TRUE]
              /\ GoesOn(c, Request("mount", n, NoPhrase)) \/ GoesOn(c, NoRequest)
           \/ UNCHANGED ds /\ GoesOn(c, NoRequest)
        /\ UNCHANGED keyfile /\ Snapshotting

\* zfs mount.
Mount(c) ==
    LET n == asks[c].n
    IN  /\ asks[c].op = "mount"
        /\ \/ Exists(n) /\ ds[n].loaded /\ ds' = [ds EXCEPT ![n].mounted = TRUE]
           \/ UNCHANGED ds
        /\ GoesOn(c, NoRequest)
        /\ UNCHANGED keyfile /\ Snapshotting

\* nasd is restarted: the requests under way are gone.
Forgotten == asks' = [c \in Requester |-> NoRequest]
KeyRestart == Forgotten /\ UNCHANGED <<ds, keyfile>> /\ Snapshotting

\* The new key comes from a prompt from now on; the key file stays.
ChangeEncryptionKey(n, p) ==
    /\ Exists(n) /\ ds[n].phrase # NoPhrase /\ ds[n].loaded
    /\ Change(n, [ds[n] EXCEPT !.phrase = p, !.location = Prompt, !.given = NoPhrase])
    /\ UNCHANGED <<keyfile, asks>> /\ Snapshotting

\* zfs destroy: the key file stays.  Clones of the pool are datasets as well.
Destroy(n) ==
    /\ Exists(n)
    /\ ds' = Restrict(ds, DOMAIN ds \ {n})
    /\ origin' = Restrict(origin, DOMAIN origin \ {n})
    /\ UNCHANGED <<keyfile, asks, snaps, holds>>

DeleteDataset(n) == Destroy(n)

DestroyDatasetRecursive(n, recursive) == recursive \in BOOLEAN /\ Destroy(n)

\* keylocation and the key file keep the old name.
ZFSRenameDataset(n, m) ==
    /\ Exists(n) /\ ~Exists(m)
    /\ ds' = [k \in (DOMAIN ds \ {n}) \cup {m} |->
                  IF k = m THEN [ds[n] EXCEPT !.given = NoPhrase] ELSE ds[k]]
    /\ origin' = [k \in (DOMAIN origin \ {n}) \cup (IF n \in DOMAIN origin THEN {m} ELSE {}) |->
                      IF k = m THEN origin[n] ELSE origin[k]]
    /\ UNCHANGED <<keyfile, asks, snaps, holds>>

\* The box is restarted: nothing loads the keys.
Reboot ==
    /\ ds' = [n \in DOMAIN ds |-> [ds[n] EXCEPT !.loaded = (ds[n].phrase = NoPhrase), !.mounted = (ds[n].phrase = NoPhrase)]]
    /\ Forgotten /\ UNCHANGED keyfile /\ Snapshotting
-----------------------------------------------------------------------------
(* Properties.  zfs refuses a reservation above the quota and the reverse. *)

Accepts(d) == d.quota = 0 \/ d.reservation <= d.quota

\* Two commands: if the second is refused the first has been done.  A value
\* that is not asked for is -1.
SetDatasetQuota(n, q, r) ==
    LET d1 == IF q >= 0 THEN [ds[n] EXCEPT !.quota = q] ELSE ds[n]
        d2 == IF r >= 0 THEN [d1 EXCEPT !.reservation = r] ELSE d1
    IN  /\ Exists(n) /\ Accepts(d1)
        /\ Change(n, IF Accepts(d2) THEN d2 ELSE d1)
        /\ Keys /\ Snapshotting

SetDatasetProps(n, v) ==
    Exists(n) /\ Change(n, [ds[n] EXCEPT !.readonly = v]) /\ Keys /\ Snapshotting

SetZFSDatasetProperty(n, v) == SetDatasetProps(n, v)
-----------------------------------------------------------------------------
(* Snapshots of the pool.                                                  *)

CreateSnapshot(s) ==
    /\ ~Contains(snaps, s) /\ Len(snaps) < MaxSnaps
    /\ snaps' = Append(snaps, s)
    /\ UNCHANGED <<ds, holds, origin>> /\ Keys

Removable(s) == holds[s] = {} /\ ~Cloned(s)

DeleteSnapshot(s) ==
    /\ Contains(snaps, s) /\ Removable(s)
    /\ snaps' = Remove(snaps, s)
    /\ UNCHANGED <<ds, holds, origin>> /\ Keys

Newer(s) == {snaps[i] : i \in {j \in 1 .. Len(snaps) : \E k \in 1 .. j - 1 : snaps[k] = s}}

\* -r: what is newer goes; a newer snapshot that is held or cloned refuses it.
RollbackSnapshot(s) ==
    /\ Contains(snaps, s) /\ \A x \in Newer(s) : Removable(x)
    /\ snaps' = SelectSeq(snaps, LAMBDA x : x \notin Newer(s))
    /\ UNCHANGED <<ds, holds, origin>> /\ Keys

CloneSnapshot(s, n) ==
    /\ Contains(snaps, s) /\ ~Exists(n)
    /\ Make(n, Plain)
    /\ origin' = [m \in DOMAIN origin \cup {n} |-> IF m = n THEN s ELSE origin[m]]
    /\ UNCHANGED <<snaps, holds>> /\ Keys

ZFSAddHold(s, t) ==
    /\ Contains(snaps, s) /\ t \notin holds[s]
    /\ holds' = [holds EXCEPT ![s] = @ \cup {t}]
    /\ UNCHANGED <<ds, snaps, origin>> /\ Keys

ZFSReleaseHold(s, t) ==
    /\ Contains(snaps, s) /\ t \in holds[s]
    /\ holds' = [holds EXCEPT ![s] = @ \ {t}]
    /\ UNCHANGED <<ds, snaps, origin>> /\ Keys
-----------------------------------------------------------------------------
(* The handlers.                                                           *)

createDatasetHandler(c, n) ==
    \E encrypted \in BOOLEAN, p \in Phrase \cup {NoPhrase} :
        IF encrypted
        THEN p # NoPhrase /\ CreateEncryptedDataset(c, n, p)
        ELSE CreateDataset(n)

loadEncryptionKeyHandler(c, n) == \E p \in Phrase \cup {NoPhrase} : LoadEncryptionKey(c, n, p)

changeEncKeyHandler(n) == \E p \in Phrase : ChangeEncryptionKey(n, p)

deleteDatasetHandler(n) == DeleteDataset(n)

destroyDatasetHandler(n) == \E r \in BOOLEAN : DestroyDatasetRecursive(n, r)

zfsRenameHandler(n) == \E m \in Name : ZFSRenameDataset(n, m)

setQuotaHandler(n) == \E q, r \in -1 .. 2 : SetDatasetQuota(n, q, r)

setDatasetPropsHandler(n) == \E v \in {"on", "off"} : SetDatasetProps(n, v)

setDatasetPropertyHandler(n) == \E v \in {"on", "off"} : SetZFSDatasetProperty(n, v)

createSnapshotHandler(s) == CreateSnapshot(s)

deleteSnapshotHandler(s) == DeleteSnapshot(s)

rollbackSnapshotHandler(s) == RollbackSnapshot(s)

cloneSnapshotHandler(s) == \E n \in Name : CloneSnapshot(s, n)

addZFSHoldHandler(s) == \E t \in Tag : ZFSAddHold(s, t)

releaseZFSHoldHandler(s) == \E t \in Tag : ZFSReleaseHold(s, t)

\* The requests by what they are about: keys, limits and snapshots.
KeyNext ==
    \/ Reboot \/ KeyRestart
    \/ \E c \in Requester :
        \/ \E n \in Name : createDatasetHandler(c, n) \/ loadEncryptionKeyHandler(c, n)
        \/ ZfsCreate(c) \/ RemoveKey(c) \/ LoadKey(c) \/ Mount(c)
    \/ \E n \in Name :
        \/ deleteDatasetHandler(n) \/ destroyDatasetHandler(n)
        \/ changeEncKeyHandler(n) \/ zfsRenameHandler(n)

LimitNext ==
    \E n \in Name :
        \/ CreateDataset(n) \/ deleteDatasetHandler(n)
        \/ setQuotaHandler(n) \/ setDatasetPropsHandler(n) \/ setDatasetPropertyHandler(n)

SnapNext ==
    \/ \E n \in Name : deleteDatasetHandler(n) \/ zfsRenameHandler(n)
    \/ \E s \in Snap :
        \/ createSnapshotHandler(s) \/ deleteSnapshotHandler(s) \/ rollbackSnapshotHandler(s)
        \/ cloneSnapshotHandler(s) \/ addZFSHoldHandler(s) \/ releaseZFSHoldHandler(s)

DatasetNext == KeyNext \/ LimitNext \/ SnapNext

DatasetSpec == DatasetInit /\ [][DatasetNext]_datasetVars
-----------------------------------------------------------------------------
\* The passphrase that the request to create a dataset gave unlocks it for as long
\* as it keeps its key and its name, whatever became of its key file since then:
\* another request wrote it, a write failed, it was removed.  Exempt are requests
\* with which another one about that key file overlaps (LoadEncryptionKey).
OwnPhraseUnlocks ==
    \A c \in Requester :
        LET n == asks[c].n
        IN  /\ asks[c].op = "load" /\ asks[c].quiet /\ asks[c].p # NoPhrase
            /\ Exists(n) /\ ds[n].given = asks[c].p
            => Offered(ds[n].location, keyfile) = ds[n].phrase
=============================================================================
