------------------------------- MODULE Pools -------------------------------
(***************************************************************************)
(* The pools of the box: the handlers of internal/api/router.go that       *)
(* create, import, stop, destroy, grow and repair a pool, with the caps of *)
(* the Home tier they enforce, and the zpool commands that linuxProvider   *)
(* runs for them.  The caps are checked against what zpool and lsblk list  *)
(* when the request comes in; the command runs later.  Nothing is locked,  *)
(* and a listing that fails is an empty one.                               *)
(***************************************************************************)
EXTENDS Integers, FiniteSets, FiniteSetsExt, Functions

CONSTANTS
    Pool,      \* names of pools
    Disk,      \* whole disks
    Size,      \* Size[d]: the capacity of a disk in TB
    Client,    \* requests that can be in progress at the same time
    HomeTB     \* raw capacity the Home tier supports

ASSUME SizeAssumption == Size \in [Disk -> Nat] /\ HomeTB \in Nat

VARIABLES
    pools,     \* the imported pools and their disks, by class of vdev
    exported,  \* the pools on disks that are not imported; names may repeat
    scrubbing, \* the imported pools that are being scrubbed
    tier,      \* what the license says: home, pro or expired
    req,       \* req[c]: a request that has passed its checks, or Idle
    lax        \* ghost: the caps were checked too early, or not at all

poolVars == <<pools, exported, scrubbing, tier, req, lax>>

Idle == [op |-> "none"]
Classes == {"data", "cache", "log", "special"}
Vdevs == [Classes -> SUBSET Disk]

Members(v) == UNION Range(v)
InUse == UNION {Members(pools[n]) : n \in DOMAIN pools}
OnLabels == UNION {Members(x.vdevs) : x \in exported}
Stopped(n, v) == [name |-> n, vdevs |-> v]
Without(D) == {x \in exported : Members(x.vdevs) \cap D = {}}
Striped(D) == [k \in Classes |-> IF k = "data" THEN D ELSE {}]
Put(f, n, v) == [m \in DOMAIN f \cup {n} |-> IF m = n THEN v ELSE f[m]]
Drop(f, N) == Restrict(f, DOMAIN f \ N)

(* The two ways to write a disk: as lsblk names it, and as a path.         *)
Named(d) == [form |-> "name", disk |-> d]
AtPath(d) == [form |-> "path", disk |-> d]
Devices(form, D) == {[form |-> form, disk |-> d] : d \in D}

PoolTypeOK ==
    /\ DOMAIN pools \subseteq Pool /\ Range(pools) \subseteq Vdevs
    /\ exported \subseteq [name : Pool, vdevs : Vdevs]
    /\ scrubbing \subseteq DOMAIN pools
    /\ tier \in {"home", "pro", "expired"}

PoolInit ==
    /\ pools = [n \in {} |-> Striped({})]
    /\ exported = {}
    /\ scrubbing = {}
    /\ tier \in {"home", "pro"}
    /\ req = [c \in Client |-> Idle]
    /\ lax = FALSE
-----------------------------------------------------------------------------
(* zpool and wipefs, as the provider calls them.                           *)

ZpoolCreate(n, D, force) ==
    /\ n \notin DOMAIN pools /\ D \cap InUse = {}
    /\ force \/ D \cap OnLabels = {}
    /\ pools' = Put(pools, n, Striped(D))
    /\ exported' = Without(D)
    /\ UNCHANGED scrubbing

ZpoolImport(x) ==
    /\ x \in exported /\ x.name \notin DOMAIN pools
    /\ pools' = Put(pools, x.name, x.vdevs)
    /\ exported' = exported \ {x}
    /\ UNCHANGED scrubbing

\* A name that more than one pool has is refused.
ImportNamed(n) == \E x \in exported : /\ x.name = n /\ \A y \in exported : y.name = n => y = x
                                     /\ ZpoolImport(x)

ZpoolLeave(n) ==
    /\ n \in DOMAIN pools
    /\ pools' = Drop(pools, {n})
    /\ scrubbing' = scrubbing \ {n}

\* A class of vdev gains a free disk; labels of another pool need force.
ZpoolAdd(n, class, d) ==
    /\ n \in DOMAIN pools /\ d \notin InUse \cup OnLabels
    /\ pools' = [pools EXCEPT ![n][class] = @ \cup {d}]
    /\ UNCHANGED <<exported, scrubbing>>

\* zpool refuses the command: it lacks the device it is about.
ZpoolUsage(n) == n \in Pool /\ UNCHANGED <<pools, exported, scrubbing>>
-----------------------------------------------------------------------------
(* linuxProvider.                                                          *)

\* Nothing if zpool status fails.
zpoolDevices(n, ok) == IF ok THEN {AtPath(d) : d \in Members(pools[n])} ELSE {}

\* The listings it may return: zpool list and zpool status may fail, and what they
\* wrote until then is what is listed.
Listings == SUBSET DOMAIN pools

Arrays ==
    {[n \in L |-> zpoolDevices(n, n \in ok)] : L \in Listings, ok \in Listings}

Disks == {[Name |-> Named(d), SizeBytes |-> Size[d]] : d \in Disk}

CreateArray(n, D, force) == n # "" /\ D # {} /\ ZpoolCreate(n, D, force)

StartArray(n) == ImportNamed(n)

StopArray(n) ==
    n \in Pool /\ ZpoolLeave(n) /\ exported' = exported \cup {Stopped(n, pools[n])}

DeleteArray(n) == n \in Pool /\ ZpoolLeave(n) /\ UNCHANGED exported

\* A GUID, which is what is used if there is one, is that of any pool.
ImportPool(n, guid) == IF guid THEN \E x \in exported : ZpoolImport(x) ELSE ImportNamed(n)

\* Without a new disk, or with the old one, the disk is rebuilt in place.
ReplaceDisk(n, old, new) ==
    /\ n \in DOMAIN pools /\ old \in pools[n]["data"]
    /\ new = old \/ new \notin InUse \cup OnLabels
    /\ pools' = [pools EXCEPT ![n]["data"] = (@ \ {old}) \cup {new}]
    /\ UNCHANGED <<exported, scrubbing>>

StartScrub(n) ==
    /\ n \in DOMAIN pools \ scrubbing
    /\ scrubbing' = scrubbing \cup {n}
    /\ UNCHANGED <<pools, exported>>

\* scrub -s first: it stops the scrub that runs, and only if none does is
\* one started.
Resilver(n) ==
    /\ n \in DOMAIN pools
    /\ scrubbing' = IF n \in scrubbing THEN scrubbing \ {n} ELSE scrubbing \cup {n}
    /\ UNCHANGED <<pools, exported>>

\* online -e without a device.
ExpandPool(n) == ZpoolUsage(n)

TrimPool(n) == n \in DOMAIN pools /\ UNCHANGED <<pools, exported, scrubbing>>

\* The labels go; wipefs cannot open a disk that an imported pool holds.
WipeDisk(d) ==
    /\ d \notin InUse
    /\ exported' = Without({d})
    /\ UNCHANGED <<pools, scrubbing>>

ZFSL2ARCAdd(n, d) == ZpoolAdd(n, "cache", d)

ZFSSLOGAdd(n, d) == ZpoolAdd(n, "log", d)

ZFSSpecialVdevAdd(n, d) == ZpoolAdd(n, "special", d)

\* remove without a device.
ZFSL2ARCRemove(n) == ZpoolUsage(n)

ZFSSLOGRemove(n) == ZpoolUsage(n)
-----------------------------------------------------------------------------
(* The caps of the Home tier.                                              *)

Licensed == tier = "pro"

\* Slip: off by one.
SlipenforcePoolCount(listed) == Licensed \/ Cardinality(listed) <= 1

\* listed: the names that are in the listing.
enforcePoolCount(listed) == Licensed \/ Cardinality(listed) < 1

\* Disks are counted when the set of devices holds their NAME.
TotalBytes(listed, new) ==
    LET held == UNION Range(listed) \cup new IN
    MapThenSumSet(LAMBDA k : IF k.Name \in held THEN k.SizeBytes ELSE 0, Disks)

\* The request may pass if it does so with one of the listings.
enforceRawCapacity(new) == Licensed \/ Min({TotalBytes(listed, new) : listed \in Arrays}) <= HomeTB
-----------------------------------------------------------------------------
(* The handlers.  Where a cap is enforced the check and the command are    *)
(* two steps, with those of other requests in between.                     *)

Quiet == UNCHANGED <<tier, req, lax>>
Alone(c) == \A o \in Client \ {c} : req[o] = Idle

Checked(c, listed, r) ==
    /\ req[c] = Idle
    /\ enforcePoolCount(listed)
    /\ req' = [req EXCEPT ![c] = r]
    /\ lax' = (lax \/ ~Alone(c) \/ listed # DOMAIN pools)
    /\ UNCHANGED <<pools, exported, scrubbing, tier>>

\* The command of a request; zpool may refuse it by now.
Command(c, op, A) ==
    /\ req[c].op = op
    /\ req' = [req EXCEPT ![c] = Idle]
    /\ A \/ UNCHANGED <<pools, exported, scrubbing>>
    /\ UNCHANGED <<tier, lax>>

createArrayHandler(c) ==
    \/ \E n \in Pool, D \in SUBSET Disk \ {{}}, form \in {"name", "path"}, force \in BOOLEAN :
        /\ enforceRawCapacity(Devices(form, D))
        /\ \E listed \in Listings :
              Checked(c, listed, [op |-> "create", n |-> n, D |-> D, force |-> force])
    \/ Command(c, "create", CreateArray(req[c].n, req[c].D, req[c].force))

importPoolHandler(c) ==
    \/ \E n \in Pool, guid \in BOOLEAN, listed \in Listings :
        Checked(c, listed, [op |-> "import", n |-> n, guid |-> guid])
    \/ Command(c, "import", ImportPool(req[c].n, req[c].guid))

expandPoolHandler(n) ==
    /\ \E listed \in Listings : enforcePoolCount(listed)
    /\ enforceRawCapacity({})
    /\ ExpandPool(n) /\ Quiet

\* Imports as well, and enforces nothing.
startArrayHandler(n) == StartArray(n) /\ lax' = TRUE /\ UNCHANGED <<tier, req>>

stopArrayHandler(n) == StopArray(n) /\ Quiet

deleteArrayHandler(n) == DeleteArray(n) /\ Quiet

replaceDiskHandler(n) ==
    /\ \E old, new \in Disk : ReplaceDisk(n, old, new)
    /\ Quiet

startScrubHandler(n) == StartScrub(n) /\ Quiet

resilverHandler(n) == Resilver(n) /\ Quiet

zfsPoolTrimHandler(n) == TrimPool(n) /\ Quiet

wipeDiskHandler(d) == WipeDisk(d) /\ Quiet

zfsL2ARCAddHandler(n) == (\E d \in Disk : ZFSL2ARCAdd(n, d)) /\ Quiet

zfsSLOGAddHandler(n) == (\E d \in Disk : ZFSSLOGAdd(n, d)) /\ Quiet

zfsSpecialVdevAddHandler(n) == (\E d \in Disk : ZFSSpecialVdevAdd(n, d)) /\ Quiet

zfsL2ARCRemoveHandler(n) == ZFSL2ARCRemove(n) /\ Quiet

zfsSLOGRemoveHandler(n) == ZFSSLOGRemove(n) /\ Quiet

ScrubEnds(n) ==
    /\ n \in scrubbing
    /\ scrubbing' = scrubbing \ {n}
    /\ UNCHANGED <<pools, exported>> /\ Quiet

\* The license is a value of the whole process; only its end comes by itself.
Expires ==
    /\ tier = "pro" /\ tier' = "expired" /\ lax' = TRUE
    /\ UNCHANGED <<pools, exported, scrubbing, req>>

\* The requests by what they are about: pools that come and go, and the disks and
\* scrubs of one.
ImportNext ==
    \/ \E c \in Client : createArrayHandler(c) \/ importPoolHandler(c)
    \/ \E n \in Pool :
        \/ startArrayHandler(n) \/ stopArrayHandler(n) \/ deleteArrayHandler(n) \/ expandPoolHandler(n)
    \/ \E d \in Disk : wipeDiskHandler(d)
    \/ Expires

DeviceNext ==
    \E n \in Pool :
        \/ replaceDiskHandler(n)
        \/ startScrubHandler(n) \/ resilverHandler(n) \/ ScrubEnds(n) \/ zfsPoolTrimHandler(n)
        \/ zfsL2ARCAddHandler(n) \/ zfsSLOGAddHandler(n) \/ zfsSpecialVdevAddHandler(n)
        \/ zfsL2ARCRemoveHandler(n) \/ zfsSLOGRemoveHandler(n)

PoolNext == ImportNext \/ DeviceNext

PoolSpec == PoolInit /\ [][PoolNext]_poolVars
-----------------------------------------------------------------------------
OnePool == Cardinality(DOMAIN pools) <= 1

\* A pool that is stopped stays on its disks until it is imported with what it
\* had, unless they were wiped or taken for another pool by a request that says
\* force (CreateArray).
StoppedStays ==
    \A x \in exported \ exported' :
        \/ x.name \in DOMAIN pools' /\ pools'[x.name] = x.vdevs
        \/ InUse' = InUse
        \/ \E c \in Client : req[c].op = "create" /\ req[c].force /\ req'[c] = Idle

\* On the Home tier requests that do not overlap, whose count of the pools did not
\* fail and that do not start a stopped pool leave one pool imported
\* (enforcePoolCount); and a pool that is stopped, one whose name was used again
\* too, stays one that can be imported (CreateArray, StopArray).
PoolsKept == [](tier = "home" /\ ~lax => OnePool) /\ [][StoppedStays]_poolVars
=============================================================================
