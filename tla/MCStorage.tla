----------------------------- MODULE MCStorage ------------------------------
(***************************************************************************)
(* What keeps the data of the box, for TLC: the pools and their caps, the  *)
(* wizards, the datasets with their keys, btrfs subvolumes, the backup     *)
(* routes and the migrations of the files of nasd itself.  They share no   *)
(* state, so each is explored on its own (focus) while the others stay in  *)
(* their first state.                                                      *)
(***************************************************************************)
EXTENDS Pools, BtrfsVolumes, Datasets, StorageTasks, Backups, TLC

VARIABLES
    focus,
    migrations, disk, shape, run, wants, ends, applied, mixed

migVars == <<migrations, disk, shape, run, wants, ends, applied, mixed>>
all == <<focus, poolVars, taskVars, datasetVars, btrfsVars, backupVars, migVars>>
-----------------------------------------------------------------------------
(* The instances.  Those that are extended get their constants from the    *)
(* .cfg.  Pools has requests that overlap; StorageTasks two requests of a  *)
(* wizard; Datasets two names, so that a dataset can be renamed to one     *)
(* that has a key file, and two snapshots, so that a rollback takes one    *)
(* with it.                                                                *)

\* Disks of which the Home tier supports one, not two.
Sizes == [d \in Disk |-> 15]

\* The disks and scrubs of pools, with one request at a time that is checked.
OneClient == Cardinality({c \in Client : req[c] # Idle}) <= 1

FewSubvolumes == Cardinality(BtrfsSubvolumes) <= 3

\* Requests about keys one after another, so that datasets are renamed over the
\* names and key files of others,
OneRequest == /\ Cardinality({c \in Requester : asks[c] # NoRequest}) <= 1
              /\ \A n \in Name : keyfile[n] # Torn

\* or requests that overlap, about one dataset.
OneName ==
    Cardinality({n \in Name : Exists(n) \/ keyfile[n] # NoPhrase \/ \E c \in Requester : asks[c].n = n}) <= 1

Schema == INSTANCE Migrations WITH Version <- 0..3, MaxEnds <- 2

\* The part that is not looked at starts in one state only.
MCInit ==
    /\ focus \in {"pools", "vdevs", "replace", "expand", "keys", "overlap", "limits", "snapshots", "btrfs", "repos", "remotes", "schema"}
    /\ PoolInit /\ (focus # "pools" => tier = "home")
    /\ TaskInit
    /\ DatasetInit /\ BtrfsInit
    /\ BackupInit /\ (focus \notin {"repos", "remotes"} => pro)
    /\ Schema!MigInit /\ (focus # "schema" => disk = 0 /\ wants = 3)

TaskStep(f, A) == focus = f /\ A /\ UNCHANGED <<focus, poolVars, datasetVars, btrfsVars, backupVars, migVars>>
DatasetStep(f, A) == focus = f /\ A /\ UNCHANGED <<focus, poolVars, taskVars, btrfsVars, backupVars, migVars>>
BackupStep(f, A) == focus = f /\ A /\ UNCHANGED <<focus, poolVars, taskVars, datasetVars, btrfsVars, migVars>>

MCNext ==
    \/ /\ \/ focus = "pools" /\ ImportNext
          \/ focus = "vdevs" /\ PoolNext /\ OneClient'
       /\ UNCHANGED <<focus, taskVars, datasetVars, btrfsVars, backupVars, migVars>>
    \/ TaskStep("replace", ReplaceNext)
    \/ TaskStep("expand", ExpandNext)
    \/ DatasetStep("keys", KeyNext /\ OneRequest')
    \/ DatasetStep("overlap", KeyNext /\ OneName')
    \/ DatasetStep("limits", LimitNext)
    \/ DatasetStep("snapshots", SnapNext)
    \/ /\ focus = "btrfs" /\ BtrfsNext /\ FewSubvolumes'
       /\ UNCHANGED <<focus, poolVars, taskVars, datasetVars, backupVars, migVars>>
    \/ BackupStep("repos", RepoNext)
    \/ BackupStep("remotes", RemoteNext)
    \/ /\ focus = "schema" /\ Schema!MigNext
       /\ UNCHANGED <<focus, poolVars, taskVars, datasetVars, btrfsVars, backupVars>>

MCSpec == MCInit /\ [][MCNext]_all

\* Task, Restorer, Caller and Requester are the same requests as Client.
Symmetry == Permutations(Client) \cup Permutations(Disk) \cup Permutations(Pool)
-----------------------------------------------------------------------------
\* Migrations are found, and are applied in their order (Migrations).
MigratesInOrder == Schema!MigratesInOrder

\* The state of what is looked at has its type.
TypesOK == CASE focus \in {"pools", "vdevs"} -> PoolTypeOK
             [] focus \in {"replace", "expand"} -> TaskTypeOK
             [] focus \in {"keys", "overlap", "limits", "snapshots"} -> DatasetTypeOK
             [] focus = "btrfs" -> BtrfsTypeOK
             [] focus \in {"repos", "remotes"} -> BackupTypeOK
             [] focus = "schema" -> Schema!MigTypeOK
=============================================================================
