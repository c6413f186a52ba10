----------------------------- MODULE Migrations -----------------------------
(***************************************************************************)
(* The migrations of the state directory (internal/storage/migrate.go):    *)
(* RegisterMigration, DetectSchemaVersion, WriteSchemaVersion and          *)
(* MigrateForward, which looks for a chain of migrations by breadth-first  *)
(* search and applies it one by one, with the version file written after   *)
(* each.  The process may end at any point and start again, as the same    *)
(* build or as a later one, which wants another version and has more       *)
(* migrations.                                                             *)
(*                                                                         *)
(* What a migration does to the files is abstracted to the schema they     *)
(* are in afterwards (shape); a repeated one finds its own result.         *)
(***************************************************************************)
EXTENDS Naturals, Sequences, SequencesExt, FiniteSets

CONSTANTS Version,    \* schema versions, an initial part of the naturals
          MaxEnds     \* bound on failures and ends of the process

VARIABLES
  migrations,  \* the registered pairs <<From, To>>
  disk,        \* the version file: a version, or NoFile
  shape,       \* the schema the files really have
  run,         \* the call of MigrateForward under way
  wants,       \* the version the build asks MigrateForward for
  ends,        \* failures and ends so far
  applied,     \* history: the last migration applied, and the schema it found
  mixed        \* ghost: the build changed while files and version file disagreed

migVars == <<migrations, disk, shape, run, wants, ends, applied, mixed>>

NoFile == 99
Idle == [step |-> "idle", from |-> 0, to |-> 0, path |-> <<>>]
NotApplied == [from |-> 0, to |-> 0, found |-> 0]
-----------------------------------------------------------------------------
\* A missing file means version 0.
DetectSchemaVersion == IF disk = NoFile THEN 0 ELSE disk

\* The targets of the migrations from v, in ascending order.
adj(v) == SetToSortSeq({m[2] : m \in {n \in migrations : n[1] = v}}, <)

\* Breadth-first search over chains of versions; the empty one if there is none.
RECURSIVE Search(_, _, _)
Search(queue, visited, target) ==
  IF queue = <<>> THEN <<>>
  ELSE LET chain == queue[1]
           v == Last(chain)
           next == SelectSeq(adj(v), LAMBDA w : w \notin visited \cup {v})
       IN IF v = target THEN chain
          ELSE IF v \in visited THEN Search(Tail(queue), visited, target)
          ELSE Search(Tail(queue) \o [k \in DOMAIN next |-> Append(chain, next[k])],
                      visited \cup {v}, target)

SlipfoundPath(current, target) ==
  LET first == adj(current) IN
  IF first = <<>> THEN <<>> ELSE Search(<<<<current, Last(first)>>>>, {current}, target)

foundPath(current, target) == Search(<<<<current>>>>, {}, target)
-----------------------------------------------------------------------------
MigInit == /\ migrations = {} /\ disk \in {NoFile, 0} /\ shape = 0
           /\ wants \in Version \ {0}
           /\ run = Idle /\ ends = 0 /\ applied = NotApplied /\ mixed = FALSE

\* The build changes: whether a migration has changed the files and the version
\* file does not say so.
Changes == mixed' = (mixed \/ shape # DetectSchemaVersion)

\* From must be less than To, and a pair is registered once; by this build or by
\* a later one.
RegisterMigration(f, t) ==
  /\ run = Idle
  /\ f < t /\ <<f, t>> \notin migrations
  /\ migrations' = migrations \cup {<<f, t>>}
  /\ Changes /\ UNCHANGED <<disk, shape, run, wants, ends, applied>>

\* A later build wants a later version.
Upgrade ==
  /\ run = Idle
  /\ wants' \in {v \in Version : v > wants}
  /\ Changes /\ UNCHANGED <<migrations, disk, shape, run, ends, applied>>

\* A call for a later version for which there is a chain; the other calls end
\* without a change: backward, nothing to do, no path.
MigrateForward(target) ==
  LET current == DetectSchemaVersion
      chain == foundPath(current, target) IN
  /\ run = Idle
  /\ target > current
  /\ run' = IF chain = <<>> THEN [Idle EXCEPT !.step = "nopath", !.from = current, !.to = target]
            ELSE [step |-> "apply", from |-> current, to |-> target, path |-> chain]
  /\ UNCHANGED <<migrations, disk, shape, wants, ends, applied, mixed>>

\* The next migration of the chain changes the files,
Apply ==
  /\ run.step = "apply"
  /\ applied' = [from |-> run.path[1], to |-> run.path[2], found |-> shape]
  /\ shape' = run.path[2]
  /\ run' = [run EXCEPT !.step = "write"]
  /\ UNCHANGED <<migrations, disk, wants, ends, mixed>>

\* and then the version file, by a temporary file and a rename.
WriteSchemaVersion ==
  /\ run.step = "write"
  /\ disk' = run.path[2]
  /\ run' = IF Len(run.path) = 2 THEN Idle ELSE [run EXCEPT !.step = "apply", !.path = Tail(@)]
  /\ UNCHANGED <<migrations, shape, wants, ends, applied, mixed>>

\* A migration or a write fails, or the process ends; or an answer was given.
End == /\ run # Idle
       /\ run' = Idle
       /\ ends' = IF run.step = "nopath" THEN ends ELSE ends + 1
       /\ ends' <= MaxEnds
       /\ UNCHANGED <<migrations, disk, shape, wants, applied, mixed>>

MigNext == \/ \E f, t \in Version : RegisterMigration(f, t)
           \/ Upgrade
           \/ MigrateForward(wants) \/ Apply \/ WriteSchemaVersion \/ End
-----------------------------------------------------------------------------
\* The types of the version file and of a call (migrate.go).
MigTypeOK == /\ migrations \subseteq Version \X Version
             /\ disk \in Version \cup {NoFile} /\ shape \in Version
             /\ wants \in Version /\ mixed \in BOOLEAN
             /\ run.step \in {"idle", "nopath", "apply", "write"}

\* The chains from one version to another, the reference for the search.
Chains(current, target) ==
  {c \in UNION {[1..n -> Version] : n \in 2..Cardinality(Version)} :
     /\ c[1] = current /\ c[Len(c)] = target
     /\ \A k \in 1..Len(c) - 1 : <<c[k], c[k + 1]>> \in migrations}

\* The search is right (MigrateForward): a call that is about to apply its first
\* migration has a shortest chain, and "no path found" means that there is none.
\* However often the process ends between a migration and its version file, and
\* whatever this build and later ones register and ask for, no migration is skipped
\* or applied to a schema that it is not for: it finds the one it starts from, or
\* its own result.  Exempt is a build that came where a migration had been cut off.
MigratesInOrder ==
  /\ run.step = "nopath" => Chains(run.from, run.to) = {}
  /\ (run.step = "apply" /\ run.path[1] = run.from) =>
       /\ run.path \in Chains(run.from, run.to)
       /\ \A c \in Chains(run.from, run.to) : Len(run.path) <= Len(c)
  /\ mixed \/ applied.found \in {applied.from, applied.to}
=============================================================================
