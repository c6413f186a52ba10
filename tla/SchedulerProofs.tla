-------------------------- MODULE SchedulerProofs ---------------------------
(***************************************************************************)
(* The retention of automatic snapshots, for any number of pools,          *)
(* schedules, overlapping runs and restarts.                               *)
(*                                                                         *)
(* The argument: a snapshot that a prune chooses has at least Keep newer   *)
(* ones in its listing, so at least LeastKeep newer ones were ever taken;  *)
(* that stays true however stale the listing gets, because snapshots are   *)
(* only ever added to what was taken.                                      *)
(***************************************************************************)
EXTENDS Scheduler, FiniteSetTheorems, SequenceTheorems, WellFoundedInduction, TLAPS

-----------------------------------------------------------------------------
(* The operators the model is built from.                                  *)

\* A set of naturals that is not empty has its minimum.
LEMMA MinOfNats ==
  ASSUME NEW S \in SUBSET Nat, S # {}
  PROVE  Min(S) \in S /\ \A y \in S : Min(S) <= y
<1>1. PICK x \in S : \A y \in S : ~(<<y, x>> \in OpToRel(<, Nat))
  BY WFMin, NatLessThanWellFounded
<1>2. ASSUME NEW y \in S PROVE x <= y
  <2>1. <<y, x>> \in Nat \X Nat /\ <<y, x>>[1] = y /\ <<y, x>>[2] = x
    OBVIOUS
  <2>2. ~(y < x)
    BY <1>1, <2>1 DEF OpToRel
  <2> QED
    BY <2>2
<1> QED
  BY <1>2 DEF Min

\* The schedules that are due, in some order.
LEMMA SetToSeqOfSet ==
  ASSUME NEW S, IsFiniteSet(S)
  PROVE  Cardinality(S) \in Nat /\ SetToSeq(S) \in [1..Cardinality(S) -> S]
<1>1. Cardinality(S) \in Nat /\ ExistsBijection(1..Cardinality(S), S)
  BY FS_CardinalityType
<1>2. \E f \in [1..Cardinality(S) -> S] : IsInjective(f)
  BY <1>1 DEF ExistsBijection, Bijection, Injection
<1> QED
  BY <1>1, <1>2 DEF SetToSeq

\* Every count that Add stores is at least LeastKeep, and that is positive.
LEMMA LeastKeepIsLeast ==
  /\ LeastKeep \in Nat \ {0}
  /\ \A k \in KeepInput : Stored(k) \in Nat /\ LeastKeep <= Stored(k)
<1> DEFINE S == {Stored(k) : k \in KeepInput}
<1>1. S \subseteq Nat \ {0} /\ S # {} /\ \A k \in KeepInput : Stored(k) \in S
  <2>1. \A k \in KeepInput : Stored(k) \in Nat \ {0}
    BY SchedulerAssumption DEF Stored
  <2>2. KeepInput # {}
    BY SchedulerAssumption
  <2> QED
    BY <2>1, <2>2
<1>2. LeastKeep = Min(S)
  BY DEF LeastKeep
<1> HIDE DEF S
<1>3. Min(S) \in S /\ \A y \in S : Min(S) <= y
  BY <1>1, MinOfNats
<1> QED
  BY <1>1, <1>2, <1>3

-----------------------------------------------------------------------------
(* The invariant.                                                          *)

Run == [id : Id, copy : Schedule, pc : {"begin", "list", "destroy", "finish"}, doomed : SUBSET Nat]
Snap == [n : Nat, by : Id]

\* So many newer snapshots were taken that n may be destroyed.
Newer(p, n) == {y \in taken[p] : y.n > n}
Deep(p, n) == Cardinality(Newer(p, n)) >= LeastKeep

GoodSchedule(sc) == sc \in Schedule /\ (sc.kind = "snapshot" => LeastKeep <= sc.keep)
GoodList(list) == /\ IsFiniteSet(DOMAIN list) /\ DOMAIN list \subseteq Id
                  /\ \A id \in DOMAIN list : GoodSchedule(list[id])

\* Only a run of a snapshot schedule prunes, and it has chosen nothing but deep
\* snapshots of its pool.
GoodRun(r) == /\ r \in Run /\ GoodSchedule(r.copy)
              /\ r.pc \in {"list", "destroy"} => r.copy.kind = "snapshot"
              /\ \A d \in r.doomed : Deep(r.copy.pool, d)

ListsOK == now \in Nat /\ GoodList(schedules) /\ GoodList(schedulesFile)
RunsOK == runs \in Seq(Run) /\ \A i \in DOMAIN runs : GoodRun(runs[i])
TakenOK == /\ taken \in [Pool -> SUBSET Snap] /\ \A p \in Pool : IsFiniteSet(taken[p])
           /\ snaps \in [Pool -> SUBSET Nat] /\ byHand \in [Pool -> SUBSET Nat]
           /\ \A p \in Pool : \A m \in snaps[p] : \E x \in taken[p] : x.n = m
KeptOK == \A p \in Pool : \A x \in taken[p] :
             x.n \in snaps[p] \/ x.n \in byHand[p] \/ Deep(p, x.n)

SchedulerInv == ListsOK /\ RunsOK /\ TakenOK /\ KeptOK

LEMMA NewerFinite ==
  ASSUME TakenOK, NEW p \in Pool, NEW n
  PROVE  IsFiniteSet(Newer(p, n)) /\ Cardinality(Newer(p, n)) \in Nat
<1>1. IsFiniteSet(taken[p]) /\ Newer(p, n) \in SUBSET taken[p]
  BY DEF TakenOK, Newer
<1>2. IsFiniteSet(Newer(p, n))
  BY <1>1, FS_Subset
<1> QED
  BY <1>2, FS_CardinalityType

LEMMA InvImpliesFloor == ASSUME SchedulerInv PROVE RetentionFloor
<1> SUFFICES ASSUME NEW p \in Pool, NEW x \in taken[p],
                    Cardinality({y \in taken[p] : y.n > x.n}) < LeastKeep
             PROVE  x.n \in snaps[p] \cup byHand[p]
  BY DEF RetentionFloor, Newest
<1>1. Cardinality(Newer(p, x.n)) < LeastKeep /\ Cardinality(Newer(p, x.n)) \in Nat
  BY NewerFinite DEF Newer, SchedulerInv
<1>2. ~Deep(p, x.n)
  BY <1>1, LeastKeepIsLeast DEF Deep
<1> QED
  BY <1>2 DEF SchedulerInv, KeptOK

\* What is deep stays deep: snapshots are only added to what was taken.
LEMMA DeepStays ==
  ASSUME TakenOK, TakenOK', NEW p \in Pool, taken[p] \subseteq taken'[p], NEW n, Deep(p, n)
  PROVE  Deep(p, n)'
<1>1. Newer(p, n) \in SUBSET Newer(p, n)'
  BY DEF Newer
<1>2. IsFiniteSet(Newer(p, n)') /\ Cardinality(Newer(p, n)') \in Nat /\ Cardinality(Newer(p, n)) \in Nat
  <2>1. IsFiniteSet(taken'[p]) /\ Newer(p, n)' \in SUBSET taken'[p]
    BY DEF TakenOK, Newer
  <2>2. IsFiniteSet(Newer(p, n)')
    BY <2>1, FS_Subset
  <2> QED
    BY <2>2, FS_CardinalityType, NewerFinite
<1>3. Cardinality(Newer(p, n)) <= Cardinality(Newer(p, n)')
  BY <1>1, <1>2, FS_Subset
<1>4. LeastKeep \in Nat
  BY LeastKeepIsLeast
<1> QED
  BY <1>2, <1>3, <1>4 DEF Deep

\* What a listing shows beyond Keep is deep.
LEMMA OldestIsDeep ==
  ASSUME TakenOK, NEW p \in Pool, NEW keep \in Nat, LeastKeep <= keep, NEW n \in Oldest(snaps[p], keep)
  PROVE  n \in Nat /\ Deep(p, n)
<1> DEFINE shown == {m \in snaps[p] : m > n}
           seen == {y.n : y \in Newer(p, n)}
           f == [y \in Newer(p, n) |-> y.n]
<1>1. n \in Nat /\ Cardinality(shown) >= keep
  BY DEF Oldest, TakenOK
<1>2. IsFiniteSet(Newer(p, n)) /\ Cardinality(Newer(p, n)) \in Nat
  BY NewerFinite
<1>3. f \in Surjection(Newer(p, n), seen)
  BY DEF Surjection
<1>4. IsFiniteSet(seen) /\ Cardinality(seen) <= Cardinality(Newer(p, n))
  BY <1>2, <1>3, FS_Surjection
<1>5. shown \in SUBSET seen
  BY DEF TakenOK, Newer
<1> HIDE DEF shown, seen
<1>6. Cardinality(shown) <= Cardinality(seen) /\ IsFiniteSet(shown)
  BY <1>4, <1>5, FS_Subset
<1>7. Cardinality(shown) \in Nat /\ Cardinality(seen) \in Nat /\ LeastKeep \in Nat
  BY <1>4, <1>6, FS_CardinalityType, LeastKeepIsLeast
<1> QED
  BY <1>1, <1>2, <1>4, <1>6, <1>7 DEF Deep

-----------------------------------------------------------------------------
(* Steps of the runs.                                                      *)

\* A step that takes no snapshot leaves good runs good.
LEMMA GoodRunStays ==
  ASSUME TakenOK, TakenOK', \A p \in Pool : taken[p] \subseteq taken'[p], NEW r, GoodRun(r)
  PROVE  GoodRun(r)'
<1>1. r.copy.pool \in Pool
  BY DEF GoodRun, GoodSchedule, Schedule
<1>2. \A d \in r.doomed : Deep(r.copy.pool, d)'
  BY <1>1, DeepStays DEF GoodRun
<1> QED
  BY <1>2 DEF GoodRun, GoodSchedule

LEMMA KeptStays ==
  ASSUME TakenOK, KeptOK, UNCHANGED <<snaps, taken, byHand>>
  PROVE  TakenOK' /\ KeptOK' /\ \A p \in Pool : taken[p] \subseteq taken'[p]
BY DEF TakenOK, KeptOK, Deep, Newer

\* One run moves on,
LEMMA RunMoves ==
  ASSUME RunsOK, TakenOK, TakenOK', \A p \in Pool : taken[p] \subseteq taken'[p],
         NEW i \in DOMAIN runs, NEW r, GoodRun(r)', Step(i, r)
  PROVE  RunsOK'
<1>1. runs \in Seq(Run) /\ r \in Run /\ runs' = [runs EXCEPT ![i] = r]
  BY DEF RunsOK, GoodRun, Step
<1>2. runs' \in Seq(Run) /\ DOMAIN runs' = DOMAIN runs /\ runs'[i] = r
      /\ \A j \in DOMAIN runs \ {i} : runs'[j] = runs[j]
  BY <1>1
<1>3. ASSUME NEW j \in DOMAIN runs PROVE GoodRun(runs[j])'
  <2>1. CASE j = i
    BY <1>2, <2>1
  <2>2. CASE j # i
    BY <1>2, <2>2, GoodRunStays DEF RunsOK
  <2> QED
    BY <2>1, <2>2
<1> QED
  BY <1>2, <1>3 DEF RunsOK

\* or ends.
LEMMA RunEnds ==
  ASSUME RunsOK, TakenOK, TakenOK', \A p \in Pool : taken[p] \subseteq taken'[p],
         NEW i \in DOMAIN runs, runs' = Without(i)
  PROVE  RunsOK'
<1>1. runs \in Seq(Run) /\ Len(runs) \in Nat /\ DOMAIN runs = 1..Len(runs) /\ Len(runs) - 1 \in Nat
  BY DEF RunsOK
<1>2. runs' = [j \in 1..(Len(runs) - 1) |-> IF j < i THEN runs[j] ELSE runs[j + 1]]
  BY DEF Without
<1>3. DOMAIN runs' = 1..(Len(runs) - 1)
      /\ \A j \in 1..(Len(runs) - 1) : \E k \in DOMAIN runs : runs'[j] = runs[k]
  BY <1>1, <1>2
<1>4. \A k \in DOMAIN runs : \A r : r = runs[k] => GoodRun(r)'
  BY GoodRunStays DEF RunsOK
<1>5. runs' \in Seq(Run)
  <2>1. \A j \in 1..(Len(runs) - 1) : (IF j < i THEN runs[j] ELSE runs[j + 1]) \in Run
    BY <1>1
  <2> QED
    BY <1>1, <1>2, <2>1
<1> QED
  BY <1>3, <1>4, <1>5 DEF RunsOK

\* The lists and the snapshots stay: RunOther, the listing of prune and the
\* failing calls.
LEMMA RunOnly ==
  ASSUME SchedulerInv, NEW i \in DOMAIN runs, NEW r, GoodRun(r), Step(i, r) \/ runs' = Without(i),
         UNCHANGED <<now, schedules, schedulesFile, snaps, taken, byHand>>
  PROVE  SchedulerInv'
<1>1. TakenOK' /\ KeptOK' /\ \A p \in Pool : taken[p] \subseteq taken'[p]
  BY KeptStays DEF SchedulerInv
<1>2. GoodRun(r)'
  BY <1>1, GoodRunStays DEF SchedulerInv
<1>3. RunsOK'
  BY <1>1, <1>2, RunMoves, RunEnds DEF SchedulerInv
<1>4. ListsOK'
  BY DEF SchedulerInv, ListsOK, GoodList, GoodSchedule
<1> QED
  BY <1>1, <1>3, <1>4 DEF SchedulerInv

\* The next state of a good run.
LEMMA PcField ==
  ASSUME NEW r, GoodRun(r), NEW c \in {"list", "destroy", "finish"},
         c \in {"list", "destroy"} => r.copy.kind = "snapshot"
  PROVE  GoodRun([r EXCEPT !.pc = c])
<1>1. [r EXCEPT !.pc = c] \in Run /\ [r EXCEPT !.pc = c].copy = r.copy
      /\ [r EXCEPT !.pc = c].doomed = r.doomed /\ [r EXCEPT !.pc = c].pc = c
  BY DEF GoodRun, Run
<1> QED
  BY <1>1 DEF GoodRun

LEMMA DoomedField ==
  ASSUME NEW r, GoodRun(r), NEW D \in SUBSET Nat, \A d \in D : Deep(r.copy.pool, d),
         r.copy.kind = "snapshot"
  PROVE  GoodRun([r EXCEPT !.pc = "destroy", !.doomed = D]) /\ GoodRun([r EXCEPT !.doomed = D])
<1> DEFINE a == [r EXCEPT !.pc = "destroy", !.doomed = D]
           b == [r EXCEPT !.doomed = D]
<1>1. a \in Run /\ a.copy = r.copy /\ a.doomed = D
  BY DEF GoodRun, Run
<1>2. b \in Run /\ b.copy = r.copy /\ b.doomed = D
  BY DEF GoodRun, Run
<1> HIDE DEF a, b
<1>3. GoodRun(a) /\ GoodRun(b)
  BY <1>1, <1>2 DEF GoodRun
<1> QED
  BY <1>3 DEF a, b

LEMMA CreateStep ==
  ASSUME SchedulerInv, NEW i \in DOMAIN runs, CreateSnapshot(i)
  PROVE  SchedulerInv'
<1> DEFINE r == runs[i]
           p == r.copy.pool
           n == Cardinality(taken[p]) + 1
           x == [n |-> n, by |-> r.id]
           c == IF r.copy.keep > 0 THEN "list" ELSE "finish"
<1>1. /\ r.copy.kind = "snapshot" /\ Step(i, [r EXCEPT !.pc = c])
      /\ snaps' = [snaps EXCEPT ![p] = @ \cup {n}]
      /\ taken' = [taken EXCEPT ![p] = @ \cup {x}]
      /\ UNCHANGED <<now, schedules, schedulesFile, byHand>>
  BY DEF CreateSnapshot
<1>2. GoodRun(r) /\ r \in Run
  BY DEF SchedulerInv, RunsOK, GoodRun
<1>3. p \in Pool /\ r.id \in Id
  BY <1>2 DEF GoodRun, Run, Schedule
<1>4. GoodRun([r EXCEPT !.pc = c])
  BY <1>1, <1>2, PcField
<1>5. n \in Nat /\ IsFiniteSet(taken[p] \cup {x})
  <2>1. IsFiniteSet(taken[p])
    BY <1>3 DEF SchedulerInv, TakenOK
  <2>2. Cardinality(taken[p]) \in Nat
    BY <2>1, FS_CardinalityType
  <2> HIDE DEF x
  <2> QED
    BY <2>1, <2>2, FS_AddElement
<1>6. x \in Snap /\ x.n = n
  BY <1>3, <1>5 DEF Snap
<1> HIDE DEF x, n, c
<1>7. /\ taken' \in [Pool -> SUBSET Snap] /\ taken'[p] = taken[p] \cup {x}
      /\ snaps' \in [Pool -> SUBSET Nat] /\ snaps'[p] = snaps[p] \cup {n}
      /\ \A q \in Pool \ {p} : taken'[q] = taken[q] /\ snaps'[q] = snaps[q]
  BY <1>1, <1>3, <1>5, <1>6 DEF SchedulerInv, TakenOK
<1> HIDE DEF r, p
<1>8. TakenOK'
  <2>1. \A q \in Pool : IsFiniteSet(taken'[q])
    BY <1>5, <1>7 DEF SchedulerInv, TakenOK
  <2>2. \A q \in Pool : \A m \in snaps'[q] : \E y \in taken'[q] : y.n = m
    BY <1>6, <1>7 DEF SchedulerInv, TakenOK
  <2> QED
    BY <1>1, <1>7, <2>1, <2>2 DEF SchedulerInv, TakenOK
<1>9. \A q \in Pool : taken[q] \subseteq taken'[q]
  BY <1>7
<1>10. KeptOK'
  <2>1. ASSUME NEW q \in Pool, NEW y \in taken'[q]
        PROVE  y.n \in snaps'[q] \/ y.n \in byHand'[q] \/ Deep(q, y.n)'
    <3>1. CASE y \in taken[q]
      <4>1. y.n \in snaps[q] \/ y.n \in byHand[q] \/ Deep(q, y.n)
        BY <3>1 DEF SchedulerInv, KeptOK
      <4>2. Deep(q, y.n) => Deep(q, y.n)'
        BY <1>8, <1>9, DeepStays DEF SchedulerInv
      <4> QED
        BY <1>1, <1>7, <4>1, <4>2
    <3>2. CASE y \notin taken[q]
      BY <1>6, <1>7, <3>2
    <3> QED
      BY <3>1, <3>2
  <2> QED
    BY <2>1 DEF KeptOK
<1>11. RunsOK'
  <2>1. GoodRun([r EXCEPT !.pc = c]) => \A s : s = [r EXCEPT !.pc = c] => GoodRun(s)'
    BY <1>8, <1>9, GoodRunStays DEF SchedulerInv
  <2> DEFINE s == [r EXCEPT !.pc = c]
  <2>2. \A v : v = s => GoodRun(v)' /\ Step(i, v)
    BY <1>1, <1>4, <2>1
  <2>3. \A v : GoodRun(v)' /\ Step(i, v) => RunsOK'
    BY <1>8, <1>9, RunMoves DEF SchedulerInv
  <2> QED
    BY <2>2, <2>3
<1>12. ListsOK'
  BY <1>1 DEF SchedulerInv, ListsOK, GoodList, GoodSchedule
<1> QED
  BY <1>8, <1>10, <1>11, <1>12 DEF SchedulerInv

LEMMA PruneStep ==
  ASSUME SchedulerInv, NEW i \in DOMAIN runs, prune(i)
  PROVE  SchedulerInv'
<1> DEFINE r == runs[i]
           D == Oldest(snaps[r.copy.pool], r.copy.keep)
<1>1. r.pc = "list" /\ Step(i, [r EXCEPT !.pc = "destroy", !.doomed = D])
      /\ UNCHANGED <<now, schedules, schedulesFile, snaps, taken, byHand>>
  BY DEF prune
<1>2. GoodRun(r) /\ r.copy.kind = "snapshot"
  BY <1>1 DEF SchedulerInv, RunsOK, GoodRun
<1>3. r.copy.pool \in Pool /\ r.copy.keep \in Nat /\ LeastKeep <= r.copy.keep
  BY <1>2 DEF GoodRun, GoodSchedule, Schedule
<1>4. \A d \in D : d \in Nat /\ Deep(r.copy.pool, d)
  BY <1>3, OldestIsDeep DEF SchedulerInv
<1> HIDE DEF D
<1>5. GoodRun([r EXCEPT !.pc = "destroy", !.doomed = D])
  BY <1>2, <1>4, DoomedField
<1> QED
  BY <1>1, <1>5, RunOnly

\* Destroying a deep snapshot keeps the invariant, whoever asks for it.
LEMMA DestroyKeeps ==
  ASSUME TakenOK, KeptOK, NEW p \in Pool, NEW n \in Nat, taken' = taken,
         snaps' = [snaps EXCEPT ![p] = @ \ {n}],
         \/ Deep(p, n) /\ byHand' = byHand
         \/ byHand' = [byHand EXCEPT ![p] = @ \cup {n}]
  PROVE  TakenOK' /\ KeptOK'
<1>1. /\ snaps' \in [Pool -> SUBSET Nat] /\ snaps'[p] = snaps[p] \ {n}
      /\ \A q \in Pool \ {p} : snaps'[q] = snaps[q]
  BY DEF TakenOK
<1>2. byHand' \in [Pool -> SUBSET Nat] /\ \A q \in Pool : byHand[q] \subseteq byHand'[q]
  BY DEF TakenOK
<1>3. TakenOK'
  BY <1>1, <1>2 DEF TakenOK
<1>4. \A q \in Pool, m \in Nat : Deep(q, m)' <=> Deep(q, m)
  BY DEF Deep, Newer
<1>5. Deep(p, n) \/ n \in byHand'[p]
  BY DEF TakenOK
<1>6. ASSUME NEW q \in Pool, NEW x \in taken[q]
      PROVE  x.n \in snaps'[q] \/ x.n \in byHand'[q] \/ Deep(q, x.n)'
  <2>1. x.n \in Nat
    BY DEF TakenOK, Snap
  <2>2. x.n \in snaps[q] \/ x.n \in byHand[q] \/ Deep(q, x.n)
    BY DEF KeptOK
  <2> QED
    BY <1>1, <1>2, <1>4, <1>5, <2>1, <2>2
<1> QED
  BY <1>3, <1>6 DEF KeptOK

LEMMA DeleteSnapshotStep ==
  ASSUME SchedulerInv, NEW i \in DOMAIN runs, DeleteSnapshot(i)
  PROVE  SchedulerInv'
<1> DEFINE r == runs[i]
           p == r.copy.pool
           n == Min(r.doomed)
           s == [r EXCEPT !.doomed = @ \ {n}]
<1>1. /\ r.pc = "destroy" /\ r.doomed # {} /\ Step(i, s)
      /\ snaps' = [snaps EXCEPT ![p] = @ \ {n}] \/ snaps' = snaps
      /\ UNCHANGED <<now, schedules, schedulesFile, taken, byHand>>
  BY DEF DeleteSnapshot
<1>2. GoodRun(r) /\ r.copy.kind = "snapshot"
  BY <1>1 DEF SchedulerInv, RunsOK, GoodRun
<1>3. p \in Pool /\ r.doomed \in SUBSET Nat
  BY <1>2 DEF GoodRun, GoodSchedule, Schedule, Run
<1>4. n \in r.doomed
  BY <1>1, <1>3, MinOfNats
<1>5. n \in Nat /\ Deep(p, n)
  BY <1>2, <1>3, <1>4 DEF GoodRun
<1>6. GoodRun(s)
  <2>1. r.doomed \ {n} \in SUBSET Nat /\ \A d \in r.doomed \ {n} : Deep(p, d)
    BY <1>2, <1>3 DEF GoodRun
  <2>2. s = [r EXCEPT !.doomed = r.doomed \ {n}]
    OBVIOUS
  <2> QED
    BY <1>2, <2>1, <2>2, DoomedField
<1> HIDE DEF n, s
<1>7. TakenOK' /\ KeptOK' /\ \A q \in Pool : taken[q] \subseteq taken'[q]
  BY <1>1, <1>3, <1>5, DestroyKeeps, KeptStays DEF SchedulerInv
<1>8. RunsOK'
  <2>1. \A v : v = s => GoodRun(v)' /\ Step(i, v)
    BY <1>1, <1>6, <1>7, GoodRunStays DEF SchedulerInv
  <2>2. \A v : GoodRun(v)' /\ Step(i, v) => RunsOK'
    BY <1>7, RunMoves DEF SchedulerInv
  <2> QED
    BY <2>1, <2>2
<1>9. ListsOK'
  BY <1>1 DEF SchedulerInv, ListsOK, GoodList, GoodSchedule
<1> QED
  BY <1>7, <1>8, <1>9 DEF SchedulerInv

-----------------------------------------------------------------------------
(* Steps of the lists.                                                     *)

LEMMA NextRunIsNat == ASSUME NEW f \in Freq, NEW t \in Nat PROVE nextRun(f, t) \in Nat
BY SchedulerAssumption DEF nextRun

\* Put changes the two times of one schedule and nothing else.
LEMMA PutIsGood ==
  ASSUME ListsOK, NEW r, r.copy \in Schedule
  PROVE  /\ GoodList(Put(r)) /\ DOMAIN Put(r) = DOMAIN schedules
         /\ \A id \in DOMAIN schedules : /\ Put(r)[id].enabled = schedules[id].enabled
                                         /\ Put(r)[id].keep = schedules[id].keep
<1> DEFINE t == nextRun(r.copy.freq, now)
           sc(id) == [schedules[id] EXCEPT !.lastRun = now, !.nextRun = t]
<1>1. t \in Nat /\ now \in Nat
  BY NextRunIsNat DEF ListsOK, Schedule
<1>2. DOMAIN Put(r) = DOMAIN schedules
      /\ \A id \in DOMAIN schedules : Put(r)[id] = sc(id) \/ Put(r)[id] = schedules[id]
  BY DEF Put
<1> HIDE DEF t
<1>3. ASSUME NEW id \in DOMAIN schedules
      PROVE  /\ GoodSchedule(sc(id)) /\ sc(id).enabled = schedules[id].enabled
             /\ sc(id).keep = schedules[id].keep
  <2>1. GoodSchedule(schedules[id])
    BY DEF ListsOK, GoodList
  <2>2. /\ sc(id) \in Schedule /\ sc(id).kind = schedules[id].kind /\ sc(id).keep = schedules[id].keep
        /\ sc(id).enabled = schedules[id].enabled
    BY <1>1, <2>1 DEF GoodSchedule, Schedule
  <2> QED
    BY <2>1, <2>2 DEF GoodSchedule
<1> HIDE DEF sc
<1>4. GoodList(Put(r))
  BY <1>2, <1>3 DEF ListsOK, GoodList
<1> QED
  BY <1>2, <1>3, <1>4

\* A good list in memory is written whole or not at all.
LEMMA ListChanges ==
  ASSUME SchedulerInv, GoodList(schedules'), save(schedules'), now' = now
  PROVE  ListsOK'
<1>1. GoodList(schedulesFile')
  BY DEF save, SchedulerInv, ListsOK
<1> QED
  BY <1>1 DEF SchedulerInv, ListsOK, GoodList, GoodSchedule

LEMMA ListOnly ==
  ASSUME SchedulerInv, ListsOK', UNCHANGED <<runs, snaps, taken, byHand>>
  PROVE  SchedulerInv'
<1>1. TakenOK' /\ KeptOK' /\ \A p \in Pool : taken[p] \subseteq taken'[p]
  BY KeptStays DEF SchedulerInv
<1>2. \A r : GoodRun(r) => GoodRun(r)'
  BY <1>1, GoodRunStays DEF SchedulerInv
<1>3. RunsOK'
  BY <1>2 DEF SchedulerInv, RunsOK
<1> QED
  BY <1>1, <1>3 DEF SchedulerInv

LEMMA FinishStep ==
  ASSUME SchedulerInv, NEW i \in DOMAIN runs, Finish(i)
  PROVE  SchedulerInv'
<1>1. schedules' = Put(runs[i]) /\ save(schedules') /\ runs' = Without(i)
      /\ UNCHANGED <<now, snaps, taken, byHand>>
  BY DEF Finish
<1>2. runs[i].copy \in Schedule
  BY DEF SchedulerInv, RunsOK, GoodRun, GoodSchedule
<1>3. GoodList(schedules')
  BY <1>1, <1>2, PutIsGood DEF SchedulerInv
<1>4. ListsOK'
  BY <1>1, <1>3, ListChanges
<1>5. TakenOK' /\ KeptOK' /\ \A p \in Pool : taken[p] \subseteq taken'[p]
  BY <1>1, KeptStays DEF SchedulerInv
<1>6. RunsOK'
  BY <1>1, <1>5, RunEnds DEF SchedulerInv
<1> QED
  BY <1>4, <1>5, <1>6 DEF SchedulerInv

LEMMA InsertStep ==
  ASSUME SchedulerInv, NEW id \in Id, NEW sc, GoodSchedule(sc), Insert(id, sc)
  PROVE  SchedulerInv'
<1>1. schedules' = [x \in DOMAIN schedules \cup {id} |-> IF x = id THEN sc ELSE schedules[x]]
      /\ save(schedules') /\ UNCHANGED <<now, runs, snaps, taken, byHand>>
  BY DEF Insert
<1>2. DOMAIN schedules' = DOMAIN schedules \cup {id}
      /\ \A x \in DOMAIN schedules' : schedules'[x] = sc \/ (x \in DOMAIN schedules /\ schedules'[x] = schedules[x])
  BY <1>1
<1>3. IsFiniteSet(DOMAIN schedules \cup {id})
  BY FS_AddElement DEF SchedulerInv, ListsOK, GoodList
<1>4. GoodList(schedules')
  BY <1>2, <1>3 DEF SchedulerInv, ListsOK, GoodList
<1> QED
  BY <1>1, <1>4, ListChanges, ListOnly

\* What the three forms of Add insert.
LEMMA NewIsGood ==
  ASSUME SchedulerInv, NEW p \in Pool, NEW f \in Freq, NEW k \in KeepInput
  PROVE  /\ GoodSchedule(New("snapshot", p, f, Stored(k)))
         /\ GoodSchedule(New("scrub", p, f, 0))
         /\ GoodSchedule(New("replication", p, f, 0))
<1>1. nextRun(f, now) \in Nat
  BY NextRunIsNat DEF SchedulerInv, ListsOK
<1>2. Stored(k) \in Nat /\ LeastKeep <= Stored(k)
  BY LeastKeepIsLeast
<1>3. ASSUME NEW kind \in Kind, NEW keep \in Nat
      PROVE  /\ New(kind, p, f, keep) \in Schedule
             /\ New(kind, p, f, keep).kind = kind /\ New(kind, p, f, keep).keep = keep
  BY <1>1 DEF New, Schedule
<1>4. "snapshot" \in Kind /\ "scrub" \in Kind /\ "replication" \in Kind /\ 0 \in Nat
  BY DEF Kind
<1> QED
  BY <1>2, <1>3, <1>4 DEF GoodSchedule

LEMMA DeleteStep == ASSUME SchedulerInv, NEW id \in Id, Delete(id) PROVE SchedulerInv'
<1>1. schedules' = [x \in DOMAIN schedules \ {id} |-> schedules[x]]
      /\ save(schedules') /\ UNCHANGED <<now, runs, snaps, taken, byHand>>
  BY DEF Delete
<1>2. IsFiniteSet(DOMAIN schedules \ {id})
  BY FS_RemoveElement DEF SchedulerInv, ListsOK, GoodList
<1>3. GoodList(schedules')
  BY <1>1, <1>2 DEF SchedulerInv, ListsOK, GoodList
<1> QED
  BY <1>1, <1>3, ListChanges, ListOnly

LEMMA SetEnabledStep ==
  ASSUME SchedulerInv, NEW id \in Id, NEW on \in BOOLEAN, SetEnabled(id, on)
  PROVE  SchedulerInv'
<1> DEFINE t == IF on THEN nextRun(schedules[id].freq, now) ELSE schedules[id].nextRun
           sc == [schedules[id] EXCEPT !.enabled = on, !.nextRun = t]
<1>1. id \in DOMAIN schedules /\ save(schedules') /\ UNCHANGED <<now, runs, snaps, taken, byHand>>
  BY DEF SetEnabled
<1>2. GoodSchedule(schedules[id])
  BY <1>1 DEF SchedulerInv, ListsOK, GoodList
<1>3. t \in Nat
  BY <1>2, NextRunIsNat DEF GoodSchedule, Schedule, SchedulerInv, ListsOK
<1>4. schedules' = [schedules EXCEPT ![id] = sc]
  BY <1>1, <1>2 DEF SetEnabled, GoodSchedule, Schedule
<1> HIDE DEF t
<1>5. GoodSchedule(sc)
  BY <1>2, <1>3 DEF GoodSchedule, Schedule
<1> HIDE DEF sc
<1>6. GoodList(schedules')
  BY <1>1, <1>4, <1>5 DEF SchedulerInv, ListsOK, GoodList
<1> QED
  BY <1>1, <1>6, ListChanges, ListOnly

-----------------------------------------------------------------------------
(* The ticker, restarts and the administrator.                             *)

LEMMA TickStep == ASSUME SchedulerInv, tick PROVE SchedulerInv'
<1> DEFINE due == SetToSeq(Due)
           new == [j \in DOMAIN due |-> Started(due[j])]
<1>1. runs' = runs \o new /\ UNCHANGED <<now, schedules, schedulesFile, snaps, taken, byHand>>
  BY DEF tick
<1>2. IsFiniteSet(Due) /\ Due \subseteq DOMAIN schedules
  <2>1. Due \in SUBSET DOMAIN schedules
    BY DEF Due
  <2> QED
    BY <2>1, FS_Subset DEF SchedulerInv, ListsOK, GoodList
<1>3. Cardinality(Due) \in Nat /\ due \in [1..Cardinality(Due) -> Due]
  BY <1>2, SetToSeqOfSet
<1>4. ASSUME NEW id \in DOMAIN schedules PROVE GoodRun(Started(id))
  <2>1. id \in Id /\ GoodSchedule(schedules[id]) /\ schedules[id] \in Schedule
    BY DEF SchedulerInv, ListsOK, GoodList, GoodSchedule
  <2>2. /\ Started(id) \in Run /\ Started(id).copy = schedules[id]
        /\ Started(id).pc = "begin" /\ Started(id).doomed = {}
    BY <2>1 DEF Started, Run
  <2> QED
    BY <2>1, <2>2 DEF GoodRun
<1> HIDE DEF due
<1>5. \A j \in 1..Cardinality(Due) : Started(due[j]) \in Run /\ GoodRun(Started(due[j]))
  BY <1>2, <1>3, <1>4 DEF GoodRun
<1>6. new \in Seq(Run) /\ \A j \in 1..Len(new) : GoodRun(new[j])
  BY <1>3, <1>5
<1> HIDE DEF new
<1>7. runs \in Seq(Run)
  BY DEF SchedulerInv, RunsOK
<1>8. /\ runs' \in Seq(Run) /\ Len(runs') = Len(runs) + Len(new)
      /\ \A j \in 1..(Len(runs) + Len(new)) :
            runs'[j] = IF j <= Len(runs) THEN runs[j] ELSE new[j - Len(runs)]
  BY <1>1, <1>6, <1>7, ConcatProperties
<1>9. DOMAIN runs' = 1..(Len(runs) + Len(new)) /\ Len(runs) \in Nat /\ Len(new) \in Nat
      /\ DOMAIN runs = 1..Len(runs)
  BY <1>6, <1>7, <1>8
<1>10. ASSUME NEW j \in DOMAIN runs' PROVE GoodRun(runs'[j])
  <2>1. CASE j <= Len(runs)
    BY <1>8, <1>9, <2>1 DEF SchedulerInv, RunsOK
  <2>2. CASE ~(j <= Len(runs))
    <3>1. j - Len(runs) \in 1..Len(new) /\ runs'[j] = new[j - Len(runs)]
      BY <1>8, <1>9, <2>2
    <3> QED
      BY <1>6, <3>1
  <2> QED
    BY <2>1, <2>2
<1>11. TakenOK' /\ KeptOK' /\ \A p \in Pool : taken[p] \subseteq taken'[p]
  BY <1>1, KeptStays DEF SchedulerInv
<1>12. \A r : GoodRun(r) => GoodRun(r)'
  BY <1>11, GoodRunStays DEF SchedulerInv
<1>13. RunsOK'
  BY <1>8, <1>10, <1>12 DEF RunsOK
<1>14. ListsOK'
  BY <1>1 DEF SchedulerInv, ListsOK, GoodList, GoodSchedule
<1> QED
  BY <1>11, <1>13, <1>14 DEF SchedulerInv

LEMMA LoadStep == ASSUME SchedulerInv, load PROVE SchedulerInv'
<1>1. runs' = <<>> /\ schedules' = schedulesFile
      /\ UNCHANGED <<now, schedulesFile, snaps, taken, byHand>>
  BY DEF load
<1>2. RunsOK'
  BY <1>1 DEF RunsOK
<1>3. ListsOK'
  BY <1>1 DEF SchedulerInv, ListsOK, GoodList, GoodSchedule
<1> QED
  BY <1>1, <1>2, <1>3, KeptStays DEF SchedulerInv

LEMMA ByHandStep ==
  ASSUME SchedulerInv, NEW p \in Pool, NEW n \in snaps[p], DestroyByHand(p, n)
  PROVE  SchedulerInv'
<1>1. /\ snaps' = [snaps EXCEPT ![p] = @ \ {n}]
      /\ byHand' = [byHand EXCEPT ![p] = @ \cup {n}]
      /\ UNCHANGED <<now, schedules, schedulesFile, runs, taken>>
  BY DEF DestroyByHand
<1>2. n \in Nat
  BY DEF SchedulerInv, TakenOK
<1>3. TakenOK' /\ KeptOK' /\ \A q \in Pool : taken[q] \subseteq taken'[q]
  BY <1>1, <1>2, DestroyKeeps DEF SchedulerInv
<1>4. \A r : GoodRun(r) => GoodRun(r)'
  BY <1>3, GoodRunStays DEF SchedulerInv
<1>5. RunsOK'
  BY <1>1, <1>4 DEF SchedulerInv, RunsOK
<1>6. ListsOK'
  BY <1>1 DEF SchedulerInv, ListsOK, GoodList, GoodSchedule
<1> QED
  BY <1>3, <1>5, <1>6 DEF SchedulerInv

LEMMA SchedulerInit == Init => SchedulerInv
<1> SUFFICES ASSUME Init PROVE SchedulerInv
  OBVIOUS
<1>1. ListsOK
  <2>1. DOMAIN schedules = {} /\ DOMAIN schedulesFile = {} /\ now = 0
    BY DEF Init
  <2>2. IsFiniteSet({})
    BY FS_EmptySet
  <2>3. IsFiniteSet(DOMAIN schedules) /\ IsFiniteSet(DOMAIN schedulesFile)
    BY <2>1, <2>2
  <2> QED
    BY <2>1, <2>3 DEF ListsOK, GoodList
<1>2. RunsOK
  BY DEF Init, RunsOK
<1>3. TakenOK /\ KeptOK
  BY FS_EmptySet DEF Init, TakenOK, KeptOK
<1> QED
  BY <1>1, <1>2, <1>3 DEF SchedulerInv

LEMMA RunStep ==
  ASSUME SchedulerInv, NEW i \in DOMAIN runs, run(i)
  PROVE  SchedulerInv'
<1>1. GoodRun(runs[i])
  BY DEF SchedulerInv, RunsOK
<1>2. GoodRun([runs[i] EXCEPT !.pc = "finish"])
  BY <1>1, PcField
<1>3. CASE RunOther(i)
  BY <1>2, <1>3, RunOnly DEF RunOther
<1>4. CASE CreateFails(i)
  BY <1>1, <1>4, RunOnly DEF CreateFails
<1>5. CASE PruneFails(i)
  BY <1>2, <1>5, RunOnly DEF PruneFails
<1> QED
  BY <1>3, <1>4, <1>5, CreateStep, PruneStep, DeleteSnapshotStep, FinishStep DEF run

LEMMA SchedulerStep == ASSUME SchedulerInv, [Next]_vars PROVE SchedulerInv'
<1>1. CASE Minute
  <2>1. ListsOK'
    BY <1>1 DEF Minute, SchedulerInv, ListsOK, GoodList, GoodSchedule
  <2> QED
    BY <1>1, <2>1, ListOnly DEF Minute
<1>2. ASSUME NEW id \in Id, NEW p \in Pool, NEW f \in Freq, NEW k \in KeepInput, NEW kind \in Kind,
             NEW remote \in BOOLEAN, createScheduleHandler(id, kind, remote, p, f, k)
      PROVE  SchedulerInv'
  BY <1>2, NewIsGood, InsertStep DEF createScheduleHandler, Add, AddScrub, AddReplication
<1>3. CASE UNCHANGED vars
  <2>1. ListsOK'
    BY <1>3 DEF vars, SchedulerInv, ListsOK, GoodList, GoodSchedule
  <2> QED
    BY <1>3, <2>1, ListOnly DEF vars
<1> QED
  BY <1>1, <1>2, <1>3, TickStep, LoadStep, RunStep, DeleteStep, SetEnabledStep, ByHandStep
  DEF Next, deleteScheduleHandler, patchScheduleHandler

LEMMA SchedulerInductive == Spec => []SchedulerInv
BY SchedulerInit, SchedulerStep, PTL DEF Spec

\* However many prunes of a pool work on stale listings side by side, the newest
\* LeastKeep snapshots that were taken of it are destroyed by nobody but the
\* administrator (scheduler.go, prune).
THEOREM RetentionCorrect == Spec => []RetentionFloor
<1>1. SchedulerInv => RetentionFloor
  BY InvImpliesFloor
<1> QED
  BY <1>1, SchedulerInductive, PTL

\* A run that ends changes LastRun and NextRun only, of a schedule that is still
\* there (scheduler.go, the last loop of run).
THEOREM RunKeepsSettingsCorrect == Spec => RunKeepsSettings
<1> DEFINE Keeps == \A i \in DOMAIN runs : Finish(i) =>
                       /\ DOMAIN schedules' = DOMAIN schedules
                       /\ \A id \in DOMAIN schedules :
                             /\ schedules'[id].enabled = schedules[id].enabled
                             /\ schedules'[id].keep = schedules[id].keep
<1>1. ASSUME SchedulerInv, NEW i \in DOMAIN runs, Finish(i)
      PROVE  /\ DOMAIN schedules' = DOMAIN schedules
             /\ \A id \in DOMAIN schedules :
                   /\ schedules'[id].enabled = schedules[id].enabled
                   /\ schedules'[id].keep = schedules[id].keep
  <2>1. schedules' = Put(runs[i]) /\ runs[i].copy \in Schedule /\ ListsOK
    BY <1>1 DEF Finish, SchedulerInv, RunsOK, GoodRun, GoodSchedule
  <2> QED
    BY <2>1, PutIsGood
<1>2. SchedulerInv /\ [Next]_vars => [Keeps]_vars
  BY <1>1
<1> QED
  BY <1>2, SchedulerInductive, PTL DEF Spec, RunKeepsSettings
=============================================================================
