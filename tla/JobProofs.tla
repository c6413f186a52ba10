------------------------------ MODULE JobProofs ------------------------------
(***************************************************************************)
(* Theorems about the goroutines that run commands, for every set of jobs, *)
(* every cron table and every number of overlapping polls, runs and        *)
(* requests: the backup jobs of the scheduler, the work on disks and       *)
(* pools, the rsync jobs and the system updates.                           *)
(***************************************************************************)
EXTENDS Jobs, FiniteSetTheorems, TLAPS

(* Backup jobs (JobPoller).                                                *)


\* What the argument needs of the types.
Typed == running \subseteq Job /\ active \in [Job -> Nat]

\* RunsAlone is inductive once active has a value for every job: an entry of
\* the sync.Map and the goroutine it stands for appear in one step (Start) and
\* disappear in one step (RunEnds).
AloneInv == Typed /\ RunsAlone

LEMMA AloneInit == Init => AloneInv
BY DEF Init, AloneInv, Typed, RunsAlone

\* LoadOrStore stores: the job was not running, so it had no goroutine.
LEMMA AloneStart ==
    ASSUME AloneInv, NEW q \in Poll, NEW j \in Job, Start(q, j)
    PROVE  AloneInv'
<1>1. j \notin running /\ active[j] = 0
  BY DEF Start, AloneInv, Typed, RunsAlone
<1>2. running' = running \cup {j} /\ active' = [active EXCEPT ![j] = 1]
  BY <1>1 DEF Start, AloneInv, Typed
<1>3. Typed'
  BY <1>2 DEF AloneInv, Typed
<1>4. RunsAlone'
  BY <1>2 DEF AloneInv, Typed, RunsAlone
<1> QED
  BY <1>3, <1>4 DEF AloneInv

\* The deferred Delete: the goroutine that ends was the only one.
LEMMA AloneEnds ==
    ASSUME AloneInv, NEW j \in Job, RunEnds(j)
    PROVE  AloneInv'
<1>1. j \in running /\ active[j] = 1
  BY DEF RunEnds, AloneInv, Typed, RunsAlone
<1>2. running' = running \ {j} /\ active' = [active EXCEPT ![j] = 0]
  BY <1>1 DEF RunEnds, AloneInv, Typed
<1>3. Typed'
  BY <1>2 DEF AloneInv, Typed
<1>4. RunsAlone'
  BY <1>2 DEF AloneInv, Typed, RunsAlone
<1> QED
  BY <1>3, <1>4 DEF AloneInv

LEMMA AloneStep == AloneInv /\ [Next]_vars => AloneInv'
<1> SUFFICES ASSUME AloneInv, [Next]_vars PROVE AloneInv'
  OBVIOUS
<1>1. ASSUME UNCHANGED <<running, active>> PROVE AloneInv'
  BY <1>1 DEF AloneInv, Typed, RunsAlone
<1>2. CASE Pass
  BY <1>1, <1>2 DEF Pass
<1>3. ASSUME NEW q \in Poll, StartPoll(q) \/ Listed(q) \/ ListFails(q) \/ PollEnds(q)
      PROVE  AloneInv'
  BY <1>1, <1>3 DEF StartPoll, Listed, ListFails, PollEnds
<1>4. ASSUME NEW q \in Poll, NEW j \in Job, Start(q, j) PROVE AloneInv'
  BY <1>4, AloneStart
<1>5. ASSUME NEW q \in Poll, NEW j \in Job, Skip(q, j) PROVE AloneInv'
  BY <1>1, <1>5 DEF Skip
<1>6. ASSUME NEW j \in Job, RunEnds(j) PROVE AloneInv'
  BY <1>6, AloneEnds
<1>7. ASSUME NEW j \in Job, ManualRun(j) \/ ManualEnds(j) \/ Toggle(j) PROVE AloneInv'
  BY <1>1, <1>7 DEF ManualRun, ManualEnds, Toggle
<1>8. CASE UNCHANGED vars
  BY <1>1, <1>8 DEF vars
<1> QED
  BY <1>2, <1>3, <1>4, <1>5, <1>6, <1>7, <1>8 DEF Next

\* The entry that LoadOrStore leaves in the sync.Map stands for exactly one
\* goroutine in runBackupJob: overlapping polls never run a job side by side.
THEOREM PollerRunsAlone == Spec => []RunsAlone
<1>1. AloneInv => RunsAlone
  BY DEF AloneInv
<1> QED
  BY <1>1, AloneInit, AloneStep, PTL DEF Spec

-----------------------------------------------------------------------------
(* The least element of a set of times *)

LEMMA LessRelation ==
    \E R : IsWellFoundedOn(R, Nat) /\ \A x, y \in Nat : y < x => <<y, x>> \in R
<1>1. IsWellFoundedOn(OpToRel(<, Nat), Nat)
  BY NatLessThanWellFounded
<1>2. \A x, y \in Nat : y < x => <<y, x>> \in OpToRel(<, Nat)
  BY DEF OpToRel
<1> QED
  BY <1>1, <1>2, Zenon

LEMMA LeastExists ==
    ASSUME NEW T \in SUBSET Nat, T # {}
    PROVE  Min(T) \in T
<1>1. PICK R : IsWellFoundedOn(R, Nat) /\ \A x, y \in Nat : y < x => <<y, x>> \in R
  BY LessRelation
<1>2. PICK x \in T : \A y \in T : ~(<<y, x>> \in R)
  BY <1>1, WFMin
<1>3. \A y \in T : ~(y < x)
  BY <1>1, <1>2
<1>4. \A y \in T : x <= y
  BY <1>3
<1> QED
  BY <1>4 DEF Min

\* A job is due for a time its cron expression names, in the minute before.
LEMMA DueTime ==
    ASSUME NEW j \in Job, NEW t \in Nat, IsDue(j, t)
    PROVE  /\ CronTime(j, t) \in Cron[j]
           /\ t < CronTime(j, t) + MinuteLength /\ CronTime(j, t) < t
<1> DEFINE later == {c \in Cron[j] : c > t - MinuteLength}
<1>1. MinuteLength \in Nat /\ Cron[j] \subseteq Nat
  BY PollerAssumption
<1>2. later # {} /\ CronTime(j, t) = Min(later)
  BY DEF IsDue, CronTime, Next_
<1>3. later \in SUBSET Nat
  BY <1>1
<1>4. CronTime(j, t) \in later
  BY <1>2, <1>3, LeastExists
<1> QED
  BY <1>1, <1>4 DEF IsDue

-----------------------------------------------------------------------------
(* Each cron time once *)

PollType == [pc : {"idle", "list", "walk"}, at : Nat, jobs : SUBSET Job]

\* How often each cron time of some job was acted on.
Counts == UNION {[Cron[j] -> Nat] : j \in Job}

Types == /\ now \in Nat /\ nextTick \in Nat /\ slow \in BOOLEAN
         /\ poll \in [Poll -> PollType]
         /\ enabled \subseteq Job
         /\ fired \in [Job -> Counts]
         /\ \A j \in Job : fired[j] \in [Cron[j] -> Nat]

\* A listing was asked for at the last tick or before it, and no time passes
\* while a goroutine walks its list.
TimesOK == /\ nextTick <= now + MinuteLength /\ now <= nextTick
           /\ \A q \in Poll : /\ poll[q].pc = "list" => poll[q].at + MinuteLength <= nextTick
                              /\ poll[q].pc = "walk" => poll[q].at = now

\* With prompt listings every goroutine at work belongs to a tick of its own,
OneEach ==
    /\ \A q \in Poll : poll[q].pc = "walk" => poll[q].at + MinuteLength = nextTick
    /\ \A p, q \in Poll :
         poll[p].pc # "idle" /\ poll[q].pc # "idle" /\ poll[p].at = poll[q].at => p = q

\* what was acted on lies before the last tick, and before the one before that
\* until the listing of the last tick is there, and what a goroutine is still
\* to act on was not acted on yet.
OncePast ==
    \A j \in Job : \A c \in Cron[j] : fired[j][c] # 0 =>
      /\ fired[j][c] = 1
      /\ c + MinuteLength < nextTick
      /\ \A q \in Poll : poll[q].pc = "list" /\ poll[q].at + MinuteLength = nextTick
                           => c + 2 * MinuteLength < nextTick
Pending ==
    \A q \in Poll : poll[q].pc = "walk" => \A j \in poll[q].jobs :
      LET c == CronTime(j, poll[q].at)
      IN  c \in Cron[j] /\ c < poll[q].at /\ fired[j][c] = 0

Once == OneEach /\ OncePast /\ Pending
OnceInv == Types /\ TimesOK /\ (~slow => Once)

LEMMA Units == MinuteLength \in Nat /\ MinuteLength > 0
               /\ \A j \in Job : Cron[j] \subseteq Nat
BY PollerAssumption

LEMMA IdlePoll == Idle \in PollType /\ Idle.pc = "idle"
BY DEF Idle, PollType

LEMMA CountsOf == \A j \in Job : [Cron[j] -> Nat] \subseteq Counts
BY DEF Counts

LEMMA OnceInit == Init => OnceInv
<1> SUFFICES ASSUME Init PROVE OnceInv
  OBVIOUS
<1>1. Types
  <2>1. \A j \in Job : fired[j] \in [Cron[j] -> Nat]
    BY DEF Init
  <2>2. \A j \in Job : fired[j] \in Counts
    BY <2>1, CountsOf
  <2>3. fired \in [Job -> Counts]
    BY <2>2 DEF Init
  <2>4. now \in Nat /\ nextTick \in Nat /\ slow \in BOOLEAN /\ enabled \subseteq Job
    <3>1. now = 0 /\ nextTick = Offset /\ slow = FALSE /\ enabled = Job
      BY DEF Init
    <3>2. Offset \in Nat
      BY PollerAssumption
    <3> QED
      BY <3>1, <3>2
  <2>5. poll \in [Poll -> PollType]
    BY IdlePoll DEF Init
  <2> QED
    BY <2>1, <2>3, <2>4, <2>5 DEF Types
<1>2. TimesOK
  BY PollerAssumption, IdlePoll DEF Init, TimesOK
<1>3. Once
  BY IdlePoll DEF Init, Once, OneEach, OncePast, Pending
<1> QED
  BY <1>1, <1>2, <1>3 DEF OnceInv

\* Steps that leave the polls, their times and what was acted on alone.
LEMMA OnceElsewhere ==
    ASSUME OnceInv, UNCHANGED <<now, nextTick, poll, fired, slow>>, enabled' \subseteq Job
    PROVE  OnceInv'
<1>1. Types'
  BY DEF OnceInv, Types
<1>2. TimesOK'
  BY DEF OnceInv, TimesOK
<1>3. Once => Once'
  BY DEF Once, OneEach, OncePast, Pending, CronTime, Next_
<1> QED
  BY <1>1, <1>2, <1>3 DEF OnceInv

LEMMA OncePass ==
    ASSUME OnceInv, Pass
    PROVE  OnceInv'
<1>1. /\ now' = now + 1 /\ UNCHANGED <<nextTick, poll, enabled, fired, slow>>
      /\ nextTick > now /\ \A q \in Poll : poll[q].pc # "walk"
  BY DEF Pass
<1>2. Types'
  BY <1>1 DEF OnceInv, Types
<1>3. TimesOK'
  BY <1>1, Units DEF OnceInv, Types, TimesOK
<1>4. Once => Once'
  BY <1>1 DEF Once, OneEach, OncePast, Pending
<1> QED
  BY <1>1, <1>2, <1>3, <1>4 DEF OnceInv

\* A goroutine that returns leaves less to show.
LEMMA OnceReturns ==
    ASSUME OnceInv, NEW q \in Poll, poll' = [poll EXCEPT ![q] = Idle],
           UNCHANGED <<now, nextTick, enabled, fired, slow>>
    PROVE  OnceInv'
<1> USE DEF OnceInv
<1>1. Types'
  BY IdlePoll DEF Types
<1>2. poll'[q].pc = "idle" /\ \A p \in Poll : p # q => poll'[p] = poll[p]
  BY IdlePoll DEF Types
<1>3. TimesOK'
  BY <1>2 DEF TimesOK
<1>4. Once => Once'
  BY <1>2 DEF Once, OneEach, OncePast, Pending
<1> QED
  BY <1>1, <1>3, <1>4

\* A new tick: everything acted on so far lies a whole minute before it.
LEMMA OnceTick ==
    ASSUME OnceInv, NEW q \in Poll, StartPoll(q)
    PROVE  OnceInv'
<1> USE DEF OnceInv
<1> DEFINE new == [pc |-> "list", at |-> now, jobs |-> {}]
<1>1. /\ now = nextTick /\ poll[q].pc = "idle" /\ nextTick' = nextTick + MinuteLength
      /\ poll' = [poll EXCEPT ![q] = new] /\ UNCHANGED <<now, enabled, fired, slow>>
  BY DEF StartPoll
<1>2. new \in PollType /\ new.pc = "list" /\ new.at = now
  BY DEF PollType, Types
<1> HIDE DEF new
<1>3. Types'
  BY <1>1, <1>2, Units DEF Types
<1>4. poll'[q] = new /\ \A p \in Poll : p # q => poll'[p] = poll[p]
  BY <1>1, <1>2 DEF Types
<1>5. now \in Nat /\ nextTick \in Nat /\ \A p \in Poll : poll[p].at \in Nat
  BY DEF Types, PollType
<1>6. TimesOK'
  BY <1>1, <1>2, <1>4, <1>5, Units DEF TimesOK
<1>7. ASSUME Once PROVE Once'
  <2>1. \A p \in Poll : p # q /\ poll[p].pc # "idle" => poll[p].at # now
    <3>1. \A p \in Poll : poll[p].pc \in {"idle", "list", "walk"}
      BY DEF Types, PollType
    <3> QED
      BY <1>1, <1>5, <1>7, <3>1, Units DEF Once, OneEach, TimesOK
  <2>2. OneEach'
    BY <1>1, <1>2, <1>4, <1>5, <1>7, <2>1, Units DEF Once, OneEach, TimesOK
  <2>3. OncePast'
    <3> SUFFICES ASSUME NEW j \in Job, NEW c \in Cron[j], fired[j][c] # 0
                 PROVE  /\ fired[j][c] = 1
                        /\ c + MinuteLength < nextTick'
                        /\ c + 2 * MinuteLength < nextTick'
      BY <1>1 DEF OncePast
    <3>1. fired[j][c] = 1 /\ c + MinuteLength < nextTick
      BY <1>7 DEF Once, OncePast
    <3> QED
      BY <1>1, <1>5, <3>1, Units
  <2>4. Pending'
    <3> SUFFICES ASSUME NEW p \in Poll, poll'[p].pc = "walk", NEW j \in poll'[p].jobs
                 PROVE  LET c == CronTime(j, poll'[p].at)
                        IN  c \in Cron[j] /\ c < poll'[p].at /\ fired[j][c] = 0
      BY <1>1 DEF Pending, CronTime, Next_
    <3> QED
      BY <1>2, <1>4, <1>7 DEF Once, Pending
  <2> QED
    BY <2>2, <2>3, <2>4 DEF Once
<1> QED
  BY <1>1, <1>3, <1>6, <1>7

\* A prompt listing is the one of the last tick: the cron times of the minute
\* before it were not looked at by an earlier one.
LEMMA OnceListed ==
    ASSUME OnceInv, NEW q \in Poll, Listed(q)
    PROVE  OnceInv'
<1> USE DEF OnceInv
<1> DEFINE due == {j \in enabled : IsDue(j, now)}
           new == [pc |-> "walk", at |-> now, jobs |-> due]
<1>1. /\ poll[q].pc = "list" /\ poll' = [poll EXCEPT ![q] = new]
      /\ slow' = (slow \/ now > poll[q].at)
      /\ UNCHANGED <<now, nextTick, enabled, fired>>
  BY DEF Listed
<1>2. due \subseteq Job /\ \A j \in due : IsDue(j, now)
  BY DEF Types
<1> HIDE DEF due
<1>3. new \in PollType /\ new.pc = "walk" /\ new.at = now /\ new.jobs = due
  BY <1>2 DEF PollType, Types
<1> HIDE DEF new
<1>4. poll'[q] = new /\ \A p \in Poll : p # q => poll'[p] = poll[p]
  BY <1>1, <1>3 DEF Types
<1>5. Types'
  <2>1. slow' \in BOOLEAN
    BY <1>1
  <2> QED
    BY <1>1, <1>3, <2>1 DEF Types
<1>6. TimesOK'
  BY <1>1, <1>3, <1>4 DEF TimesOK
<1>7. now \in Nat /\ nextTick \in Nat /\ \A p \in Poll : poll[p].at \in Nat
  BY DEF Types, PollType
<1>8. ASSUME ~slow' PROVE Once'
  <2>1. Once /\ ~(now > poll[q].at)
    BY <1>1, <1>8
  <2>2. poll[q].at = now /\ now + MinuteLength = nextTick
    BY <1>1, <1>7, <2>1, Units DEF TimesOK
  <2>3. OneEach'
    BY <1>1, <1>3, <1>4, <2>1, <2>2 DEF Once, OneEach
  <2>4. OncePast'
    BY <1>1, <1>3, <1>4, <2>1 DEF Once, OncePast
  <2>5. ASSUME NEW j \in due
        PROVE  /\ CronTime(j, now) \in Cron[j] /\ CronTime(j, now) < now
               /\ fired[j][CronTime(j, now)] = 0
    <3> DEFINE c == CronTime(j, now)
    <3>1. j \in Job /\ c \in Cron[j] /\ now < c + MinuteLength /\ c < now
      BY <1>2, <1>7, DueTime
    <3> HIDE DEF c
    <3>2. ASSUME fired[j][c] # 0 PROVE c + 2 * MinuteLength < nextTick
      BY <1>1, <2>1, <2>2, <3>1, <3>2 DEF Once, OncePast
    <3>3. c \in Nat
      BY <3>1, Units
    <3>4. fired[j][c] = 0
      BY <1>7, <2>2, <3>1, <3>2, <3>3, Units
    <3> QED
      BY <3>1, <3>4 DEF c
  <2>6. Pending'
    <3> SUFFICES ASSUME NEW p \in Poll, poll'[p].pc = "walk", NEW j \in poll'[p].jobs
                 PROVE  LET c == CronTime(j, poll'[p].at)
                        IN  c \in Cron[j] /\ c < poll'[p].at /\ fired[j][c] = 0
      BY <1>1 DEF Pending, CronTime, Next_
    <3>1. CASE p = q
      BY <1>3, <1>4, <2>5, <3>1
    <3>2. CASE p # q
      BY <1>4, <2>1, <3>2 DEF Once, Pending
    <3> QED
      BY <3>1, <3>2
  <2> QED
    BY <2>3, <2>4, <2>6 DEF Once
<1> QED
  BY <1>5, <1>6, <1>8

\* Acting on a cron time, whether the job is started or skipped.
LEMMA OnceActs ==
    ASSUME OnceInv, NEW q \in Poll, NEW j \in Job, Start(q, j) \/ Skip(q, j)
    PROVE  OnceInv'
<1> USE DEF OnceInv
<1> DEFINE new == [poll[q] EXCEPT !.jobs = @ \ {j}]
           c == CronTime(j, poll[q].at)
           row == [fired[j] EXCEPT ![c] = fired[j][c] + 1]
<1>1. /\ poll[q].pc = "walk" /\ j \in poll[q].jobs /\ poll' = [poll EXCEPT ![q] = new]
      /\ fired' = [fired EXCEPT ![j] = row]
      /\ UNCHANGED <<now, nextTick, enabled, slow>>
  BY DEF Start, Skip, Fire
<1>2. new \in PollType /\ new.pc = "walk" /\ new.at = poll[q].at /\ new.jobs = poll[q].jobs \ {j}
  BY <1>1 DEF PollType, Types
<1> HIDE DEF new, c
<1>3. poll'[q] = new /\ \A p \in Poll : p # q => poll'[p] = poll[p]
  BY <1>1, <1>2 DEF Types
<1>4. row \in [Cron[j] -> Nat] /\ row \in Counts
  <2>1. fired[j] \in [Cron[j] -> Nat]
    BY DEF Types
  <2>2. row = [d \in Cron[j] |-> IF d = c THEN fired[j][d] + 1 ELSE fired[j][d]]
    BY <2>1
  <2>3. row \in [Cron[j] -> Nat]
    <3>1. \A d \in Cron[j] : fired[j][d] \in Nat /\ fired[j][d] + 1 \in Nat
      BY <2>1
    <3> HIDE DEF row
    <3> QED
      BY <2>2, <3>1
  <2> QED
    BY <2>3, CountsOf
<1>5. /\ fired' \in [Job -> Counts] /\ \A k \in Job : k # j => fired'[k] = fired[k]
      /\ fired'[j] = row
  <2> HIDE DEF row
  <2> QED
    BY <1>1, <1>4 DEF Types
<1>6. Types'
  <2> HIDE DEF row
  <2>1. \A k \in Job : fired'[k] \in [Cron[k] -> Nat]
    BY <1>4, <1>5 DEF Types
  <2> QED
    BY <1>1, <1>2, <1>5, <2>1 DEF Types
<1>7. TimesOK'
  BY <1>1, <1>2, <1>3 DEF TimesOK
<1>8. ASSUME Once PROVE Once'
  <2>1. c \in Cron[j] /\ c < poll[q].at /\ fired[j][c] = 0
    BY <1>1, <1>8 DEF Once, Pending, c
  <2>2. poll[q].at + MinuteLength = nextTick /\ poll[q].at \in Nat /\ c \in Nat
    BY <1>1, <1>8, <2>1, Units DEF Once, OneEach, Types, PollType
  <2>3. fired'[j][c] = 1 /\ \A d \in Cron[j] : d # c => fired'[j][d] = fired[j][d]
    BY <1>5, <2>1 DEF Types
  <2>4. OneEach'
    BY <1>1, <1>2, <1>3, <1>8 DEF Once, OneEach
  <2>5. \A p \in Poll : poll[p].pc = "list" => poll[p].at + MinuteLength # nextTick
    <3>1. \A p \in Poll : poll[p].at \in Nat
      BY DEF Types, PollType
    <3>2. \A p \in Poll : poll[p].pc = "list" => poll[p].at # poll[q].at
      BY <1>1, <1>8 DEF Once, OneEach
    <3> QED
      BY <2>2, <3>1, <3>2, Units
  <2>6. OncePast'
    <3> SUFFICES ASSUME NEW k \in Job, NEW d \in Cron[k], fired'[k][d] # 0
                 PROVE  fired'[k][d] = 1 /\ d + MinuteLength < nextTick
      BY <1>1, <1>2, <1>3, <2>5 DEF OncePast
    <3>1. CASE k = j /\ d = c
      BY <2>1, <2>2, <2>3, <3>1, Units
    <3>2. CASE ~(k = j /\ d = c)
      <4>1. fired'[k][d] = fired[k][d]
        BY <1>5, <2>3, <3>2
      <4> QED
        BY <1>8, <4>1 DEF Once, OncePast
    <3> QED
      BY <3>1, <3>2
  <2>7. Pending'
    <3> SUFFICES ASSUME NEW p \in Poll, poll'[p].pc = "walk", NEW k \in poll'[p].jobs
                 PROVE  LET d == CronTime(k, poll'[p].at)
                        IN  d \in Cron[k] /\ d < poll'[p].at /\ fired'[k][d] = 0
      BY DEF Pending, CronTime, Next_
    <3>1. p = q
      <4>1. poll[p].pc = "walk"
        BY <1>1, <1>2, <1>3
      <4>2. poll[p].at = poll[q].at
        BY <1>1, <4>1 DEF TimesOK
      <4> QED
        BY <1>1, <1>8, <4>1, <4>2 DEF Once, OneEach
    <3>2. k \in poll[q].jobs /\ k # j /\ k \in Job /\ poll'[p].at = poll[q].at
      BY <1>2, <1>3, <3>1 DEF PollType
    <3>3. fired'[k] = fired[k]
      BY <1>5, <3>2
    <3> QED
      BY <1>1, <1>8, <3>2, <3>3 DEF Once, Pending
  <2> QED
    BY <2>4, <2>6, <2>7 DEF Once
<1> QED
  BY <1>1, <1>6, <1>7, <1>8

LEMMA OnceStep == OnceInv /\ [Next]_vars => OnceInv'
<1> SUFFICES ASSUME OnceInv, [Next]_vars PROVE OnceInv'
  OBVIOUS
<1>1. enabled \subseteq Job
  BY DEF OnceInv, Types
<1>2. ASSUME NEW q \in Poll, ListFails(q) \/ PollEnds(q) PROVE OnceInv'
  BY <1>2, OnceReturns DEF ListFails, PollEnds
<1>3. ASSUME NEW j \in Job, RunEnds(j) \/ ManualRun(j) \/ ManualEnds(j) \/ Toggle(j)
      PROVE  OnceInv'
  BY <1>1, <1>3, OnceElsewhere DEF RunEnds, ManualRun, ManualEnds, Toggle
<1>4. CASE UNCHANGED vars
  BY <1>1, <1>4, OnceElsewhere DEF vars
<1> QED
  BY <1>2, <1>3, <1>4, OncePass, OnceTick, OnceListed, OnceActs DEF Next

\* While every listing arrives within the tick that asked for it, the windows of
\* the polls meet without overlapping: no cron time is acted on twice.
THEOREM PollerFiresOnce == Spec => []FiresOnce
<1>1. OnceInv => FiresOnce
  BY DEF OnceInv, Types, Once, OncePast, FiresOnce
<1> QED
  BY <1>1, OnceInit, OnceStep, PTL DEF Spec
-----------------------------------------------------------------------------
(* Work that goroutines do (StorageTasks).  A goroutine writes that its     *)
(* disk has passed when its command has exited without an error, which it  *)
(* does only after badblocks is through with that very disk; what was      *)
(* tested stays so.                                                        *)

Fields == {"kind", "arg", "open", "exit", "done"}

\* A burn-in whose command has exited well is of a tested disk.
Tested(j) ==
  /\ DOMAIN j = Fields
  /\ j.kind = "burnin" => j.arg \in Device
  /\ j.kind = "burnin" /\ j.exit = "ok" => j.arg \in tested

TaskInv ==
  /\ DOMAIN task = Task
  /\ task = [t \in Task |-> task[t]]
  /\ \A t \in Task : task[t] # Free => Tested(task[t])
  /\ PassedRanOut

LEMMA TaskInit_Inv == ASSUME TaskInit PROVE TaskInv
BY DEF TaskInit, TaskInv, PassedRanOut

\* A task that is replaced by one that is free or tested; burnin is as it was,
\* or is about a tested disk.
LEMMA TaskChange ==
  ASSUME TaskInv, NEW t \in Task, NEW j, task' = [task EXCEPT ![t] = j],
         tested \subseteq tested', j # Free => Tested(j)',
         burnin' = burnin \/ (burnin'.status = "passed" => burnin'.disk \in tested')
  PROVE  TaskInv'
BY DEF TaskInv, Tested, PassedRanOut

LEMMA Spawn_Inv ==
  ASSUME TaskInv, NEW t \in Task, NEW k, NEW a, Spawn(t, k, a), k = "burnin" => a \in Device, tested' = tested,
         burnin' = burnin \/ burnin'.status = "running"
  PROVE  TaskInv'
<1> DEFINE j == [kind |-> k, arg |-> a, open |-> TRUE, exit |-> "none", done |-> FALSE]
<1>1. task' = [task EXCEPT ![t] = j] /\ j.kind = k /\ j.arg = a /\ j.exit = "none" /\ DOMAIN j = Fields
  BY DEF Spawn, Fields
<1> HIDE DEF j
<1>2. Tested(j)'
  BY <1>1 DEF Tested
<1> QED
  BY <1>1, <1>2, TaskChange

\* A goroutine that ends and a handler that returns leave the rest of the task
\* alone.
LEMMA Moved_Inv ==
  ASSUME TaskInv, NEW t \in Task, task[t] # Free, tested' = tested,
         task' = [task EXCEPT ![t] = Ended(t)] \/ task' = [task EXCEPT ![t] = Answered(t)],
         burnin' = burnin \/ (burnin'.status = "passed" => burnin'.disk \in tested)
  PROVE  TaskInv'
<1>1. Tested(task[t])
  BY DEF TaskInv
<1>2. ASSUME NEW j, j = [task[t] EXCEPT !.done = TRUE] \/ j = [task[t] EXCEPT !.open = FALSE]
      PROVE  Tested(j)'
  <2>1. DOMAIN j = DOMAIN task[t] /\ j.kind = task[t].kind /\ j.exit = task[t].exit /\ j.arg = task[t].arg
    BY <1>1, <1>2 DEF Tested, Fields
  <2> QED
    BY <1>1, <2>1 DEF Tested
<1>3. PICK j : task' = [task EXCEPT ![t] = j] /\ (j = Free \/ Tested(j)')
  BY <1>2 DEF Ended, Answered
<1> QED
  BY <1>3, TaskChange

LEMMA Exits_Inv ==
  ASSUME TaskInv, NEW t \in Task, CommandExits(t)
  PROVE  TaskInv'
<1>1. Tested(task[t]) /\ burnin' = burnin
  BY DEF TaskInv, CommandExits
<1>2. PICK e \in {"ok", "error"} :
        /\ task' = [task EXCEPT ![t].exit = e]
        /\ tested' = tested \cup {d \in Device : task[t].kind = "burnin" /\ d = task[t].arg /\ e = "ok"}
  BY DEF CommandExits
<1>3. PICK j : j = [task[t] EXCEPT !.exit = e] /\ task' = [task EXCEPT ![t] = j]
  BY <1>2
<1>4. DOMAIN j = DOMAIN task[t] /\ j.kind = task[t].kind /\ j.exit = e /\ j.arg = task[t].arg
  BY <1>1, <1>3 DEF Tested, Fields
<1>5. tested \subseteq tested'
  BY <1>2
<1>6. task[t].kind = "burnin" /\ e = "ok" => task[t].arg \in tested'
  BY <1>1, <1>2 DEF Tested
<1>7. Tested(j)'
  BY <1>1, <1>4, <1>6 DEF Tested
<1> QED
  BY <1>1, <1>3, <1>5, <1>7, TaskChange

LEMMA Work_Inv ==
  ASSUME TaskInv, NEW t \in Task, Work(t)
  PROVE  TaskInv'
<1>1. CASE CommandExits(t)
  BY <1>1, Exits_Inv
<1>2. ASSUME NEW k, k # "free", Returned(t, k) PROVE task[t] # Free
  BY <1>2 DEF Returned, Free
<1>3. CASE BurnInEnds(t)
  <2>1. Tested(task[t])
    BY <1>2, <1>3 DEF BurnInEnds, TaskInv
  <2>2. burnin'.status = "passed" => burnin'.disk \in tested
    BY <2>1, <1>3 DEF BurnInEnds, Returned, Tested
  <2> QED
    BY <1>2, <1>3, <2>2, Moved_Inv DEF BurnInEnds
<1>4. CASE DedupScanEnds(t) \/ DDTProjectionEnds(t)
  BY <1>2, <1>4, Moved_Inv DEF DedupScanEnds, DDTProjectionEnds
<1>5. CASE ReplaceEnds(t) \/ ExpandEnds(t)
  BY <1>2, <1>5, Moved_Inv DEF ReplaceEnds, ExpandEnds
<1> QED
  BY <1>1, <1>3, <1>4, <1>5 DEF Work

LEMMA Answer_Inv ==
  ASSUME TaskInv, NEW t \in Task, Answer(t)
  PROVE  TaskInv'
BY Moved_Inv DEF Answer

\* A request leaves the tasks alone or takes a free one.
LEMMA Request_Inv ==
  ASSUME TaskInv, NEW t \in Task,
         \/ \E d \in Device : StartDiskBurnIn(t, d)
         \/ StartDedupScan(t) \/ ZFSDDTProjection(t)
         \/ ReplacementWizardStep(t) \/ PoolExpansionStep(t)
  PROVE  TaskInv'
<1>1. tested' = tested /\ (burnin' = burnin \/ burnin'.status = "running")
  <2>1. CASE (\E d \in Device : StartDiskBurnIn(t, d)) \/ StartDedupScan(t) \/ ZFSDDTProjection(t)
    BY <2>1 DEF StartDiskBurnIn, StartDedupScan, ZFSDDTProjection
  <2>2. CASE ReplacementWizardStep(t) \/ PoolExpansionStep(t)
    BY <2>2 DEF ReplacementWizardStep, RememberR, PoolExpansionStep, RememberE
  <2> QED
    BY <2>1, <2>2
<1>2. \/ task' = task /\ burnin' = burnin
      \/ \E k, a : Spawn(t, k, a) /\ (k = "burnin" => a \in Device)
  <2>1. CASE (\E d \in Device : StartDiskBurnIn(t, d)) \/ StartDedupScan(t) \/ ZFSDDTProjection(t)
    BY <2>1 DEF StartDiskBurnIn, StartDedupScan, ZFSDDTProjection
  <2>2. CASE ReplacementWizardStep(t)
    <3>1. \/ task' = task /\ burnin' = burnin
          \/ \E a : Spawn(t, "replace", a)
      BY <2>2 DEF ReplacementWizardStep, RememberR
    <3> QED
      BY <3>1
  <2>3. CASE PoolExpansionStep(t)
    <3>1. \/ task' = task /\ burnin' = burnin
          \/ \E a : Spawn(t, "expand", a)
      BY <2>3 DEF PoolExpansionStep, RememberE
    <3> QED
      BY <3>1
  <2> QED
    BY <2>1, <2>2, <2>3
<1>3. CASE task' = task /\ burnin' = burnin
  BY <1>1, <1>3 DEF TaskInv, Tested, PassedRanOut
<1> QED
  BY <1>1, <1>2, <1>3, Spawn_Inv

LEMMA TaskStep ==
  ASSUME TaskInv, [TaskNext]_taskVars
  PROVE  TaskInv'
<1>1. CASE UNCHANGED taskVars
  BY <1>1 DEF taskVars, TaskInv, Tested, PassedRanOut
<1>2. CASE BurnInNext \/ ScanNext \/ ProjectionNext
  BY <1>2, Request_Inv, Work_Inv, Answer_Inv
     DEF BurnInNext, ScanNext, ProjectionNext,
         startDiskBurnInHandler, startDedupScanHandler, zfsDDTProjectionHandler
<1>3. CASE ReplaceNext \/ ExpandNext
  BY <1>3, Request_Inv, Work_Inv, Answer_Inv
     DEF ReplaceNext, ExpandNext, replacementWizardStepHandler, poolExpansionStepHandler
<1> QED
  BY <1>1, <1>2, <1>3 DEF TaskNext

\* A disk whose burn-in is shown as passed has had badblocks run over it to its
\* end, whatever requests overlapped or were cancelled (StartDiskBurnIn).
LEMMA BurnInRanOut == TaskSpec => []PassedRanOut
<1>1. TaskInit => TaskInv
  BY TaskInit_Inv
<1>2. TaskInv /\ [TaskNext]_taskVars => TaskInv'
  BY TaskStep
<1>3. TaskInv => PassedRanOut
  BY DEF TaskInv
<1> QED
  BY <1>1, <1>2, <1>3, PTL DEF TaskSpec

-----------------------------------------------------------------------------
(* Rsync jobs (RsyncManager).  RsyncTruthful is not inductive: it says      *)
(* nothing of a goroutine that has not begun, and nothing of how many      *)
(* goroutines have one number.  A goroutine has a number of its own, no    *)
(* status carries the number of one that has not begun, and a goroutine    *)
(* that carries the number of a status is one of its job.                  *)

\* The records of jobs, in memory and in rsync.json.
RsyncJob == [enabled : BOOLEAN, nextRun : Nat]
JobsListed(f) == IsFiniteSet(DOMAIN f) /\ \A id \in DOMAIN f : id \in Id /\ f[id] \in RsyncJob

\* The lines of a status are lines of the goroutine n.
LinesOf(n, lines) == lines \in Seq(Nat \X Nat) /\ \A k \in 1..Len(lines) : lines[k][1] = n

Shown(st) == /\ st.running \in BOOLEAN /\ st.done \in BOOLEAN /\ st.failed \in BOOLEAN
             /\ st.serial \in 0..serial
             /\ DOMAIN st = {"serial", "running", "done", "failed", "lines"}

RunTypes ==
    /\ serial \in Nat /\ minute \in Nat
    /\ JobsListed(rsyncJobs) /\ JobsListed(rsyncFile)
    /\ \A r \in runs : /\ r.id \in Id /\ r.serial \in 1..serial /\ r.line \in Nat
                       /\ r = [id |-> r.id, serial |-> r.serial, pc |-> r.pc, line |-> r.line]

StatusTypes ==
    /\ DOMAIN status = Id
    /\ \A id \in Id : Shown(status[id]) /\ LinesOf(status[id].serial, status[id].lines)

OwnNumber ==
    /\ \A r, q \in runs : r.serial = q.serial => r = q
    /\ \A r \in runs, id \in Id : status[id].serial = r.serial => r.pc # "begin" /\ r.id = id

\* Active, of any set of goroutines.
ActiveIn(R, n) == \E r \in R : r.serial = n /\ r.pc # "begin"

RunningIsActive ==
    \A id \in Id : status[id].serial # 0 =>
        /\ status[id].running <=> ActiveIn(runs, status[id].serial)
        /\ status[id].done <=> ~ActiveIn(runs, status[id].serial)

\* The inductive invariant.
RsyncInv == RunTypes /\ StatusTypes /\ OwnNumber /\ RunningIsActive

LEMMA RsyncInvImplies == ASSUME RsyncInv PROVE RsyncTruthful
<1> SUFFICES ASSUME NEW id \in Id, status[id].serial # 0
             PROVE  /\ status[id].running = Active(status[id].serial)
                    /\ status[id].done = ~Active(status[id].serial)
                    /\ \A k \in DOMAIN status[id].lines : status[id].lines[k][1] = status[id].serial
  BY DEF RsyncTruthful
<1>1. status[id].running \in BOOLEAN /\ status[id].done \in BOOLEAN
  BY DEF RsyncInv, StatusTypes, Shown
<1>2. Active(status[id].serial) \in BOOLEAN
  BY DEF Active
<1>3. /\ status[id].running <=> Active(status[id].serial)
      /\ status[id].done <=> ~Active(status[id].serial)
  BY DEF RsyncInv, RunningIsActive, Active, ActiveIn
<1>4. \A k \in DOMAIN status[id].lines : status[id].lines[k][1] = status[id].serial
  <2> DEFINE lines == status[id].lines
  <2>1. lines \in Seq(Nat \X Nat) /\ \A k \in 1..Len(lines) : lines[k][1] = status[id].serial
    BY DEF RsyncInv, StatusTypes, LinesOf
  <2> HIDE DEF lines
  <2>2. DOMAIN lines = 1..Len(lines)
    BY <2>1
  <2>3. \A k \in DOMAIN lines : lines[k][1] = status[id].serial
    BY <2>1, <2>2
  <2> QED
    BY <2>3 DEF lines
<1>5. ASSUME NEW p \in BOOLEAN, NEW q \in BOOLEAN, p <=> q PROVE p = q
  BY <1>5
<1>6. (~Active(status[id].serial)) \in BOOLEAN
  OBVIOUS
<1> QED
  BY <1>1, <1>2, <1>3, <1>4, <1>5, <1>6, Zenon

LEMMA NoStatusShown ==
    ASSUME serial \in Nat
    PROVE  Shown(NoStatus) /\ LinesOf(0, NoStatus.lines) /\ NoStatus.serial = 0
BY DEF NoStatus, Shown, LinesOf

LEMMA RsyncInitInv == ASSUME RsyncInit PROVE RsyncInv
<1>1. serial = 0 /\ serial \in Nat /\ runs = {} /\ \A id \in Id : status[id] = NoStatus
  BY DEF RsyncInit
<1>2. JobsListed(rsyncJobs) /\ JobsListed(rsyncFile)
  <2>1. DOMAIN rsyncJobs = {} /\ DOMAIN rsyncFile = {}
    BY DEF RsyncInit
  <2> QED
    BY <2>1, FS_EmptySet DEF JobsListed
<1>3. RunTypes
  BY <1>1, <1>2 DEF RsyncInit, RunTypes
<1>4. StatusTypes
  BY <1>1, NoStatusShown DEF StatusTypes, RsyncInit
<1>5. OwnNumber
  BY <1>1 DEF OwnNumber
<1>6. RunningIsActive
  BY <1>1, NoStatusShown DEF RunningIsActive
<1> QED
  BY <1>3, <1>4, <1>5, <1>6 DEF RsyncInv

\* The clock, and the requests that change the list.
LEMMA ListStep ==
    ASSUME RsyncInv, UNCHANGED <<status, runs, serial>>, minute' \in Nat,
           JobsListed(rsyncJobs'), JobsListed(rsyncFile')
    PROVE  RsyncInv'
<1>1. RunTypes'
  BY DEF RsyncInv, RunTypes
<1>2. StatusTypes'
  BY DEF RsyncInv, StatusTypes, Shown
<1>3. OwnNumber' /\ RunningIsActive'
  BY DEF RsyncInv, OwnNumber, RunningIsActive
<1> QED
  BY <1>1, <1>2, <1>3 DEF RsyncInv

LEMMA NextRunIsTime == ASSUME minute \in Nat PROVE nextRun(minute) \in Nat
BY RsyncAssumption DEF nextRun

LEMMA SavedListed ==
    ASSUME JobsListed(rsyncFile), NEW list, JobsListed(list), save(list)
    PROVE  JobsListed(rsyncFile')
BY DEF save

LEMMA AddListed ==
    ASSUME NEW f, JobsListed(f), NEW id \in Id, NEW v \in RsyncJob
    PROVE  JobsListed([x \in DOMAIN f \cup {id} |-> IF x = id THEN v ELSE f[x]])
<1>1. IsFiniteSet(DOMAIN f \cup {id})
  BY FS_AddElement DEF JobsListed
<1> QED
  BY <1>1 DEF JobsListed

LEMMA RemoveListed ==
    ASSUME NEW f, JobsListed(f), NEW id
    PROVE  JobsListed([x \in DOMAIN f \ {id} |-> f[x]])
<1>1. IsFiniteSet(DOMAIN f \ {id})
  BY FS_RemoveElement DEF JobsListed
<1> QED
  BY <1>1 DEF JobsListed

LEMMA AddStep == ASSUME RsyncInv, NEW id \in Id, createRsyncJobHandler(id) PROVE RsyncInv'
<1> DEFINE v == [enabled |-> TRUE, nextRun |-> nextRun(minute)]
<1>1. v \in RsyncJob
  BY NextRunIsTime DEF RsyncInv, RunTypes, RsyncJob
<1>2. rsyncJobs' = [x \in DOMAIN rsyncJobs \cup {id} |-> IF x = id THEN v ELSE rsyncJobs[x]]
      /\ save(rsyncJobs') /\ UNCHANGED <<minute, status, runs, serial>>
  BY DEF createRsyncJobHandler, Add
<1> HIDE DEF v
<1>3. JobsListed(rsyncJobs')
  BY <1>1, <1>2, AddListed DEF RsyncInv, RunTypes
<1>4. JobsListed(rsyncFile')
  BY <1>2, <1>3, SavedListed DEF RsyncInv, RunTypes
<1> QED
  BY <1>2, <1>3, <1>4, ListStep DEF RsyncInv, RunTypes

LEMMA DeleteStep == ASSUME RsyncInv, NEW id \in Id, deleteRsyncJobHandler(id) PROVE RsyncInv'
<1>1. rsyncJobs' = [x \in DOMAIN rsyncJobs \ {id} |-> rsyncJobs[x]]
      /\ save(rsyncJobs') /\ UNCHANGED <<minute, status, runs, serial>>
  BY DEF deleteRsyncJobHandler, Delete
<1>2. JobsListed(rsyncJobs')
  BY <1>1, RemoveListed DEF RsyncInv, RunTypes
<1>3. JobsListed(rsyncFile')
  BY <1>1, <1>2, SavedListed DEF RsyncInv, RunTypes
<1> QED
  BY <1>1, <1>2, <1>3, ListStep DEF RsyncInv, RunTypes

LEMMA EnableStep ==
    ASSUME RsyncInv, NEW id \in Id, NEW on \in BOOLEAN, patchRsyncJobHandler(id, on)
    PROVE  RsyncInv'
<1>1. id \in DOMAIN rsyncJobs /\ save(rsyncJobs') /\ UNCHANGED <<minute, status, runs, serial>>
  BY DEF patchRsyncJobHandler, SetEnabled
<1>2. rsyncJobs[id] \in RsyncJob
  BY <1>1 DEF RsyncInv, RunTypes, JobsListed
<1>3. JobsListed(rsyncJobs')
  <2>1. rsyncJobs' = [rsyncJobs EXCEPT ![id].enabled = on,
                                       ![id].nextRun = IF on THEN nextRun(minute) ELSE @]
    BY DEF patchRsyncJobHandler, SetEnabled
  <2>2. DOMAIN rsyncJobs' = DOMAIN rsyncJobs /\ \A x \in DOMAIN rsyncJobs \ {id} : rsyncJobs'[x] = rsyncJobs[x]
    BY <2>1
  <2>3. rsyncJobs'[id] \in RsyncJob
    BY <1>1, <1>2, <2>1, NextRunIsTime DEF RsyncInv, RunTypes, RsyncJob
  <2> QED
    BY <2>2, <2>3 DEF RsyncInv, RunTypes, JobsListed
<1>4. JobsListed(rsyncFile')
  BY <1>1, <1>3, SavedListed DEF RsyncInv, RunTypes
<1> QED
  BY <1>1, <1>3, <1>4, ListStep DEF RsyncInv, RunTypes

\* Goroutines that have not begun, with new numbers of their own.
Fresh(N, last) ==
    /\ \A r \in N : /\ r.id \in Id /\ r.serial \in (serial + 1)..last /\ r.pc = "begin" /\ r.line = 0
                    /\ r = [id |-> r.id, serial |-> r.serial, pc |-> r.pc, line |-> r.line]
    /\ \A r, q \in N : r.serial = q.serial => r = q

LEMMA SpawnStep ==
    ASSUME RsyncInv, UNCHANGED <<minute, rsyncJobs, rsyncFile, status>>, serial' \in Nat, serial <= serial',
           NEW N, Fresh(N, serial'), runs' = runs \cup N
    PROVE  RsyncInv'
<1>1. RunTypes'
  BY DEF RsyncInv, RunTypes, Fresh
<1>2. StatusTypes'
  BY DEF RsyncInv, RunTypes, StatusTypes, Shown
<1>3. \A id \in Id : status[id].serial <= serial /\ status[id].serial \in Nat
  BY DEF RsyncInv, RunTypes, StatusTypes, Shown
<1>4. \A r \in runs : r.serial \in Nat /\ r.serial <= serial
  BY DEF RsyncInv, RunTypes
<1>5. \A r \in N : r.serial \in Nat /\ serial < r.serial /\ r.pc = "begin"
  BY DEF Fresh, RsyncInv, RunTypes
<1>6. OwnNumber'
  <2>1. \A r, q \in runs' : r.serial = q.serial => r = q
    BY <1>4, <1>5 DEF RsyncInv, OwnNumber, Fresh, RunTypes
  <2>2. \A r \in runs', id \in Id : status[id].serial = r.serial => r.pc # "begin" /\ r.id = id
    BY <1>3, <1>5 DEF RsyncInv, OwnNumber, RunTypes
  <2> QED
    BY <2>1, <2>2 DEF OwnNumber
<1>7. \A n : ActiveIn(runs', n) <=> ActiveIn(runs, n)
  BY <1>5 DEF ActiveIn
<1>8. RunningIsActive'
  BY <1>7 DEF RsyncInv, RunningIsActive
<1> QED
  BY <1>1, <1>2, <1>6, <1>8 DEF RsyncInv

LEMMA RunNowStep == ASSUME RsyncInv, NEW id \in Id, runRsyncJobHandler(id) PROVE RsyncInv'
<1>1. serial' = serial + 1 /\ runs' = runs \cup {Started(id, serial + 1)}
      /\ UNCHANGED <<minute, rsyncJobs, rsyncFile, status>>
  BY DEF runRsyncJobHandler, RunNow
<1>2. serial \in Nat
  BY DEF RsyncInv, RunTypes
<1>3. Fresh({Started(id, serial + 1)}, serial')
  BY <1>1, <1>2 DEF Fresh, Started
<1> QED
  BY <1>1, <1>2, <1>3, SpawnStep

\* The due jobs, in some order.
LEMMA InOrder ==
    ASSUME NEW S, IsFiniteSet(S)
    PROVE  SetToSeq(S) \in [1..Cardinality(S) -> S] /\ Len(SetToSeq(S)) = Cardinality(S)
<1>1. Cardinality(S) \in Nat /\ ExistsBijection(1..Cardinality(S), S)
  BY FS_CardinalityType
<1>2. \E f \in [1..Cardinality(S) -> S] : IsInjective(f)
  BY <1>1 DEF ExistsBijection, Bijection, Injection
<1>3. SetToSeq(S) \in [1..Cardinality(S) -> S]
  BY <1>2 DEF SetToSeq
<1> HIDE DEF SetToSeq
<1>4. Len(SetToSeq(S)) = Cardinality(S)
  BY <1>1, <1>3
<1> QED
  BY <1>3, <1>4

LEMMA RsyncTickStep == ASSUME RsyncInv, tick PROVE RsyncInv'
<1> DEFINE D == {id \in DOMAIN rsyncJobs : rsyncJobs[id].enabled /\ minute > rsyncJobs[id].nextRun}
           due == SetToSeq(D)
           n == Cardinality(D)
           N == {Started(due[i], serial + i) : i \in DOMAIN due}
<1>1. IsFiniteSet(D) /\ D \subseteq Id
  BY FS_Subset DEF RsyncInv, RunTypes, JobsListed
<1>2. serial' = serial + Len(due) /\ runs' = runs \cup N /\ UNCHANGED <<minute, rsyncJobs, rsyncFile, status>>
  BY DEF tick
<1> HIDE DEF D
<1>3. n \in Nat /\ due \in [1..n -> D] /\ Len(due) = n
  BY <1>1, InOrder, FS_CardinalityType
<1> HIDE DEF n, due
<1>4. serial \in Nat /\ serial' = serial + n
  BY <1>2, <1>3 DEF RsyncInv, RunTypes
<1>5. Fresh(N, serial')
  <2>1. \A i \in 1..n : /\ Started(due[i], serial + i).id \in Id
                        /\ Started(due[i], serial + i).serial = serial + i
                        /\ Started(due[i], serial + i).pc = "begin"
                        /\ Started(due[i], serial + i).line = 0
    BY <1>1, <1>3 DEF Started
  <2>2. \A r \in N : \E i \in 1..n : r = Started(due[i], serial + i)
    BY <1>3
  <2>3. \A r \in N : r = [id |-> r.id, serial |-> r.serial, pc |-> r.pc, line |-> r.line]
    BY <2>2 DEF Started
  <2>4. \A r \in N : r.id \in Id /\ r.serial \in (serial + 1)..serial' /\ r.pc = "begin" /\ r.line = 0
    BY <1>4, <1>3, <2>1, <2>2
  <2>5. ASSUME NEW r \in N, NEW q \in N, r.serial = q.serial PROVE r = q
    <3>1. PICK i \in 1..n : r = Started(due[i], serial + i)
      BY <2>2
    <3>2. PICK j \in 1..n : q = Started(due[j], serial + j)
      BY <2>2
    <3>3. i = j
      BY <1>3, <1>4, <2>1, <2>5, <3>1, <3>2
    <3> QED
      BY <3>1, <3>2, <3>3
  <2> QED
    BY <2>3, <2>4, <2>5 DEF Fresh
<1> HIDE DEF N
<1> QED
  BY <1>2, <1>3, <1>4, <1>5, SpawnStep

\* A goroutine goes on, past its beginning and under its number.
LEMMA GoesOn ==
    ASSUME RsyncInv, NEW r \in runs, NEW q, Goes(r, q),
           q.serial = r.serial, q.id = r.id, q.pc # "begin", q.line \in Nat,
           q = [id |-> q.id, serial |-> q.serial, pc |-> q.pc, line |-> q.line],
           UNCHANGED <<minute, rsyncJobs, rsyncFile, serial>>
    PROVE  /\ RunTypes'
           /\ \A s, t \in runs' : s.serial = t.serial => s = t
           /\ \A n : ActiveIn(runs', n) <=> ActiveIn(runs, n) \/ n = r.serial
           /\ \A s \in runs' : s = q \/ (s \in runs /\ s.serial # r.serial)
<1>1. runs' = (runs \ {r}) \cup {q}
  BY DEF Goes
<1>2. RunTypes'
  BY <1>1 DEF RsyncInv, RunTypes
<1>3. \A s \in runs' : s = q \/ (s \in runs /\ s.serial # r.serial)
  BY <1>1 DEF RsyncInv, OwnNumber
<1>4. \A s, t \in runs' : s.serial = t.serial => s = t
  BY <1>3 DEF RsyncInv, OwnNumber
<1>5. \A n : ActiveIn(runs', n) <=> ActiveIn(runs, n) \/ n = r.serial
  BY <1>1 DEF ActiveIn
<1> QED
  BY <1>2, <1>3, <1>4, <1>5

LEMMA BeginStep == ASSUME RsyncInv, NEW r \in runs, Begin(r) PROVE RsyncInv'
<1> DEFINE q == [r EXCEPT !.pc = "scan"]
           st == [NoStatus EXCEPT !.serial = r.serial, !.running = TRUE]
<1>1. /\ r.pc = "begin" /\ status' = [status EXCEPT ![r.id] = st] /\ Goes(r, q)
      /\ UNCHANGED <<minute, rsyncJobs, rsyncFile, serial>>
  BY DEF Begin
<1>2. /\ r.id \in Id /\ r.serial \in 1..serial /\ r.line \in Nat
      /\ r = [id |-> r.id, serial |-> r.serial, pc |-> r.pc, line |-> r.line]
  BY DEF RsyncInv, RunTypes
<1>3. /\ q.serial = r.serial /\ q.id = r.id /\ q.pc = "scan" /\ q.line = r.line
      /\ q = [id |-> q.id, serial |-> q.serial, pc |-> q.pc, line |-> q.line]
  BY <1>2
<1>4. st.serial = r.serial /\ st.running = TRUE /\ st.done = FALSE /\ Shown(st) /\ LinesOf(r.serial, st.lines)
  <2>1. /\ st.serial = r.serial /\ st.running = TRUE /\ st.done = FALSE /\ st.failed = FALSE
        /\ st.lines = <<>> /\ DOMAIN st = {"serial", "running", "done", "failed", "lines"}
    BY DEF NoStatus
  <2> HIDE DEF st
  <2>2. Shown(st)
    <3>1. st.serial \in 0..serial
      BY <1>2, <2>1 DEF RsyncInv, RunTypes
    <3>2. st.running \in BOOLEAN /\ st.done \in BOOLEAN /\ st.failed \in BOOLEAN
      BY <2>1
    <3> QED
      BY <2>1, <3>1, <3>2 DEF Shown
  <2>3. LinesOf(r.serial, st.lines)
    BY <2>1 DEF LinesOf
  <2> QED
    BY <2>1, <2>2, <2>3
<1> HIDE DEF q, st
<1>5. /\ RunTypes' /\ \A s, t \in runs' : s.serial = t.serial => s = t
      /\ \A n : ActiveIn(runs', n) <=> ActiveIn(runs, n) \/ n = r.serial
      /\ \A s \in runs' : s = q \/ (s \in runs /\ s.serial # r.serial)
  BY <1>1, <1>2, <1>3, GoesOn
<1>6. DOMAIN status' = Id /\ \A id \in Id : status'[id] = IF id = r.id THEN st ELSE status[id]
  BY <1>1, <1>2 DEF RsyncInv, StatusTypes
<1>7. \A id \in Id : status[id].serial # r.serial
  BY <1>1 DEF RsyncInv, OwnNumber
<1>8. StatusTypes'
  BY <1>1, <1>4, <1>6 DEF RsyncInv, StatusTypes, Shown
<1>9. OwnNumber'
  <2>1. ASSUME NEW s \in runs', NEW id \in Id, status'[id].serial = s.serial
        PROVE  s.pc # "begin" /\ s.id = id
    BY <1>3, <1>4, <1>5, <1>6, <1>7, <2>1 DEF RsyncInv, OwnNumber
  <2> QED
    BY <1>5, <2>1 DEF OwnNumber
<1>10. RunningIsActive'
  <2>1. ASSUME NEW id \in Id, status'[id].serial # 0
        PROVE  /\ status'[id].running <=> ActiveIn(runs', status'[id].serial)
               /\ status'[id].done <=> ~ActiveIn(runs', status'[id].serial)
    <3>1. CASE id = r.id
      BY <1>4, <1>5, <1>6, <3>1
    <3>2. CASE id # r.id
      <4>1. status'[id] = status[id] /\ status[id].serial # r.serial
        BY <1>6, <1>7, <3>2
      <4>2. ActiveIn(runs', status[id].serial) <=> ActiveIn(runs, status[id].serial)
        BY <1>5, <4>1
      <4> QED
        BY <2>1, <4>1, <4>2 DEF RsyncInv, RunningIsActive
    <3> QED
      BY <3>1, <3>2
  <2> QED
    BY <2>1 DEF RunningIsActive
<1> QED
  BY <1>5, <1>8, <1>9, <1>10 DEF RsyncInv

\* A goroutine past its beginning goes on, and changes no more than the lines
\* of a status.
SameBut(s, t) == t.serial = s.serial /\ t.running = s.running /\ t.done = s.done

LEMMA GoesOnStep ==
    ASSUME RsyncInv, NEW r \in runs, r.pc # "begin", NEW q, Goes(r, q),
           q.serial = r.serial, q.id = r.id, q.pc # "begin", q.line \in Nat,
           q = [id |-> q.id, serial |-> q.serial, pc |-> q.pc, line |-> q.line],
           UNCHANGED <<minute, rsyncJobs, rsyncFile, serial>>,
           DOMAIN status' = Id,
           \A id \in Id : /\ Shown(status'[id]) /\ LinesOf(status'[id].serial, status'[id].lines)
                          /\ SameBut(status[id], status'[id])
    PROVE  RsyncInv'
<1>1. /\ RunTypes' /\ \A s, t \in runs' : s.serial = t.serial => s = t
      /\ \A n : ActiveIn(runs', n) <=> ActiveIn(runs, n) \/ n = r.serial
      /\ \A s \in runs' : s = q \/ (s \in runs /\ s.serial # r.serial)
  BY GoesOn
<1>2. ActiveIn(runs, r.serial)
  BY DEF ActiveIn
<1>3. StatusTypes'
  BY DEF StatusTypes, Shown
<1>4. \A id \in Id : /\ status'[id].serial = status[id].serial
                     /\ status'[id].running = status[id].running
                     /\ status'[id].done = status[id].done
  BY DEF SameBut
<1>5. OwnNumber'
  <2>1. ASSUME NEW s \in runs', NEW id \in Id, status'[id].serial = s.serial
        PROVE  s.pc # "begin" /\ s.id = id
    BY <1>1, <1>4, <2>1 DEF RsyncInv, OwnNumber
  <2> QED
    BY <1>1, <2>1 DEF OwnNumber
<1>6. RunningIsActive'
  <2>1. \A n : ActiveIn(runs', n) <=> ActiveIn(runs, n)
    BY <1>1, <1>2
  <2> QED
    BY <1>4, <2>1 DEF RsyncInv, RunningIsActive
<1> QED
  BY <1>1, <1>3, <1>5, <1>6 DEF RsyncInv

\* Capping the output drops lines and makes none.
LEMMA CappedLines ==
    ASSUME NEW n \in Nat, NEW k \in Nat, NEW lines, LinesOf(n, lines)
    PROVE  LinesOf(n, Capped(Append(lines, <<n, k>>)))
<1> DEFINE all == Append(lines, <<n, k>>)
<1>1. lines \in Seq(Nat \X Nat) /\ \A j \in 1..Len(lines) : lines[j][1] = n
  BY DEF LinesOf
<1>2. <<n, k>> \in Nat \X Nat
  OBVIOUS
<1>3. all \in Seq(Nat \X Nat) /\ Len(all) = Len(lines) + 1
  BY <1>1, <1>2
<1>4. \A j \in 1..Len(all) : all[j][1] = n
  BY <1>1, <1>2, <1>3
<1> HIDE DEF all
<1>5. CASE Len(all) <= MaxLines
  BY <1>3, <1>4, <1>5, RsyncAssumption DEF Capped, LinesOf, all
<1>6. CASE Len(all) > MaxLines
  <2> DEFINE m == Len(all) - MaxLines + 1
             last == SubSeq(all, m, Len(all))
  <2>1. m \in 1..Len(all) /\ Len(all) \in Nat
    BY <1>3, <1>6, RsyncAssumption
  <2>2. last \in Seq(Nat \X Nat) /\ Len(last) = Len(all) - m + 1
    BY <1>3, <2>1
  <2>3. \A j \in 1..Len(last) : last[j] = all[m + j - 1] /\ m + j - 1 \in 1..Len(all)
    <3>1. m \in Int /\ \A j \in 1..Len(last) : j \in 1..(Len(all) + 1 - m)
      BY <2>1, <2>2
    <3>2. \A j \in 1..(Len(all) + 1 - m) : m + j - 1 \in 1..Len(all)
      BY <2>1, <3>1
    <3> HIDE DEF m
    <3>3. \A j \in 1..(Len(all) + 1 - m) : last[j] = all[m + j - 1]
      BY <1>3, <2>1
    <3> QED
      BY <3>1, <3>2, <3>3
  <2>4. \A j \in 1..Len(last) : last[j][1] = n
    BY <1>4, <2>3
  <2>5. Capped(all) = last
    BY <1>3, <1>6, RsyncAssumption DEF Capped
  <2> HIDE DEF last
  <2> QED
    BY <2>2, <2>4, <2>5 DEF LinesOf, all
<1> QED
  BY <1>3, <1>5, <1>6, RsyncAssumption

LEMMA StallStep == ASSUME RsyncInv, NEW r \in runs, Stall(r) PROVE RsyncInv'
<1> DEFINE q == [r EXCEPT !.pc = "stalled"]
<1>1. r.pc = "scan" /\ Goes(r, q) /\ UNCHANGED <<minute, rsyncJobs, rsyncFile, status, serial>>
  BY DEF Stall
<1>2. /\ r.id \in Id /\ r.serial \in 1..serial /\ r.line \in Nat
      /\ r = [id |-> r.id, serial |-> r.serial, pc |-> r.pc, line |-> r.line]
  BY DEF RsyncInv, RunTypes
<1>3. /\ q.serial = r.serial /\ q.id = r.id /\ q.pc = "stalled" /\ q.line = r.line
      /\ q = [id |-> q.id, serial |-> q.serial, pc |-> q.pc, line |-> q.line]
  BY <1>2
<1> HIDE DEF q
<1>4. DOMAIN status = Id /\ \A id \in Id : /\ Shown(status[id]) /\ LinesOf(status[id].serial, status[id].lines)
                                           /\ SameBut(status[id], status[id])
  BY DEF RsyncInv, StatusTypes, SameBut
<1> QED
  BY <1>1, <1>2, <1>3, <1>4, GoesOnStep

LEMMA LineStep == ASSUME RsyncInv, NEW r \in runs, Line(r) PROVE RsyncInv'
<1> DEFINE q == [r EXCEPT !.line = @ + 1]
           lines == Capped(Append(status[r.id].lines, <<r.serial, r.line + 1>>))
           st == [status[r.id] EXCEPT !.lines = lines]
<1>1. r.pc = "scan" /\ Goes(r, q) /\ Write(r, st) /\ UNCHANGED <<minute, rsyncJobs, rsyncFile, serial>>
  BY DEF Line
<1>2. /\ r.id \in Id /\ r.serial \in 1..serial /\ r.line \in Nat /\ serial \in Nat
      /\ r = [id |-> r.id, serial |-> r.serial, pc |-> r.pc, line |-> r.line]
  BY DEF RsyncInv, RunTypes
<1>3. /\ q.serial = r.serial /\ q.id = r.id /\ q.pc = "scan" /\ q.line \in Nat
      /\ q = [id |-> q.id, serial |-> q.serial, pc |-> q.pc, line |-> q.line]
  <2>1. q.serial = r.serial /\ q.id = r.id /\ q.pc = r.pc /\ q.line = r.line + 1
    BY <1>2
  <2>2. q = [id |-> q.id, serial |-> q.serial, pc |-> q.pc, line |-> q.line]
    BY <1>2
  <2> QED
    BY <1>1, <1>2, <2>1, <2>2
<1>4. DOMAIN status = Id /\ \A id \in Id : /\ Shown(status[id]) /\ LinesOf(status[id].serial, status[id].lines)
                                           /\ SameBut(status[id], status[id])
  BY DEF RsyncInv, StatusTypes, SameBut
<1>5. status[r.id].serial = r.serial => LinesOf(r.serial, lines)
  <2>1. r.serial \in Nat /\ r.line + 1 \in Nat
    BY <1>2
  <2> QED
    BY <1>2, <1>4, <2>1, CappedLines
<1> HIDE DEF lines
<1>6. /\ st.lines = lines /\ Shown(st) /\ SameBut(status[r.id], st)
  <2>1. Shown(status[r.id])
    BY <1>2, <1>4
  <2>2. DOMAIN status[r.id] = {"serial", "running", "done", "failed", "lines"}
    BY <2>1 DEF Shown
  <2>3. /\ st.lines = lines /\ DOMAIN st = DOMAIN status[r.id] /\ st.serial = status[r.id].serial
        /\ st.running = status[r.id].running /\ st.done = status[r.id].done
        /\ st.failed = status[r.id].failed
    BY <2>2
  <2> HIDE DEF st
  <2> QED
    BY <2>1, <2>3 DEF Shown, SameBut
<1> HIDE DEF q, st
<1>7. DOMAIN status' = Id /\ \A id \in Id : /\ Shown(status'[id]) /\ LinesOf(status'[id].serial, status'[id].lines)
                                            /\ SameBut(status[id], status'[id])
  <2>1. CASE status[r.id].serial = r.serial
    <3>1. status' = [status EXCEPT ![r.id] = st]
      BY <1>1, <2>1 DEF Write
    <3>2. st.serial = r.serial
      BY <1>6, <2>1 DEF SameBut
    <3>3. Shown(st) /\ LinesOf(st.serial, st.lines) /\ SameBut(status[r.id], st)
      BY <1>5, <1>6, <2>1, <3>2
    <3>4. DOMAIN status' = Id /\ \A id \in Id : status'[id] = IF id = r.id THEN st ELSE status[id]
      BY <1>2, <1>4, <3>1
    <3> QED
      BY <1>4, <3>3, <3>4
  <2>2. CASE status[r.id].serial # r.serial
    BY <1>1, <1>4, <2>2 DEF Write
  <2> QED
    BY <2>1, <2>2
<1> QED
  BY <1>1, <1>2, <1>3, <1>7, GoesOnStep
\* A goroutine ends: what it writes is about itself, and its number goes.
LEMMA ExitStep ==
    ASSUME RsyncInv, NEW r \in runs, NEW failed \in BOOLEAN, Exit(r, failed)
    PROVE  RsyncInv'
<1> DEFINE st == [status[r.id] EXCEPT !.running = FALSE, !.done = TRUE, !.failed = failed]
<1>1. /\ r.pc = "scan" /\ Write(r, st) /\ Done(r) /\ save(rsyncJobs') /\ runs' = runs \ {r}
      /\ UNCHANGED <<minute, serial>>
  BY DEF Exit
<1>2. r.id \in Id /\ serial \in Nat /\ minute \in Nat /\ JobsListed(rsyncJobs) /\ JobsListed(rsyncFile)
  BY DEF RsyncInv, RunTypes
<1>3. JobsListed(rsyncJobs') /\ JobsListed(rsyncFile')
  <2>1. CASE r.id \in DOMAIN rsyncJobs
    <3>1. rsyncJobs' = [rsyncJobs EXCEPT ![r.id].nextRun = nextRun(minute)]
      BY <1>1, <2>1 DEF Done
    <3>2. rsyncJobs[r.id] \in RsyncJob /\ nextRun(minute) \in Nat
      BY <1>2, <2>1, NextRunIsTime DEF JobsListed
    <3>3. DOMAIN rsyncJobs' = DOMAIN rsyncJobs
          /\ \A x \in DOMAIN rsyncJobs \ {r.id} : rsyncJobs'[x] = rsyncJobs[x]
      BY <3>1
    <3>4. rsyncJobs'[r.id] \in RsyncJob
      BY <2>1, <3>1, <3>2 DEF RsyncJob
    <3>5. JobsListed(rsyncJobs')
      BY <1>2, <3>3, <3>4 DEF JobsListed
    <3> QED
      BY <1>1, <1>2, <3>5, SavedListed
  <2>2. CASE r.id \notin DOMAIN rsyncJobs
    BY <1>1, <1>2, <2>2, SavedListed DEF Done
  <2> QED
    BY <2>1, <2>2
<1>4. RunTypes'
  BY <1>1, <1>2, <1>3 DEF RsyncInv, RunTypes
<1>5. DOMAIN status = Id /\ \A id \in Id : Shown(status[id]) /\ LinesOf(status[id].serial, status[id].lines)
  BY DEF RsyncInv, StatusTypes
<1>6. /\ st.serial = status[r.id].serial /\ st.lines = status[r.id].lines
      /\ st.running = FALSE /\ st.done = TRUE /\ Shown(st)
  <2>1. Shown(status[r.id])
    BY <1>2, <1>5
  <2>2. DOMAIN status[r.id] = {"serial", "running", "done", "failed", "lines"}
    BY <2>1 DEF Shown
  <2>3. /\ st.serial = status[r.id].serial /\ st.lines = status[r.id].lines
        /\ st.running = FALSE /\ st.done = TRUE /\ st.failed = failed
        /\ DOMAIN st = DOMAIN status[r.id]
    BY <2>2
  <2> HIDE DEF st
  <2>4. st.running \in BOOLEAN /\ st.done \in BOOLEAN /\ st.failed \in BOOLEAN
    BY <2>3
  <2> QED
    BY <2>1, <2>3, <2>4 DEF Shown
<1> HIDE DEF st
<1>7. /\ DOMAIN status' = Id
      /\ \A id \in Id : \/ status'[id] = status[id] /\ status[id].serial # r.serial
                        \/ status'[id] = st /\ status[id].serial = r.serial /\ id = r.id
  <2>1. CASE status[r.id].serial = r.serial
    <3>1. status' = [status EXCEPT ![r.id] = st]
      BY <1>1, <2>1 DEF Write
    <3>2. \A id \in Id : status[id].serial = r.serial => id = r.id
      BY DEF RsyncInv, OwnNumber
    <3> QED
      BY <1>2, <1>5, <2>1, <3>1, <3>2
  <2>2. CASE status[r.id].serial # r.serial
    <3>1. \A id \in Id : status[id].serial # r.serial
      BY <2>2 DEF RsyncInv, OwnNumber
    <3> QED
      BY <1>1, <1>5, <2>2, <3>1 DEF Write
  <2> QED
    BY <2>1, <2>2
<1>8. \A id \in Id : status'[id].serial = status[id].serial /\ status'[id].lines = status[id].lines
  BY <1>6, <1>7
<1>9. StatusTypes'
  <2>1. \A id \in Id : Shown(status'[id])
    BY <1>5, <1>6, <1>7
  <2> QED
    BY <1>1, <1>5, <1>7, <1>8, <2>1 DEF StatusTypes, Shown
<1>10. OwnNumber'
  BY <1>1, <1>8 DEF RsyncInv, OwnNumber
<1>11. \A n : ActiveIn(runs', n) <=> ActiveIn(runs, n) /\ n # r.serial
  BY <1>1 DEF ActiveIn, RsyncInv, OwnNumber
<1>12. RunningIsActive'
  <2>1. ASSUME NEW id \in Id, status'[id].serial # 0
        PROVE  /\ status'[id].running <=> ActiveIn(runs', status'[id].serial)
               /\ status'[id].done <=> ~ActiveIn(runs', status'[id].serial)
    <3>1. CASE status'[id] = status[id] /\ status[id].serial # r.serial
      BY <1>11, <2>1, <3>1 DEF RsyncInv, RunningIsActive
    <3>2. CASE status'[id] = st /\ status[id].serial = r.serial /\ id = r.id
      BY <1>6, <1>11, <3>2
    <3> QED
      BY <1>7, <3>1, <3>2
  <2> QED
    BY <2>1 DEF RunningIsActive
<1> QED
  BY <1>4, <1>9, <1>10, <1>12 DEF RsyncInv

\* The daemon starts again: no goroutine, no status, the list of the file.
LEMMA LoadStep == ASSUME RsyncInv, load PROVE RsyncInv'
<1>1. /\ rsyncJobs' = rsyncFile /\ status' = [id \in Id |-> NoStatus] /\ runs' = {}
      /\ UNCHANGED <<minute, rsyncFile, serial>>
  BY DEF load
<1>2. serial \in Nat /\ \A id \in Id : status'[id] = NoStatus
  BY <1>1 DEF RsyncInv, RunTypes
<1>3. RunTypes'
  BY <1>1 DEF RsyncInv, RunTypes
<1>4. StatusTypes'
  BY <1>1, <1>2, NoStatusShown DEF StatusTypes, Shown
<1>5. OwnNumber'
  BY <1>1 DEF OwnNumber
<1>6. RunningIsActive'
  BY <1>2, NoStatusShown DEF RunningIsActive
<1> QED
  BY <1>3, <1>4, <1>5, <1>6 DEF RsyncInv

LEMMA RsyncStep == ASSUME RsyncInv, [RsyncNext]_rsyncVars PROVE RsyncInv'
<1>1. CASE UNCHANGED rsyncVars
  BY <1>1, ListStep DEF rsyncVars, RsyncInv, RunTypes
<1>2. CASE Minute
  BY <1>2, ListStep DEF Minute, RsyncInv, RunTypes
<1>3. CASE \E r \in runs : run(r)
  BY <1>3, BeginStep, LineStep, StallStep, ExitStep DEF run
<1>4. CASE \E id \in Id : \/ runRsyncJobHandler(id)
                          \/ createRsyncJobHandler(id) \/ deleteRsyncJobHandler(id)
                          \/ \E on \in BOOLEAN : patchRsyncJobHandler(id, on)
  BY <1>4, RunNowStep, AddStep, DeleteStep, EnableStep
<1> QED
  BY <1>1, <1>2, <1>3, <1>4, RsyncTickStep, LoadStep DEF RsyncNext

\* What Status returns is about the newest goroutine of the job that began:
\* "running" while it is under way, "done" once it has ended, and no line of
\* another one, however many goroutines of a job overlap (Manager.run).
THEOREM RsyncTruthfulCorrect == RsyncSpec => []RsyncTruthful
<1>1. RsyncInit => RsyncInv
  BY RsyncInitInv
<1>2. RsyncInv /\ [RsyncNext]_rsyncVars => RsyncInv'
  BY RsyncStep
<1>3. RsyncInv => RsyncTruthful
  BY RsyncInvImplies
<1> QED
  BY <1>1, <1>2, <1>3, PTL DEF RsyncSpec

LEMMA KeepsJobStep == ASSUME RsyncInv PROVE KeepsJob
<1> SUFFICES ASSUME NEW r \in runs, NEW failed \in BOOLEAN, Exit(r, failed)
             PROVE  /\ DOMAIN rsyncJobs' = DOMAIN rsyncJobs
                    /\ \A id \in DOMAIN rsyncJobs : rsyncJobs'[id].enabled = rsyncJobs[id].enabled
  BY DEF KeepsJob
<1>1. Done(r) /\ \A id \in DOMAIN rsyncJobs : rsyncJobs[id] \in RsyncJob
  BY DEF Exit, RsyncInv, RunTypes, JobsListed
<1>2. CASE r.id \in DOMAIN rsyncJobs
  <2>1. rsyncJobs' = [rsyncJobs EXCEPT ![r.id].nextRun = nextRun(minute)]
    BY <1>1, <1>2 DEF Done
  <2>2. DOMAIN rsyncJobs' = DOMAIN rsyncJobs
        /\ \A x \in DOMAIN rsyncJobs \ {r.id} : rsyncJobs'[x] = rsyncJobs[x]
    BY <2>1
  <2>3. rsyncJobs'[r.id].enabled = rsyncJobs[r.id].enabled
    BY <1>1, <1>2, <2>1 DEF RsyncJob
  <2> QED
    BY <2>2, <2>3
<1>3. CASE r.id \notin DOMAIN rsyncJobs
  BY <1>1, <1>3 DEF Done
<1> QED
  BY <1>2, <1>3

\* A goroutine that ends brings back no job that was deleted while it was under
\* way, and enables none that was disabled (the end of Manager.run).
THEOREM RunKeepsJobCorrect == RsyncSpec => RunKeepsJob
<1>1. RsyncInit => RsyncInv
  BY RsyncInitInv
<1>2. RsyncInv /\ [RsyncNext]_rsyncVars => RsyncInv'
  BY RsyncStep
<1>3. RsyncInv => [KeepsJob]_rsyncVars
  BY KeepsJobStep
<1> QED
  BY <1>1, <1>2, <1>3, PTL DEF RsyncSpec, RunKeepsJob

-----------------------------------------------------------------------------
(* System updates (SysUpdate).  DoneIsRecorded is not inductive: finish     *)
(* relies on what Record did, whichever jobs recorded in between, so the   *)
(* invariant says the same of a job that has recorded and not yet finished,*)
(* and that neither a job nor a record is from the future.                 *)

UpdateInv ==
    /\ clock \in Nat /\ info \in Nat /\ info <= clock
    /\ \A j \in UpdateJob :
          /\ updates[j].started \in Nat /\ updates[j].started <= clock
          /\ DOMAIN updates[j] = {"action", "status", "lines", "pc", "started"}
          /\ updates[j].status = "done" \/ updates[j].pc = "info" => info >= updates[j].started
    /\ DOMAIN updates = UpdateJob

LEMMA UpdateInitInv == ASSUME UpdateInit PROVE UpdateInv
BY DEF UpdateInit, UpdateInv, NoJob

\* The job j changes as st.
LEMMA UpdateChange ==
    ASSUME UpdateInv, NEW j \in UpdateJob, NEW st, updates' = [updates EXCEPT ![j] = st],
           clock' = clock, info' \in {info, clock},
           st.started \in Nat, st.started <= clock,
           DOMAIN st = {"action", "status", "lines", "pc", "started"},
           st.status = "done" \/ st.pc = "info" => info' >= st.started
    PROVE  UpdateInv'
<1>1. DOMAIN updates' = UpdateJob /\ \A k \in UpdateJob : updates'[k] = IF k = j THEN st ELSE updates[k]
  BY DEF UpdateInv
<1>2. clock \in Nat /\ info \in Nat /\ info <= info' /\ info' <= clock /\ info' \in Nat
  BY DEF UpdateInv
<1> QED
  BY <1>1, <1>2 DEF UpdateInv

LEMMA UpdateStep == ASSUME UpdateInv, [UpdateNext]_updateVars PROVE UpdateInv'
<1>1. CASE UNCHANGED updateVars
  BY <1>1 DEF updateVars, UpdateInv
<1>2. CASE Clock
  BY <1>2 DEF Clock, UpdateInv
<1>3. ASSUME NEW j \in UpdateJob, startCheckHandler(j) \/ startApplyHandler(j) PROVE UpdateInv'
  <2>1. PICK action : newJob(j, action)
    BY <1>3 DEF startCheckHandler, startApplyHandler, StartCheck, StartApply
  <2> DEFINE st == [action |-> action, status |-> "running", lines |-> 0, pc |-> "apt", started |-> clock]
  <2>2. updates' = [updates EXCEPT ![j] = st] /\ UNCHANGED <<clock, info>>
    BY <2>1 DEF newJob
  <2>3. /\ st.started = clock /\ DOMAIN st = {"action", "status", "lines", "pc", "started"}
        /\ st.status = "running" /\ st.pc = "apt"
    OBVIOUS
  <2> HIDE DEF st
  <2> QED
    BY <2>2, <2>3, UpdateChange DEF UpdateInv
<1>4. ASSUME NEW j \in UpdateJob, goroutine(j) PROVE UpdateInv'
  <2>1. /\ DOMAIN updates = UpdateJob /\ DOMAIN updates[j] = {"action", "status", "lines", "pc", "started"}
        /\ updates[j].started \in Nat /\ updates[j].started <= clock /\ clock \in Nat /\ info \in Nat
        /\ updates[j].status = "done" \/ updates[j].pc = "info" => info >= updates[j].started
    BY DEF UpdateInv
  <2>2. CASE emit(j)
    <3> DEFINE st == [updates[j] EXCEPT !.lines = @ + 1]
    <3>1. updates' = [updates EXCEPT ![j] = st] /\ UNCHANGED <<clock, info>>
      BY <2>2 DEF emit
    <3>2. /\ st.started = updates[j].started /\ DOMAIN st = DOMAIN updates[j]
          /\ st.status = updates[j].status /\ st.pc = updates[j].pc
      BY <2>1
    <3> HIDE DEF st
    <3> QED
      BY <2>1, <3>1, <3>2, UpdateChange
  <2>3. CASE AptFails(j) \/ finish(j)
    <3>1. PICK s \in {"failed", "done"} : /\ updates' = [updates EXCEPT ![j] = finished(j, s)]
                                          /\ s = "done" => updates[j].pc = "info"
                                          /\ UNCHANGED <<clock, info>>
      BY <2>3 DEF AptFails, finish
    <3> DEFINE st == finished(j, s)
    <3>2. /\ st.started = updates[j].started /\ DOMAIN st = DOMAIN updates[j]
          /\ st.status = s /\ st.pc = "end"
      BY <2>1 DEF finished
    <3> HIDE DEF st
    <3> QED
      BY <2>1, <3>1, <3>2, UpdateChange DEF st
  <2>4. CASE Count(j) \/ Unread(j)
    <3>1. PICK p \in {"list", "wait"} : updates' = [updates EXCEPT ![j].pc = p] /\ UNCHANGED <<clock, info>>
      BY <2>4 DEF Count, Unread
    <3> DEFINE st == [updates[j] EXCEPT !.pc = p]
    <3>2. updates' = [updates EXCEPT ![j] = st]
      BY <3>1
    <3>3. /\ st.started = updates[j].started /\ DOMAIN st = DOMAIN updates[j]
          /\ st.status = updates[j].status /\ st.pc = p
      BY <2>1
    <3> HIDE DEF st
    <3> QED
      BY <2>1, <3>1, <3>2, <3>3, UpdateChange
  <2>5. CASE Record(j)
    <3> DEFINE st == [updates[j] EXCEPT !.pc = "info"]
    <3>1. updates' = [updates EXCEPT ![j] = st] /\ info' = clock /\ clock' = clock
      BY <2>5 DEF Record
    <3>2. st.started = updates[j].started /\ DOMAIN st = DOMAIN updates[j]
      BY <2>1
    <3> HIDE DEF st
    <3> QED
      BY <2>1, <3>1, <3>2, UpdateChange
  <2> QED
    BY <1>4, <2>2, <2>3, <2>4, <2>5 DEF goroutine
<1> QED
  BY <1>1, <1>2, <1>3, <1>4 DEF UpdateNext

\* What is shown of work is true, whatever work overlaps: the status of an rsync
\* job is about its newest run (Manager.run), an update shown as done has
\* recorded its count (Manager.finish), and a burn-in shown as passed has run to
\* its end (StartDiskBurnIn).
THEOREM StatusTruthfulCorrect == JobsSpec => []StatusTruthful
<1>1. UpdateInit => UpdateInv
  BY UpdateInitInv
<1>2. UpdateInv /\ [UpdateNext]_updateVars => UpdateInv'
  BY UpdateStep
<1>3. UpdateInv => DoneIsRecorded
  BY DEF UpdateInv, DoneIsRecorded
<1>4. RsyncTruthful /\ DoneIsRecorded /\ PassedRanOut => StatusTruthful
  BY DEF StatusTruthful
<1> QED
  BY <1>1, <1>2, <1>3, <1>4, RsyncTruthfulCorrect, BurnInRanOut, PTL DEF JobsSpec
=============================================================================
