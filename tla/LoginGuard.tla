----------------------------- MODULE LoginGuard -----------------------------
(***************************************************************************)
(* What stands before a password check: loginRateLimiter and loginHandler  *)
(* (internal/api/router.go), BruteForceTracker (internal/auth/             *)
(* bruteforce.go) and the part of UserStore.Login that uses it.            *)
(*                                                                         *)
(* Each of them locks on its own, and a login is a chain of such steps:    *)
(* allow, IsBanned, the check of user and password under the lock of the   *)
(* user store, RecordFailure or RecordSuccess.  Time is a clock of ticks.  *)
(* An address is what http.Request.RemoteAddr holds.                       *)
(***************************************************************************)
EXTENDS Integers, FiniteSets

CONSTANTS Addr,
          Account,         \* the names of local accounts
          Handler,         \* goroutines of loginHandler, a login each at a time
          Limit, Period,   \* loginRateLimiter: 10 requests, 15 minutes
          MaxAttempts, Window, Ban,  \* BruteForceTracker: 5, 10 and 30 minutes
          Thresholds,      \* what an administrator may ask SetThresholds for
          MaxTicks, MaxLogins, MaxActs  \* bounds: clock, logins, admin's acts

ASSUME GuardAssumption ==
  /\ IsFiniteSet(Handler) /\ Handler # {}
  /\ Limit \in Nat \ {0} /\ Period \in Nat
  /\ MaxAttempts \in Nat /\ MaxAttempts > 1
  /\ Window \in Nat \ {0} /\ Ban \in Nat /\ Window < Ban
  /\ Thresholds \subseteq [most : Int, window : Int, ban : Int]
  /\ MaxTicks \in Nat /\ MaxLogins \in Nat /\ MaxActs \in Nat

VARIABLES
  clock,
  buckets,    \* loginRateLimiter.buckets
  attempts,   \* BruteForceTracker.attempts, by address
  usernames,  \* BruteForceTracker.usernameAttempts, by name
  limits,     \* BruteForceTracker's maxAttempts, windowDuration, banDuration
  trying,     \* where the login of each handler is
  acts,       \* acts of an administrator so far
  \* History, read by properties only.  Equal events are told apart by nth:
  admitted,   \* the requests allow has let through since the last success
  wrong       \* the wrong guesses since the last success

guardVars == <<clock, buckets, attempts, usernames, limits, trying, acts, admitted, wrong>>

NoRecord == [count |-> 0]
Bucket == [count : 1 .. (Limit + 1), resetAt : Nat]
Attempts == [count : Nat \ {0}, first : Nat, until : Nat]
NoLogin == [pc |-> "idle"]
LoginState == [pc : {"gate", "check", "failed", "welcome", "cleared"}, addr : Addr]
              \cup [pc : {"backup", "success"}, addr : Addr, name : Account]

GuardInit == /\ clock = 0
             /\ buckets = [a \in Addr |-> NoRecord]
             /\ attempts = [a \in Addr |-> NoRecord]
             /\ usernames = [n \in Account |-> NoRecord]
             /\ limits = [most |-> MaxAttempts, window |-> Window, ban |-> Ban]
             /\ trying = [h \in Handler |-> NoLogin]
             /\ acts = 0
             /\ admitted = {}
             /\ wrong = {}

Goto(h, q) == trying' = [trying EXCEPT ![h] = q]
Stage(h, pc) == [pc |-> pc, addr |-> trying[h].addr]
For(h, pc, n) == [pc |-> pc, addr |-> trying[h].addr, name |-> n]
-----------------------------------------------------------------------------
(* loginRateLimiter *)

OpenBucket == [count |-> 1, resetAt |-> clock + Period]

\* allow: the first request of a period opens a bucket.
Counted(a) == IF buckets[a] = NoRecord \/ clock > buckets[a].resetAt
                THEN OpenBucket
                ELSE [buckets[a] EXCEPT !.count = @ + 1]

Admit(a) ==
  LET like == {l \in admitted : l.addr = a /\ l.at = clock}
  IN admitted' = admitted \cup {[addr |-> a, at |-> clock, nth |-> Cardinality(like) + 1]}

allow(h, a) ==
  /\ trying[h] = NoLogin
  /\ Cardinality(admitted) < MaxLogins
  /\ buckets' = [buckets EXCEPT ![a] = Counted(a)]
  /\ IF Counted(a).count <= Limit
       THEN Goto(h, [pc |-> "gate", addr |-> a]) /\ Admit(a)
       ELSE UNCHANGED <<trying, admitted>>
  /\ Counted(a).count <= Limit + 1  \* further refusals only count on
  /\ UNCHANGED <<clock, attempts, usernames, limits, acts, wrong>>

\* The goroutine that forgets expired buckets every five minutes.
Sweep ==
  /\ buckets' = [a \in Addr |-> IF buckets[a] # NoRecord /\ clock > buckets[a].resetAt
                                  THEN NoRecord ELSE buckets[a]]
  /\ UNCHANGED <<clock, attempts, usernames, limits, trying, acts, admitted, wrong>>

\* rl.recordSuccess near the end of loginHandler.
ForgetBucket(h) ==
  /\ trying[h].pc = "welcome"
  /\ buckets' = [buckets EXCEPT ![trying[h].addr] = NoRecord]
  /\ admitted' = {l \in admitted : l.addr # trying[h].addr}
  /\ Goto(h, Stage(h, "cleared"))
  /\ UNCHANGED <<clock, attempts, usernames, limits, acts, wrong>>
-----------------------------------------------------------------------------
(* BruteForceTracker *)

Banned(rec) == rec # NoRecord /\ clock < rec.until

\* Slip: every failure starts a new window.
SlipFailed(rec) ==
  [count |-> 1, first |-> clock,
   until |-> IF 1 >= limits.most THEN clock + limits.ban ELSE 0]

\* RecordFailure and RecordUsernameFailure: a failure after the window starts
\* a new record, without the ban of the old one.
Failed(rec) ==
  LET old == IF rec = NoRecord \/ clock - rec.first > limits.window
               THEN [count |-> 0, first |-> clock, until |-> 0] ELSE rec
  IN [count |-> old.count + 1, first |-> old.first,
      until |-> IF old.count + 1 >= limits.most THEN clock + limits.ban ELSE old.until]

IsBanned(h) ==
  /\ trying[h].pc = "gate"
  /\ Goto(h, IF Banned(attempts[trying[h].addr]) THEN NoLogin ELSE Stage(h, "check"))
  /\ UNCHANGED <<clock, buckets, attempts, usernames, limits, acts, admitted, wrong>>

RecordFailure(h) ==
  /\ trying[h].pc = "failed"
  /\ attempts' = [attempts EXCEPT ![trying[h].addr] = Failed(attempts[trying[h].addr])]
  /\ Goto(h, NoLogin)
  /\ UNCHANGED <<clock, buckets, usernames, limits, acts, admitted, wrong>>

\* bf.RecordSuccess at the end of loginHandler.
RecordSuccess(h) ==
  /\ trying[h].pc = "cleared"
  /\ attempts' = [attempts EXCEPT ![trying[h].addr] = NoRecord]
  /\ wrong' = {w \in wrong : w.addr # trying[h].addr}
  /\ Goto(h, NoLogin)
  /\ UNCHANGED <<clock, buckets, usernames, limits, acts, admitted>>
-----------------------------------------------------------------------------
(* UserStore.Login, under the lock of the user store *)

Wrong(a, n) ==
  LET like == {w \in wrong : w.addr = a /\ w.name = n /\ w.at = clock}
  IN wrong' = wrong \cup {[addr |-> a, name |-> n, at |-> clock, nth |-> Cardinality(like) + 1]}

\* What a login is after a step that records nothing.
Proceeds(h, q) ==
  /\ Goto(h, q)
  /\ UNCHANGED <<clock, buckets, attempts, usernames, limits, acts, admitted, wrong>>

\* The account is banned: no guess is looked at.
LoginLocked(h, n) ==
  trying[h].pc = "check" /\ Banned(usernames[n]) /\ Proceeds(h, Stage(h, "failed"))

\* No account has the name, it is disabled, from another source or its password has
\* expired: nothing is recorded against a name.
LoginUnknown(h) == trying[h].pc = "check" /\ Proceeds(h, Stage(h, "failed"))

\* The request is not a login with a name, or its second factor is missing: it is
\* answered, and nothing is recorded.
LoginUndecided(h) == trying[h].pc = "check" /\ Proceeds(h, NoLogin)

\* A wrong password, or a wrong code after a right one.
GuessWrong(h, n) ==
  /\ usernames' = [usernames EXCEPT ![n] = Failed(usernames[n])]
  /\ Wrong(trying[h].addr, n)
  /\ Goto(h, Stage(h, "failed"))
  /\ UNCHANGED <<clock, buckets, attempts, limits, acts, admitted>>

LoginWrong(h, n) ==
  trying[h].pc = "check" /\ ~Banned(usernames[n]) /\ GuessWrong(h, n)

\* The password is right; what is not the TOTP code is tried as a backup code
\* after the lock is released.
LoginTryBackup(h, n) ==
  trying[h].pc = "check" /\ ~Banned(usernames[n]) /\ Proceeds(h, For(h, "backup", n))

\* It is no backup code either: RecordUsernameFailure without the lock.
BackupWrong(h) == trying[h].pc = "backup" /\ GuessWrong(h, trying[h].name)

BackupRight(h) == trying[h].pc = "backup" /\ Proceeds(h, For(h, "success", trying[h].name))

LoginRight(h, n) ==
  trying[h].pc = "check" /\ ~Banned(usernames[n]) /\ Proceeds(h, For(h, "success", n))

RecordUsernameSuccess(h) ==
  /\ trying[h].pc = "success"
  /\ usernames' = [usernames EXCEPT ![trying[h].name] = NoRecord]
  /\ wrong' = {w \in wrong : w.name # trying[h].name}
  /\ Goto(h, Stage(h, "welcome"))
  /\ UNCHANGED <<clock, buckets, attempts, limits, acts, admitted>>
-----------------------------------------------------------------------------
(* The administrator, and time *)

UnbanIP(a) ==
  /\ acts < MaxActs /\ acts' = acts + 1
  /\ attempts' = [attempts EXCEPT ![a] = NoRecord]
  /\ UNCHANGED <<clock, buckets, usernames, limits, trying, admitted, wrong>>

\* SetThresholds ignores values that are not positive.
Positive(new, old) == IF new > 0 THEN new ELSE old

SetThresholds(new) ==
  /\ acts < MaxActs /\ acts' = acts + 1
  /\ limits' = [most |-> Positive(new.most, limits.most),
                window |-> Positive(new.window, limits.window),
                ban |-> Positive(new.ban, limits.ban)]
  /\ UNCHANGED <<clock, buckets, attempts, usernames, trying, admitted, wrong>>

\* Both are for administrators and need a body; an unban needs an address.
bruteForceUnbanHandler(a) == UnbanIP(a)
bruteForceThresholdsHandler(new) == SetThresholds(new)

ClockTick ==
  /\ clock < MaxTicks
  /\ clock' = clock + 1
  /\ UNCHANGED <<buckets, attempts, usernames, limits, trying, acts, admitted, wrong>>

CheckSteps(h) ==
  \/ IsBanned(h) \/ LoginUnknown(h) \/ LoginUndecided(h)
  \/ \E n \in Account : LoginLocked(h, n) \/ LoginWrong(h, n) \/ LoginTryBackup(h, n)
                        \/ LoginRight(h, n)
  \/ BackupWrong(h) \/ BackupRight(h) \/ RecordUsernameSuccess(h)
  \/ RecordFailure(h) \/ ForgetBucket(h) \/ RecordSuccess(h)

GuardNext ==
  \/ \E h \in Handler : CheckSteps(h) \/ \E a \in Addr : allow(h, a)
  \/ \E a \in Addr : bruteForceUnbanHandler(a)
  \/ \E new \in Thresholds : bruteForceThresholdsHandler(new)
  \/ Sweep \/ ClockTick

GuardSpec == GuardInit /\ [][GuardNext]_guardVars
-----------------------------------------------------------------------------
GuardTypeOK ==
  /\ clock \in Nat
  /\ buckets \in [Addr -> Bucket \cup {NoRecord}]
  /\ attempts \in [Addr -> Attempts \cup {NoRecord}]
  /\ usernames \in [Account -> Attempts \cup {NoRecord}]
  /\ limits \in [most : Nat \ {0}, window : Nat \ {0}, ban : Nat \ {0}]
  /\ trying \in [Handler -> LoginState \cup {NoLogin}]
  /\ acts \in Nat
  /\ admitted \subseteq [addr : Addr, at : Nat, nth : Nat] /\ IsFiniteSet(admitted)
  /\ wrong \subseteq [addr : Addr, name : Account, at : Nat, nth : Nat] /\ IsFiniteSet(wrong)

\* How many events of a log fall into a span of time that ends at t.
Within(log, t, span) == Cardinality({e \in log : e.at <= t /\ t <= e.at + span})

\* The windows of the tracker do not slide.  Within one the guesses that reach the
\* limit, and those of the other handlers that were past their check by then, are
\* all looked at; and a failure recorded late opens a second one within its span.
Burst == 2 * (MaxAttempts - 2 + Cardinality(Handler))

\* However logins overlap, no more than Burst wrong guesses at the password or
\* the second factor of one account are looked at within a window, as long as
\* no administrator unbans or changes the thresholds.
NameLockout ==
  acts = 0 => \A n \in Account, t \in 0 .. MaxTicks :
                Within({w \in wrong : w.name = n}, t, Window) <= Burst

\* The same for the guesses from one address, at any accounts.
AddressLockout ==
  acts = 0 => \A a \in Addr, t \in 0 .. MaxTicks :
                Within({w \in wrong : w.addr = a}, t, Window) <= Burst

\* No address gets more than two full buckets through within a period,
\* whatever the sweeper removes in between.
LimiterBurst ==
  \A a \in Addr, t \in 0 .. MaxTicks :
    Within({l \in admitted : l.addr = a}, t, Period) <= 2 * Limit - 1

\* However logins overlap, the guesses at one account and from one address are
\* limited, and so are the bursts that fixed periods let through
\* (BruteForceTracker.RecordFailure and IsBanned, loginRateLimiter.allow).
GuessesLimited == NameLockout /\ AddressLockout /\ LimiterBurst
=============================================================================
