----------------------------- MODULE UserStore -----------------------------
(***************************************************************************)
(* internal/auth/userstore.go: the accounts and the sessions of nasd.      *)
(*                                                                         *)
(* Every exported method runs under UserStore.mu and is one atomic action, *)
(* except where the code lets go of the lock:                              *)
(*   - Login unlocks before it tries the second factor as a backup code    *)
(*     and then goes on with the index i and the copy u it read before;    *)
(*   - IssueTokenWithMeta takes the lock a second time for the metadata;   *)
(*   - the passkey handlers of webauthn.go take a copy of the account with *)
(*     GetUser, change its passkeys and put the whole record back with     *)
(*     UpdateUser (passkeys themselves are modelled in Credentials);       *)
(*   - "go s.saveSessions()" marshals the session map and writes the file  *)
(*     from a goroutine that never takes the lock.                         *)
(* Reads and failing calls leave the store as it is and are not actions.   *)
(*                                                                         *)
(* users is the slice s.users (positions matter to Login); sessions is the *)
(* map s.sessions.  usersFile and sessionsFile are users.json and          *)
(* sessions.json; os.WriteFile truncates before it writes, so a failed or  *)
(* interrupted write can leave a file that does not parse (torn).          *)
(* A token stands also for the instant it was issued: lastLogin holds the  *)
(* token of the login that wrote LastLogin, and lapsed the tokens whose    *)
(* Expires is in the past.                                                 *)
(* Definitions named Slip... are plausible mistakes in the definition that  *)
(* follows them; no specification uses them.  They show which property     *)
(* would notice.                                                           *)
(***************************************************************************)
EXTENDS Naturals, Sequences

CONSTANTS Names,      \* user names
          Roles,      \* RoleAdmin, RoleUser, RoleReadonly
          Tokens,     \* what genToken can return, each value once
          Codes,      \* what GenerateBackupCodes can return, each value once
          Requests,   \* HTTP requests in flight
          Savers,     \* goroutines started by "go s.saveSessions()"
          NoToken, NoName,
          Accounts,   \* what users.json holds when the daemon first starts
          MaxEdits,   \* bound on the calls that edit accounts
          MaxFaults,  \* bound on the calls whose file writes fail
          MaxCrashes  \* bound on the crashes of the daemon

ASSUME NullAssumption == /\ NoToken \notin Tokens
                         /\ NoName \notin Names
ASSUME BoundAssumption == MaxEdits \in Nat /\ MaxFaults \in Nat /\ MaxCrashes \in Nat

VARIABLES
  up,            \* the daemon is running
  stuck,         \* s.mu was left locked by a goroutine that panicked
  users,         \* s.users
  sessions,      \* s.sessions
  usersFile,     \* users.json
  sessionsFile,  \* sessions.json
  requests,      \* per request: where it is between two critical sections
  savers,        \* per goroutine of saveSessions: what it has read so far
  lapsed,        \* tokens past the Expires they were issued with
  edits, faults, crashes,
  \* History, read by properties only:
  owner,         \* the name each token was issued to
  origin,        \* how the present record of a token came to be in memory
  spent,         \* the backup codes that were accepted, with the account
  revoked,       \* the tokens a revocation removed
  reverted       \* the accounts UpdateUser took back to an earlier role, state or codes

storeVars == <<users, sessions>>
fileVars == <<usersFile, sessionsFile, faults>>
boundVars == <<edits, crashes>>
historyVars == <<owner, origin, spent, revoked, reverted>>
vars == <<up, stuck, users, sessions, usersFile, sessionsFile, requests,
          savers, lapsed, edits, faults, crashes, owner, origin, spent, revoked,
          reverted>>

User == [name : Names, role : Roles, disabled : BOOLEAN, secret : BOOLEAN,
         totp : BOOLEAN, codes : SUBSET Codes,
         lastLogin : Tokens \cup {NoToken}]

ASSUME AccountsAssumption ==
  /\ Accounts \in Seq(User)
  /\ \A i, j \in DOMAIN Accounts : Accounts[i].name = Accounts[j].name => i = j
  /\ \A i \in DOMAIN Accounts : Accounts[i].lastLogin = NoToken

\* zero: Expires is the zero time, as SetRole leaves it.
Session == [user : Names, role : Roles, zero : BOOLEAN]
NoSession == [user |-> NoName]
SessionMap == [Tokens -> Session \cup {NoSession}]
EmptyMap == [t \in Tokens |-> NoSession]

\* A Login between its critical sections holds i, the copy u and the code; an
\* IssueTokenWithMeta between its two holds the token; a passkey handler between
\* GetUser and UpdateUser holds its copy of the account.
BackupLogin == [pc : {"backup", "relock"}, name : Names, role : Roles,
                index : Nat, code : Codes]
MetaWrite == [pc : {"meta"}, name : Names, token : Tokens]
PasskeyEdit == [pc : {"passkey"}, copy : User]
IdleRequest == [pc |-> "idle"]
Request == {IdleRequest} \cup BackupLogin \cup MetaWrite \cup PasskeyEdit

Saver == [pc : {"idle", "marshal", "write"}, todo : SUBSET Tokens,
          data : SessionMap]
IdleSaver == [pc |-> "idle", todo |-> {}, data |-> EmptyMap]

Init == /\ up = TRUE
        /\ stuck = FALSE
        /\ users = Accounts
        /\ sessions = EmptyMap
        /\ usersFile = [form |-> "whole", data |-> Accounts]
        /\ sessionsFile = [form |-> "whole", data |-> EmptyMap]
        /\ requests = [r \in Requests |-> IdleRequest]
        /\ savers = [g \in Savers |-> IdleSaver]
        /\ lapsed = {}
        /\ edits = 0
        /\ faults = 0
        /\ crashes = 0
        /\ owner = [t \in Tokens |-> NoName]
        /\ origin = [t \in Tokens |-> "none"]
        /\ spent = {}
        /\ revoked = {}
        /\ reverted = {}
-----------------------------------------------------------------------------
(* Helpers *)

\* Slip: disabled accounts do not count.
SlipHas(n) == \E i \in DOMAIN users : users[i].name = n /\ ~users[i].disabled

Has(n) == \E i \in DOMAIN users : users[i].name = n

\* Slip: the last position instead of the matching one.
SlipIndexOf(n) == Len(users)

\* The position the loops over s.users stop at.
IndexOf(n) == CHOOSE i \in DOMAIN users :
                /\ users[i].name = n
                /\ \A j \in DOMAIN users : users[j].name = n => i <= j

\* append(s.users[:i], s.users[i+1:]...)
Without(seq, i) == [j \in 1 .. (Len(seq) - 1) |-> IF j < i THEN seq[j] ELSE seq[j + 1]]

\* The mutex is free: no panicking goroutine kept it.
Locks == up /\ ~stuck

WritingSaver == \E g \in Savers : savers[g].pc = "write"

\* What os.WriteFile leaves behind when it succeeds and when it fails.
Wrote(data) == {[form |-> "whole", data |-> data]}
Failed(file) == {file, [form |-> "torn", data |-> file.data]}

\* A goroutine of saveSessions writing at the same time can mix the two.
WroteSessions(data) ==
  Wrote(data) \cup IF WritingSaver THEN {[form |-> "torn", data |-> data]} ELSE {}

Fault == faults < MaxFaults /\ faults' = faults + 1

\* save() of the slice us: the caller sees the error.
SaveUsers(us, err) ==
  IF err THEN Fault /\ usersFile' \in Failed(usersFile)
         ELSE UNCHANGED faults /\ usersFile' \in Wrote(us)

\* saveSessions() of the map ss: errors are ignored by every caller.
SaveSessions(ss) ==
  \/ UNCHANGED faults /\ sessionsFile' \in WroteSessions(ss)
  \/ Fault /\ sessionsFile' \in Failed(sessionsFile)

\* save() and saveSessions() in one critical section.
SaveBoth(us, ss) ==
  \/ UNCHANGED faults /\ usersFile' \in Wrote(us) /\ sessionsFile' \in WroteSessions(ss)
  \/ /\ Fault
     /\ usersFile' \in Wrote(us) \cup Failed(usersFile)
     /\ sessionsFile' \in Wrote(ss) \cup Failed(sessionsFile)

\* go s.saveSessions()
Spawn(g) == /\ savers[g].pc = "idle"
            /\ savers' = [savers EXCEPT ![g] = [pc |-> "marshal", todo |-> Tokens,
                                                data |-> EmptyMap]]

\* The session map with every session of n deleted.
DropSessionsOf(n) == [t \in Tokens |-> IF sessions[t].user = n THEN NoSession ELSE sessions[t]]

NewUser(n, role) ==
  [name |-> n, role |-> role, disabled |-> FALSE, secret |-> FALSE,
   totp |-> FALSE, codes |-> {}, lastLogin |-> NoToken]

\* Slip: a failing random source repeats tokens.
SlipFresh(t) == sessions[t] = NoSession

\* A token genToken has not returned before.
Fresh(t) == owner[t] = NoName

Edit == edits < MaxEdits /\ edits' = edits + 1
-----------------------------------------------------------------------------
(* Accounts *)

\* Register and RegisterExternal: the user stays in memory when save fails.
Register(n, role) ==
  /\ Locks /\ Edit
  /\ ~Has(n)
  /\ users' = Append(users, NewUser(n, role))
  /\ \E err \in BOOLEAN : SaveUsers(users', err)
  /\ UNCHANGED <<up, stuck, sessions, sessionsFile, requests, savers, lapsed,
                 crashes, historyVars>>

\* When save fails DeleteUser returns before "go s.saveSessions()".
DeleteUser(n) ==
  /\ Locks /\ Edit
  /\ Has(n)
  /\ users' = Without(users, IndexOf(n))
  /\ sessions' = DropSessionsOf(n)
  /\ \/ SaveUsers(users', TRUE) /\ UNCHANGED savers
     \/ SaveUsers(users', FALSE) /\ \E g \in Savers : Spawn(g)
  /\ UNCHANGED <<up, stuck, sessionsFile, requests, lapsed, crashes, historyVars>>

\* Every session of the user is replaced by session{Username, Role}, whose
\* Expires is the zero time; the sessions are not saved.
SetRole(n, role) ==
  /\ Locks /\ Edit
  /\ Has(n)
  /\ users' = [users EXCEPT ![IndexOf(n)].role = role]
  /\ sessions' = [t \in Tokens |->
                    IF sessions[t].user = n
                      THEN [user |-> n, role |-> role, zero |-> TRUE]
                      ELSE sessions[t]]
  /\ \E err \in BOOLEAN : SaveUsers(users', err)
  /\ UNCHANGED <<up, stuck, sessionsFile, requests, savers, lapsed, crashes,
                 historyVars>>

SetDisabled(n, disabled) ==
  /\ Locks /\ Edit
  /\ Has(n)
  /\ users' = [users EXCEPT ![IndexOf(n)].disabled = disabled]
  /\ IF disabled
       THEN sessions' = DropSessionsOf(n) /\ SaveBoth(users', sessions')
       ELSE /\ UNCHANGED <<sessions, sessionsFile>>
            /\ \E err \in BOOLEAN : SaveUsers(users', err)
  /\ UNCHANGED <<up, stuck, requests, savers, lapsed, crashes, historyVars>>

EnrollTOTP(n) ==
  /\ Locks /\ Edit
  /\ Has(n)
  /\ ~users[IndexOf(n)].totp
  /\ users' = [users EXCEPT ![IndexOf(n)].secret = TRUE]
  /\ \E err \in BOOLEAN : SaveUsers(users', err)
  /\ UNCHANGED <<up, stuck, sessions, sessionsFile, requests, savers, lapsed,
                 crashes, historyVars>>

ConfirmTOTP(n) ==
  /\ Locks /\ Edit
  /\ Has(n)
  /\ users[IndexOf(n)].secret
  /\ users' = [users EXCEPT ![IndexOf(n)].totp = TRUE]
  /\ \E err \in BOOLEAN : SaveUsers(users', err)
  /\ UNCHANGED <<up, stuck, sessions, sessionsFile, requests, savers, lapsed,
                 crashes, historyVars>>

DisableTOTP(n) ==
  /\ Locks /\ Edit
  /\ Has(n)
  /\ users[IndexOf(n)].totp
  /\ users' = [users EXCEPT ![IndexOf(n)].totp = FALSE, ![IndexOf(n)].secret = FALSE]
  /\ \E err \in BOOLEAN : SaveUsers(users', err)
  /\ UNCHANGED <<up, stuck, sessions, sessionsFile, requests, savers, lapsed,
                 crashes, historyVars>>

\* The codes are random: no account has had one of them and none holds one yet.
SetBackupCodes(n, codes) ==
  /\ Locks /\ Edit
  /\ Has(n)
  /\ \A c \in codes, m \in Names : <<m, c>> \notin spent
  /\ \A i \in DOMAIN users : users[i].codes \cap codes = {}
  /\ \A r \in Requests : requests[r].pc = "passkey" => requests[r].copy.codes \cap codes = {}
  /\ users' = [users EXCEPT ![IndexOf(n)].codes = codes]
  /\ \E err \in BOOLEAN : SaveUsers(users', err)
  /\ UNCHANGED <<up, stuck, sessions, sessionsFile, requests, savers, lapsed,
                 crashes, historyVars>>
-----------------------------------------------------------------------------
(* Sessions *)

\* Slip: the session is for whoever is at position i now.
SlipOpenSession(i, name, role, t, how) ==
  /\ Fresh(t)
  /\ users' = [users EXCEPT ![i].lastLogin = t]
  /\ sessions' = [sessions EXCEPT ![t] = [user |-> users[i].name, role |-> role, zero |-> FALSE]]
  /\ SaveBoth(users', sessions')
  /\ owner' = [owner EXCEPT ![t] = name]
  /\ origin' = [origin EXCEPT ![t] = how]

\* The tail shared by Login and IssueToken: a session for name with role, and
\* LastLogin written at position i of s.users; both files saved, errors ignored.
OpenSession(i, name, role, t, how) ==
  /\ Fresh(t)
  /\ users' = [users EXCEPT ![i].lastLogin = t]
  /\ sessions' = [sessions EXCEPT ![t] = [user |-> name, role |-> role, zero |-> FALSE]]
  /\ SaveBoth(users', sessions')
  /\ owner' = [owner EXCEPT ![t] = name]
  /\ origin' = [origin EXCEPT ![t] = how]

\* Login with a good password where no second factor is asked for, or where
\* the code is the current TOTP code: one critical section.
Login(n, t) ==
  /\ Locks
  /\ Has(n)
  /\ ~users[IndexOf(n)].disabled
  /\ OpenSession(IndexOf(n), n, users[IndexOf(n)].role, t, "issued")
  /\ UNCHANGED <<up, stuck, requests, savers, lapsed, boundVars, spent, revoked,
                 reverted>>

\* Login with TOTP enabled and a code that is not the current TOTP code: the
\* lock is released with i and the copy u in hand.
LoginTryBackup(r, n, code) ==
  /\ Locks
  /\ requests[r].pc = "idle"
  /\ Has(n)
  /\ ~users[IndexOf(n)].disabled
  /\ users[IndexOf(n)].totp
  /\ requests' = [requests EXCEPT ![r] =
        [pc |-> "backup", name |-> n, role |-> users[IndexOf(n)].role,
         index |-> IndexOf(n), code |-> code]]
  /\ UNCHANGED <<up, stuck, storeVars, fileVars, savers, lapsed, boundVars,
                 historyVars>>

\* Slip: an accepted code stays in the list.
SlipRemaining(codes, c) == codes

\* append(user.BackupCodes[:i], user.BackupCodes[i+1:]...)
Remaining(codes, c) == codes \ {c}

\* The append writes into the array the copies of the account share: unless c is
\* the last of the list, its place is taken by the next code there too.
CopiesWithout(n, c) ==
  [q \in Requests |->
     IF requests[q].pc = "passkey" /\ requests[q].copy.name = n
       THEN [requests[q] EXCEPT !.copy.codes = Remaining(@, c)]
       ELSE requests[q]]

\* ConsumeBackupCode called by Login, in a critical section of its own.
ConsumeBackupCode(r) ==
  LET n == requests[r].name
      c == requests[r].code
  IN /\ Locks
     /\ requests[r].pc = "backup"
     /\ IF Has(n) /\ c \in users[IndexOf(n)].codes
          THEN /\ users' = [users EXCEPT ![IndexOf(n)].codes = Remaining(@, c)]
               /\ \E err \in BOOLEAN : SaveUsers(users', err)
               /\ \/ requests' = [requests EXCEPT ![r].pc = "relock"]
                  \/ /\ users[IndexOf(n)].codes # {c}
                     /\ requests' = [CopiesWithout(n, c) EXCEPT ![r].pc = "relock"]
               /\ spent' = spent \cup {<<n, c>>}
          ELSE /\ requests' = [requests EXCEPT ![r] = IdleRequest]
               /\ UNCHANGED <<users, usersFile, faults, spent>>
     /\ UNCHANGED <<up, stuck, sessions, sessionsFile, savers, lapsed,
                    boundVars, owner, origin, revoked, reverted>>

\* What Login read before it released the lock still describes the account.
StillCurrent(q) == /\ q.index \in DOMAIN users
                   /\ users[q.index].name = q.name
                   /\ users[q.index].role = q.role
                   /\ ~users[q.index].disabled

\* Login takes the lock again and uses i and u.  s.users[i] panics when the
\* slice has shrunk; the recovered goroutine never unlocks s.mu.
LoginAfterBackup(r, t) ==
  LET q == requests[r]
      how == IF StillCurrent(q) THEN "issued" ELSE "stale"
  IN /\ Locks
     /\ q.pc = "relock"
     /\ requests' = [requests EXCEPT ![r] = IdleRequest]
     /\ IF q.index \in DOMAIN users
          THEN /\ OpenSession(q.index, q.name, q.role, t, how)
               /\ UNCHANGED stuck
          ELSE /\ stuck' = TRUE
               /\ UNCHANGED <<storeVars, fileVars, owner, origin>>
     /\ UNCHANGED <<up, savers, lapsed, boundVars, spent, revoked,
                 reverted>>

\* IssueToken, the first half of IssueTokenWithMeta (LDAP, WebAuthn).
IssueToken(r, n, t) ==
  /\ Locks
  /\ requests[r].pc = "idle"
  /\ Has(n)
  /\ ~users[IndexOf(n)].disabled
  /\ OpenSession(IndexOf(n), n, users[IndexOf(n)].role, t, "issued")
  /\ requests' = [requests EXCEPT ![r] = [pc |-> "meta", name |-> n, token |-> t]]
  /\ UNCHANGED <<up, stuck, savers, lapsed, boundVars, spent, revoked,
                 reverted>>

\* The second half: address and user agent, if the session is still there.
IssueTokenMeta(r) ==
  LET t == requests[r].token
      n == requests[r].name
  IN /\ Locks
     /\ requests[r].pc = "meta"
     /\ requests' = [requests EXCEPT ![r] = IdleRequest]
     /\ UNCHANGED sessions
     /\ \/ /\ sessions[t] # NoSession /\ Has(n)
           /\ SaveBoth(users, sessions)
        \/ /\ sessions[t] # NoSession /\ ~Has(n)
           /\ SaveSessions(sessions) /\ UNCHANGED usersFile
        \/ /\ sessions[t] = NoSession /\ Has(n)
           /\ \E err \in BOOLEAN : SaveUsers(users, err)
           /\ UNCHANGED sessionsFile
        \/ /\ sessions[t] = NoSession /\ ~Has(n)
           /\ UNCHANGED fileVars
     /\ UNCHANGED <<up, stuck, users, savers, lapsed, boundVars, historyVars>>

\* GetUser at the start of FinishRegistration, FinishLogin or DeleteCredential.
GetUser(r, n) ==
  /\ Locks
  /\ requests[r].pc = "idle"
  /\ Has(n)
  /\ requests' = [requests EXCEPT ![r] = [pc |-> "passkey", copy |-> users[IndexOf(n)]]]
  /\ UNCHANGED <<up, stuck, storeVars, fileVars, savers, lapsed, boundVars,
                 historyVars>>

\* The copy v takes back the role, the state or the codes of the account u.
TakesBack(u, v) == u.role # v.role \/ u.disabled # v.disabled \/ u.codes # v.codes

\* UpdateUser at the end of the handler: the whole record becomes the copy,
\* whatever happened to the account since; the sessions are left alone.
UpdateUser(r) ==
  LET v == requests[r].copy
      n == v.name
  IN /\ Locks
     /\ requests[r].pc = "passkey"
     /\ requests' = [requests EXCEPT ![r] = IdleRequest]
     /\ IF Has(n)
          THEN /\ Edit
               /\ users' = [users EXCEPT ![IndexOf(n)] = v]
               /\ \E err \in BOOLEAN : SaveUsers(users', err)
               /\ reverted' = IF TakesBack(users[IndexOf(n)], v) THEN reverted \cup {n} ELSE reverted
          ELSE UNCHANGED <<users, usersFile, faults, edits, reverted>>
     /\ UNCHANGED <<up, stuck, sessions, sessionsFile, savers, lapsed, crashes, owner,
                    origin, spent, revoked>>

\* The clock passes the Expires of an issued session.
Lapse(t) ==
  /\ ~Fresh(t)
  /\ t \notin lapsed
  /\ lapsed' = lapsed \cup {t}
  /\ UNCHANGED <<up, stuck, storeVars, fileVars, requests, savers, boundVars,
                 historyVars>>

\* time.Now().After(sess.Expires)
Expired(t) == sessions[t] # NoSession /\ (sessions[t].zero \/ t \in lapsed)

\* Accepted by ValidateToken.
Valid(t) == up /\ sessions[t] # NoSession /\ ~Expired(t)

\* ValidateToken deletes an expired session it is asked about.
ValidateToken(t) ==
  /\ Locks
  /\ Expired(t)
  /\ sessions' = [sessions EXCEPT ![t] = NoSession]
  /\ UNCHANGED <<up, stuck, users, fileVars, requests, savers, lapsed,
                 boundVars, historyVars>>

PruneExpiredSessions(g) ==
  /\ Locks
  /\ sessions' = [t \in Tokens |-> IF Expired(t) THEN NoSession ELSE sessions[t]]
  /\ Spawn(g)
  /\ UNCHANGED <<up, stuck, users, fileVars, requests, lapsed, boundVars,
                 historyVars>>

Logout(t, g) ==
  /\ Locks
  /\ sessions[t] # NoSession
  /\ sessions' = [sessions EXCEPT ![t] = NoSession]
  /\ Spawn(g)
  /\ revoked' = revoked \cup {t}
  /\ UNCHANGED <<up, stuck, users, fileVars, requests, lapsed, boundVars,
                 owner, origin, spent, reverted>>

\* RevokeSessionByPrefix: some session the prefix matches.
RevokeSession(t) ==
  /\ Locks
  /\ sessions[t] # NoSession
  /\ sessions' = [sessions EXCEPT ![t] = NoSession]
  /\ SaveSessions(sessions')
  /\ revoked' = revoked \cup {t}
  /\ UNCHANGED <<up, stuck, users, usersFile, requests, savers, lapsed,
                 boundVars, owner, origin, spent, reverted>>

RevokeAllSessionsForUser(n) ==
  /\ Locks
  /\ sessions' = DropSessionsOf(n)
  /\ SaveSessions(sessions')
  /\ revoked' = revoked \cup {t \in Tokens : sessions[t].user = n}
  /\ UNCHANGED <<up, stuck, users, usersFile, requests, savers, lapsed,
                 boundVars, owner, origin, spent, reverted>>
-----------------------------------------------------------------------------
(* The goroutines of saveSessions *)

\* json.MarshalIndent walks the map in any order while others write to it.
Marshal(g, t) ==
  /\ savers[g].pc = "marshal"
  /\ t \in savers[g].todo
  /\ savers' = [savers EXCEPT ![g].data[t] = sessions[t],
                              ![g].todo = @ \ {t},
                              ![g].pc = IF savers[g].todo = {t} THEN "write" ELSE @]
  /\ UNCHANGED <<up, stuck, storeVars, fileVars, requests, lapsed, boundVars,
                 historyVars>>

\* os.WriteFile of what was marshalled, however old it is by now.
WriteSessions(g) ==
  /\ savers[g].pc = "write"
  /\ SaveSessions(savers[g].data)
  /\ savers' = [savers EXCEPT ![g] = IdleSaver]
  /\ UNCHANGED <<up, stuck, storeVars, usersFile, requests, lapsed, boundVars,
                 historyVars>>
-----------------------------------------------------------------------------
(* Crash and restart *)

\* The process dies: power, a kill, or the runtime's fatal error for a map
\* that is iterated and written at once.
Crash ==
  /\ up
  /\ crashes < MaxCrashes
  /\ crashes' = crashes + 1
  /\ up' = FALSE
  /\ stuck' = FALSE
  /\ users' = <<>>
  /\ sessions' = EmptyMap
  /\ requests' = [r \in Requests |-> IdleRequest]
  /\ savers' = [g \in Savers |-> IdleSaver]
  /\ UNCHANGED <<usersFile, faults, lapsed, edits, historyVars>>
  /\ sessionsFile' \in {sessionsFile}
        \cup (IF WritingSaver THEN Failed(sessionsFile) ELSE {})

\* NewUserStore: a users.json that does not parse is an error and nasd exits;
\* a sessions.json that does not parse is ignored.
NewUserStore ==
  /\ ~up
  /\ usersFile.form = "whole"
  /\ up' = TRUE
  /\ users' = usersFile.data
  /\ sessions' = IF sessionsFile.form = "torn" THEN EmptyMap ELSE sessionsFile.data
  /\ origin' = [t \in Tokens |-> IF origin[t] = "issued" THEN "loaded" ELSE origin[t]]
  /\ UNCHANGED <<stuck, fileVars, requests, savers, lapsed, boundVars, owner,
                 spent, revoked, reverted>>
-----------------------------------------------------------------------------
AccountSteps ==
  \E n \in Names :
    \/ \E role \in Roles : Register(n, role) \/ SetRole(n, role)
    \/ \E d \in BOOLEAN : SetDisabled(n, d)
    \/ DeleteUser(n) \/ EnrollTOTP(n) \/ ConfirmTOTP(n) \/ DisableTOTP(n)
    \/ \E codes \in SUBSET Codes \ {{}} : SetBackupCodes(n, codes)

LoginSteps ==
  \/ \E n \in Names, t \in Tokens : Login(n, t)
  \/ \E r \in Requests :
       \/ \E n \in Names, c \in Codes : LoginTryBackup(r, n, c)
       \/ ConsumeBackupCode(r)
       \/ \E t \in Tokens : LoginAfterBackup(r, t)
       \/ \E n \in Names, t \in Tokens : IssueToken(r, n, t)
       \/ IssueTokenMeta(r)

PasskeySteps == \E r \in Requests : UpdateUser(r) \/ \E n \in Names : GetUser(r, n)

SessionSteps ==
  \/ \E t \in Tokens : Lapse(t) \/ ValidateToken(t) \/ RevokeSession(t)
  \/ \E g \in Savers : PruneExpiredSessions(g) \/ \E t \in Tokens : Logout(t, g)
  \/ \E n \in Names : RevokeAllSessionsForUser(n)

SaverSteps == \E g \in Savers : WriteSessions(g) \/ \E t \in Tokens : Marshal(g, t)

Next == \/ AccountSteps \/ LoginSteps \/ PasskeySteps \/ SessionSteps \/ SaverSteps
        \/ Crash \/ NewUserStore

Spec == Init /\ [][Next]_vars
-----------------------------------------------------------------------------
TypeOK ==
  /\ up \in BOOLEAN
  /\ stuck \in BOOLEAN
  /\ users \in Seq(User)
  /\ sessions \in SessionMap
  /\ usersFile \in [form : {"whole", "torn"}, data : Seq(User)]
  /\ sessionsFile \in [form : {"whole", "torn"}, data : SessionMap]
  /\ requests \in [Requests -> Request]
  /\ savers \in [Savers -> Saver]
  /\ lapsed \in SUBSET Tokens
  /\ edits \in 0 .. MaxEdits
  /\ faults \in 0 .. MaxFaults
  /\ crashes \in 0 .. MaxCrashes
  /\ owner \in [Tokens -> Names \cup {NoName}]
  /\ origin \in [Tokens -> {"none", "issued", "stale", "loaded"}]
  /\ spent \in SUBSET (Names \X Codes)
  /\ revoked \in SUBSET Tokens
  /\ reverted \in SUBSET Names

\* No two accounts share a name, in memory or in users.json: the check in
\* Register and the append are one critical section, whatever deletions,
\* failed saves and restarts come between two registrations.
NamesUnique ==
  \A us \in {users, usersFile.data} :
    \A i, j \in DOMAIN us : us[i].name = us[j].name => i = j

\* A record of a token names the account the token was issued to, wherever the
\* record is: in memory, in sessions.json or in the buffer of a goroutine that
\* marshalled the map while it was changing.
OwnerKept ==
  \A t \in Tokens :
    \A m \in {sessions, sessionsFile.data} \cup {savers[g].data : g \in Savers} :
      m[t] # NoSession => m[t].user = owner[t]

\* A session ValidateToken accepts gives an existing, enabled account its
\* present role, however logins, role changes, deletions and disabling
\* interleave.  The exceptions are exactly the sessions opened from a copy of
\* the account that was out of date when Login took the lock again, the
\* sessions read back from sessions.json by a restart, and the sessions of an
\* account a passkey handler took back to an earlier role or state.
IssuedSessionsMatch ==
  \A t \in Tokens :
    Valid(t) /\ origin[t] = "issued" /\ sessions[t].user \notin reverted =>
      \E i \in DOMAIN users : /\ users[i].name = sessions[t].user
                             /\ users[i].role = sessions[t].role
                             /\ ~users[i].disabled

\* LastLogin of an account was written by a login of that account; only a
\* login from an out of date copy writes it at another account's position.
LastLoginOwn ==
  \A i \in DOMAIN users :
    LET t == users[i].lastLogin
    IN t # NoToken /\ origin[t] # "stale" => owner[t] = users[i].name

\* A session is opened for the account that asked for it, and a login is noted in
\* that account and in no other, however accounts move in the list meanwhile and
\* whatever old copies of them are put back.
LoginsOwn == IssuedSessionsMatch /\ LastLoginOwn

\* Every method that changes an account also saves the accounts: as long as
\* no write fails, users.json is what is in memory, and a restart at any point
\* between two critical sections brings back exactly the present accounts.
UsersFileCurrent == up /\ faults = 0 => usersFile = [form |-> "whole", data |-> users]

\* A backup code an account accepted is not its code any more: two logins with
\* the same code cannot both get past it, not even across a restart unless a
\* write of users.json failed.  The exception is an account that a passkey
\* handler took back to a copy from before the code was spent.
SpentCodesGone ==
  crashes = 0 \/ faults = 0 =>
    \A i \in DOMAIN users : users[i].name \notin reverted =>
      \A c \in users[i].codes : <<users[i].name, c>> \notin spent

\* After an edit, UpdateUser's included, users.json has what memory has, and a
\* backup code that was accepted is in neither unless an old copy brought it back.
SavedAndSpent == UsersFileCurrent /\ SpentCodesGone

\* While the daemon runs, a session that was revoked, pruned or deleted with
\* its account does not come back under its token, the second critical section
\* of IssueTokenWithMeta included.
NoResurrection ==
  [][up /\ up' => \A t \in Tokens :
        owner[t] # NoName /\ sessions[t] = NoSession => sessions'[t] = NoSession]_vars

\* docs/security/architecture.md lists Logout, RevokeSessionByPrefix and
\* RevokeAllSessionsForUser as the revocation of a session: a revoked token is
\* never accepted again.
RevokedStaysRevoked == \A t \in revoked : ~Valid(t)
=============================================================================
