--------------------------- MODULE AccessControl ---------------------------
(***************************************************************************)
(* Who may do what: authMiddleware, requireAdmin and the handlers that     *)
(* change accounts, sessions and API keys (internal/api/router.go), over   *)
(* the stores they share (internal/auth).  UserStore models the inside of  *)
(* the account store; here an account is its role and a session its        *)
(* account's role, which UserStore shows is what a valid session carries.  *)
(*                                                                         *)
(* A request runs in several critical sections: the middleware looks its   *)
(* credential up once and puts name and role into the request's context,   *)
(* and the handler acts on the context later, whatever has happened to     *)
(* the account since.  What a handler is asked to do is chosen when it     *)
(* acts.  Requests that only read, or are refused, change nothing.         *)
(***************************************************************************)
EXTENDS Naturals, FiniteSets

CONSTANTS Names,     \* user names
          Tokens,    \* session tokens, each issued once
          Keys,      \* API keys, each issued once
          Requests,  \* HTTP requests in flight
          Root,      \* "admin", the name of whoever needs no account
          MaxEdits   \* bound on the requests that edit accounts

ASSUME MaxEditsAssumption == MaxEdits \in Nat

Roles == {"readonly", "user", "admin"}
Rank == [none |-> 0, readonly |-> 1, user |-> 2, admin |-> 3]

VARIABLES
  static,    \* NASD_TOKEN is configured
  accounts,  \* the role of each account, "none" where there is no account
  sessions,  \* UserStore.sessions
  keys,      \* APIKeyStore.keys
  requests,  \* per request: its context, and what its handler has read
  edits,
  \* History, read by properties only:
  issued,    \* the tokens and keys that have been issued
  best,      \* the highest rank each name has had
  setups     \* the accounts registerHandler has created

vars == <<static, accounts, sessions, keys, requests, edits, issued, best, setups>>

\* by is the person who presents the credential: its account for a session,
\* whoever asked for it for an API key.
Nothing == [role |-> "none"]
Credential == [user : Names \cup {Root}, role : Roles, by : Names \cup {Root}]
Request ==
  {Nothing}
  \cup [pc : {"handler"}, user : Names \cup {Root}, role : Roles, by : Names \cup {Root}]
  \cup [pc : {"key"}, user : Names, role : Roles, by : Names \cup {Root}]
  \cup [pc : {"register"}, role : {"admin"}]
  \cup [pc : {"login"}, user : Names, role : {"admin"}]

Present == {n \in Names : accounts[n] # "none"}
Idle(r) == requests[r] = Nothing
At(r, pc) == requests[r] # Nothing /\ requests[r].pc = pc
Done(r) == requests' = [requests EXCEPT ![r] = Nothing]
Rise(n, role) ==
  best' = [best EXCEPT ![n] = IF Rank[role] > @ THEN Rank[role] ELSE @]
Edit == edits < MaxEdits /\ edits' = edits + 1

\* The daemon starts with the accounts of an earlier run, or with none.
Init == /\ static \in BOOLEAN
        /\ accounts \in [Names -> {"none", "user", "admin"}]
        /\ sessions = [t \in Tokens |-> Nothing]
        /\ keys = [k \in Keys |-> Nothing]
        /\ requests = [r \in Requests |-> Nothing]
        /\ edits = 0
        /\ issued = {}
        /\ best = [n \in Names |-> Rank[accounts[n]]]
        /\ setups = {}
-----------------------------------------------------------------------------
(* The middleware *)

\* A request that is not a GET and not refused as read-only gets a context.
Enter(r, user, role, by) ==
  /\ Idle(r)
  /\ role # "readonly"
  /\ requests' = [requests EXCEPT ![r] = [pc |-> "handler", user |-> user,
                                          role |-> role, by |-> by]]
  /\ UNCHANGED <<static, accounts, sessions, keys, edits, issued, best, setups>>

\* No token configured and no users: everybody is the administrator.
OpenAccess(r) == ~static /\ Present = {} /\ Enter(r, Root, "admin", Root)

StaticAccess(r) == static /\ Enter(r, Root, "admin", Root)

SessionAccess(r, t) ==
  /\ sessions[t] # Nothing
  /\ static \/ Present # {}
  /\ Enter(r, sessions[t].user, sessions[t].role, sessions[t].by)

\* The role is the copy made when the key was created.
KeyAccess(r, k) ==
  /\ keys[k] # Nothing
  /\ static \/ Present # {}
  /\ Enter(r, keys[k].user, keys[k].role, keys[k].by)
-----------------------------------------------------------------------------
(* The first account, and logging in *)

OpenSession(n, t) ==
  /\ t \notin issued
  /\ issued' = issued \cup {t}
  /\ sessions' = [sessions EXCEPT ![t] = [user |-> n, role |-> accounts[n], by |-> n]]

Login(n, t) ==
  /\ n \in Present
  /\ OpenSession(n, t)
  /\ UNCHANGED <<static, accounts, keys, requests, edits, best, setups>>

\* registerHandler: users.Count() > 0 is refused.
RegisterCheck(r) ==
  /\ Idle(r)
  /\ Present = {}
  /\ requests' = [requests EXCEPT ![r] = [pc |-> "register", role |-> "admin"]]
  /\ UNCHANGED <<static, accounts, sessions, keys, edits, issued, best, setups>>

\* users.Register, a critical section of its own.
RegisterAccount(r, n) ==
  /\ At(r, "register")
  /\ IF n \in Present
       THEN Done(r) /\ UNCHANGED <<accounts, best, setups>>
       ELSE /\ accounts' = [accounts EXCEPT ![n] = "admin"]
            /\ Rise(n, "admin")
            /\ setups' = setups \cup {n}
            /\ requests' = [requests EXCEPT ![r] = [pc |-> "login", user |-> n,
                                                    role |-> "admin"]]
  /\ UNCHANGED <<static, sessions, keys, edits, issued>>

\* users.Login for the new account; its errors are ignored.
RegisterLogin(r, t) ==
  /\ At(r, "login")
  /\ Done(r)
  /\ IF requests[r].user \in Present
       THEN OpenSession(requests[r].user, t)
       ELSE UNCHANGED <<sessions, issued>>
  /\ UNCHANGED <<static, accounts, keys, edits, best, setups>>
-----------------------------------------------------------------------------
(* Handlers of administrators *)

requireAdmin(r) == At(r, "handler") /\ requests[r].role = "admin"

createUser(r, n, role) ==
  /\ requireAdmin(r) /\ Edit
  /\ n \notin Present
  /\ accounts' = [accounts EXCEPT ![n] = role]
  /\ Rise(n, role)
  /\ Done(r)
  /\ UNCHANGED <<static, sessions, keys, issued, setups>>

\* The sessions of n are gone or worthless; its API keys stay as they are.
EndSessions(n) ==
  sessions' = [t \in Tokens |->
                 IF sessions[t] # Nothing /\ sessions[t].user = n
                   THEN Nothing ELSE sessions[t]]

\* "cannot delete yourself" compares with the name in the context.
deleteUser(r, n) ==
  /\ requireAdmin(r) /\ Edit
  /\ n # requests[r].user
  /\ n \in Present
  /\ accounts' = [accounts EXCEPT ![n] = "none"]
  /\ EndSessions(n)
  /\ Done(r)
  /\ UNCHANGED <<static, keys, issued, best, setups>>

setRole(r, n, role) ==
  /\ requireAdmin(r) /\ Edit
  /\ n \in Present
  /\ accounts' = [accounts EXCEPT ![n] = role]
  /\ Rise(n, role)
  /\ EndSessions(n)
  /\ Done(r)
  /\ UNCHANGED <<static, keys, issued, setups>>
-----------------------------------------------------------------------------
(* Handlers of everybody with an account *)

\* Slip: anyone may ask for a key of anyone.
SlipMayActFor(r, n) == TRUE

\* target == caller || role == admin
MayActFor(r, n) == n = requests[r].user \/ requests[r].role = "admin"

\* APIKeyStore.Create reads the account ...
createAPIKey(r, n) ==
  /\ At(r, "handler")
  /\ MayActFor(r, n)
  /\ n \in Present
  /\ requests' = [requests EXCEPT ![r] = [pc |-> "key", user |-> n, role |-> accounts[n],
                                          by |-> requests[r].by]]
  /\ UNCHANGED <<static, accounts, sessions, keys, edits, issued, best, setups>>

\* ... and appends the key under another lock.
APIKeyCreate(r, k) ==
  /\ At(r, "key")
  /\ k \notin issued
  /\ issued' = issued \cup {k}
  /\ keys' = [keys EXCEPT ![k] = [user |-> requests[r].user, role |-> requests[r].role,
                                  by |-> requests[r].by]]
  /\ Done(r)
  /\ UNCHANGED <<static, accounts, sessions, edits, best, setups>>

\* Any key whose id the caller knows.
deleteAPIKey(r, k) ==
  /\ At(r, "handler")
  /\ keys[k] # Nothing
  /\ keys' = [keys EXCEPT ![k] = Nothing]
  /\ Done(r)
  /\ UNCHANGED <<static, accounts, sessions, edits, issued, best, setups>>

\* Any session whose prefix the caller knows; logout ends the caller's own.
revokeSession(r, t) ==
  /\ At(r, "handler")
  /\ sessions[t] # Nothing
  /\ sessions' = [sessions EXCEPT ![t] = Nothing]
  /\ Done(r)
  /\ UNCHANGED <<static, accounts, keys, edits, issued, best, setups>>

revokeAllSessions(r, n) ==
  /\ At(r, "handler")
  /\ MayActFor(r, n)
  /\ EndSessions(n)
  /\ Done(r)
  /\ UNCHANGED <<static, accounts, keys, edits, issued, best, setups>>
-----------------------------------------------------------------------------
AccessSteps(r) ==
  \/ OpenAccess(r) \/ StaticAccess(r)
  \/ \E t \in Tokens : SessionAccess(r, t)
  \/ \E k \in Keys : KeyAccess(r, k)

SetupSteps(r) ==
  \/ RegisterCheck(r)
  \/ \E n \in Names : RegisterAccount(r, n)
  \/ \E t \in Tokens : RegisterLogin(r, t)

AdminSteps(r) ==
  \E n \in Names :
    \/ \E role \in Roles : createUser(r, n, role) \/ setRole(r, n, role)
    \/ deleteUser(r, n)

OwnSteps(r) ==
  \/ \E n \in Names : createAPIKey(r, n) \/ revokeAllSessions(r, n)
  \/ \E k \in Keys : APIKeyCreate(r, k) \/ deleteAPIKey(r, k)
  \/ \E t \in Tokens : revokeSession(r, t)

Next ==
  \/ \E n \in Names, t \in Tokens : Login(n, t)
  \/ \E r \in Requests : AccessSteps(r) \/ SetupSteps(r) \/ AdminSteps(r) \/ OwnSteps(r)

Spec == Init /\ [][Next]_vars
-----------------------------------------------------------------------------
TypeOK ==
  /\ static \in BOOLEAN
  /\ accounts \in [Names -> Roles \cup {"none"}]
  /\ sessions \in [Tokens -> Credential \cup {Nothing}]
  /\ keys \in [Keys -> Credential \cup {Nothing}]
  /\ requests \in [Requests -> Request]
  /\ edits \in 0 .. MaxEdits
  /\ issued \in SUBSET (Tokens \cup Keys)
  /\ best \in [Names -> 0 .. 3]
  /\ setups \in SUBSET Names

Power(p) == IF p = Root THEN 3 ELSE best[p]
Held == {sessions[t] : t \in Tokens} \cup {keys[k] : k \in Keys}
InFlight == {requests[r] : r \in {q \in Requests : At(q, "handler") \/ At(q, "key")}}

\* Nobody holds more than they were ever given: the role of every session,
\* every API key and every request on its way was held, at some time, by the
\* person presenting it.  Keys created for others, keys that outlive their
\* account and accounts created anew under an old name are all included.
RolesEarned == \A c \in Held \cup InFlight : c # Nothing => Rank[c.role] <= Power(c.by)

\* docs/admin/users-auth.md: no anonymous access after the first-boot setup.
NoAnonymousAccess == setups # {} => static \/ Present # {}
=============================================================================
