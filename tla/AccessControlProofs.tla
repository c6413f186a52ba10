------------------------ MODULE AccessControlProofs ------------------------
(***************************************************************************)
(* Proofs about AccessControl for any number of names, tokens, keys and    *)
(* requests, and about the license that gates the Pro routes (Licensing).  *)
(***************************************************************************)
EXTENDS AccessControl, Licensing, TLAPS

Person == Names \cup {Root}

\* TypeOK without the flag that never changes.
Types ==
  /\ accounts \in [Names -> Roles \cup {"none"}]
  /\ sessions \in [Tokens -> Credential \cup {Nothing}]
  /\ keys \in [Keys -> Credential \cup {Nothing}]
  /\ requests \in [Requests -> Request]
  /\ edits \in 0 .. MaxEdits
  /\ issued \in SUBSET (Tokens \cup Keys)
  /\ best \in [Names -> 0 .. 3]
  /\ setups \in SUBSET Names

\* A credential, or a request's context, is no more than its bearer earned,
\* and only people who have been administrators bear one of another account.
PowerIn(p, b) == IF p = Root THEN 3 ELSE b[p]
Earned(c, b) == /\ Rank[c.role] <= PowerIn(c.by, b)
                /\ c.user = c.by \/ PowerIn(c.by, b) = 3

\* RolesEarned is not inductive: createAPIKey copies the present role of the
\* account, which must not be more than the bearer of the request has earned.
EarnInv ==
  /\ \A n \in Names : Rank[accounts[n]] <= best[n]
  /\ \A t \in Tokens : sessions[t] # Nothing => Earned(sessions[t], best)
  /\ \A k \in Keys : keys[k] # Nothing => Earned(keys[k], best)
  /\ \A r \in Requests : At(r, "handler") \/ At(r, "key") => Earned(requests[r], best)

-----------------------------------------------------------------------------
LEMMA Ranks == /\ Rank["none"] = 0 /\ Rank["readonly"] = 1
               /\ Rank["user"] = 2 /\ Rank["admin"] = 3
  BY DEF Rank

LEMMA RankTypes == \A role \in Roles \cup {"none"} : Rank[role] \in 0 .. 3
  BY Ranks DEF Roles

LEMMA PowerTypes == \A b \in [Names -> 0 .. 3], p \in Person : PowerIn(p, b) \in 0 .. 3
  BY DEF PowerIn, Person

\* Raising a name's rank takes nothing away from anybody.
LEMMA RiseKeeps ==
  ASSUME Types, NEW n \in Names, NEW role \in Roles, Rise(n, role)
  PROVE  /\ best' \in [Names -> 0 .. 3]
         /\ Rank[role] <= best'[n]
         /\ \A m \in Names : best[m] <= best'[m]
<1>1. Rank[role] \in 0 .. 3
  BY RankTypes
<1> QED
  BY <1>1 DEF Rise, Types

LEMMA StaticStays == ASSUME [Next]_vars PROVE static' = static
  BY DEF Next, vars, Login, AccessSteps, SetupSteps, AdminSteps, OwnSteps, OpenAccess,
         StaticAccess, SessionAccess, KeyAccess, Enter, RegisterCheck, RegisterAccount,
         RegisterLogin, createUser, setRole, deleteUser, createAPIKey, APIKeyCreate,
         deleteAPIKey, revokeSession, revokeAllSessions

-----------------------------------------------------------------------------
(* Types *)

LEMMA DoneTypes ==
  ASSUME Types, NEW r \in Requests, Done(r)
  PROVE  requests' \in [Requests -> Request]
  BY DEF Done, Types, Request

LEMMA HandlerTypes ==
  ASSUME Types, NEW r \in Requests
  PROVE  /\ At(r, "handler") => /\ requests[r].user \in Person
                                /\ requests[r].role \in Roles
                                /\ requests[r].by \in Person
         /\ At(r, "key") => /\ requests[r].user \in Names
                            /\ requests[r].role \in Roles
                            /\ requests[r].by \in Person
         /\ At(r, "login") => requests[r].user \in Names
<1>1. requests[r] \in Request
  BY DEF Types
<1> QED
  BY <1>1 DEF At, Request, Person

\* A session is opened for an account that exists, with its role.
LEMMA OpenSessionTypes ==
  ASSUME Types, NEW n \in Names, n \in Present, NEW t \in Tokens, OpenSession(n, t)
  PROVE  /\ sessions' \in [Tokens -> Credential \cup {Nothing}]
         /\ issued' \in SUBSET (Tokens \cup Keys)
<1>1. accounts[n] \in Roles
  BY DEF Types, Present
<1>2. [user |-> n, role |-> accounts[n], by |-> n] \in Credential
  BY <1>1 DEF Credential
<1> QED
  BY <1>2 DEF OpenSession, Types

LEMMA EndSessionsTypes ==
  ASSUME Types, NEW n, EndSessions(n)
  PROVE  sessions' \in [Tokens -> Credential \cup {Nothing}]
  BY DEF EndSessions, Types

LEMMA EditTypes == ASSUME Types, Edit PROVE edits' \in 0 .. MaxEdits
  BY MaxEditsAssumption DEF Edit, Types

LEMMA AccessTypes ==
  ASSUME Types, NEW r \in Requests, AccessSteps(r)
  PROVE  Types'
<1>1. ASSUME NEW user \in Person, NEW role \in Roles, NEW by \in Person,
             Enter(r, user, role, by)
      PROVE  Types'
  <2>1. [pc |-> "handler", user |-> user, role |-> role, by |-> by] \in Request
    BY DEF Request, Person
  <2> QED
    BY <1>1, <2>1 DEF Enter, Types
<1>2. Root \in Person /\ "admin" \in Roles
  BY DEF Person, Roles
<1>3. ASSUME NEW t \in Tokens, SessionAccess(r, t) PROVE Types'
  <2>1. sessions[t] \in Credential
    BY <1>3 DEF SessionAccess, Types
  <2> QED
    BY <1>1, <1>3, <2>1 DEF SessionAccess, Credential, Person
<1>4. ASSUME NEW k \in Keys, KeyAccess(r, k) PROVE Types'
  <2>1. keys[k] \in Credential
    BY <1>4 DEF KeyAccess, Types
  <2> QED
    BY <1>1, <1>4, <2>1 DEF KeyAccess, Credential, Person
<1> QED
  BY <1>1, <1>2, <1>3, <1>4 DEF AccessSteps, OpenAccess, StaticAccess

LEMMA SetupTypes ==
  ASSUME Types, NEW r \in Requests, SetupSteps(r)
  PROVE  Types'
<1>1. CASE RegisterCheck(r)
  <2>1. [pc |-> "register", role |-> "admin"] \in Request
    BY DEF Request
  <2> QED
    BY <1>1, <2>1 DEF RegisterCheck, Types
<1>2. ASSUME NEW n \in Names, RegisterAccount(r, n) PROVE Types'
  <2>1. CASE n \in Present
    BY <1>2, <2>1, DoneTypes DEF RegisterAccount, Types
  <2>2. CASE n \notin Present
    <3>1. [pc |-> "login", user |-> n, role |-> "admin"] \in Request
      BY DEF Request
    <3>2. best' \in [Names -> 0 .. 3]
      <4>1. Rank["admin"] \in 0 .. 3
        BY Ranks
      <4> QED
        BY <1>2, <2>2, <4>1 DEF RegisterAccount, Rise, Types
    <3>3. accounts' \in [Names -> Roles \cup {"none"}]
      BY <1>2, <2>2 DEF RegisterAccount, Types, Roles
    <3> QED
      BY <1>2, <2>2, <3>1, <3>2, <3>3 DEF RegisterAccount, Types
  <2> QED
    BY <2>1, <2>2
<1>3. ASSUME NEW t \in Tokens, RegisterLogin(r, t) PROVE Types'
  <2>1. requests' \in [Requests -> Request] /\ requests[r].user \in Names
    BY <1>3, DoneTypes, HandlerTypes DEF RegisterLogin
  <2>2. /\ sessions' \in [Tokens -> Credential \cup {Nothing}]
        /\ issued' \in SUBSET (Tokens \cup Keys)
    BY <1>3, <2>1, OpenSessionTypes DEF RegisterLogin, Types
  <2> QED
    BY <1>3, <2>1, <2>2 DEF RegisterLogin, Types
<1> QED
  BY <1>1, <1>2, <1>3 DEF SetupSteps

LEMMA AdminTypes ==
  ASSUME Types, NEW r \in Requests, AdminSteps(r)
  PROVE  Types'
<1>1. ASSUME NEW n \in Names, NEW role \in Roles, createUser(r, n, role) \/ setRole(r, n, role)
      PROVE  Types'
  <2>1. requests' \in [Requests -> Request] /\ edits' \in 0 .. MaxEdits
    BY <1>1, DoneTypes, EditTypes DEF createUser, setRole
  <2>2. sessions' \in [Tokens -> Credential \cup {Nothing}]
    BY <1>1, EndSessionsTypes DEF createUser, setRole, Types
  <2>3. best' \in [Names -> 0 .. 3]
    <3>1. Rank[role] \in 0 .. 3
      BY RankTypes
    <3> QED
      BY <1>1, <3>1 DEF createUser, setRole, Rise, Types
  <2> QED
    BY <1>1, <2>1, <2>2, <2>3 DEF createUser, setRole, Types
<1>2. ASSUME NEW n \in Names, deleteUser(r, n) PROVE Types'
  <2>1. requests' \in [Requests -> Request] /\ edits' \in 0 .. MaxEdits
        /\ sessions' \in [Tokens -> Credential \cup {Nothing}]
    BY <1>2, DoneTypes, EditTypes, EndSessionsTypes DEF deleteUser
  <2> QED
    BY <1>2, <2>1 DEF deleteUser, Types
<1> QED
  BY <1>1, <1>2 DEF AdminSteps

LEMMA OwnTypes ==
  ASSUME Types, NEW r \in Requests, OwnSteps(r)
  PROVE  Types'
<1>1. ASSUME NEW n \in Names, createAPIKey(r, n) PROVE Types'
  <2>1. requests[r].by \in Person /\ accounts[n] \in Roles
    BY <1>1, HandlerTypes DEF createAPIKey, Present, Types
  <2>2. [pc |-> "key", user |-> n, role |-> accounts[n], by |-> requests[r].by] \in Request
    BY <2>1 DEF Request, Person
  <2> QED
    BY <1>1, <2>2 DEF createAPIKey, Types
<1>2. ASSUME NEW k \in Keys, APIKeyCreate(r, k) PROVE Types'
  <2>1. [user |-> requests[r].user, role |-> requests[r].role, by |-> requests[r].by]
          \in Credential
    BY <1>2, HandlerTypes DEF APIKeyCreate, Credential, Person
  <2> QED
    BY <1>2, <2>1, DoneTypes DEF APIKeyCreate, Types
<1>3. ASSUME NEW k \in Keys, deleteAPIKey(r, k) PROVE Types'
  BY <1>3, DoneTypes DEF deleteAPIKey, Types
<1>4. ASSUME NEW t \in Tokens, revokeSession(r, t) PROVE Types'
  BY <1>4, DoneTypes DEF revokeSession, Types
<1>5. ASSUME NEW n \in Names, revokeAllSessions(r, n) PROVE Types'
  BY <1>5, DoneTypes, EndSessionsTypes DEF revokeAllSessions, Types
<1> QED
  BY <1>1, <1>2, <1>3, <1>4, <1>5 DEF OwnSteps

LEMMA TypesStep == Types /\ [Next]_vars => Types'
<1> SUFFICES ASSUME Types, [Next]_vars PROVE Types'
  OBVIOUS
<1>1. ASSUME NEW n \in Names, NEW t \in Tokens, Login(n, t) PROVE Types'
  BY <1>1, OpenSessionTypes DEF Login, Types
<1>2. CASE UNCHANGED vars
  BY <1>2 DEF vars, Types
<1> QED
  BY <1>1, <1>2, AccessTypes, SetupTypes, AdminTypes, OwnTypes DEF Next

LEMMA InitTypes == Init => Types
<1> SUFFICES ASSUME Init PROVE Types
  OBVIOUS
<1>1. accounts \in [Names -> Roles \cup {"none"}]
  BY DEF Init, Roles
<1>2. best \in [Names -> 0 .. 3]
  BY <1>1, RankTypes DEF Init
<1> QED
  BY <1>1, <1>2, MaxEditsAssumption DEF Init, Types, Request, Roles

\* Every state of the access control is well typed.
THEOREM TypeCorrect == Spec => []TypeOK
<1>1. Init => TypeOK
  <2> SUFFICES ASSUME Init PROVE TypeOK
    OBVIOUS
  <2>1. Types /\ static \in BOOLEAN
    BY InitTypes DEF Init
  <2> QED
    BY <2>1, Zenon DEF Types, TypeOK
<1>2. TypeOK /\ [Next]_vars => TypeOK'
  <2> SUFFICES ASSUME TypeOK, [Next]_vars PROVE TypeOK'
    OBVIOUS
  <2>1. Types /\ static \in BOOLEAN
    BY Zenon DEF Types, TypeOK
  <2>2. Types' /\ static' \in BOOLEAN
    BY <2>1, TypesStep, StaticStays
  <2> QED
    BY <2>2, Zenon DEF Types, TypeOK
<1> QED
  BY <1>1, <1>2, PTL DEF Spec

-----------------------------------------------------------------------------
(* Nobody holds more than they were given *)

\* What was earned stays earned while ranks only rise.
LEMMA EarnedStays ==
  ASSUME NEW b \in [Names -> 0 .. 3], NEW d \in [Names -> 0 .. 3],
         \A m \in Names : b[m] <= d[m],
         NEW c, c.role \in Roles, c.by \in Person, Earned(c, b)
  PROVE  Earned(c, d)
<1>1. Rank[c.role] \in 0 .. 3 /\ PowerIn(c.by, b) \in 0 .. 3
  BY RankTypes, PowerTypes
<1>2. PowerIn(c.by, d) \in 0 .. 3 /\ PowerIn(c.by, b) <= PowerIn(c.by, d)
  <2>1. CASE c.by = Root
    BY <2>1 DEF PowerIn
  <2>2. CASE c.by # Root
    BY <2>2 DEF PowerIn, Person
  <2> QED
    BY <2>1, <2>2
<1> QED
  BY <1>1, <1>2 DEF Earned

LEMMA BestRises ==
  ASSUME Types, [Next]_vars
  PROVE  /\ \A m \in Names : best[m] <= best'[m]
         /\ \A n \in Names : accounts'[n] = accounts[n] \/ Rank[accounts'[n]] <= best'[n]
<1>1. ASSUME NEW n \in Names, NEW role \in Roles, Rise(n, role),
             accounts' = [accounts EXCEPT ![n] = role]
      PROVE  /\ \A m \in Names : best[m] <= best'[m]
             /\ \A m \in Names : accounts'[m] = accounts[m] \/ Rank[accounts'[m]] <= best'[m]
  BY <1>1, RiseKeeps DEF Types
<1>2. ASSUME NEW r \in Requests, NEW n \in Names, deleteUser(r, n)
      PROVE  /\ best' = best
             /\ \A m \in Names : accounts'[m] = accounts[m] \/ accounts'[m] = "none"
  BY <1>2 DEF deleteUser, Types
<1>3. ASSUME best' = best, accounts' = accounts
      PROVE  \A m \in Names : best[m] <= best'[m]
  BY <1>3 DEF Types
<1>4. ASSUME NEW r \in Requests, NEW n \in Names, NEW role \in Roles,
             createUser(r, n, role) \/ setRole(r, n, role)
      PROVE  Rise(n, role) /\ accounts' = [accounts EXCEPT ![n] = role]
  BY <1>4 DEF createUser, setRole
<1>5. ASSUME NEW r \in Requests, NEW n \in Names, RegisterAccount(r, n)
      PROVE  \/ Rise(n, "admin") /\ accounts' = [accounts EXCEPT ![n] = "admin"]
             \/ best' = best /\ accounts' = accounts
  BY <1>5 DEF RegisterAccount
<1>6. "admin" \in Roles /\ \A n \in Names : best[n] \in 0 .. 3
  BY DEF Roles, Types
<1>7. CASE \E r \in Requests, n \in Names : deleteUser(r, n)
  BY <1>2, <1>6, <1>7, Ranks
<1>8. CASE \E r \in Requests, n \in Names, role \in Roles :
             createUser(r, n, role) \/ setRole(r, n, role)
  BY <1>1, <1>4, <1>8
<1>9. CASE \E r \in Requests, n \in Names : RegisterAccount(r, n)
  BY <1>1, <1>3, <1>5, <1>6, <1>9
<1>10. CASE best' = best /\ accounts' = accounts
  BY <1>3, <1>10
<1>11. ASSUME NEW r \in Requests, AccessSteps(r) \/ OwnSteps(r)
       PROVE  best' = best /\ accounts' = accounts
  BY <1>11 DEF AccessSteps, OwnSteps, OpenAccess, StaticAccess, SessionAccess, KeyAccess,
       Enter, createAPIKey, APIKeyCreate, deleteAPIKey, revokeSession, revokeAllSessions
<1> QED
  BY <1>7, <1>8, <1>9, <1>10, <1>11 DEF Next, vars, Login, SetupSteps, RegisterCheck,
     RegisterLogin, AdminSteps

\* The sessions after a step: old ones, or one for an account with its role.
LEMMA SessionsEarned ==
  ASSUME Types, EarnInv, [Next]_vars, NEW t \in Tokens
  PROVE  \/ sessions'[t] = Nothing
         \/ sessions'[t] = sessions[t]
         \/ \E n \in Names : sessions'[t] = [user |-> n, role |-> accounts[n], by |-> n]
<1>1. ASSUME NEW n \in Names, NEW s \in Tokens, OpenSession(n, s)
      PROVE  \/ sessions'[t] = sessions[t]
             \/ sessions'[t] = [user |-> n, role |-> accounts[n], by |-> n]
  BY <1>1 DEF OpenSession, Types
<1>2. ASSUME NEW n, EndSessions(n)
      PROVE  sessions'[t] = Nothing \/ sessions'[t] = sessions[t]
  BY <1>2 DEF EndSessions
<1>3. ASSUME NEW n \in Names, NEW s \in Tokens, Login(n, s)
      PROVE  OpenSession(n, s)
  BY <1>3 DEF Login
<1>4. ASSUME NEW r \in Requests, NEW s \in Tokens, RegisterLogin(r, s)
      PROVE  sessions' = sessions \/ (requests[r].user \in Names /\ OpenSession(requests[r].user, s))
  BY <1>4, HandlerTypes DEF RegisterLogin
<1>5. ASSUME NEW r \in Requests, NEW s \in Tokens, revokeSession(r, s)
      PROVE  sessions'[t] = Nothing \/ sessions'[t] = sessions[t]
  BY <1>5 DEF revokeSession, Types
<1>6. ASSUME NEW r \in Requests, AdminSteps(r)
      PROVE  sessions' = sessions \/ \E n \in Names : EndSessions(n)
  BY <1>6 DEF AdminSteps, createUser, setRole, deleteUser
<1>7. ASSUME NEW r \in Requests, AccessSteps(r)
      PROVE  sessions' = sessions
  BY <1>7 DEF AccessSteps, OpenAccess, StaticAccess, SessionAccess, KeyAccess, Enter
<1>8. ASSUME NEW r \in Requests, SetupSteps(r)
      PROVE  sessions' = sessions \/ \E s \in Tokens : RegisterLogin(r, s)
  BY <1>8 DEF SetupSteps, RegisterCheck, RegisterAccount
<1>9. ASSUME NEW r \in Requests, OwnSteps(r)
      PROVE  \/ sessions' = sessions
             \/ \E n \in Names : EndSessions(n)
             \/ \E s \in Tokens : revokeSession(r, s)
  BY <1>9 DEF OwnSteps, createAPIKey, APIKeyCreate, deleteAPIKey, revokeAllSessions
<1>10. CASE UNCHANGED vars
  BY <1>10 DEF vars
<1>11. CASE \E n \in Names, s \in Tokens : Login(n, s)
  BY <1>1, <1>3, <1>11
<1>12. CASE \E r \in Requests : AccessSteps(r)
  BY <1>7, <1>12
<1>13. CASE \E r \in Requests : SetupSteps(r)
  BY <1>1, <1>4, <1>8, <1>13
<1>14. CASE \E r \in Requests : AdminSteps(r)
  BY <1>2, <1>6, <1>14
<1>15. CASE \E r \in Requests : OwnSteps(r)
  BY <1>2, <1>5, <1>9, <1>15
<1> QED
  BY <1>10, <1>11, <1>12, <1>13, <1>14, <1>15 DEF Next

\* The keys after a step: old ones, or one that copies a request.
LEMMA KeysEarned ==
  ASSUME Types, [Next]_vars, NEW k \in Keys
  PROVE  \/ keys'[k] = Nothing
         \/ keys'[k] = keys[k]
         \/ \E r \in Requests :
              /\ At(r, "key")
              /\ keys'[k] = [user |-> requests[r].user, role |-> requests[r].role,
                             by |-> requests[r].by]
<1>1. ASSUME NEW r \in Requests, NEW j \in Keys, APIKeyCreate(r, j)
      PROVE  /\ At(r, "key")
             /\ \/ keys'[k] = keys[k]
                \/ keys'[k] = [user |-> requests[r].user, role |-> requests[r].role,
                               by |-> requests[r].by]
  BY <1>1 DEF APIKeyCreate, Types
<1>2. ASSUME NEW r \in Requests, NEW j \in Keys, deleteAPIKey(r, j)
      PROVE  keys'[k] = Nothing \/ keys'[k] = keys[k]
  BY <1>2 DEF deleteAPIKey, Types
<1>3. \/ keys' = keys
      \/ \E r \in Requests, j \in Keys : APIKeyCreate(r, j) \/ deleteAPIKey(r, j)
  BY DEF Next, vars, Login, AccessSteps, SetupSteps, AdminSteps, OwnSteps, OpenAccess,
         StaticAccess, SessionAccess, KeyAccess, Enter, RegisterCheck, RegisterAccount,
         RegisterLogin, createUser, setRole, deleteUser, createAPIKey, revokeSession,
         revokeAllSessions
<1> QED
  BY <1>1, <1>2, <1>3

Copies(q, c) == q.user = c.user /\ q.role = c.role /\ q.by = c.by

\* A request with a context after a step: an old one, one of the
\* administrator without an account, a copy of a credential, or one that has
\* read the role of an account it may act for.
LEMMA RequestsEarned ==
  ASSUME Types, [Next]_vars, NEW r \in Requests,
         At(r, "handler")' \/ At(r, "key")'
  PROVE  \/ requests'[r] = requests[r]
         \/ Copies(requests'[r], [user |-> Root, role |-> "admin", by |-> Root])
         \/ \E t \in Tokens : sessions[t] # Nothing /\ Copies(requests'[r], sessions[t])
         \/ \E k \in Keys : keys[k] # Nothing /\ Copies(requests'[r], keys[k])
         \/ \E n \in Names : /\ At(r, "handler") /\ MayActFor(r, n)
                             /\ Copies(requests'[r], [user |-> n, role |-> accounts[n],
                                                      by |-> requests[r].by])
<1> USE DEF Copies
<1>1. ASSUME NEW q \in Requests, Done(q) PROVE requests'[r] = requests[r]
  BY <1>1 DEF Done, At, Types
<1>2. ASSUME NEW q \in Requests, NEW user, NEW role, NEW by, Enter(q, user, role, by)
      PROVE  \/ requests'[r] = requests[r]
             \/ Copies(requests'[r], [user |-> user, role |-> role, by |-> by])
  BY <1>2 DEF Enter, Types
<1>3. ASSUME NEW q \in Requests, AccessSteps(q)
      PROVE  \/ requests'[r] = requests[r]
             \/ Copies(requests'[r], [user |-> Root, role |-> "admin", by |-> Root])
             \/ \E t \in Tokens : sessions[t] # Nothing /\ Copies(requests'[r], sessions[t])
             \/ \E k \in Keys : keys[k] # Nothing /\ Copies(requests'[r], keys[k])
  BY <1>2, <1>3 DEF AccessSteps, OpenAccess, StaticAccess, SessionAccess, KeyAccess
<1>4. ASSUME NEW q \in Requests, RegisterCheck(q) PROVE requests'[r] = requests[r]
  BY <1>4 DEF RegisterCheck, At, Types
<1>5. ASSUME NEW q \in Requests, NEW n \in Names, RegisterAccount(q, n)
      PROVE  requests'[r] = requests[r]
  BY <1>1, <1>5 DEF RegisterAccount, At, Types
<1>6. ASSUME NEW q \in Requests, SetupSteps(q) PROVE requests'[r] = requests[r]
  BY <1>1, <1>4, <1>5, <1>6 DEF SetupSteps, RegisterLogin
<1>7. ASSUME NEW q \in Requests, AdminSteps(q) PROVE requests'[r] = requests[r]
  BY <1>1, <1>7 DEF AdminSteps, createUser, setRole, deleteUser
<1>8. ASSUME NEW q \in Requests, NEW n \in Names, createAPIKey(q, n)
      PROVE  \/ requests'[r] = requests[r]
             \/ /\ At(r, "handler") /\ MayActFor(r, n)
                /\ Copies(requests'[r], [user |-> n, role |-> accounts[n],
                                         by |-> requests[r].by])
  BY <1>8 DEF createAPIKey, Types
<1>9. ASSUME NEW q \in Requests, OwnSteps(q)
      PROVE  Done(q) \/ \E n \in Names : createAPIKey(q, n)
  BY <1>9 DEF OwnSteps, APIKeyCreate, deleteAPIKey, revokeSession, revokeAllSessions
<1>10. CASE requests' = requests
  BY <1>10
<1>11. CASE \E q \in Requests : AccessSteps(q)
  BY <1>3, <1>11
<1>12. CASE \E q \in Requests : SetupSteps(q) \/ AdminSteps(q)
  BY <1>6, <1>7, <1>12
<1>13. CASE \E q \in Requests : OwnSteps(q)
  BY <1>1, <1>8, <1>9, <1>13
<1> QED
  BY <1>10, <1>11, <1>12, <1>13 DEF Next, vars, Login

LEMMA EarnedCopies == \A q, c, b : Copies(q, c) /\ Earned(c, b) => Earned(q, b)
  BY DEF Copies, Earned

LEMMA EarnInvStep == Types /\ EarnInv /\ [Next]_vars => EarnInv'
<1> SUFFICES ASSUME Types, EarnInv, [Next]_vars PROVE EarnInv'
  OBVIOUS
<1>1. Types' /\ best \in [Names -> 0 .. 3] /\ best' \in [Names -> 0 .. 3]
  BY TypesStep DEF Types
<1>2. \A m \in Names : best[m] <= best'[m]
  BY BestRises
<1>3. \A c : c.role \in Roles /\ c.by \in Person /\ Earned(c, best) => Earned(c, best')
  BY <1>1, <1>2, EarnedStays
<1>4. \A n \in Names : Rank[accounts'[n]] <= best'[n]
  <2> SUFFICES ASSUME NEW n \in Names PROVE Rank[accounts'[n]] <= best'[n]
    OBVIOUS
  <2>1. Rank[accounts[n]] <= best[n] /\ Rank[accounts[n]] \in 0 .. 3
    BY RankTypes DEF EarnInv, Types
  <2>2. best[n] \in 0 .. 3 /\ best'[n] \in 0 .. 3 /\ best[n] <= best'[n]
    BY <1>1, <1>2
  <2> QED
    BY <2>1, <2>2, BestRises
<1>5. \A n \in Names : Earned([user |-> n, role |-> accounts[n], by |-> n], best)
  <2> SUFFICES ASSUME NEW n \in Names
               PROVE  Earned([user |-> n, role |-> accounts[n], by |-> n], best)
    OBVIOUS
  <2>1. Rank[accounts[n]] <= best[n] /\ Rank[accounts[n]] \in 0 .. 3 /\ best[n] \in 0 .. 3
    BY RankTypes DEF EarnInv, Types
  <2>2. Rank[accounts[n]] <= PowerIn(n, best)
    BY <2>1 DEF PowerIn
  <2> QED
    BY <2>2 DEF Earned
<1>6. \A t \in Tokens : sessions'[t] # Nothing => Earned(sessions'[t], best')
  <2> SUFFICES ASSUME NEW t \in Tokens, sessions'[t] # Nothing
               PROVE  Earned(sessions'[t], best')
    OBVIOUS
  <2>1. sessions'[t].role \in Roles /\ sessions'[t].by \in Person
    BY <1>1 DEF Types, Credential, Person
  <2>2. Earned(sessions'[t], best)
    BY <1>5, SessionsEarned DEF EarnInv
  <2> QED
    BY <1>3, <2>1, <2>2
<1>7. \A k \in Keys : keys'[k] # Nothing => Earned(keys'[k], best')
  <2> SUFFICES ASSUME NEW k \in Keys, keys'[k] # Nothing
               PROVE  Earned(keys'[k], best')
    OBVIOUS
  <2>1. keys'[k].role \in Roles /\ keys'[k].by \in Person
    BY <1>1 DEF Types, Credential, Person
  <2>2. ASSUME NEW r \in Requests, At(r, "key"),
               keys'[k] = [user |-> requests[r].user, role |-> requests[r].role,
                           by |-> requests[r].by]
        PROVE  Earned(keys'[k], best)
    <3>1. Copies(keys'[k], requests[r]) /\ Earned(requests[r], best)
      BY <2>2 DEF Copies, EarnInv
    <3> QED
      BY <3>1, EarnedCopies
  <2>3. Earned(keys'[k], best)
    BY <2>2, KeysEarned DEF EarnInv
  <2> QED
    BY <1>3, <2>1, <2>3
<1>8. \A r \in Requests :
        At(r, "handler")' \/ At(r, "key")' => Earned(requests'[r], best')
  <2> SUFFICES ASSUME NEW r \in Requests, At(r, "handler")' \/ At(r, "key")'
               PROVE  Earned(requests'[r], best')
    OBVIOUS
  <2>1. requests'[r].role \in Roles /\ requests'[r].by \in Person
    <3>1. requests'[r] \in Request
      BY <1>1 DEF Types
    <3> QED
      BY <3>1 DEF At, Request, Person
  <2>2. ASSUME requests'[r] = requests[r] PROVE Earned(requests'[r], best)
    BY <2>2 DEF EarnInv, At
  <2>3. ASSUME Copies(requests'[r], [user |-> Root, role |-> "admin", by |-> Root])
        PROVE  Earned(requests'[r], best)
    <3>1. Earned([user |-> Root, role |-> "admin", by |-> Root], best)
      BY Ranks DEF Earned, PowerIn
    <3> QED
      BY <2>3, <3>1, EarnedCopies
  <2>4. ASSUME NEW t \in Tokens, sessions[t] # Nothing, Copies(requests'[r], sessions[t])
        PROVE  Earned(requests'[r], best)
    BY <2>4, EarnedCopies DEF EarnInv
  <2>5. ASSUME NEW k \in Keys, keys[k] # Nothing, Copies(requests'[r], keys[k])
        PROVE  Earned(requests'[r], best)
    BY <2>5, EarnedCopies DEF EarnInv
  <2>6. ASSUME NEW n \in Names, At(r, "handler"), MayActFor(r, n),
               Copies(requests'[r], [user |-> n, role |-> accounts[n], by |-> requests[r].by])
        PROVE  Earned(requests'[r], best)
    <3> DEFINE p == requests[r].by
    <3>1. Earned(requests[r], best) /\ p \in Person /\ PowerIn(p, best) \in 0 .. 3
      BY <1>1, <2>6, HandlerTypes, PowerTypes DEF EarnInv
    <3>2. Rank[accounts[n]] \in 0 .. 3 /\ best[n] \in 0 .. 3 /\ Rank[accounts[n]] <= best[n]
      BY RankTypes DEF EarnInv, Types
    <3>3. CASE PowerIn(p, best) = 3
      <4>1. Earned([user |-> n, role |-> accounts[n], by |-> p], best)
        BY <3>2, <3>3 DEF Earned
      <4> QED
        BY <2>6, <4>1, EarnedCopies
    <3>4. CASE PowerIn(p, best) # 3
      <4>1. requests[r].user = p /\ requests[r].role # "admin"
        BY <3>1, <3>4, Ranks DEF Earned
      <4>2. n = p
        BY <2>6, <4>1 DEF MayActFor
      <4> QED
        BY <1>5, <2>6, <4>2, EarnedCopies
    <3> QED
      BY <3>3, <3>4
  <2>7. Earned(requests'[r], best)
    BY <2>2, <2>3, <2>4, <2>5, <2>6, RequestsEarned
  <2> QED
    BY <1>3, <2>1, <2>7
<1> QED
  BY <1>4, <1>6, <1>7, <1>8 DEF EarnInv

\* Nobody ever holds a session, an API key or a request of a higher role than
\* the highest they were given, for any number of users and requests.
THEOREM EarnedCorrect == Spec => []RolesEarned
<1>1. Init => Types /\ EarnInv
  <2> SUFFICES ASSUME Init PROVE Types /\ EarnInv
    OBVIOUS
  <2>1. Types
    BY InitTypes
  <2>2. \A n \in Names : Rank[accounts[n]] <= best[n]
    BY <2>1, RankTypes DEF Init, Types
  <2> QED
    BY <2>1, <2>2 DEF Init, EarnInv, At
<1>2. (Types /\ EarnInv) /\ [Next]_vars => (Types /\ EarnInv)'
  BY TypesStep, EarnInvStep
<1>3. Types /\ EarnInv => RolesEarned
  <2> SUFFICES ASSUME EarnInv, NEW c \in Held \cup InFlight, c # Nothing
               PROVE  Rank[c.role] <= Power(c.by)
    BY DEF RolesEarned
  <2>1. Earned(c, best)
    BY DEF Held, InFlight, EarnInv
  <2> QED
    BY <2>1 DEF Earned, PowerIn, Power
<1> QED
  BY <1>1, <1>2, <1>3, PTL DEF Spec

-----------------------------------------------------------------------------
(***************************************************************************)
(* What an administrator was told about a license takes effect, for any    *)
(* set of tokens and any number of uploads, clears and restarts.           *)
(*                                                                         *)
(* The key file decides what a start brings about, so the argument is      *)
(* about the file: it holds the accepted token, decoded and sound, or      *)
(* nothing that Verify takes.  The license of the process is then that of  *)
(* the token that was accepted when it started.                            *)
(***************************************************************************)
\* The license l is what Verify made of the token t.
FromToken(l, t) == l.tier = t.tier /\ l.nodes = t.nodes /\ l.exp = t.exp

FileOK ==
  \/ accepted = Missing /\ keyFile \in {Missing, Torn}
  \/ \E t \in Token : accepted = Raw(t) /\ keyFile = Raw(t) /\ Sound(Raw(t))

ProcessOK ==
  \/ effective = Missing /\ lic = NoLicense
  \/ \E t \in Token : effective = Raw(t) /\ Sound(Raw(t)) /\ FromToken(lic, t)

ServedOK == \A s \in served : s.lic.tier = "pro"

\* The inductive invariant.
LicInv == now \in Nat /\ FileOK /\ ProcessOK /\ ServedOK

LEMMA Forms ==
  ASSUME NEW t
  PROVE  /\ Raw(t) # Missing /\ Torn # Missing /\ Raw(t).token = t
         /\ Decoded(Raw(t)) = Raw(t) /\ Decoded(Coded(t)) = Raw(t) /\ Coded(t).token = t
BY DEF Raw, Coded, Torn, Missing, Decoded

\* Verify takes nothing that is torn, and makes of a sound token its license.
LEMMA VerifyTorn == Verify(Torn).lic = NoLicense
BY DEF Verify, Sound, Torn

LEMMA VerifySound ==
  ASSUME NEW t
  PROVE  /\ Verify(Raw(t)).err = "none" => Sound(Raw(t))
         /\ Sound(Raw(t)) => FromToken(Verify(Raw(t)).lic, t)
<1>1. Raw(t).token = t
  BY DEF Raw
<1>2. Verify(Raw(t)).err = "none" => Sound(Raw(t))
  BY DEF Verify
<1>3. FromToken(License(t), t) /\ FromToken([License(t) EXCEPT !.trial = FALSE], t)
  BY DEF FromToken, License
<1>4. Sound(Raw(t)) => FromToken(Verify(Raw(t)).lic, t)
  BY <1>1, <1>3 DEF Verify
<1> QED
  BY <1>2, <1>4

\* The invariant says what was promised.
LEMMA LicInvImplies ==
  ASSUME LicInv
  PROVE  TakesEffect
<1>1. NoLicense.tier = "none"
  BY DEF NoLicense
<1>2. CASE effective = Missing /\ lic = NoLicense
  BY <1>2 DEF TakesEffect, licenseStatus, LicInv, ServedOK
<1>3. ASSUME NEW t \in Token, effective = Raw(t), Sound(Raw(t)), FromToken(lic, t)
      PROVE  TakesEffect
  <2>1. effective # Missing /\ effective.token = t
    BY <1>3, Forms
  <2>2. t.signed /\ t.tier \in {"home", "pro"}
    BY <1>3, <2>1 DEF Sound
  <2>3. lic # NoLicense /\ lic.tier = t.tier /\ lic.nodes = t.nodes /\ lic.exp = t.exp
    BY <1>1, <1>3, <2>2 DEF FromToken
  <2>4. licenseStatus.status = IF Past(t.exp) THEN "expired" ELSE "ok"
    BY <2>3 DEF licenseStatus, IsExpired
  <2>5. licenseStatus.days = DaysRemaining(lic)
    BY DEF licenseStatus
  <2>6. DaysRemaining(lic) = 0 => t.exp \in 1 .. (now + HalfDays - 1)
    BY <2>3, TokenAssumption DEF DaysRemaining, HalfDays, LicInv
  <2>7. Past(t.exp) => DaysRemaining(lic) = 0
    BY <2>3, TokenAssumption DEF DaysRemaining, Past, LicInv
  <2> QED
    BY <2>1, <2>2, <2>3, <2>4, <2>5, <2>6, <2>7 DEF TakesEffect, LicInv, ServedOK
<1> QED
  BY <1>2, <1>3 DEF LicInv, ProcessOK

LEMMA LicInitInv == LicInit => LicInv
BY DEF LicInit, LicInv, FileOK, ProcessOK, ServedOK

-----------------------------------------------------------------------------
(* One step per action.                                                    *)

LEMMA StartStep == ASSUME LicInv, Start PROVE LicInv'
<1>1. /\ lic' = IF keyFile = Missing THEN NoLicense ELSE Verify(keyFile).lic
      /\ effective' = accepted /\ UNCHANGED <<now, keyFile, accepted, served>>
  BY DEF Start
<1>2. ProcessOK'
  <2>1. CASE accepted = Missing /\ keyFile \in {Missing, Torn}
    BY <1>1, <2>1, VerifyTorn DEF ProcessOK
  <2>2. ASSUME NEW t \in Token, accepted = Raw(t), keyFile = Raw(t), Sound(Raw(t))
        PROVE  ProcessOK'
    <3>1. lic' = Verify(Raw(t)).lic
      BY <1>1, <2>2, Forms
    <3>2. FromToken(lic', t)
      BY <2>2, <3>1, VerifySound
    <3>3. Sound(Raw(t))'
      BY <2>2 DEF Sound, Raw
    <3> QED
      BY <1>1, <2>2, <3>2, <3>3 DEF ProcessOK
  <2> QED
    BY <2>1, <2>2 DEF LicInv, FileOK
<1> QED
  BY <1>1, <1>2 DEF LicInv, FileOK, ServedOK, Sound, Raw

\* What the handlers do to the file; they leave the process alone.
LEMMA AdminStep ==
  ASSUME LicInv, FileOK', UNCHANGED <<now, lic, effective, served>>
  PROVE  LicInv'
BY DEF LicInv, ProcessOK, ServedOK, FromToken

LEMMA UploadStep ==
  ASSUME LicInv, NEW t \in Token, NEW body \in {Raw(t), Coded(t)}, licenseUploadHandler(body)
  PROVE  LicInv'
<1>1. Decoded(body) = Raw(t) /\ body.token = t
  BY Forms
<1>2. UNCHANGED <<now, lic, effective, served>>
  BY DEF licenseUploadHandler
<1>3. CASE UNCHANGED <<keyFile, accepted>>
  BY <1>2, <1>3, AdminStep DEF LicInv, FileOK
<1>4. CASE /\ Verify(Decoded(body)).err = "none"
           /\ keyFile' = Installed(body) /\ accepted' = Raw(body.token)
  <2>1. Sound(Raw(t)) /\ keyFile' = Raw(t) /\ accepted' = Raw(t)
    BY <1>1, <1>4, VerifySound DEF Installed
  <2>2. FileOK'
    BY <2>1 DEF FileOK
  <2> QED
    BY <1>2, <2>2, AdminStep
<1>5. CASE keyFile' = Torn /\ accepted' = Missing
  BY <1>2, <1>5, AdminStep DEF FileOK
<1> QED
  BY <1>3, <1>4, <1>5 DEF licenseUploadHandler

LEMMA ClearStep == ASSUME LicInv, licenseClearHandler PROVE LicInv'
<1>1. UNCHANGED <<now, lic, effective, served>>
  BY DEF licenseClearHandler
<1>2. FileOK'
  BY DEF licenseClearHandler, LicInv, FileOK
<1> QED
  BY <1>1, <1>2, AdminStep

LEMMA GateStep == ASSUME LicInv, NEW f \in Feature, requireFeature(f) PROVE LicInv'
<1>1. lic.tier = "pro" /\ served' = {[lic |-> lic, at |-> now]}
      /\ UNCHANGED <<now, keyFile, lic, accepted, effective>>
  BY DEF requireFeature, HasFeature
<1>2. ServedOK'
  BY <1>1 DEF ServedOK
<1> QED
  BY <1>1, <1>2 DEF LicInv, FileOK, ProcessOK, FromToken

LEMMA ClockStep ==
  ASSUME LicInv, now' \in Nat, UNCHANGED <<keyFile, lic, accepted, effective, served>>
  PROVE  LicInv'
BY DEF LicInv, FileOK, ProcessOK, ServedOK, FromToken

\* After an upload that was answered ok the next process runs with that token,
\* refused uploads in between or not, after a clear or a torn write with none, the
\* status page says so, with the whole days that are left, and Pro
\* routes are answered to Pro tokens only (licenseUploadHandler, main, Verify).
THEOREM TakesEffectCorrect == LicSpec => []TakesEffect
<1>1. LicInit => LicInv
  BY LicInitInv
<1>2. LicInv /\ [LicNext]_licVars => LicInv'
  <2> SUFFICES ASSUME LicInv, [LicNext]_licVars PROVE LicInv'
    OBVIOUS
  <2>1. CASE Start
    BY <2>1, StartStep
  <2>2. CASE Stop
    BY <2>2, ClockStep DEF Stop, LicInv
  <2>3. CASE Tick
    BY <2>3, ClockStep DEF Tick, LicInv
  <2>4. CASE licenseClearHandler
    BY <2>4, ClearStep
  <2>5. ASSUME NEW t \in Token, licenseUploadHandler(Raw(t)) \/ licenseUploadHandler(Coded(t))
        PROVE  LicInv'
    BY <2>5, UploadStep
  <2>6. ASSUME NEW f \in Feature, requireFeature(f)
        PROVE  LicInv'
    BY <2>6, GateStep
  <2>7. CASE UNCHANGED licVars
    BY <2>7, ClockStep DEF licVars, LicInv
  <2> QED
    BY <2>1, <2>2, <2>3, <2>4, <2>5, <2>6, <2>7 DEF LicNext
<1>3. LicInv => TakesEffect
  BY LicInvImplies
<1> QED
  BY <1>1, <1>2, <1>3, PTL DEF LicSpec
=============================================================================
