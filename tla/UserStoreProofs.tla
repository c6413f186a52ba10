-------------------------- MODULE UserStoreProofs --------------------------
(***************************************************************************)
(* Proofs about UserStore for any set of names, tokens, codes, requests    *)
(* and goroutines, and any bounds.                                         *)
(***************************************************************************)
EXTENDS UserStore, SequenceTheorems, TLAPS

\* The shape every list of accounts has, in memory and on disk.
AccountList(us) ==
  /\ us \in Seq(User)
  /\ \A i, j \in DOMAIN us : us[i].name = us[j].name => i = j

-----------------------------------------------------------------------------
(* The operations on lists of accounts *)

\* findUserLocked returns the position of the one account with that name.
LEMMA IndexOfFinds ==
  ASSUME AccountList(users), NEW n, Has(n)
  PROVE  IndexOf(n) \in DOMAIN users /\ users[IndexOf(n)].name = n
<1>1. PICK i \in DOMAIN users : users[i].name = n
  BY DEF Has
<1>2. i \in Nat
  BY LenProperties DEF AccountList
<1>3. \A j \in DOMAIN users : users[j].name = n => i <= j
  BY <1>1, <1>2 DEF AccountList
<1> QED
  BY <1>1, <1>3 DEF IndexOf

\* Writing fields other than the name keeps a list of accounts one.
LEMMA EditKeepsList ==
  ASSUME NEW us, AccountList(us), NEW i \in DOMAIN us, NEW u \in User,
         u.name = us[i].name
  PROVE  AccountList([us EXCEPT ![i] = u])
<1> DEFINE vs == [us EXCEPT ![i] = u]
<1>1. Len(us) \in Nat /\ us \in [1 .. Len(us) -> User] /\ DOMAIN us = 1 .. Len(us)
  BY LenProperties DEF AccountList
<1>2. vs \in [1 .. Len(us) -> User]
  BY <1>1
<1>3. vs \in Seq(User)
  BY <1>1, <1>2, SeqDef
<1>4. DOMAIN vs = DOMAIN us /\ \A j \in DOMAIN us : vs[j].name = us[j].name
  BY <1>1
<1> QED
  BY <1>3, <1>4 DEF AccountList

\* Register appends an account whose name is new.
LEMMA AppendKeepsList ==
  ASSUME NEW us, AccountList(us), NEW u \in User,
         \A i \in DOMAIN us : us[i].name # u.name
  PROVE  /\ AccountList(Append(us, u))
         /\ \A i \in DOMAIN us : i \in DOMAIN Append(us, u) /\ Append(us, u)[i] = us[i]
<1> DEFINE vs == Append(us, u)
<1>1. us \in Seq(User) /\ Len(us) \in Nat /\ DOMAIN us = 1 .. Len(us)
  BY LenProperties DEF AccountList
<1>2. vs \in Seq(User) /\ Len(vs) = Len(us) + 1 /\ vs[Len(us) + 1] = u
      /\ \A i \in 1 .. Len(us) : vs[i] = us[i]
  BY <1>1, AppendProperties
<1>3. DOMAIN vs = 1 .. (Len(us) + 1)
  BY <1>1, <1>2, LenProperties
<1> HIDE DEF vs
<1>4. \A i, j \in DOMAIN vs : vs[i].name = vs[j].name => i = j
  BY <1>1, <1>2, <1>3 DEF AccountList
<1>5. AccountList(vs)
  BY <1>2, <1>4 DEF AccountList
<1>6. \A i \in DOMAIN us : i \in DOMAIN vs /\ vs[i] = us[i]
  BY <1>1, <1>2, <1>3
<1> QED
  BY <1>5, <1>6 DEF vs

\* DeleteUser keeps every account but the one at position i.
LEMMA WithoutKeepsList ==
  ASSUME NEW us, AccountList(us), NEW i \in DOMAIN us
  PROVE  /\ AccountList(Without(us, i))
         /\ \A j \in DOMAIN us : j # i => \E k \in DOMAIN Without(us, i) : Without(us, i)[k] = us[j]
         /\ \A k \in DOMAIN Without(us, i) : \E j \in DOMAIN us : j # i /\ Without(us, i)[k] = us[j]
<1> DEFINE vs == Without(us, i)
           at(k) == IF k < i THEN k ELSE k + 1
<1>1. us \in Seq(User) /\ Len(us) \in Nat /\ DOMAIN us = 1 .. Len(us)
      /\ us \in [1 .. Len(us) -> User]
  BY LenProperties DEF AccountList
<1>2. i \in 1 .. Len(us) /\ Len(us) - 1 \in Nat
  BY <1>1
<1>3. \A k \in 1 .. (Len(us) - 1) : at(k) \in DOMAIN us /\ at(k) # i
  BY <1>1, <1>2
<1>4. vs = [k \in 1 .. (Len(us) - 1) |-> us[at(k)]]
  BY DEF Without
<1>5. DOMAIN vs = 1 .. (Len(us) - 1) /\ \A k \in DOMAIN vs : vs[k] = us[at(k)]
  BY <1>4
<1>6. vs \in [1 .. (Len(us) - 1) -> User]
  BY <1>1, <1>3, <1>4
<1>7. vs \in Seq(User)
  BY <1>2, <1>6, SeqDef
<1>8. \A k, m \in 1 .. (Len(us) - 1) : at(k) = at(m) => k = m
  BY <1>1, <1>2
<1>9. \A k, m \in DOMAIN vs : vs[k].name = vs[m].name => k = m
  BY <1>3, <1>5, <1>8 DEF AccountList
<1>10. \A j \in DOMAIN us : j # i => \E k \in DOMAIN vs : at(k) = j
  <2> SUFFICES ASSUME NEW j \in DOMAIN us, j # i
               PROVE  \E k \in DOMAIN vs : at(k) = j
    OBVIOUS
  <2>1. CASE j < i
    BY <2>1, <1>1, <1>2, <1>5
  <2>2. CASE j > i
    <3>1. j - 1 \in DOMAIN vs /\ at(j - 1) = j
      BY <2>2, <1>1, <1>2, <1>5
    <3> QED
      BY <3>1
  <2> QED
    BY <2>1, <2>2, <1>1, <1>2
<1>11. \A j \in DOMAIN us : j # i => \E k \in DOMAIN vs : vs[k] = us[j]
  BY <1>5, <1>10
<1>12. \A k \in DOMAIN vs : \E j \in DOMAIN us : j # i /\ vs[k] = us[j]
  BY <1>3, <1>5
<1> QED
  BY <1>7, <1>9, <1>11, <1>12 DEF AccountList

-----------------------------------------------------------------------------
(* The file writes *)

FilesOK == /\ usersFile \in [form : {"whole", "torn"}, data : Seq(User)]
           /\ AccountList(usersFile.data)
           /\ sessionsFile \in [form : {"whole", "torn"}, data : SessionMap]
           /\ faults \in 0 .. MaxFaults

\* Whatever os.WriteFile does, users.json holds the new accounts or the old.
LEMMA SaveUsersKeepsFiles ==
  ASSUME FilesOK, NEW us, AccountList(us), NEW err \in BOOLEAN, SaveUsers(us, err)
  PROVE  /\ usersFile' \in [form : {"whole", "torn"}, data : Seq(User)]
         /\ AccountList(usersFile'.data)
         /\ faults' \in 0 .. MaxFaults
<1>1. us \in Seq(User)
  BY DEF AccountList
<1>2. faults' \in 0 .. MaxFaults
  BY BoundAssumption DEF SaveUsers, Fault, FilesOK
<1>3. \/ usersFile' = [form |-> "whole", data |-> us]
      \/ usersFile' = usersFile
      \/ usersFile' = [form |-> "torn", data |-> usersFile.data]
  BY DEF SaveUsers, Wrote, Failed
<1> QED
  BY <1>1, <1>2, <1>3 DEF FilesOK

LEMMA SaveSessionsKeepsFiles ==
  ASSUME FilesOK, NEW ss \in SessionMap, SaveSessions(ss)
  PROVE  /\ sessionsFile' \in [form : {"whole", "torn"}, data : SessionMap]
         /\ sessionsFile'.data \in {ss, sessionsFile.data}
         /\ faults' \in 0 .. MaxFaults
<1>1. faults' \in 0 .. MaxFaults
  BY BoundAssumption DEF SaveSessions, Fault, FilesOK
<1>2. \/ sessionsFile' = [form |-> "whole", data |-> ss]
      \/ sessionsFile' = [form |-> "torn", data |-> ss]
      \/ sessionsFile' = sessionsFile
      \/ sessionsFile' = [form |-> "torn", data |-> sessionsFile.data]
  BY DEF SaveSessions, WroteSessions, Wrote, Failed
<1> QED
  BY <1>1, <1>2 DEF FilesOK

LEMMA SaveBothKeepsFiles ==
  ASSUME FilesOK, NEW us, AccountList(us), NEW ss \in SessionMap, SaveBoth(us, ss)
  PROVE  /\ FilesOK'
         /\ sessionsFile'.data \in {ss, sessionsFile.data}
<1>1. us \in Seq(User)
  BY DEF AccountList
<1>2. faults' \in 0 .. MaxFaults
  BY BoundAssumption DEF SaveBoth, Fault, FilesOK
<1>3. \/ sessionsFile' = [form |-> "whole", data |-> ss]
      \/ sessionsFile' = [form |-> "torn", data |-> ss]
      \/ sessionsFile' = sessionsFile
      \/ sessionsFile' = [form |-> "torn", data |-> sessionsFile.data]
  BY DEF SaveBoth, WroteSessions, Wrote, Failed
<1>4. \/ usersFile' = [form |-> "whole", data |-> us]
      \/ usersFile' = usersFile
      \/ usersFile' = [form |-> "torn", data |-> usersFile.data]
  BY DEF SaveBoth, Wrote, Failed
<1>5. usersFile' \in [form : {"whole", "torn"}, data : Seq(User)] /\ AccountList(usersFile'.data)
  BY <1>1, <1>4 DEF FilesOK
<1>6. sessionsFile' \in [form : {"whole", "torn"}, data : SessionMap]
  BY <1>3 DEF FilesOK
<1> QED
  BY <1>2, <1>3, <1>5, <1>6 DEF FilesOK, AccountList

-----------------------------------------------------------------------------
(* Types and unique names *)

MemoryOK == /\ up \in BOOLEAN
            /\ stuck \in BOOLEAN
            /\ AccountList(users)
            /\ sessions \in SessionMap
            /\ requests \in [Requests -> Request]
            /\ savers \in [Savers -> Saver]
            /\ lapsed \in SUBSET Tokens
            /\ edits \in 0 .. MaxEdits
            /\ crashes \in 0 .. MaxCrashes
            /\ owner \in [Tokens -> Names \cup {NoName}]
            /\ origin \in [Tokens -> {"none", "issued", "stale", "loaded"}]
            /\ spent \in SUBSET (Names \X Codes)
            /\ revoked \in SUBSET Tokens
            /\ reverted \in SUBSET Names

\* TypeOK is inductive only together with NamesUnique: the position a lookup
\* returns is a position of the list because no name occurs twice.
TypeInv == MemoryOK /\ FilesOK

LEMMA TypeInvMeans == TypeInv <=> TypeOK /\ NamesUnique
<1>1. TypeInv => TypeOK /\ NamesUnique
  BY DEF TypeInv, MemoryOK, FilesOK, AccountList, TypeOK, NamesUnique
<1>2. TypeOK /\ NamesUnique => TypeInv
  BY DEF TypeInv, MemoryOK, FilesOK, AccountList, TypeOK, NamesUnique
<1> QED
  BY <1>1, <1>2

LEMMA InitTypeInv == Init => TypeInv
<1> SUFFICES ASSUME Init PROVE TypeInv
  OBVIOUS
<1> USE DEF Init
<1>1. AccountList(Accounts)
  BY AccountsAssumption DEF AccountList
<1>2. EmptyMap \in SessionMap
  BY DEF EmptyMap, SessionMap
<1>3. IdleRequest \in Request
  BY DEF IdleRequest, Request
<1>4. IdleSaver \in Saver
  BY <1>2 DEF IdleSaver, Saver
<1>5. edits \in 0 .. MaxEdits /\ crashes \in 0 .. MaxCrashes
  BY BoundAssumption
<1>6. up \in BOOLEAN /\ stuck \in BOOLEAN
  OBVIOUS
<1>7. MemoryOK
  BY <1>1, <1>2, <1>3, <1>4, <1>5, <1>6, Zenon DEF MemoryOK
<1>8. FilesOK
  BY <1>1, <1>2, BoundAssumption DEF FilesOK, AccountList
<1> QED
  BY <1>7, <1>8 DEF TypeInv

\* The flags and the counters are typed after every step.
LEMMA FlagsStep ==
  ASSUME TypeInv, [Next]_vars
  PROVE  /\ up' \in BOOLEAN /\ stuck' \in BOOLEAN
         /\ edits' \in 0 .. MaxEdits /\ crashes' \in 0 .. MaxCrashes
<1> USE DEF TypeInv, MemoryOK
<1>1. ASSUME AccountSteps
      PROVE  /\ up' = up /\ stuck' = stuck /\ crashes' = crashes
             /\ edits < MaxEdits /\ edits' = edits + 1
  BY <1>1 DEF AccountSteps, Edit, Register, SetRole, SetDisabled, DeleteUser, EnrollTOTP,
       ConfirmTOTP, DisableTOTP, SetBackupCodes
<1>2. ASSUME LoginSteps
      PROVE  up' = up /\ stuck' \in {stuck, TRUE} /\ crashes' = crashes /\ edits' = edits
  BY <1>2 DEF LoginSteps, Login, LoginTryBackup, ConsumeBackupCode, LoginAfterBackup,
       IssueToken, IssueTokenMeta, boundVars
<1>3. ASSUME SessionSteps
      PROVE  up' = up /\ stuck' = stuck /\ crashes' = crashes /\ edits' = edits
  BY <1>3 DEF SessionSteps, Lapse, ValidateToken, RevokeSession, PruneExpiredSessions,
       Logout, RevokeAllSessionsForUser, boundVars
<1>4. ASSUME SaverSteps
      PROVE  up' = up /\ stuck' = stuck /\ crashes' = crashes /\ edits' = edits
  BY <1>4 DEF SaverSteps, Marshal, WriteSessions, boundVars
<1>5. ASSUME Crash
      PROVE  up' = FALSE /\ stuck' = FALSE /\ edits' = edits
             /\ crashes < MaxCrashes /\ crashes' = crashes + 1
  BY <1>5 DEF Crash
<1>6. ASSUME NewUserStore
      PROVE  up' = TRUE /\ stuck' = stuck /\ crashes' = crashes /\ edits' = edits
  BY <1>6 DEF NewUserStore, boundVars
<1>7. ASSUME UNCHANGED vars
      PROVE  up' = up /\ stuck' = stuck /\ crashes' = crashes /\ edits' = edits
  BY <1>7 DEF vars
<1>10. ASSUME PasskeySteps
       PROVE  /\ up' = up /\ stuck' = stuck /\ crashes' = crashes
              /\ edits' = edits \/ (edits < MaxEdits /\ edits' = edits + 1)
  BY <1>10 DEF PasskeySteps, GetUser, UpdateUser, Edit, boundVars
<1>8. up' \in BOOLEAN /\ stuck' \in BOOLEAN
  <2>8. CASE PasskeySteps
    BY <1>10, <2>8
  <2>1. CASE AccountSteps
    BY <1>1, <2>1
  <2>2. CASE LoginSteps
    BY <1>2, <2>2
  <2>3. CASE SessionSteps
    BY <1>3, <2>3
  <2>4. CASE SaverSteps
    BY <1>4, <2>4
  <2>5. CASE Crash
    BY <1>5, <2>5
  <2>6. CASE NewUserStore
    BY <1>6, <2>6
  <2>7. CASE UNCHANGED vars
    BY <1>7, <2>7
  <2> QED
    BY <2>1, <2>2, <2>3, <2>4, <2>5, <2>6, <2>7, <2>8 DEF Next
<1>9. edits' \in 0 .. MaxEdits /\ crashes' \in 0 .. MaxCrashes
  <2>8. CASE PasskeySteps
    BY <1>10, <2>8, BoundAssumption
  <2>1. CASE AccountSteps
    BY <1>1, <2>1, BoundAssumption
  <2>2. CASE LoginSteps
    BY <1>2, <2>2, BoundAssumption
  <2>3. CASE SessionSteps
    BY <1>3, <2>3, BoundAssumption
  <2>4. CASE SaverSteps
    BY <1>4, <2>4, BoundAssumption
  <2>5. CASE Crash
    BY <1>5, <2>5, BoundAssumption
  <2>6. CASE NewUserStore
    BY <1>6, <2>6, BoundAssumption
  <2>7. CASE UNCHANGED vars
    BY <1>7, <2>7, BoundAssumption
  <2> QED
    BY <2>1, <2>2, <2>3, <2>4, <2>5, <2>6, <2>7, <2>8 DEF Next
<1> QED
  BY <1>8, <1>9

\* The parts of TypeInv other than the flags and the counters.
PartsOK == /\ AccountList(users)
           /\ sessions \in SessionMap
           /\ requests \in [Requests -> Request]
           /\ savers \in [Savers -> Saver]
           /\ lapsed \in SUBSET Tokens
           /\ owner \in [Tokens -> Names \cup {NoName}]
           /\ origin \in [Tokens -> {"none", "issued", "stale", "loaded"}]
           /\ spent \in SUBSET (Names \X Codes)
           /\ revoked \in SUBSET Tokens
           /\ reverted \in SUBSET Names
           /\ FilesOK

LEMMA TypeInvParts == TypeInv <=> /\ up \in BOOLEAN /\ stuck \in BOOLEAN
                                  /\ edits \in 0 .. MaxEdits /\ crashes \in 0 .. MaxCrashes
                                  /\ PartsOK
  BY Zenon DEF TypeInv, MemoryOK, PartsOK

LEMMA SmallTypes ==
  /\ EmptyMap \in SessionMap
  /\ IdleRequest \in Request
  /\ IdleSaver \in Saver
<1>1. EmptyMap \in SessionMap
  BY DEF EmptyMap, SessionMap
<1>2. IdleRequest \in Request
  BY DEF IdleRequest, Request
<1>3. IdleSaver \in Saver
  BY <1>1 DEF IdleSaver, Saver
<1> QED
  BY <1>1, <1>2, <1>3

\* Dropping sessions from the map leaves a map of sessions.
LEMMA DropTypes ==
  ASSUME sessions \in SessionMap
  PROVE  /\ \A n : DropSessionsOf(n) \in SessionMap
         /\ \A t : [sessions EXCEPT ![t] = NoSession] \in SessionMap
         /\ [t \in Tokens |-> IF Expired(t) THEN NoSession ELSE sessions[t]] \in SessionMap
  BY DEF DropSessionsOf, SessionMap

\* "go s.saveSessions()" and its steps keep the goroutines well typed.
LEMMA SpawnTypes ==
  ASSUME savers \in [Savers -> Saver], NEW g \in Savers, Spawn(g)
  PROVE  savers' \in [Savers -> Saver]
<1>1. [pc |-> "marshal", todo |-> Tokens, data |-> EmptyMap] \in Saver
  BY SmallTypes DEF Saver
<1> QED
  BY <1>1 DEF Spawn

\* An account whose fields were edited is still an account, of the same name.
Edited(u, v) == v \in User /\ v.name = u.name

LEMMA EditedUserTypes ==
  ASSUME NEW u \in User
  PROVE  /\ \A r \in Roles : Edited(u, [u EXCEPT !.role = r])
         /\ \A d \in BOOLEAN : Edited(u, [u EXCEPT !.disabled = d])
         /\ Edited(u, [u EXCEPT !.secret = TRUE])
         /\ Edited(u, [u EXCEPT !.totp = TRUE])
         /\ Edited(u, [u EXCEPT !.totp = FALSE, !.secret = FALSE])
         /\ \A c \in SUBSET Codes : Edited(u, [u EXCEPT !.codes = c])
         /\ \A t \in Tokens : Edited(u, [u EXCEPT !.lastLogin = t])
<1> USE DEF User, Edited
<1>1. \A r \in Roles : Edited(u, [u EXCEPT !.role = r])
  OBVIOUS
<1>2. \A d \in BOOLEAN : Edited(u, [u EXCEPT !.disabled = d])
  OBVIOUS
<1>3. Edited(u, [u EXCEPT !.secret = TRUE])
  OBVIOUS
<1>4. Edited(u, [u EXCEPT !.totp = TRUE])
  OBVIOUS
<1>5. Edited(u, [u EXCEPT !.totp = FALSE, !.secret = FALSE])
  OBVIOUS
<1>6. \A c \in SUBSET Codes : Edited(u, [u EXCEPT !.codes = c])
  OBVIOUS
<1>7. \A t \in Tokens : Edited(u, [u EXCEPT !.lastLogin = t])
  OBVIOUS
<1> QED
  BY <1>1, <1>2, <1>3, <1>4, <1>5, <1>6, <1>7

\* The fields an edit leaves alone.
LEMMA FieldsKept ==
  ASSUME NEW u \in User
  PROVE  /\ \A r \in Roles : LET v == [u EXCEPT !.role = r] IN
              v.codes = u.codes /\ v.lastLogin = u.lastLogin
         /\ \A d \in BOOLEAN : LET v == [u EXCEPT !.disabled = d] IN
              v.codes = u.codes /\ v.lastLogin = u.lastLogin /\ v.role = u.role /\ v.disabled = d
         /\ LET v == [u EXCEPT !.secret = TRUE] IN
              v.codes = u.codes /\ v.lastLogin = u.lastLogin /\ v.role = u.role /\ v.disabled = u.disabled
         /\ LET v == [u EXCEPT !.totp = TRUE] IN
              v.codes = u.codes /\ v.lastLogin = u.lastLogin /\ v.role = u.role /\ v.disabled = u.disabled
         /\ LET v == [u EXCEPT !.totp = FALSE, !.secret = FALSE] IN
              v.codes = u.codes /\ v.lastLogin = u.lastLogin /\ v.role = u.role /\ v.disabled = u.disabled
         /\ \A c \in SUBSET Codes : LET v == [u EXCEPT !.codes = c] IN
              v.codes = c /\ v.lastLogin = u.lastLogin /\ v.role = u.role /\ v.disabled = u.disabled
         /\ \A t \in Tokens : LET v == [u EXCEPT !.lastLogin = t] IN
              v.codes = u.codes /\ v.lastLogin = t /\ v.role = u.role /\ v.disabled = u.disabled
BY DEF User

\* Every method that edits an account keeps the lists of accounts, the map of
\* sessions and the files well formed.
LEMMA AccountStepTypes ==
  ASSUME PartsOK, AccountSteps
  PROVE  PartsOK'
<1> USE DEF PartsOK
<1>1. ASSUME NEW n \in Names, NEW u \in User, Has(n), u.name = n
      PROVE  AccountList([users EXCEPT ![IndexOf(n)] = u])
  BY <1>1, IndexOfFinds, EditKeepsList
<1>2. ASSUME NEW n \in Names, Has(n)
      PROVE  users[IndexOf(n)] \in User /\ users[IndexOf(n)].name = n
  BY <1>2, IndexOfFinds, LenProperties, ElementOfSeq DEF AccountList
<1>3. ASSUME AccountList(users'), NEW err \in BOOLEAN, SaveUsers(users', err),
             sessionsFile' = sessionsFile
      PROVE  FilesOK'
  BY <1>3, SaveUsersKeepsFiles DEF FilesOK, AccountList
<1>4. ASSUME NEW n \in Names, NEW role \in Roles, Register(n, role) PROVE PartsOK'
  <2>1. NewUser(n, role) \in User /\ NewUser(n, role).name = n
    BY NullAssumption DEF NewUser, User
  <2>2. AccountList(users')
    BY <1>4, <2>1, AppendKeepsList DEF Register, Has
  <2> QED
    BY <1>3, <1>4, <2>2 DEF Register, historyVars
<1>5. ASSUME NEW n \in Names, NEW role \in Roles, SetRole(n, role) PROVE PartsOK'
  <2> DEFINE v == [users[IndexOf(n)] EXCEPT !.role = role]
  <2>1. Has(n) /\ users[IndexOf(n)] \in User /\ users[IndexOf(n)].name = n
    BY <1>2, <1>5 DEF SetRole
  <2>2. v \in User /\ v.name = n
    BY <2>1, EditedUserTypes DEF Edited
  <2>3. users' = [users EXCEPT ![IndexOf(n)] = v]
    BY <1>5 DEF SetRole
  <2> HIDE DEF v
  <2>4. AccountList(users')
    BY <1>1, <2>1, <2>2, <2>3
  <2>5. sessions' \in SessionMap
    BY <1>5 DEF SetRole, SessionMap, Session
  <2> QED
    BY <1>3, <1>5, <2>4, <2>5 DEF SetRole, historyVars
<1>6. ASSUME NEW n \in Names, NEW d \in BOOLEAN, SetDisabled(n, d) PROVE PartsOK'
  <2> DEFINE v == [users[IndexOf(n)] EXCEPT !.disabled = d]
  <2>1. Has(n) /\ users[IndexOf(n)] \in User /\ users[IndexOf(n)].name = n
    BY <1>2, <1>6 DEF SetDisabled
  <2>2. v \in User /\ v.name = n
    BY <2>1, EditedUserTypes DEF Edited
  <2>3. users' = [users EXCEPT ![IndexOf(n)] = v]
    BY <1>6 DEF SetDisabled
  <2> HIDE DEF v
  <2>4. AccountList(users')
    BY <1>1, <2>1, <2>2, <2>3
  <2>5. sessions' \in SessionMap
    BY <1>6, DropTypes DEF SetDisabled
  <2>6. FilesOK'
    BY <1>3, <1>6, <2>4, <2>5, SaveBothKeepsFiles DEF SetDisabled
  <2> QED
    BY <1>6, <2>4, <2>5, <2>6 DEF SetDisabled, historyVars
<1>7. ASSUME NEW n \in Names, DeleteUser(n) PROVE PartsOK'
  <2>1. AccountList(users')
    BY <1>7, IndexOfFinds, WithoutKeepsList DEF DeleteUser
  <2>2. sessions' \in SessionMap
    BY <1>7, DropTypes DEF DeleteUser
  <2>3. savers' \in [Savers -> Saver]
    BY <1>7, SpawnTypes DEF DeleteUser
  <2>4. FilesOK'
    BY <1>3, <1>7, <2>1 DEF DeleteUser
  <2> QED
    BY <1>7, <2>1, <2>2, <2>3, <2>4 DEF DeleteUser, historyVars
<1>8. ASSUME NEW n \in Names, EnrollTOTP(n) PROVE PartsOK'
  <2> DEFINE v == [users[IndexOf(n)] EXCEPT !.secret = TRUE]
  <2>1. Has(n) /\ users[IndexOf(n)] \in User /\ users[IndexOf(n)].name = n
    BY <1>2, <1>8 DEF EnrollTOTP
  <2>2. v \in User /\ v.name = n
    BY <2>1, EditedUserTypes DEF Edited
  <2>3. users' = [users EXCEPT ![IndexOf(n)] = v]
    BY <1>8 DEF EnrollTOTP
  <2> HIDE DEF v
  <2>4. AccountList(users')
    BY <1>1, <2>1, <2>2, <2>3
  <2> QED
    BY <1>3, <1>8, <2>4 DEF EnrollTOTP, historyVars
<1>9. ASSUME NEW n \in Names, ConfirmTOTP(n) PROVE PartsOK'
  <2> DEFINE v == [users[IndexOf(n)] EXCEPT !.totp = TRUE]
  <2>1. Has(n) /\ users[IndexOf(n)] \in User /\ users[IndexOf(n)].name = n
    BY <1>2, <1>9 DEF ConfirmTOTP
  <2>2. v \in User /\ v.name = n
    BY <2>1, EditedUserTypes DEF Edited
  <2>3. users' = [users EXCEPT ![IndexOf(n)] = v]
    BY <1>9 DEF ConfirmTOTP
  <2> HIDE DEF v
  <2>4. AccountList(users')
    BY <1>1, <2>1, <2>2, <2>3
  <2> QED
    BY <1>3, <1>9, <2>4 DEF ConfirmTOTP, historyVars
<1>10. ASSUME NEW n \in Names, DisableTOTP(n) PROVE PartsOK'
  <2> DEFINE v == [users[IndexOf(n)] EXCEPT !.totp = FALSE, !.secret = FALSE]
  <2>1. Has(n) /\ users[IndexOf(n)] \in User /\ users[IndexOf(n)].name = n
    BY <1>2, <1>10 DEF DisableTOTP
  <2>2. v \in User /\ v.name = n
    BY <2>1, EditedUserTypes DEF Edited
  <2>3. users' = [users EXCEPT ![IndexOf(n)] = v]
    BY <1>10 DEF DisableTOTP
  <2> HIDE DEF v
  <2>4. AccountList(users')
    BY <1>1, <2>1, <2>2, <2>3
  <2> QED
    BY <1>3, <1>10, <2>4 DEF DisableTOTP, historyVars
<1>11. ASSUME NEW n \in Names, NEW c \in SUBSET Codes, SetBackupCodes(n, c) PROVE PartsOK'
  <2> DEFINE v == [users[IndexOf(n)] EXCEPT !.codes = c]
  <2>1. Has(n) /\ users[IndexOf(n)] \in User /\ users[IndexOf(n)].name = n
    BY <1>2, <1>11 DEF SetBackupCodes
  <2>2. v \in User /\ v.name = n
    BY <2>1, EditedUserTypes DEF Edited
  <2>3. users' = [users EXCEPT ![IndexOf(n)] = v]
    BY <1>11 DEF SetBackupCodes
  <2> HIDE DEF v
  <2>4. AccountList(users')
    BY <1>1, <2>1, <2>2, <2>3
  <2> QED
    BY <1>3, <1>11, <2>4 DEF SetBackupCodes, historyVars
<1> QED
  BY <1>4, <1>5, <1>6, <1>7, <1>8, <1>9, <1>10, <1>11 DEF AccountSteps

\* The new session is well typed and LastLogin is written inside the list.
LEMMA OpenSessionTypes ==
  ASSUME PartsOK, NEW i \in DOMAIN users, NEW name \in Names, NEW role \in Roles,
         NEW t \in Tokens, NEW how \in {"issued", "stale"},
         OpenSession(i, name, role, t, how)
  PROVE  /\ AccountList(users') /\ sessions' \in SessionMap /\ FilesOK'
         /\ owner' \in [Tokens -> Names \cup {NoName}]
         /\ origin' \in [Tokens -> {"none", "issued", "stale", "loaded"}]
<1> USE DEF PartsOK
<1> DEFINE v == [users[i] EXCEPT !.lastLogin = t]
<1>1. users[i] \in User
  BY LenProperties, ElementOfSeq DEF AccountList
<1>2. v \in User /\ v.name = users[i].name
  BY <1>1, EditedUserTypes DEF Edited
<1>3. users' = [users EXCEPT ![i] = v]
  BY DEF OpenSession
<1> HIDE DEF v
<1>4. AccountList(users')
  BY <1>2, <1>3, EditKeepsList
<1>5. sessions' \in SessionMap
  BY DEF OpenSession, SessionMap, Session
<1>6. FilesOK'
  BY <1>4, <1>5, SaveBothKeepsFiles DEF OpenSession
<1> QED
  BY <1>4, <1>5, <1>6 DEF OpenSession

\* A copy that lost a code is still a copy of the account; the other requests
\* are as they were.
LEMMA CopiesWithoutTypes ==
  ASSUME requests \in [Requests -> Request], NEW n, NEW c
  PROVE  /\ CopiesWithout(n, c) \in [Requests -> Request]
         /\ \A r \in Requests : /\ CopiesWithout(n, c)[r].pc = requests[r].pc
                                /\ requests[r].pc # "passkey" => CopiesWithout(n, c)[r] = requests[r]
                                /\ requests[r].pc = "passkey" =>
                                     /\ CopiesWithout(n, c)[r].copy.name = requests[r].copy.name
                                     /\ CopiesWithout(n, c)[r].copy.lastLogin = requests[r].copy.lastLogin
<1> SUFFICES ASSUME NEW r \in Requests
             PROVE  /\ CopiesWithout(n, c)[r] \in Request
                    /\ CopiesWithout(n, c)[r].pc = requests[r].pc
                    /\ requests[r].pc # "passkey" => CopiesWithout(n, c)[r] = requests[r]
                    /\ requests[r].pc = "passkey" =>
                         /\ CopiesWithout(n, c)[r].copy.name = requests[r].copy.name
                         /\ CopiesWithout(n, c)[r].copy.lastLogin = requests[r].copy.lastLogin
  BY DEF CopiesWithout
<1> DEFINE q == requests[r]
           v == [q.copy EXCEPT !.codes = Remaining(q.copy.codes, c)]
           w == [q EXCEPT !.copy = v]
<1>1. q \in Request
  OBVIOUS
<1>2. CASE q.pc = "passkey" /\ q.copy.name = n
  <2>1. q \in PasskeyEdit
    BY <1>1, <1>2 DEF Request, IdleRequest, BackupLogin, MetaWrite, PasskeyEdit
  <2>2. q.copy \in User /\ Remaining(q.copy.codes, c) \in SUBSET Codes
    BY <2>1 DEF PasskeyEdit, User, Remaining
  <2>3. v \in User /\ v.name = q.copy.name /\ v.lastLogin = q.copy.lastLogin
    <3>1. Edited(q.copy, v)
      BY <2>2, EditedUserTypes
    <3>2. v.lastLogin = q.copy.lastLogin
      BY <2>2, FieldsKept
    <3> QED
      BY <3>1, <3>2 DEF Edited
  <2>4. CopiesWithout(n, c)[r] = w
    BY <1>2 DEF CopiesWithout
  <2> HIDE DEF v
  <2>5. w \in PasskeyEdit /\ w.pc = q.pc /\ w.copy = v
    BY <2>1, <2>3 DEF PasskeyEdit
  <2> QED
    BY <1>2, <2>3, <2>4, <2>5 DEF Request
<1>3. CASE ~(q.pc = "passkey" /\ q.copy.name = n)
  BY <1>1, <1>3 DEF CopiesWithout
<1> QED
  BY <1>2, <1>3

LEMMA LoginStepTypes ==
  ASSUME PartsOK, LoginSteps
  PROVE  PartsOK'
<1> USE DEF PartsOK
<1>1. ASSUME NEW n \in Names, Has(n)
      PROVE  /\ IndexOf(n) \in DOMAIN users /\ IndexOf(n) \in Nat
             /\ users[IndexOf(n)] \in User /\ users[IndexOf(n)].name = n
  BY <1>1, IndexOfFinds, LenProperties, ElementOfSeq DEF AccountList
<1>2. ASSUME NEW n \in Names, NEW t \in Tokens, Login(n, t) PROVE PartsOK'
  <2>1. IndexOf(n) \in DOMAIN users /\ users[IndexOf(n)].role \in Roles
    BY <1>1, <1>2 DEF Login, User
  <2> QED
    BY <1>2, <2>1, OpenSessionTypes DEF Login
<1>3. ASSUME NEW r \in Requests, NEW n \in Names, NEW c \in Codes, LoginTryBackup(r, n, c)
      PROVE  PartsOK'
  <2>1. IndexOf(n) \in Nat /\ users[IndexOf(n)].role \in Roles
    BY <1>1, <1>3 DEF LoginTryBackup, User
  <2>2. requests' \in [Requests -> Request]
    BY <1>3, <2>1 DEF LoginTryBackup, Request, BackupLogin
  <2> QED
    BY <1>3, <2>2 DEF LoginTryBackup, storeVars, fileVars, historyVars, FilesOK, AccountList
<1>4. ASSUME NEW r \in Requests, ConsumeBackupCode(r) PROVE PartsOK'
  <2> DEFINE n == requests[r].name
             c == requests[r].code
  <2>2. requests[r] \in Request /\ requests[r].pc = "backup"
    BY <1>4 DEF ConsumeBackupCode
  <2>5. requests[r] \in BackupLogin
    BY <2>2 DEF Request, IdleRequest, MetaWrite, PasskeyEdit, BackupLogin
  <2>1. requests' \in [Requests -> Request]
    <3>1. CopiesWithout(n, c) \in [Requests -> Request] /\ CopiesWithout(n, c)[r] = requests[r]
      BY <2>2, CopiesWithoutTypes
    <3>2. [requests[r] EXCEPT !.pc = "relock"] \in Request
      BY <2>5 DEF Request, BackupLogin
    <3>3. \/ requests' = [requests EXCEPT ![r] = [requests[r] EXCEPT !.pc = "relock"]]
          \/ requests' = [CopiesWithout(n, c) EXCEPT ![r] = [CopiesWithout(n, c)[r] EXCEPT !.pc = "relock"]]
          \/ requests' = [requests EXCEPT ![r] = IdleRequest]
      BY <1>4 DEF ConsumeBackupCode
    <3> HIDE DEF n, c
    <3> QED
      BY <3>1, <3>2, <3>3, SmallTypes
  <2>3. CASE Has(n) /\ c \in users[IndexOf(n)].codes
    <3> DEFINE v == [users[IndexOf(n)] EXCEPT !.codes = Remaining(users[IndexOf(n)].codes, c)]
    <3>1. /\ IndexOf(n) \in DOMAIN users /\ users[IndexOf(n)] \in User
      BY <2>3, IndexOfFinds, LenProperties, ElementOfSeq DEF AccountList
    <3>2. Remaining(users[IndexOf(n)].codes, c) \in SUBSET Codes /\ c \in Codes
      BY <2>3, <3>1 DEF User, Remaining
    <3>3. v \in User /\ v.name = users[IndexOf(n)].name
      BY <3>1, <3>2, EditedUserTypes DEF Edited
    <3>4. users' = [users EXCEPT ![IndexOf(n)] = v]
      BY <1>4, <2>3 DEF ConsumeBackupCode
    <3> HIDE DEF v
    <3>5. AccountList(users')
      BY <3>1, <3>3, <3>4, EditKeepsList
    <3>6. spent' \in SUBSET (Names \X Codes)
      <4>1. n \in Names
        BY <2>5 DEF BackupLogin
      <4>2. spent' = spent \cup {<<n, c>>}
        BY <1>4, <2>3 DEF ConsumeBackupCode
      <4> QED
        BY <3>2, <4>1, <4>2
    <3>7. FilesOK'
      <4>1. PICK err \in BOOLEAN : SaveUsers(users', err)
        BY <1>4, <2>3 DEF ConsumeBackupCode
      <4>2. sessionsFile' = sessionsFile
        BY <1>4 DEF ConsumeBackupCode
      <4>3. /\ usersFile' \in [form : {"whole", "torn"}, data : Seq(User)]
            /\ AccountList(usersFile'.data)
            /\ faults' \in 0 .. MaxFaults
        BY <3>5, <4>1, SaveUsersKeepsFiles
      <4> QED
        BY <4>2, <4>3 DEF FilesOK
    <3> QED
      BY <1>4, <2>1, <3>5, <3>6, <3>7 DEF ConsumeBackupCode
  <2>4. CASE ~(Has(n) /\ c \in users[IndexOf(n)].codes)
    BY <1>4, <2>1, <2>4 DEF ConsumeBackupCode, FilesOK, AccountList
  <2> QED
    BY <2>3, <2>4
<1>5. ASSUME NEW r \in Requests, NEW t \in Tokens, LoginAfterBackup(r, t) PROVE PartsOK'
  <2> DEFINE q == requests[r]
             how == IF StillCurrent(q) THEN "issued" ELSE "stale"
  <2>1. requests' \in [Requests -> Request]
    BY <1>5, SmallTypes DEF LoginAfterBackup
  <2>2. CASE q.index \in DOMAIN users
    <3>1. OpenSession(q.index, q.name, q.role, t, how) /\ q.pc = "relock"
      BY <1>5, <2>2 DEF LoginAfterBackup
    <3>2. q \in Request /\ how \in {"issued", "stale"}
      OBVIOUS
    <3>3. q.name \in Names /\ q.role \in Roles
      BY <3>1, <3>2 DEF Request, IdleRequest, BackupLogin, MetaWrite, PasskeyEdit
    <3> QED
      BY <1>5, <2>1, <2>2, <3>1, <3>2, <3>3, OpenSessionTypes DEF LoginAfterBackup
  <2>3. CASE q.index \notin DOMAIN users
    BY <1>5, <2>1, <2>3 DEF LoginAfterBackup, storeVars, fileVars, FilesOK, AccountList
  <2> QED
    BY <2>2, <2>3
<1>6. ASSUME NEW r \in Requests, NEW n \in Names, NEW t \in Tokens, IssueToken(r, n, t)
      PROVE  PartsOK'
  <2>1. IndexOf(n) \in DOMAIN users /\ users[IndexOf(n)].role \in Roles
    BY <1>1, <1>6 DEF IssueToken, User
  <2>2. requests' \in [Requests -> Request]
    BY <1>6 DEF IssueToken, Request, MetaWrite
  <2> QED
    BY <1>6, <2>1, <2>2, OpenSessionTypes DEF IssueToken
<1>7. ASSUME NEW r \in Requests, IssueTokenMeta(r) PROVE PartsOK'
  <2>1. requests' \in [Requests -> Request]
    BY <1>7, SmallTypes DEF IssueTokenMeta
  <2>2. users' = users /\ sessions' = sessions /\ AccountList(users')
    BY <1>7 DEF IssueTokenMeta, AccountList
  <2>3. FilesOK'
    <3>1. CASE SaveBoth(users, sessions)
      BY <3>1, SaveBothKeepsFiles
    <3>2. CASE SaveSessions(sessions) /\ usersFile' = usersFile
      BY <3>2, SaveSessionsKeepsFiles DEF FilesOK, AccountList
    <3>3. ASSUME NEW err \in BOOLEAN, SaveUsers(users, err), sessionsFile' = sessionsFile
          PROVE  FilesOK'
      BY <3>3, SaveUsersKeepsFiles DEF FilesOK, AccountList
    <3>4. CASE UNCHANGED fileVars
      BY <3>4 DEF fileVars, FilesOK, AccountList
    <3> QED
      BY <1>7, <3>1, <3>2, <3>3, <3>4 DEF IssueTokenMeta
  <2> QED
    BY <1>7, <2>1, <2>2, <2>3 DEF IssueTokenMeta, historyVars
<1> QED
  BY <1>2, <1>3, <1>4, <1>5, <1>6, <1>7 DEF LoginSteps

\* The copy GetUser takes is an account, and UpdateUser puts it where the account
\* of that name is.
LEMMA PasskeyStepTypes ==
  ASSUME PartsOK, PasskeySteps
  PROVE  PartsOK'
<1> USE DEF PartsOK
<1>1. ASSUME NEW r \in Requests, NEW n \in Names, GetUser(r, n) PROVE PartsOK'
  <2>1. users[IndexOf(n)] \in User
    BY <1>1, IndexOfFinds, LenProperties, ElementOfSeq DEF AccountList, GetUser
  <2>2. requests' \in [Requests -> Request]
    BY <1>1, <2>1 DEF GetUser, Request, PasskeyEdit
  <2> QED
    BY <1>1, <2>2 DEF GetUser, storeVars, fileVars, historyVars, FilesOK, AccountList
<1>2. ASSUME NEW r \in Requests, UpdateUser(r) PROVE PartsOK'
  <2> DEFINE v == requests[r].copy
  <2>1. v \in User /\ v.name \in Names
    BY <1>2 DEF UpdateUser, Request, IdleRequest, BackupLogin, MetaWrite, PasskeyEdit, User
  <2>2. requests' \in [Requests -> Request]
    BY <1>2, SmallTypes DEF UpdateUser
  <2>3. CASE Has(v.name)
    <3>1. IndexOf(v.name) \in DOMAIN users /\ users[IndexOf(v.name)].name = v.name
      BY <2>3, IndexOfFinds
    <3>2. /\ users' = [users EXCEPT ![IndexOf(v.name)] = v]
          /\ \E err \in BOOLEAN : SaveUsers(users', err)
          /\ reverted' \in SUBSET Names
      BY <1>2, <2>1, <2>3 DEF UpdateUser
    <3> HIDE DEF v
    <3>3. AccountList(users')
      BY <2>1, <3>1, <3>2, EditKeepsList
    <3>4. FilesOK'
      <4>1. PICK err \in BOOLEAN : SaveUsers(users', err)
        BY <3>2
      <4>2. sessionsFile' = sessionsFile
        BY <1>2 DEF UpdateUser
      <4>3. /\ usersFile' \in [form : {"whole", "torn"}, data : Seq(User)]
            /\ AccountList(usersFile'.data)
            /\ faults' \in 0 .. MaxFaults
        BY <3>3, <4>1, SaveUsersKeepsFiles
      <4> QED
        BY <4>2, <4>3 DEF FilesOK
    <3> QED
      BY <1>2, <2>2, <3>2, <3>3, <3>4 DEF UpdateUser
  <2>4. CASE ~Has(v.name)
    BY <1>2, <2>2, <2>4 DEF UpdateUser, FilesOK, AccountList
  <2> QED
    BY <2>3, <2>4
<1> QED
  BY <1>1, <1>2 DEF PasskeySteps

LEMMA SessionStepTypes ==
  ASSUME PartsOK, SessionSteps
  PROVE  PartsOK'
<1> USE DEF PartsOK
<1>1. ASSUME NEW t \in Tokens, Lapse(t) PROVE PartsOK'
  BY <1>1 DEF Lapse, storeVars, fileVars, historyVars, FilesOK, AccountList
<1>2. ASSUME NEW t \in Tokens, ValidateToken(t) PROVE PartsOK'
  BY <1>2, DropTypes DEF ValidateToken, fileVars, historyVars, FilesOK, AccountList
<1>3. ASSUME NEW t \in Tokens, RevokeSession(t) PROVE PartsOK'
  <2>1. sessions' \in SessionMap
    BY <1>3, DropTypes DEF RevokeSession
  <2>2. FilesOK'
    BY <1>3, <2>1, SaveSessionsKeepsFiles DEF RevokeSession, FilesOK, AccountList
  <2> QED
    BY <1>3, <2>1, <2>2 DEF RevokeSession, AccountList
<1>4. ASSUME NEW g \in Savers, PruneExpiredSessions(g) PROVE PartsOK'
  <2>1. sessions' \in SessionMap /\ savers' \in [Savers -> Saver]
    BY <1>4, DropTypes, SpawnTypes DEF PruneExpiredSessions
  <2> QED
    BY <1>4, <2>1 DEF PruneExpiredSessions, fileVars, historyVars, FilesOK, AccountList
<1>5. ASSUME NEW g \in Savers, NEW t \in Tokens, Logout(t, g) PROVE PartsOK'
  <2>1. sessions' \in SessionMap /\ savers' \in [Savers -> Saver]
    BY <1>5, DropTypes, SpawnTypes DEF Logout
  <2> QED
    BY <1>5, <2>1 DEF Logout, fileVars, FilesOK, AccountList
<1>6. ASSUME NEW n \in Names, RevokeAllSessionsForUser(n) PROVE PartsOK'
  <2>1. sessions' \in SessionMap
    BY <1>6, DropTypes DEF RevokeAllSessionsForUser
  <2>2. FilesOK'
    BY <1>6, <2>1, SaveSessionsKeepsFiles DEF RevokeAllSessionsForUser, FilesOK, AccountList
  <2> QED
    BY <1>6, <2>1, <2>2 DEF RevokeAllSessionsForUser, AccountList
<1> QED
  BY <1>1, <1>2, <1>3, <1>4, <1>5, <1>6 DEF SessionSteps

LEMMA SaverStepTypes ==
  ASSUME PartsOK, SaverSteps
  PROVE  PartsOK'
<1> USE DEF PartsOK
<1>1. ASSUME NEW g \in Savers, NEW t \in Tokens, Marshal(g, t) PROVE PartsOK'
  <2> DEFINE d == [savers[g].data EXCEPT ![t] = sessions[t]]
             p == IF savers[g].todo = {t} THEN "write" ELSE savers[g].pc
             w == [pc |-> p, todo |-> savers[g].todo \ {t}, data |-> d]
  <2>1. savers' \in [Savers -> Saver]
    <3>1. d \in SessionMap
      BY <1>1 DEF Marshal, Saver, SessionMap
    <3>2. p \in {"idle", "marshal", "write"} /\ savers[g].todo \in SUBSET Tokens
      BY <1>1 DEF Marshal, Saver
    <3>3. w \in Saver
      <4> HIDE DEF d, p
      <4> QED BY <3>1, <3>2 DEF Saver
    <3>4. savers' = [savers EXCEPT ![g] = w]
      BY <1>1 DEF Marshal, Saver
    <3> HIDE DEF w
    <3> QED
      BY <3>3, <3>4
  <2> QED
    BY <1>1, <2>1 DEF Marshal, storeVars, fileVars, historyVars, FilesOK, AccountList
<1>2. ASSUME NEW g \in Savers, WriteSessions(g) PROVE PartsOK'
  <2>1. savers[g].data \in SessionMap /\ savers' \in [Savers -> Saver]
    BY <1>2, SmallTypes DEF WriteSessions, Saver
  <2>2. FilesOK'
    BY <1>2, <2>1, SaveSessionsKeepsFiles DEF WriteSessions, FilesOK, AccountList
  <2> QED
    BY <1>2, <2>1, <2>2 DEF WriteSessions, storeVars, historyVars, AccountList
<1> QED
  BY <1>1, <1>2 DEF SaverSteps

LEMMA RestartTypes ==
  ASSUME PartsOK, Crash \/ NewUserStore
  PROVE  PartsOK'
<1> USE DEF PartsOK
<1>1. CASE Crash
  <2>1. AccountList(<<>>)
    BY EmptySeq DEF AccountList
  <2>2. users' = <<>> /\ AccountList(users')
    BY <1>1, <2>1 DEF Crash
  <2>3. FilesOK'
    <3>1. \/ sessionsFile' = sessionsFile
          \/ sessionsFile' = [form |-> "torn", data |-> sessionsFile.data]
      BY <1>1 DEF Crash, Failed
    <3>2. sessionsFile' \in [form : {"whole", "torn"}, data : SessionMap]
      BY <3>1 DEF FilesOK
    <3> QED
      BY <1>1, <3>2 DEF Crash, FilesOK, AccountList
  <2>4. /\ sessions' \in SessionMap /\ requests' \in [Requests -> Request]
        /\ savers' \in [Savers -> Saver]
    BY <1>1, SmallTypes DEF Crash
  <2> QED
    BY <1>1, <2>2, <2>3, <2>4 DEF Crash, historyVars
<1>2. CASE NewUserStore
  <2>1. users' = usersFile.data /\ AccountList(users')
    BY <1>2 DEF NewUserStore, FilesOK, AccountList
  <2>2. sessions' \in SessionMap
    BY <1>2, SmallTypes DEF NewUserStore, FilesOK
  <2>3. origin' \in [Tokens -> {"none", "issued", "stale", "loaded"}]
    BY <1>2 DEF NewUserStore
  <2>4. FilesOK'
    BY <1>2 DEF NewUserStore, fileVars, FilesOK, AccountList
  <2> QED
    BY <1>2, <2>1, <2>2, <2>3, <2>4 DEF NewUserStore
<1> QED
  BY <1>1, <1>2

LEMMA TypeInvStep == TypeInv /\ [Next]_vars => TypeInv'
<1> SUFFICES ASSUME TypeInv, [Next]_vars PROVE TypeInv'
  OBVIOUS
<1>1. PartsOK
  BY TypeInvParts
<1>3. PartsOK'
  <2>1. CASE UNCHANGED vars
    BY <1>1, <2>1 DEF vars, PartsOK, FilesOK, AccountList
  <2> QED
    BY <1>1, <2>1, AccountStepTypes, LoginStepTypes, PasskeyStepTypes,
       SessionStepTypes, SaverStepTypes, RestartTypes DEF Next
<1>4. /\ up' \in BOOLEAN /\ stuck' \in BOOLEAN
      /\ edits' \in 0 .. MaxEdits /\ crashes' \in 0 .. MaxCrashes
  BY FlagsStep
<1> QED
  BY <1>3, <1>4, Zenon DEF TypeInv, MemoryOK, PartsOK

\* The state of the store is well typed, and no two accounts share a name, in
\* memory or in users.json, for any number of users, requests and goroutines.
THEOREM TypeCorrect == Spec => [](TypeOK /\ NamesUnique)
<1>1. Spec => []TypeInv
  BY InitTypeInv, TypeInvStep, PTL DEF Spec
<1> QED
  BY <1>1, TypeInvMeans, PTL

-----------------------------------------------------------------------------
(* Records of a token stay with their account *)

Owned(m, o) == \A t \in Tokens : m[t] # NoSession => m[t].user = o[t]

\* OwnerKept, one conjunct for each place a record can be.
OwnerInv == /\ Owned(sessions, owner)
            /\ Owned(sessionsFile.data, owner)
            /\ \A g \in Savers : Owned(savers[g].data, owner)

LEMMA OwnerInvMeans == OwnerInv <=> OwnerKept
  BY DEF OwnerInv, OwnerKept, Owned

LEMMA EmptyOwned == ASSUME NEW o PROVE Owned(EmptyMap, o)
  BY DEF Owned, EmptyMap

\* "go s.saveSessions()" starts with an empty buffer.
LEMMA SpawnOwned ==
  ASSUME PartsOK, OwnerInv, NEW g \in Savers, Spawn(g)
  PROVE  \A h \in Savers : Owned(savers'[h].data, owner)
  BY EmptyOwned DEF Spawn, PartsOK, OwnerInv

\* Deleting sessions leaves the others with their owners.
LEMMA DropOwned ==
  ASSUME PartsOK, OwnerInv
  PROVE  /\ \A n : Owned(DropSessionsOf(n), owner)
         /\ \A t : Owned([sessions EXCEPT ![t] = NoSession], owner)
         /\ Owned([t \in Tokens |-> IF Expired(t) THEN NoSession ELSE sessions[t]], owner)
  BY DEF DropSessionsOf, Owned, OwnerInv, PartsOK, SessionMap

\* A new session is recorded under a token no record has: every record of a
\* token that was never issued would name an account, and its owner is none.
LEMMA OpenSessionOwned ==
  ASSUME PartsOK, OwnerInv, NEW i, NEW name \in Names, NEW role, NEW t \in Tokens, NEW how,
         OpenSession(i, name, role, t, how)
  PROVE  /\ Owned(sessions', owner')
         /\ Owned(sessionsFile.data, owner')
         /\ \A g \in Savers : Owned(savers[g].data, owner')
         /\ Owned(sessionsFile'.data, owner')
<1>1. ASSUME NEW m \in SessionMap, Owned(m, owner)
      PROVE  Owned(m, owner') /\ m[t] = NoSession
  <2>1. owner[t] = NoName
    BY DEF OpenSession, Fresh
  <2>2. m[t] = NoSession
    BY <1>1, <2>1, NullAssumption DEF Owned, SessionMap, Session
  <2>3. owner' = [owner EXCEPT ![t] = name]
    BY DEF OpenSession
  <2> QED
    BY <1>1, <2>2, <2>3 DEF Owned, PartsOK
<1>2. Owned(sessionsFile.data, owner')
  BY <1>1 DEF OwnerInv, PartsOK, FilesOK
<1>3. \A g \in Savers : Owned(savers[g].data, owner')
  BY <1>1 DEF OwnerInv, PartsOK, Saver
<1>4. Owned(sessions', owner')
  <2>1. Owned(sessions, owner')
    BY <1>1 DEF OwnerInv, PartsOK
  <2>2. sessions' = [sessions EXCEPT ![t] = [user |-> name, role |-> role, zero |-> FALSE]]
        /\ owner' = [owner EXCEPT ![t] = name]
    BY DEF OpenSession
  <2> QED
    BY <2>1, <2>2 DEF Owned, PartsOK, SessionMap
<1>5. sessionsFile'.data \in {sessions', sessionsFile.data}
  BY DEF OpenSession, SaveBoth, WroteSessions, Wrote, Failed
<1> QED
  BY <1>2, <1>3, <1>4, <1>5

LEMMA AccountStepOwned ==
  ASSUME PartsOK, OwnerInv, AccountSteps
  PROVE  OwnerInv'
<1> USE DEF OwnerInv
<1>1. owner' = owner
  BY DEF AccountSteps, Register, SetRole, SetDisabled, DeleteUser, EnrollTOTP,
         ConfirmTOTP, DisableTOTP, SetBackupCodes, historyVars
<1>2. ASSUME NEW n \in Names, NEW role \in Roles, SetRole(n, role) PROVE OwnerInv'
  <2>1. NoSession.user # n
    BY NullAssumption DEF NoSession
  <2>2. \A t \in Tokens :
          IF sessions[t].user = n
            THEN sessions'[t].user = sessions[t].user /\ sessions[t] # NoSession
            ELSE sessions'[t] = sessions[t]
    BY <1>2, <2>1 DEF SetRole
  <2>3. Owned(sessions', owner)
    BY <2>2 DEF Owned
  <2> QED
    BY <1>1, <1>2, <2>3 DEF SetRole
<1>3. ASSUME NEW n \in Names, NEW d \in BOOLEAN, SetDisabled(n, d) PROVE OwnerInv'
  <2>1. Owned(sessions', owner) /\ savers' = savers
    BY <1>3, DropOwned DEF SetDisabled
  <2>2. sessionsFile'.data \in {sessions', sessionsFile.data}
    BY <1>3 DEF SetDisabled, SaveBoth, WroteSessions, Wrote, Failed
  <2> QED
    BY <1>1, <2>1, <2>2
<1>4. ASSUME NEW n \in Names, DeleteUser(n) PROVE OwnerInv'
  <2>1. Owned(sessions', owner) /\ sessionsFile' = sessionsFile
    BY <1>4, DropOwned DEF DeleteUser
  <2>2. \A g \in Savers : Owned(savers'[g].data, owner)
    BY <1>4, SpawnOwned DEF DeleteUser
  <2> QED
    BY <1>1, <2>1, <2>2
<1>5. ASSUME sessions' = sessions, sessionsFile' = sessionsFile, savers' = savers
      PROVE  OwnerInv'
  BY <1>1, <1>5
<1> QED
  BY <1>2, <1>3, <1>4, <1>5 DEF AccountSteps, Register, EnrollTOTP, ConfirmTOTP,
     DisableTOTP, SetBackupCodes

LEMMA LoginStepOwned ==
  ASSUME PartsOK, OwnerInv, LoginSteps
  PROVE  OwnerInv'
<1> USE DEF OwnerInv
<1>1. ASSUME NEW i, NEW name \in Names, NEW role, NEW t \in Tokens, NEW how,
             OpenSession(i, name, role, t, how), savers' = savers
      PROVE  OwnerInv'
  BY <1>1, OpenSessionOwned
<1>2. ASSUME sessions' = sessions, sessionsFile'.data \in {sessions, sessionsFile.data},
             savers' = savers, owner' = owner
      PROVE  OwnerInv'
  BY <1>2
<1>3. ASSUME NEW n \in Names, NEW t \in Tokens, Login(n, t) PROVE OwnerInv'
  BY <1>1, <1>3 DEF Login
<1>4. ASSUME NEW r \in Requests, NEW n \in Names, NEW c \in Codes, LoginTryBackup(r, n, c)
      PROVE  OwnerInv'
  BY <1>2, <1>4 DEF LoginTryBackup, storeVars, fileVars, historyVars
<1>5. ASSUME NEW r \in Requests, ConsumeBackupCode(r) PROVE OwnerInv'
  BY <1>2, <1>5 DEF ConsumeBackupCode
<1>6. ASSUME NEW r \in Requests, NEW t \in Tokens, LoginAfterBackup(r, t) PROVE OwnerInv'
  <2> DEFINE q == requests[r]
  <2>1. CASE q.index \in DOMAIN users
    <3>1. q.name \in Names
      BY <1>6 DEF LoginAfterBackup, PartsOK, Request, IdleRequest, BackupLogin, MetaWrite, PasskeyEdit
    <3> QED
      BY <1>1, <1>6, <2>1, <3>1 DEF LoginAfterBackup
  <2>2. CASE q.index \notin DOMAIN users
    BY <1>2, <1>6, <2>2 DEF LoginAfterBackup, storeVars, fileVars
  <2> QED
    BY <2>1, <2>2
<1>7. ASSUME NEW r \in Requests, NEW n \in Names, NEW t \in Tokens, IssueToken(r, n, t)
      PROVE  OwnerInv'
  BY <1>1, <1>7 DEF IssueToken
<1>8. ASSUME NEW r \in Requests, IssueTokenMeta(r) PROVE OwnerInv'
  <2>1. sessionsFile'.data \in {sessions, sessionsFile.data}
    BY <1>8 DEF IssueTokenMeta, SaveBoth, SaveSessions, WroteSessions, Wrote, Failed, fileVars
  <2> QED
    BY <1>2, <1>8, <2>1 DEF IssueTokenMeta, historyVars
<1> QED
  BY <1>3, <1>4, <1>5, <1>6, <1>7, <1>8 DEF LoginSteps

LEMMA PasskeyStepOwned ==
  ASSUME PartsOK, OwnerInv, PasskeySteps
  PROVE  OwnerInv'
<1>1. UNCHANGED <<sessions, sessionsFile, savers, owner>>
  BY DEF PasskeySteps, GetUser, UpdateUser, storeVars, fileVars, historyVars
<1> QED
  BY <1>1 DEF OwnerInv

LEMMA SessionStepOwned ==
  ASSUME PartsOK, OwnerInv, SessionSteps
  PROVE  OwnerInv'
<1> USE DEF OwnerInv
<1>1. owner' = owner
  BY DEF SessionSteps, Lapse, ValidateToken, RevokeSession, PruneExpiredSessions,
         Logout, RevokeAllSessionsForUser, historyVars
<1>2. Owned(sessions', owner)
  BY DropOwned DEF SessionSteps, Lapse, ValidateToken, RevokeSession, storeVars,
         PruneExpiredSessions, Logout, RevokeAllSessionsForUser
<1>3. sessionsFile'.data \in {sessions', sessionsFile.data}
  BY DEF SessionSteps, Lapse, ValidateToken, RevokeSession, PruneExpiredSessions, Logout,
         RevokeAllSessionsForUser, SaveSessions, WroteSessions, Wrote, Failed, fileVars
<1>4. savers' = savers \/ \E g \in Savers : Spawn(g)
  BY DEF SessionSteps, Lapse, ValidateToken, RevokeSession, PruneExpiredSessions,
         Logout, RevokeAllSessionsForUser
<1>5. \A g \in Savers : Owned(savers'[g].data, owner)
  BY <1>4, SpawnOwned
<1> QED
  BY <1>1, <1>2, <1>3, <1>5

LEMMA SaverStepOwned ==
  ASSUME PartsOK, OwnerInv, SaverSteps
  PROVE  OwnerInv'
<1> USE DEF OwnerInv
<1>1. ASSUME NEW g \in Savers, NEW t \in Tokens, Marshal(g, t) PROVE OwnerInv'
  <2> DEFINE d == [savers[g].data EXCEPT ![t] = sessions[t]]
  <2>1. Owned(d, owner)
    BY DEF Owned, PartsOK, Saver, SessionMap
  <2>2. savers'[g].data = d /\ \A h \in Savers : h # g => savers'[h] = savers[h]
    BY <1>1 DEF Marshal, PartsOK, Saver
  <2> HIDE DEF d
  <2> QED
    BY <1>1, <2>1, <2>2 DEF Marshal, storeVars, fileVars, historyVars
<1>2. ASSUME NEW g \in Savers, WriteSessions(g) PROVE OwnerInv'
  <2>1. sessionsFile'.data \in {savers[g].data, sessionsFile.data}
    BY <1>2 DEF WriteSessions, SaveSessions, WroteSessions, Wrote, Failed
  <2>2. \A h \in Savers : Owned(savers'[h].data, owner)
    BY <1>2, EmptyOwned DEF WriteSessions, IdleSaver, PartsOK
  <2> QED
    BY <1>2, <2>1, <2>2 DEF WriteSessions, storeVars, historyVars
<1> QED
  BY <1>1, <1>2 DEF SaverSteps

LEMMA RestartOwned ==
  ASSUME PartsOK, OwnerInv, Crash \/ NewUserStore
  PROVE  OwnerInv'
<1> USE DEF OwnerInv
<1>1. CASE Crash
  <2>1. sessionsFile'.data = sessionsFile.data /\ sessions' = EmptyMap /\ owner' = owner
    BY <1>1 DEF Crash, Failed, historyVars
  <2>2. \A g \in Savers : savers'[g].data = EmptyMap
    BY <1>1 DEF Crash, IdleSaver
  <2> QED
    BY <2>1, <2>2, EmptyOwned
<1>2. CASE NewUserStore
  BY <1>2, EmptyOwned DEF NewUserStore, fileVars
<1> QED
  BY <1>1, <1>2

\* A token keeps the account it was issued to: no interleaving of logins,
\* restarts and unlocked saves puts another account's name in its record.
THEOREM OwnerCorrect == Spec => []OwnerKept
<1>1. Init => OwnerInv
  BY EmptyOwned DEF Init, OwnerInv, IdleSaver
<1>2. TypeInv /\ OwnerInv /\ [Next]_vars => OwnerInv'
  <2> SUFFICES ASSUME TypeInv, OwnerInv, [Next]_vars PROVE OwnerInv'
    OBVIOUS
  <2>1. PartsOK
    BY TypeInvParts
  <2>2. CASE UNCHANGED vars
    BY <2>2 DEF vars, OwnerInv, Owned
  <2> QED
    BY <2>1, <2>2, AccountStepOwned, LoginStepOwned, PasskeyStepOwned, SessionStepOwned,
       SaverStepOwned, RestartOwned DEF Next
<1>3. Spec => []TypeInv
  BY InitTypeInv, TypeInvStep, PTL DEF Spec
<1> QED
  BY <1>1, <1>2, <1>3, OwnerInvMeans, PTL DEF Spec

-----------------------------------------------------------------------------
(* What a step does to the accounts *)

\* A step that writes users.json: the new accounts, or what was there before if
\* the write fails.
Saved == /\ faults' >= faults
         /\ usersFile'.data \in {users', usersFile.data}
         /\ faults' = 0 => usersFile' = [form |-> "whole", data |-> users']

LEMMA SaveUsersSaves ==
  ASSUME FilesOK, NEW err \in BOOLEAN, SaveUsers(users', err)
  PROVE  Saved
<1>1. faults \in Nat
  BY BoundAssumption DEF FilesOK
<1>2. CASE err
  BY <1>1, <1>2 DEF SaveUsers, Fault, Failed, Saved
<1>3. CASE ~err
  BY <1>1, <1>3 DEF SaveUsers, Wrote, Saved
<1> QED
  BY <1>2, <1>3

LEMMA SaveBothSaves ==
  ASSUME FilesOK, NEW ss, SaveBoth(users', ss)
  PROVE  Saved
<1>1. faults \in Nat
  BY BoundAssumption DEF FilesOK
<1> QED
  BY <1>1 DEF SaveBoth, Fault, Failed, Wrote, Saved

\* The copies in the requests q are copies there are already, short of some codes.
CopiesStay(q) ==
  \A r \in Requests : q[r].pc = "passkey" =>
    /\ requests[r].pc = "passkey"
    /\ q[r].copy.name = requests[r].copy.name /\ q[r].copy.lastLogin = requests[r].copy.lastLogin

Added == \E n \in Names, role \in Roles :
           ~Has(n) /\ users' = Append(users, NewUser(n, role)) /\ sessions' = sessions

Removed == \E n \in Names :
             Has(n) /\ users' = Without(users, IndexOf(n)) /\ sessions' = DropSessionsOf(n)

\* The account u became v, a new set of codes is nobody's, and the sessions of
\* the account are dropped or zeroed if its role changed or it was disabled.
NewCodes(u, v) == \/ v.codes = u.codes
                  \/ \A c \in v.codes : <<v.name, c>> \notin spent
ZeroedSessions(n, m) == \A t \in Tokens : IF sessions[t].user = n THEN m[t].zero ELSE m[t] = sessions[t]
SessionsFollow(u, v) ==
  \/ sessions' = sessions /\ v.role = u.role /\ (v.disabled => u.disabled)
  \/ sessions' = DropSessionsOf(u.name)
  \/ ZeroedSessions(u.name, sessions')
Changed == \E i \in DOMAIN users, v \in User :
             /\ users' = [users EXCEPT ![i] = v]
             /\ v.name = users[i].name /\ v.lastLogin = users[i].lastLogin
             /\ NewCodes(users[i], v) /\ SessionsFollow(users[i], v)

\* Every method that edits an account saves the accounts and does one of three
\* things to them.
LEMMA AccountEffect ==
  ASSUME PartsOK, AccountSteps
  PROVE  /\ Added \/ Removed \/ Changed
         /\ Saved
         /\ UNCHANGED <<up, crashes, owner, origin, spent, reverted>>
         /\ CopiesStay(requests')
<1> USE DEF PartsOK
<1>1. ASSUME NEW n \in Names, Has(n)
      PROVE  /\ IndexOf(n) \in DOMAIN users /\ users[IndexOf(n)] \in User
             /\ users[IndexOf(n)].name = n
  BY <1>1, IndexOfFinds, LenProperties, ElementOfSeq DEF AccountList
<1>2. ASSUME NEW n \in Names, NEW role \in Roles, Register(n, role) PROVE Added /\ Saved
  BY <1>2, SaveUsersSaves DEF Register, Added
<1>3. ASSUME NEW n \in Names, DeleteUser(n) PROVE Removed /\ Saved
  BY <1>3, SaveUsersSaves DEF DeleteUser, Removed
<1>4. ASSUME NEW n \in Names, NEW role \in Roles, SetRole(n, role) PROVE Changed /\ Saved
  <2> DEFINE v == [users[IndexOf(n)] EXCEPT !.role = role]
  <2>1. /\ IndexOf(n) \in DOMAIN users /\ users[IndexOf(n)] \in User /\ users[IndexOf(n)].name = n
        /\ users' = [users EXCEPT ![IndexOf(n)] = v]
        /\ sessions' = [t \in Tokens |-> IF sessions[t].user = n
                                           THEN [user |-> n, role |-> role, zero |-> TRUE]
                                           ELSE sessions[t]]
    BY <1>1, <1>4 DEF SetRole
  <2>2. /\ v \in User /\ v.name = users[IndexOf(n)].name /\ v.lastLogin = users[IndexOf(n)].lastLogin
        /\ v.codes = users[IndexOf(n)].codes
    <3>1. Edited(users[IndexOf(n)], v)
      BY <2>1, EditedUserTypes
    <3> QED
      BY <2>1, <3>1, FieldsKept DEF Edited
  <2> HIDE DEF v
  <2>3. ZeroedSessions(n, sessions')
    BY <2>1 DEF ZeroedSessions
  <2>4. NewCodes(users[IndexOf(n)], v) /\ SessionsFollow(users[IndexOf(n)], v)
    BY <2>1, <2>2, <2>3 DEF NewCodes, SessionsFollow
  <2>5. Changed
    BY <2>1, <2>2, <2>4 DEF Changed
  <2> QED
    BY <1>4, <2>5, SaveUsersSaves DEF SetRole
<1>5. ASSUME NEW n \in Names, NEW d \in BOOLEAN, SetDisabled(n, d) PROVE Changed /\ Saved
  <2> DEFINE v == [users[IndexOf(n)] EXCEPT !.disabled = d]
  <2>1. /\ IndexOf(n) \in DOMAIN users /\ users[IndexOf(n)] \in User /\ users[IndexOf(n)].name = n
        /\ users' = [users EXCEPT ![IndexOf(n)] = v]
    BY <1>1, <1>5 DEF SetDisabled
  <2>2. /\ v \in User /\ v.name = users[IndexOf(n)].name /\ v.lastLogin = users[IndexOf(n)].lastLogin
        /\ v.codes = users[IndexOf(n)].codes /\ v.role = users[IndexOf(n)].role /\ v.disabled = d
    <3>1. Edited(users[IndexOf(n)], v)
      BY <2>1, EditedUserTypes
    <3> QED
      BY <2>1, <3>1, FieldsKept DEF Edited
  <2> HIDE DEF v
  <2>3. SessionsFollow(users[IndexOf(n)], v)
    <3>1. CASE d
      BY <1>5, <2>1, <3>1 DEF SetDisabled, SessionsFollow
    <3>2. CASE ~d
      BY <1>5, <2>2, <3>2 DEF SetDisabled, SessionsFollow
    <3> QED
      BY <3>1, <3>2
  <2>4. Changed
    BY <2>1, <2>2, <2>3 DEF Changed, NewCodes
  <2>5. Saved
    <3>1. CASE d
      BY <1>5, <3>1, SaveBothSaves DEF SetDisabled
    <3>2. CASE ~d
      BY <1>5, <3>2, SaveUsersSaves DEF SetDisabled
    <3> QED
      BY <3>1, <3>2
  <2> QED
    BY <2>4, <2>5
<1>6. ASSUME NEW n \in Names, EnrollTOTP(n) PROVE Changed /\ Saved
  <2> DEFINE v == [users[IndexOf(n)] EXCEPT !.secret = TRUE]
  <2>1. /\ IndexOf(n) \in DOMAIN users /\ users[IndexOf(n)] \in User
        /\ users' = [users EXCEPT ![IndexOf(n)] = v] /\ sessions' = sessions
    BY <1>1, <1>6 DEF EnrollTOTP
  <2>2. /\ v \in User /\ v.name = users[IndexOf(n)].name /\ v.lastLogin = users[IndexOf(n)].lastLogin
        /\ v.codes = users[IndexOf(n)].codes /\ v.role = users[IndexOf(n)].role
        /\ v.disabled = users[IndexOf(n)].disabled
    BY <2>1, EditedUserTypes, FieldsKept DEF Edited
  <2> HIDE DEF v
  <2>3. NewCodes(users[IndexOf(n)], v) /\ SessionsFollow(users[IndexOf(n)], v)
    BY <2>1, <2>2 DEF NewCodes, SessionsFollow
  <2>4. Changed
    BY <2>1, <2>2, <2>3 DEF Changed
  <2> QED
    BY <1>6, <2>4, SaveUsersSaves DEF EnrollTOTP
<1>7. ASSUME NEW n \in Names, ConfirmTOTP(n) PROVE Changed /\ Saved
  <2> DEFINE v == [users[IndexOf(n)] EXCEPT !.totp = TRUE]
  <2>1. /\ IndexOf(n) \in DOMAIN users /\ users[IndexOf(n)] \in User
        /\ users' = [users EXCEPT ![IndexOf(n)] = v] /\ sessions' = sessions
    BY <1>1, <1>7 DEF ConfirmTOTP
  <2>2. /\ v \in User /\ v.name = users[IndexOf(n)].name /\ v.lastLogin = users[IndexOf(n)].lastLogin
        /\ v.codes = users[IndexOf(n)].codes /\ v.role = users[IndexOf(n)].role
        /\ v.disabled = users[IndexOf(n)].disabled
    BY <2>1, EditedUserTypes, FieldsKept DEF Edited
  <2> HIDE DEF v
  <2>3. NewCodes(users[IndexOf(n)], v) /\ SessionsFollow(users[IndexOf(n)], v)
    BY <2>1, <2>2 DEF NewCodes, SessionsFollow
  <2>4. Changed
    BY <2>1, <2>2, <2>3 DEF Changed
  <2> QED
    BY <1>7, <2>4, SaveUsersSaves DEF ConfirmTOTP
<1>8. ASSUME NEW n \in Names, DisableTOTP(n) PROVE Changed /\ Saved
  <2> DEFINE v == [users[IndexOf(n)] EXCEPT !.totp = FALSE, !.secret = FALSE]
  <2>1. /\ IndexOf(n) \in DOMAIN users /\ users[IndexOf(n)] \in User
        /\ users' = [users EXCEPT ![IndexOf(n)] = v] /\ sessions' = sessions
    BY <1>1, <1>8 DEF DisableTOTP
  <2>2. /\ v \in User /\ v.name = users[IndexOf(n)].name /\ v.lastLogin = users[IndexOf(n)].lastLogin
        /\ v.codes = users[IndexOf(n)].codes /\ v.role = users[IndexOf(n)].role
        /\ v.disabled = users[IndexOf(n)].disabled
    BY <2>1, EditedUserTypes, FieldsKept DEF Edited
  <2> HIDE DEF v
  <2>3. NewCodes(users[IndexOf(n)], v) /\ SessionsFollow(users[IndexOf(n)], v)
    BY <2>1, <2>2 DEF NewCodes, SessionsFollow
  <2>4. Changed
    BY <2>1, <2>2, <2>3 DEF Changed
  <2> QED
    BY <1>8, <2>4, SaveUsersSaves DEF DisableTOTP
<1>9. ASSUME NEW n \in Names, NEW c \in SUBSET Codes, SetBackupCodes(n, c) PROVE Changed /\ Saved
  <2> DEFINE v == [users[IndexOf(n)] EXCEPT !.codes = c]
  <2>1. /\ IndexOf(n) \in DOMAIN users /\ users[IndexOf(n)] \in User
        /\ users' = [users EXCEPT ![IndexOf(n)] = v] /\ sessions' = sessions
        /\ \A d \in c, m \in Names : <<m, d>> \notin spent
        /\ users[IndexOf(n)].name = n
    BY <1>1, <1>9 DEF SetBackupCodes
  <2>2. /\ v \in User /\ v.name = users[IndexOf(n)].name /\ v.lastLogin = users[IndexOf(n)].lastLogin
        /\ v.codes = c /\ v.role = users[IndexOf(n)].role /\ v.disabled = users[IndexOf(n)].disabled
    <3>1. Edited(users[IndexOf(n)], v)
      BY <2>1, EditedUserTypes
    <3> QED
      BY <2>1, <3>1, FieldsKept DEF Edited
  <2> HIDE DEF v
  <2>3. NewCodes(users[IndexOf(n)], v) /\ SessionsFollow(users[IndexOf(n)], v)
    BY <2>1, <2>2 DEF NewCodes, SessionsFollow
  <2>4. Changed
    BY <2>1, <2>2, <2>3 DEF Changed
  <2> QED
    BY <1>9, <2>4, SaveUsersSaves DEF SetBackupCodes
<1>10. UNCHANGED <<up, crashes, owner, origin, spent, reverted, requests>>
  BY DEF AccountSteps, Register, SetRole, SetDisabled, DeleteUser, EnrollTOTP,
         ConfirmTOTP, DisableTOTP, SetBackupCodes, historyVars
<1> QED
  BY <1>2, <1>3, <1>4, <1>5, <1>6, <1>7, <1>8, <1>9, <1>10 DEF AccountSteps, CopiesStay

\* A session is opened, from what the account is now or from an old copy of it,
OpenedAs(i, v, name, role, t, how) ==
  /\ Fresh(t)
  /\ users' = [users EXCEPT ![i] = v] /\ v.lastLogin = t
  /\ v.name = users[i].name /\ v.role = users[i].role
  /\ v.disabled = users[i].disabled /\ v.codes = users[i].codes
  /\ sessions' = [sessions EXCEPT ![t] = [user |-> name, role |-> role, zero |-> FALSE]]
  /\ owner' = [owner EXCEPT ![t] = name]
  /\ origin' = [origin EXCEPT ![t] = how]
  /\ spent' = spent /\ reverted' = reverted
  /\ how = "issued" => users[i].name = name /\ users[i].role = role /\ ~users[i].disabled
Opened == \E i \in DOMAIN users, v \in User, name \in Names, role \in Roles,
             t \in Tokens, how \in {"issued", "stale"} : OpenedAs(i, v, name, role, t, how)

\* a backup code is taken from its account,
Consumed == \E i \in DOMAIN users, v \in User : \E c \in users[i].codes :
              /\ users' = [users EXCEPT ![i] = v] /\ v.codes = users[i].codes \ {c}
              /\ v.name = users[i].name /\ v.lastLogin = users[i].lastLogin
              /\ v.role = users[i].role /\ v.disabled = users[i].disabled
              /\ spent' = spent \cup {<<v.name, c>>}
              /\ UNCHANGED <<sessions, owner, origin, reverted>>

\* or the accounts stay as they are, and perhaps are saved once more.
Kept == /\ UNCHANGED <<users, spent, owner, origin, reverted>>
        /\ Saved \/ (usersFile' = usersFile /\ faults' >= faults)

LEMMA OpenSessionEffect ==
  ASSUME PartsOK, NEW i \in DOMAIN users, NEW name \in Names, NEW role \in Roles,
         NEW t \in Tokens, NEW how \in {"issued", "stale"},
         OpenSession(i, name, role, t, how), spent' = spent, reverted' = reverted,
         how = "issued" => users[i].name = name /\ users[i].role = role /\ ~users[i].disabled
  PROVE  Opened /\ Saved
<1> DEFINE v == [users[i] EXCEPT !.lastLogin = t]
<1>1. users[i] \in User
  BY LenProperties, ElementOfSeq DEF AccountList, PartsOK
<1>2. Edited(users[i], v)
  BY <1>1, EditedUserTypes
<1>3. /\ v \in User /\ v.name = users[i].name /\ v.codes = users[i].codes /\ v.lastLogin = t
      /\ v.role = users[i].role /\ v.disabled = users[i].disabled
  BY <1>1, <1>2, FieldsKept DEF Edited
<1>4. /\ Fresh(t) /\ users' = [users EXCEPT ![i] = v]
      /\ sessions' = [sessions EXCEPT ![t] = [user |-> name, role |-> role, zero |-> FALSE]]
      /\ owner' = [owner EXCEPT ![t] = name] /\ origin' = [origin EXCEPT ![t] = how]
  BY DEF OpenSession
<1> HIDE DEF v
<1>5. Opened
  BY <1>3, <1>4 DEF Opened, OpenedAs
<1>6. Saved
  BY SaveBothSaves DEF OpenSession, PartsOK
<1> QED
  BY <1>5, <1>6

\* Every step of a login does one of these.
LEMMA LoginEffect ==
  ASSUME PartsOK, LoginSteps
  PROVE  /\ (Opened /\ Saved) \/ (Consumed /\ Saved) \/ (Kept /\ sessions' = sessions)
         /\ UNCHANGED <<up, crashes>>
         /\ CopiesStay(requests')
<1> USE DEF PartsOK
<1> DEFINE Outcome == (Opened /\ Saved) \/ (Consumed /\ Saved) \/ (Kept /\ sessions' = sessions)
<1>1. ASSUME NEW n \in Names, Has(n)
      PROVE  /\ IndexOf(n) \in DOMAIN users /\ users[IndexOf(n)] \in User
             /\ users[IndexOf(n)].name = n /\ users[IndexOf(n)].role \in Roles
  <2>1. /\ IndexOf(n) \in DOMAIN users /\ users[IndexOf(n)] \in User
        /\ users[IndexOf(n)].name = n
    BY <1>1, IndexOfFinds, LenProperties, ElementOfSeq DEF AccountList
  <2> QED
    BY <2>1 DEF User
<1>2. faults \in Nat
  BY BoundAssumption DEF FilesOK
<1>3. ASSUME NEW n \in Names, NEW t \in Tokens, Login(n, t) PROVE Outcome
  <2>1. /\ OpenSession(IndexOf(n), n, users[IndexOf(n)].role, t, "issued")
        /\ Has(n) /\ ~users[IndexOf(n)].disabled /\ spent' = spent /\ reverted' = reverted
    BY <1>3 DEF Login
  <2> QED
    BY <1>1, <2>1, OpenSessionEffect
<1>4. ASSUME NEW r \in Requests, NEW n \in Names, NEW c \in Codes, LoginTryBackup(r, n, c)
      PROVE  Outcome
  BY <1>2, <1>4 DEF LoginTryBackup, storeVars, fileVars, historyVars, Kept
<1>5. ASSUME NEW r \in Requests, ConsumeBackupCode(r) PROVE Outcome
  <2> DEFINE n == requests[r].name
             c == requests[r].code
             u == users[IndexOf(n)]
             v == [u EXCEPT !.codes = Remaining(u.codes, c)]
  <2>1. n \in Names
    BY <1>5 DEF ConsumeBackupCode, Request, IdleRequest, BackupLogin, MetaWrite, PasskeyEdit
  <2>2. CASE Has(n) /\ c \in u.codes
    <3>1. /\ users' = [users EXCEPT ![IndexOf(n)] = v] /\ spent' = spent \cup {<<n, c>>}
          /\ UNCHANGED <<sessions, owner, origin, reverted>>
          /\ \E err \in BOOLEAN : SaveUsers(users', err)
      BY <1>5, <2>2 DEF ConsumeBackupCode
    <3>2. IndexOf(n) \in DOMAIN users /\ u \in User /\ u.name = n
      BY <1>1, <2>1, <2>2
    <3>3. Remaining(u.codes, c) = u.codes \ {c} /\ Remaining(u.codes, c) \in SUBSET Codes
      BY <3>2 DEF User, Remaining
    <3>4. Edited(u, v)
      BY <3>2, <3>3, EditedUserTypes
    <3>5. /\ v \in User /\ v.codes = u.codes \ {c} /\ v.name = u.name
          /\ v.lastLogin = u.lastLogin /\ v.role = u.role /\ v.disabled = u.disabled
      BY <3>2, <3>3, <3>4, FieldsKept DEF Edited
    <3> HIDE DEF v
    <3>6. Consumed
      BY <2>2, <3>1, <3>2, <3>5 DEF Consumed
    <3> QED
      BY <3>1, <3>6, SaveUsersSaves
  <2>3. CASE ~(Has(n) /\ c \in u.codes)
    BY <1>2, <1>5, <2>3 DEF ConsumeBackupCode, Kept
  <2> QED
    BY <2>2, <2>3
<1>6. ASSUME NEW r \in Requests, NEW t \in Tokens, LoginAfterBackup(r, t) PROVE Outcome
  <2> DEFINE q == requests[r]
             how == IF StillCurrent(q) THEN "issued" ELSE "stale"
  <2>1. q.name \in Names /\ q.role \in Roles
    BY <1>6 DEF LoginAfterBackup, Request, IdleRequest, BackupLogin, MetaWrite, PasskeyEdit
  <2>2. CASE q.index \in DOMAIN users
    <3>1. OpenSession(q.index, q.name, q.role, t, how) /\ spent' = spent /\ reverted' = reverted
      BY <1>6, <2>2 DEF LoginAfterBackup
    <3>2. how = "issued" => /\ users[q.index].name = q.name /\ users[q.index].role = q.role
                            /\ ~users[q.index].disabled
      BY DEF StillCurrent
    <3>3. how \in {"issued", "stale"}
      OBVIOUS
    <3> HIDE DEF how, q
    <3> QED
      BY <2>1, <2>2, <3>1, <3>2, <3>3, OpenSessionEffect
  <2>3. CASE q.index \notin DOMAIN users
    BY <1>2, <1>6, <2>3 DEF LoginAfterBackup, storeVars, fileVars, Kept
  <2> QED
    BY <2>2, <2>3
<1>7. ASSUME NEW r \in Requests, NEW n \in Names, NEW t \in Tokens, IssueToken(r, n, t)
      PROVE  Outcome
  <2>1. /\ OpenSession(IndexOf(n), n, users[IndexOf(n)].role, t, "issued")
        /\ Has(n) /\ ~users[IndexOf(n)].disabled /\ spent' = spent /\ reverted' = reverted
    BY <1>7 DEF IssueToken
  <2> QED
    BY <1>1, <2>1, OpenSessionEffect
<1>8. ASSUME NEW r \in Requests, IssueTokenMeta(r) PROVE Outcome
  <2>1. UNCHANGED <<users, sessions, spent, owner, origin, reverted>>
    BY <1>8 DEF IssueTokenMeta, historyVars
  <2>2. \/ SaveBoth(users', sessions)
        \/ SaveSessions(sessions) /\ UNCHANGED usersFile
        \/ \E err \in BOOLEAN : SaveUsers(users', err)
        \/ UNCHANGED fileVars
    BY <1>8, <2>1 DEF IssueTokenMeta
  <2>3. CASE SaveBoth(users', sessions)
    BY <2>1, <2>3, SaveBothSaves DEF Kept
  <2>4. CASE SaveSessions(sessions) /\ UNCHANGED usersFile
    BY <1>2, <2>1, <2>4 DEF SaveSessions, Fault, Kept
  <2>5. CASE \E err \in BOOLEAN : SaveUsers(users', err)
    BY <2>1, <2>5, SaveUsersSaves DEF Kept
  <2>6. CASE UNCHANGED fileVars
    BY <1>2, <2>1, <2>6 DEF fileVars, Kept
  <2> QED
    BY <2>2, <2>3, <2>4, <2>5, <2>6
<1>9. UNCHANGED <<up, crashes>>
  BY DEF LoginSteps, Login, LoginTryBackup, ConsumeBackupCode, LoginAfterBackup, IssueToken,
         IssueTokenMeta, boundVars
<1>10. CopiesStay(requests')
  <2>1. ASSUME NEW r \in Requests, NEW q, q.pc # "passkey", requests' = [requests EXCEPT ![r] = q]
        PROVE  CopiesStay(requests')
    BY <2>1 DEF CopiesStay
  <2>2. ASSUME NEW r \in Requests, ConsumeBackupCode(r) PROVE CopiesStay(requests')
    <3> DEFINE n == requests[r].name
               c == requests[r].code
    <3>1. requests[r] \in BackupLogin
      BY <2>2 DEF ConsumeBackupCode, Request, IdleRequest, BackupLogin, MetaWrite, PasskeyEdit
    <3>2. [requests[r] EXCEPT !.pc = "relock"].pc = "relock" /\ IdleRequest.pc = "idle"
      BY <3>1 DEF BackupLogin, IdleRequest
    <3>3. requests[r].pc # "passkey"
      BY <3>1 DEF BackupLogin
    <3>4. /\ CopiesWithout(n, c) \in [Requests -> Request]
          /\ CopiesWithout(n, c)[r] = requests[r]
          /\ CopiesStay(CopiesWithout(n, c))
      BY <3>3, CopiesWithoutTypes DEF CopiesStay
    <3>5. \/ requests' = [requests EXCEPT ![r] = [requests[r] EXCEPT !.pc = "relock"]]
          \/ requests' = [CopiesWithout(n, c) EXCEPT ![r] = [CopiesWithout(n, c)[r] EXCEPT !.pc = "relock"]]
          \/ requests' = [requests EXCEPT ![r] = IdleRequest]
      BY <2>2 DEF ConsumeBackupCode
    <3>6. CASE requests' = [requests EXCEPT ![r] = [requests[r] EXCEPT !.pc = "relock"]]
      BY <2>1, <3>2, <3>6
    <3>7. CASE requests' = [CopiesWithout(n, c) EXCEPT ![r] = [CopiesWithout(n, c)[r] EXCEPT !.pc = "relock"]]
      <4> DEFINE old == CopiesWithout(n, c)
                 new == [requests[r] EXCEPT !.pc = "relock"]
      <4>1. old \in [Requests -> Request] /\ CopiesStay(old)
        BY <3>4
      <4>2. requests' = [old EXCEPT ![r] = new] /\ new.pc # "passkey"
        BY <3>2, <3>4, <3>7
      <4> HIDE DEF old, new
      <4> QED
        BY <4>1, <4>2 DEF CopiesStay
    <3>8. CASE requests' = [requests EXCEPT ![r] = IdleRequest]
      BY <2>1, <3>2, <3>8
    <3> QED
      BY <3>5, <3>6, <3>7, <3>8
  <2>3. requests' = requests => CopiesStay(requests')
    BY DEF CopiesStay
  <2> QED
    BY <2>1, <2>2, <2>3 DEF LoginSteps, Login, LoginTryBackup, LoginAfterBackup, IssueToken,
       IssueTokenMeta, IdleRequest
<1> QED
  BY <1>3, <1>4, <1>5, <1>6, <1>7, <1>8, <1>9, <1>10 DEF LoginSteps

\* A passkey handler takes a copy of an account,
CopyTaken == \E r \in Requests, i \in DOMAIN users :
               /\ requests' = [requests EXCEPT ![r] = [pc |-> "passkey", copy |-> users[i]]]
               /\ UNCHANGED <<users, sessions, usersFile, faults, owner, origin, spent, reverted>>

\* or puts it back, which is noted when it changes what the account may do.
PutBack == \E r \in Requests, i \in DOMAIN users : \E v \in User :
             /\ requests[r].pc = "passkey" /\ v = requests[r].copy
             /\ v.name = users[i].name
             /\ users' = [users EXCEPT ![i] = v]
             /\ reverted' = IF TakesBack(users[i], v) THEN reverted \cup {v.name} ELSE reverted
             /\ UNCHANGED <<sessions, owner, origin, spent>>

LEMMA PasskeyEffect ==
  ASSUME PartsOK, PasskeySteps
  PROVE  /\ \/ CopyTaken
            \/ PutBack /\ Saved /\ CopiesStay(requests')
            \/ /\ UNCHANGED <<users, sessions, usersFile, faults, owner, origin, spent, reverted>>
               /\ CopiesStay(requests')
         /\ UNCHANGED <<up, crashes>>
<1> USE DEF PartsOK
<1>1. ASSUME NEW r \in Requests, NEW n \in Names, GetUser(r, n) PROVE CopyTaken
  BY <1>1, IndexOfFinds DEF GetUser, CopyTaken, storeVars, fileVars, historyVars
<1>2. ASSUME NEW r \in Requests, UpdateUser(r)
      PROVE  /\ CopiesStay(requests')
             /\ \/ PutBack /\ Saved
                \/ UNCHANGED <<users, sessions, usersFile, faults, owner, origin, spent, reverted>>
  <2> DEFINE v == requests[r].copy
  <2>1. v \in User /\ requests[r].pc = "passkey"
    BY <1>2 DEF UpdateUser, Request, IdleRequest, BackupLogin, MetaWrite, PasskeyEdit
  <2>2. CopiesStay(requests')
    BY <1>2 DEF UpdateUser, CopiesStay, IdleRequest
  <2>3. CASE Has(v.name)
    <3>1. IndexOf(v.name) \in DOMAIN users /\ users[IndexOf(v.name)].name = v.name
      BY <2>3, IndexOfFinds
    <3>2. /\ users' = [users EXCEPT ![IndexOf(v.name)] = v]
          /\ reverted' = IF TakesBack(users[IndexOf(v.name)], v) THEN reverted \cup {v.name} ELSE reverted
          /\ UNCHANGED <<sessions, owner, origin, spent>>
      BY <1>2, <2>3 DEF UpdateUser
    <3>3. Saved
      BY <1>2, <2>3, SaveUsersSaves DEF UpdateUser
    <3>4. PutBack
      BY <2>1, <3>1, <3>2 DEF PutBack
    <3> QED
      BY <2>2, <3>3, <3>4
  <2>4. CASE ~Has(v.name)
    BY <1>2, <2>2, <2>4 DEF UpdateUser
  <2> QED
    BY <2>3, <2>4
<1>3. UNCHANGED <<up, crashes>>
  BY DEF PasskeySteps, GetUser, UpdateUser, boundVars
<1> QED
  BY <1>1, <1>2, <1>3 DEF PasskeySteps

\* The session store drops sessions and never makes one; the goroutines that
\* write sessions.json touch nothing in memory.
Dropped == \A t \in Tokens : sessions'[t] \in {sessions[t], NoSession}

LEMMA DroppingEffect ==
  ASSUME PartsOK, SessionSteps \/ SaverSteps
  PROVE  /\ Kept /\ Dropped /\ usersFile' = usersFile
         /\ UNCHANGED <<up, crashes>> /\ CopiesStay(requests')
<1>1. faults \in Nat
  BY BoundAssumption DEF FilesOK, PartsOK
<1>2. faults' >= faults
  <2>1. ASSUME NEW ss, SaveSessions(ss) PROVE faults' >= faults
    BY <1>1, <2>1 DEF SaveSessions, Fault
  <2>2. \/ UNCHANGED faults
        \/ \E ss \in {sessions'} \cup {savers[g].data : g \in Savers} : SaveSessions(ss)
    BY DEF SessionSteps, SaverSteps, Lapse, ValidateToken, RevokeSession, Logout,
           PruneExpiredSessions, RevokeAllSessionsForUser, fileVars, Marshal, WriteSessions
  <2> QED
    BY <1>1, <2>1, <2>2
<1> USE DEF PartsOK
<1>3. Dropped
  <2>1. CASE SaverSteps
    BY <2>1 DEF SaverSteps, storeVars, Marshal, WriteSessions, Dropped
  <2>2. ASSUME NEW t \in Tokens, Lapse(t) \/ ValidateToken(t) \/ RevokeSession(t) PROVE Dropped
    BY <2>2 DEF Lapse, ValidateToken, RevokeSession, storeVars, Dropped, SessionMap
  <2>3. ASSUME NEW g \in Savers, PruneExpiredSessions(g) PROVE Dropped
    BY <2>3 DEF PruneExpiredSessions, Dropped
  <2>4. ASSUME NEW g \in Savers, NEW t \in Tokens, Logout(t, g) PROVE Dropped
    BY <2>4 DEF Logout, Dropped, SessionMap
  <2>5. ASSUME NEW n \in Names, RevokeAllSessionsForUser(n) PROVE Dropped
    BY <2>5 DEF RevokeAllSessionsForUser, DropSessionsOf, Dropped
  <2> QED
    BY <2>1, <2>2, <2>3, <2>4, <2>5 DEF SessionSteps
<1>4. UNCHANGED <<users, spent, owner, origin, reverted, requests, usersFile, up, crashes>>
  BY DEF SessionSteps, SaverSteps, Lapse, ValidateToken, RevokeSession, Logout,
         PruneExpiredSessions, RevokeAllSessionsForUser, storeVars, fileVars, boundVars,
         historyVars, Marshal, WriteSessions
<1> QED
  BY <1>2, <1>3, <1>4 DEF Kept, CopiesStay

-----------------------------------------------------------------------------
(* Sessions that ended *)

\* A token that was given out and has no session gets none by this step.
NotRevived == up /\ up' => \A t \in Tokens :
                 owner[t] # NoName /\ sessions[t] = NoSession => sessions'[t] = NoSession

LEMMA StepRevivesNone ==
  ASSUME PartsOK, [Next]_vars
  PROVE  NotRevived
<1> SUFFICES ASSUME up, up', NEW t \in Tokens, owner[t] # NoName, sessions[t] = NoSession
             PROVE  sessions'[t] = NoSession
  BY DEF NotRevived
<1>1. sessions[t].user = NoName /\ sessions[t].user \notin Names
  BY NullAssumption DEF NoSession
<1>2. \A n \in Names : DropSessionsOf(n)[t] = NoSession
  BY DEF DropSessionsOf
<1>3. CASE AccountSteps
  <2>1. CASE Added \/ Removed
    BY <1>2, <2>1 DEF Added, Removed
  <2>2. CASE Changed
    <3>1. PICK i \in DOMAIN users, v \in User : SessionsFollow(users[i], v)
      BY <2>2 DEF Changed
    <3>2. users[i].name \in Names
      <4>1. users[i] \in User
        BY LenProperties, ElementOfSeq DEF PartsOK, AccountList
      <4> QED
        BY <4>1 DEF User
    <3> QED
      BY <1>1, <1>2, <3>1, <3>2 DEF SessionsFollow, ZeroedSessions
  <2> QED
    BY <1>3, <2>1, <2>2, AccountEffect
<1>4. CASE LoginSteps
  <2>1. CASE Opened
    BY <2>1 DEF Opened, OpenedAs, Fresh, PartsOK, SessionMap
  <2> QED
    BY <1>4, <2>1, LoginEffect DEF Consumed
<1>5. CASE SessionSteps \/ SaverSteps
  BY <1>5, DroppingEffect DEF Dropped
<1>6. CASE Crash \/ NewUserStore
  BY <1>6 DEF Crash, NewUserStore
<1>7. CASE UNCHANGED vars
  BY <1>7 DEF vars
<1>8. CASE PasskeySteps
  BY <1>8, PasskeyEffect DEF CopyTaken, PutBack
<1> QED
  BY <1>3, <1>4, <1>5, <1>6, <1>7, <1>8 DEF Next

\* While the daemon runs, a session that was logged out, revoked, pruned or
\* deleted with its account never comes back under its token.
THEOREM NoResurrectionCorrect == Spec => NoResurrection
<1>1. TypeInv /\ [Next]_vars => NotRevived
  BY TypeInvParts, StepRevivesNone
<1>2. Spec => []TypeInv
  BY InitTypeInv, TypeInvStep, PTL DEF Spec
<1>3. Spec => [][NotRevived]_vars
  BY <1>1, <1>2, PTL DEF Spec
<1>4. NotRevived <=> (up /\ up' => \A t \in Tokens :
           owner[t] # NoName /\ sessions[t] = NoSession => sessions'[t] = NoSession)
  BY DEF NotRevived
<1> QED
  BY <1>3, <1>4, PTL DEF NoResurrection

-----------------------------------------------------------------------------
(* users.json and the backup codes *)

\* No account of us holds a code it accepted, unless it was taken back.
CodesUnspent(u, sp, rv) == u.name \notin rv => \A c \in u.codes : <<u.name, c>> \notin sp
Clean(us, sp, rv) == \A i \in DOMAIN us : CodesUnspent(us[i], sp, rv)

\* The list changed at i only, to an account that holds no spent code.
LEMMA EditKeepsClean ==
  ASSUME AccountList(users), NEW i \in DOMAIN users, NEW v \in User, NEW sp, NEW rv, NEW sq, NEW rw,
         Clean(users, sp, rv), users' = [users EXCEPT ![i] = v],
         CodesUnspent(v, sq, rw),
         \A j \in DOMAIN users : j # i /\ CodesUnspent(users[j], sp, rv) => CodesUnspent(users[j], sq, rw)
  PROVE  Clean(users', sq, rw)
<1>1. DOMAIN users' = DOMAIN users /\ users'[i] = v /\ \A j \in DOMAIN users : j # i => users'[j] = users[j]
  BY DEF AccountList
<1> QED
  BY <1>1 DEF Clean

LEMMA AppendKeepsClean ==
  ASSUME AccountList(users), NEW n \in Names, NEW role \in Roles, NEW sp, NEW rv, Clean(users, sp, rv),
         users' = Append(users, NewUser(n, role))
  PROVE  Clean(users', sp, rv)
<1>1. \A i \in DOMAIN users' : users'[i].codes = {} \/ (i \in DOMAIN users /\ users'[i] = users[i])
  BY AppendProperties DEF AccountList, NewUser
<1> QED
  BY <1>1 DEF Clean, CodesUnspent

LEMMA WithoutKeepsClean ==
  ASSUME AccountList(users), NEW k \in DOMAIN users, NEW sp, NEW rv, Clean(users, sp, rv),
         users' = Without(users, k)
  PROVE  Clean(users', sp, rv)
<1>1. \A i \in DOMAIN users' : \E j \in DOMAIN users : users'[i] = users[j]
  BY WithoutKeepsList
<1> QED
  BY <1>1 DEF Clean

\* A code is spent by the account that had it.
LEMMA ConsumeKeepsClean ==
  ASSUME AccountList(users), NEW i \in DOMAIN users, NEW v \in User, NEW c \in users[i].codes,
         users' = [users EXCEPT ![i] = v], v.codes = users[i].codes \ {c}, v.name = users[i].name,
         NEW sp, NEW rv, Clean(users, sp, rv)
  PROVE  Clean(users', sp \cup {<<v.name, c>>}, rv)
<1>1. CodesUnspent(v, sp \cup {<<v.name, c>>}, rv)
  BY DEF Clean, CodesUnspent
<1>2. \A j \in DOMAIN users : j # i => users[j].name # v.name
  BY DEF AccountList
<1>3. \A j \in DOMAIN users : j # i /\ CodesUnspent(users[j], sp, rv)
                                => CodesUnspent(users[j], sp \cup {<<v.name, c>>}, rv)
  BY <1>2 DEF CodesUnspent
<1> QED
  BY <1>1, <1>3, EditKeepsClean

\* An account put back with its present codes is as clean as it was.
LEMMA PutBackKeepsClean ==
  ASSUME AccountList(users), Clean(users, spent, reverted), PutBack
  PROVE  Clean(users', spent', reverted')
<1>1. PICK r \in Requests, i \in DOMAIN users, v \in User :
             /\ v.name = users[i].name /\ users' = [users EXCEPT ![i] = v] /\ spent' = spent
             /\ reverted' = IF TakesBack(users[i], v) THEN reverted \cup {v.name} ELSE reverted
  BY DEF PutBack
<1>2. CodesUnspent(v, spent, reverted')
  BY <1>1 DEF CodesUnspent, Clean, TakesBack
<1>3. \A j \in DOMAIN users : CodesUnspent(users[j], spent, reverted) => CodesUnspent(users[j], spent, reverted')
  BY <1>1 DEF CodesUnspent
<1>4. users' = [users EXCEPT ![i] = v]
  BY <1>1
<1>5. Clean(users', spent, reverted')
  BY <1>2, <1>3, <1>4, EditKeepsClean
<1> QED
  BY <1>1, <1>5

\* No step puts an accepted code back in an account without noting it.
LEMMA AccountsStayClean ==
  ASSUME PartsOK, Clean(users, spent, reverted), AccountSteps \/ LoginSteps \/ PasskeySteps
  PROVE  Clean(users', spent', reverted')
<1> USE DEF PartsOK
<1>1. CASE AccountSteps
  <2>1. spent' = spent /\ reverted' = reverted
    BY <1>1, AccountEffect
  <2>2. CASE Added
    BY <2>1, <2>2, AppendKeepsClean DEF Added
  <2>3. CASE Removed
    BY <2>1, <2>3, IndexOfFinds, WithoutKeepsClean DEF Removed
  <2>4. CASE Changed
    <3>1. PICK i \in DOMAIN users, v \in User :
                 users' = [users EXCEPT ![i] = v] /\ NewCodes(users[i], v) /\ v.name = users[i].name
      BY <2>4 DEF Changed
    <3>2. CodesUnspent(v, spent, reverted)
      BY <3>1 DEF NewCodes, CodesUnspent, Clean
    <3> QED
      BY <2>1, <3>1, <3>2, EditKeepsClean
  <2> QED
    BY <1>1, <2>2, <2>3, <2>4, AccountEffect
<1>2. CASE LoginSteps
  <2>1. CASE Opened
    <3>1. PICK i \in DOMAIN users, v \in User, name \in Names, role \in Roles,
               t \in Tokens, how \in {"issued", "stale"} : OpenedAs(i, v, name, role, t, how)
      BY <2>1 DEF Opened
    <3>2. /\ users' = [users EXCEPT ![i] = v] /\ v.codes = users[i].codes /\ v.name = users[i].name
          /\ spent' = spent /\ reverted' = reverted
      BY <3>1 DEF OpenedAs
    <3>3. CodesUnspent(v, spent, reverted)
      BY <3>2 DEF CodesUnspent, Clean
    <3> QED
      BY <3>2, <3>3, EditKeepsClean
  <2>2. CASE Consumed
    <3>1. PICK i \in DOMAIN users, v \in User : \E c \in users[i].codes :
                 /\ users' = [users EXCEPT ![i] = v] /\ v.codes = users[i].codes \ {c}
                 /\ spent' = spent \cup {<<v.name, c>>} /\ reverted' = reverted
                 /\ v.name = users[i].name
      BY <2>2 DEF Consumed
    <3>2. PICK c \in users[i].codes : /\ v.codes = users[i].codes \ {c}
                                      /\ spent' = spent \cup {<<v.name, c>>}
      BY <3>1
    <3>3. users' = [users EXCEPT ![i] = v] /\ v.name = users[i].name /\ reverted' = reverted
      BY <3>1
    <3>4. Clean(users', spent \cup {<<v.name, c>>}, reverted)
      BY <3>2, <3>3, ConsumeKeepsClean
    <3> QED
      BY <3>2, <3>3, <3>4
  <2>3. CASE Kept
    BY <2>3 DEF Kept
  <2> QED
    BY <1>2, <2>1, <2>2, <2>3, LoginEffect
<1>3. CASE PasskeySteps
  BY <1>3, PasskeyEffect, PutBackKeepsClean DEF CopyTaken
<1> QED
  BY <1>1, <1>2, <1>3

\* While no write has failed the file is what memory holds, or held when the
\* daemon stopped; a failed write leaves old codes in the file, which only a
\* restart reads.
StoreInv ==
  /\ UsersFileCurrent
  /\ crashes = 0 => up
  /\ crashes = 0 \/ faults = 0 => Clean(users, spent, reverted)
  /\ faults = 0 => Clean(usersFile.data, spent, reverted)

LEMMA StoreInvStep ==
  ASSUME PartsOK, crashes \in 0 .. MaxCrashes, StoreInv, [Next]_vars
  PROVE  StoreInv'
<1> USE DEF StoreInv, UsersFileCurrent
<1>1. faults \in Nat /\ crashes \in Nat
  BY BoundAssumption DEF PartsOK, FilesOK
<1>2. ASSUME Clean(users, spent, reverted) => Clean(users', spent', reverted'), Saved,
             UNCHANGED <<up, crashes>>
      PROVE  StoreInv'
  <2>1. faults' = 0 => faults = 0 /\ usersFile' = [form |-> "whole", data |-> users']
    BY <1>1, <1>2 DEF Saved
  <2>2. crashes' = 0 \/ faults' = 0 => Clean(users', spent', reverted')
    BY <1>2, <2>1
  <2>3. faults' = 0 => usersFile'.data = users'
    BY <2>1
  <2> QED
    BY <1>2, <2>1, <2>2, <2>3
<1>3. ASSUME UNCHANGED <<users, spent, reverted, usersFile, up, crashes>>, faults' >= faults
      PROVE  StoreInv'
  BY <1>1, <1>3
<1>4. CASE AccountSteps
  BY <1>2, <1>4, AccountEffect, AccountsStayClean
<1>5. CASE LoginSteps
  BY <1>2, <1>3, <1>5, LoginEffect, AccountsStayClean DEF Kept
<1>6. CASE SessionSteps \/ SaverSteps
  <2>1. Kept /\ usersFile' = usersFile /\ UNCHANGED <<up, crashes>>
    BY <1>6, DroppingEffect
  <2>2. faults' >= faults
    BY <1>1, <2>1 DEF Kept, Saved
  <2> QED
    BY <1>3, <2>1, <2>2 DEF Kept
<1>7. CASE Crash
  <2>1. /\ ~up' /\ crashes' = crashes + 1 /\ users' = <<>>
        /\ UNCHANGED <<usersFile, faults, spent, reverted>>
    BY <1>7 DEF Crash, historyVars
  <2>2. Clean(users', spent', reverted')
    BY <2>1 DEF Clean
  <2>3. crashes' # 0
    BY <1>1, <2>1
  <2> QED
    BY <2>1, <2>2, <2>3
<1>8. CASE NewUserStore
  <2>1. /\ ~up /\ users' = usersFile.data /\ usersFile.form = "whole"
        /\ UNCHANGED <<usersFile, faults, crashes, spent, reverted>> /\ up'
    BY <1>8 DEF NewUserStore, fileVars, boundVars
  <2>2. usersFile = [form |-> "whole", data |-> users']
    BY <2>1 DEF PartsOK, FilesOK
  <2>3. crashes # 0
    BY <2>1
  <2> QED
    BY <2>1, <2>2, <2>3
<1>9. CASE UNCHANGED vars
  BY <1>1, <1>3, <1>9 DEF vars
<1>10. CASE PasskeySteps
  <2>1. CASE PutBack /\ Saved
    BY <1>2, <1>10, <2>1, PasskeyEffect, AccountsStayClean
  <2>2. CASE UNCHANGED <<users, spent, reverted, usersFile, faults>>
    BY <1>1, <1>3, <1>10, <2>2, PasskeyEffect
  <2> QED
    BY <1>10, <2>1, <2>2, PasskeyEffect DEF CopyTaken
<1> QED
  BY <1>4, <1>5, <1>6, <1>7, <1>8, <1>9, <1>10 DEF Next

\* As long as no write fails users.json is what memory holds, and a backup code
\* an account accepted is not its code again, across restarts too, unless a
\* passkey handler put back a copy from before; with failed writes it stays
\* spent until the daemon restarts.
THEOREM SavedAndSpentCorrect == Spec => []SavedAndSpent
<1>1. Init => StoreInv
  BY DEF Init, StoreInv, UsersFileCurrent, Clean, CodesUnspent
<1>2. TypeInv /\ StoreInv /\ [Next]_vars => StoreInv'
  BY TypeInvParts, StoreInvStep
<1>3. StoreInv => SavedAndSpent
  BY DEF StoreInv, SavedAndSpent, SpentCodesGone, Clean, CodesUnspent
<1>4. Spec => []TypeInv
  BY InitTypeInv, TypeInvStep, PTL DEF Spec
<1> QED
  BY <1>1, <1>2, <1>3, <1>4, PTL DEF Spec

-----------------------------------------------------------------------------
(* Sessions and logins of the right account *)

\* The sessions of ss issued by this process, by what o says of their tokens,
\* are sessions of enabled accounts of us with the role of the account, apart
\* from the accounts rv that were taken back.
Standing(us, name, role) ==
  \E i \in DOMAIN us : us[i].name = name /\ us[i].role = role /\ ~us[i].disabled
Issued(ss, o, t) == ss[t] # NoSession /\ ~ss[t].zero /\ o[t] = "issued"
Matched(us, ss, o, rv) ==
  \A t \in Tokens : Issued(ss, o, t) /\ ss[t].user \notin rv => Standing(us, ss[t].user, ss[t].role)

\* A login noted in an account of us was given out, and to that account unless
\* Login went on with an out of date copy.
LoggedIn(n, t, ow, o) == t # NoToken => ow[t] # NoName /\ (o[t] # "stale" => ow[t] = n)
Logged(us, ow, o) == \A i \in DOMAIN us : LoggedIn(us[i].name, us[i].lastLogin, ow, o)
CopiesLogged(q, ow, o) ==
  \A r \in Requests : q[r].pc = "passkey" => LoggedIn(q[r].copy.name, q[r].copy.lastLogin, ow, o)

\* What a passkey handler will put back must satisfy what the accounts do.
LoginInv == /\ Matched(users, sessions, origin, reverted)
            /\ Logged(users, owner, origin)
            /\ Logged(usersFile.data, owner, origin)
            /\ CopiesLogged(requests, owner, origin)

\* Sessions stay matched when each that is left was there before.
LEMMA FewerMatched ==
  ASSUME NEW us, NEW ss, NEW tt, NEW o, NEW rv, Matched(us, ss, o, rv),
         \A t \in Tokens : tt[t] \in {ss[t], NoSession}
  PROVE  Matched(us, tt, o, rv)
BY DEF Matched, Issued

LEMMA AddedLogins ==
  ASSUME PartsOK, LoginInv, Added
  PROVE  Matched(users', sessions', origin, reverted) /\ Logged(users', owner, origin)
<1> USE DEF PartsOK
<1>1. PICK n \in Names, role \in Roles :
             users' = Append(users, NewUser(n, role)) /\ sessions' = sessions
  BY DEF Added
<1>2. NewUser(n, role) \in User
  BY DEF NewUser, User
<1>3. /\ \A i \in DOMAIN users : i \in DOMAIN users' /\ users'[i] = users[i]
      /\ \A i \in DOMAIN users' : \/ users'[i] = NewUser(n, role)
                                  \/ i \in DOMAIN users /\ users'[i] = users[i]
  BY <1>1, <1>2, AppendProperties, LenProperties DEF AccountList
<1>4. \A name, r : Standing(users, name, r) => Standing(users', name, r)
  BY <1>3 DEF Standing
<1>5. NewUser(n, role).lastLogin = NoToken
  BY DEF NewUser
<1>6. Logged(users', owner, origin)
  BY <1>3, <1>5 DEF LoginInv, Logged, LoggedIn
<1> QED
  BY <1>1, <1>4, <1>6 DEF LoginInv, Matched

LEMMA RemovedLogins ==
  ASSUME PartsOK, LoginInv, Removed
  PROVE  Matched(users', sessions', origin, reverted) /\ Logged(users', owner, origin)
<1> USE DEF PartsOK
<1>1. PICK n \in Names : /\ Has(n) /\ users' = Without(users, IndexOf(n))
                         /\ sessions' = DropSessionsOf(n)
  BY DEF Removed
<1>2. IndexOf(n) \in DOMAIN users /\ users[IndexOf(n)].name = n
  BY <1>1, IndexOfFinds
<1>3. /\ \A j \in DOMAIN users : j # IndexOf(n) => \E k \in DOMAIN users' : users'[k] = users[j]
      /\ \A k \in DOMAIN users' : \E j \in DOMAIN users : users'[k] = users[j]
  BY <1>1, <1>2, WithoutKeepsList
<1>4. \A name, r : name # n /\ Standing(users, name, r) => Standing(users', name, r)
  BY <1>2, <1>3 DEF Standing
<1>5. \A t \in Tokens : sessions'[t] = NoSession \/ (sessions'[t] = sessions[t] /\ sessions[t].user # n)
  BY <1>1 DEF DropSessionsOf
<1>6. Matched(users', sessions', origin, reverted)
  BY <1>4, <1>5 DEF LoginInv, Matched, Issued
<1>7. Logged(users', owner, origin)
  BY <1>3 DEF LoginInv, Logged
<1> QED
  BY <1>6, <1>7

LEMMA ChangedLogins ==
  ASSUME PartsOK, LoginInv, Changed
  PROVE  Matched(users', sessions', origin, reverted) /\ Logged(users', owner, origin)
<1> USE DEF PartsOK
<1>1. PICK i \in DOMAIN users, v \in User :
             /\ users' = [users EXCEPT ![i] = v]
             /\ v.name = users[i].name /\ v.lastLogin = users[i].lastLogin
             /\ SessionsFollow(users[i], v)
  BY DEF Changed
<1>2. /\ DOMAIN users' = DOMAIN users /\ users'[i] = v
      /\ \A j \in DOMAIN users : j # i => users'[j] = users[j]
  BY <1>1 DEF AccountList
<1>3. \A name, r : name # users[i].name /\ Standing(users, name, r) => Standing(users', name, r)
  BY <1>2 DEF Standing
<1>4. CASE sessions' = sessions /\ v.role = users[i].role /\ (v.disabled => users[i].disabled)
  <2>1. \A name, r : Standing(users, name, r) => Standing(users', name, r)
    BY <1>1, <1>2, <1>4 DEF Standing
  <2>2. Matched(users', sessions', origin, reverted)
    BY <1>4, <2>1 DEF LoginInv, Matched
  <2> QED
    BY <1>1, <1>2, <2>2 DEF LoginInv, Logged
<1>5. CASE sessions' = DropSessionsOf(users[i].name) \/ ZeroedSessions(users[i].name, sessions')
  <2>1. \A t \in Tokens : \/ sessions'[t] = NoSession
                          \/ sessions'[t].zero
                          \/ sessions'[t] = sessions[t] /\ sessions[t].user # users[i].name
    BY <1>5 DEF DropSessionsOf, ZeroedSessions
  <2>2. Matched(users', sessions', origin, reverted)
    BY <1>3, <2>1 DEF LoginInv, Matched, Issued
  <2> QED
    BY <1>1, <1>2, <2>2 DEF LoginInv, Logged
<1> QED
  BY <1>1, <1>4, <1>5 DEF SessionsFollow

LEMMA OpenedLogins ==
  ASSUME PartsOK, LoginInv, Opened
  PROVE  /\ Matched(users', sessions', origin', reverted') /\ Logged(users', owner', origin')
         /\ Logged(usersFile.data, owner', origin')
         /\ CopiesLogged(requests, owner', origin')
<1> USE DEF PartsOK
<1>1. PICK i \in DOMAIN users, v \in User, name \in Names, role \in Roles,
           t \in Tokens, how \in {"issued", "stale"} : OpenedAs(i, v, name, role, t, how)
  BY DEF Opened
<1>2. /\ DOMAIN users' = DOMAIN users /\ users'[i] = v
      /\ \A j \in DOMAIN users : j # i => users'[j] = users[j]
  BY <1>1 DEF AccountList, OpenedAs
<1>3. /\ v.lastLogin = t /\ v.name = users[i].name /\ v.role = users[i].role
      /\ v.disabled = users[i].disabled
  BY <1>1 DEF OpenedAs
<1>4. /\ owner[t] = NoName /\ owner'[t] = name /\ origin'[t] = how
      /\ \A s \in Tokens : s # t => /\ owner'[s] = owner[s] /\ origin'[s] = origin[s]
                                    /\ sessions'[s] = sessions[s]
      /\ sessions'[t] = [user |-> name, role |-> role, zero |-> FALSE]
  BY <1>1 DEF OpenedAs, Fresh, SessionMap
<1>5. ASSUME how = "issued" PROVE Standing(users, name, role)
  <2>1. users[i].name = name /\ users[i].role = role /\ ~users[i].disabled
    BY <1>1, <1>5 DEF OpenedAs
  <2> QED
    BY <2>1 DEF Standing
<1>6. \A n, r : Standing(users, n, r) => Standing(users', n, r)
  BY <1>2, <1>3 DEF Standing
<1>7. Matched(users', sessions', origin', reverted')
  <2>1. reverted' = reverted
    BY <1>1 DEF OpenedAs
  <2> QED
    BY <1>4, <1>5, <1>6, <2>1 DEF LoginInv, Matched, Issued
<1>13. ASSUME NEW u \in User, LoggedIn(u.name, u.lastLogin, owner, origin)
       PROVE  LoggedIn(u.name, u.lastLogin, owner', origin')
  <2>1. u.lastLogin \in Tokens \cup {NoToken}
    BY DEF User
  <2>2. u.lastLogin # t
    BY <1>4, <1>13, NullAssumption DEF LoggedIn
  <2> QED
    BY <1>4, <1>13, <2>1, <2>2 DEF LoggedIn
<1>8. ASSUME NEW us \in Seq(User), Logged(us, owner, origin)
      PROVE  Logged(us, owner', origin')
  <2>1. \A j \in DOMAIN us : us[j] \in User
    BY LenProperties, ElementOfSeq
  <2> QED
    BY <1>8, <1>13, <2>1 DEF Logged
<1>14. CopiesLogged(requests, owner', origin')
  <2>1. \A r \in Requests : requests[r].pc = "passkey" => requests[r].copy \in User
    BY DEF Request, IdleRequest, BackupLogin, MetaWrite, PasskeyEdit
  <2> QED
    BY <1>13, <2>1 DEF LoginInv, CopiesLogged
<1>9. Logged(users, owner', origin') /\ Logged(usersFile.data, owner', origin')
  BY <1>8 DEF LoginInv, AccountList, FilesOK
<1>10. how # "stale" => name = users[i].name
  BY <1>1 DEF OpenedAs
<1>11. name # NoName
  BY NullAssumption
<1>12. Logged(users', owner', origin')
  BY <1>2, <1>3, <1>4, <1>9, <1>10, <1>11 DEF Logged, LoggedIn
<1> QED
  BY <1>7, <1>9, <1>12, <1>14

LEMMA ConsumedLogins ==
  ASSUME PartsOK, LoginInv, Consumed
  PROVE  Matched(users', sessions', origin, reverted) /\ Logged(users', owner, origin)
<1> USE DEF PartsOK
<1>1. PICK i \in DOMAIN users, v \in User :
             /\ users' = [users EXCEPT ![i] = v]
             /\ v.name = users[i].name /\ v.lastLogin = users[i].lastLogin
             /\ v.role = users[i].role /\ v.disabled = users[i].disabled
             /\ sessions' = sessions
  BY DEF Consumed
<1>2. /\ DOMAIN users' = DOMAIN users /\ users'[i] = v
      /\ \A j \in DOMAIN users : j # i => users'[j] = users[j]
  BY <1>1 DEF AccountList
<1>3. \A n, r : Standing(users, n, r) => Standing(users', n, r)
  BY <1>1, <1>2 DEF Standing
<1> QED
  BY <1>1, <1>2, <1>3 DEF LoginInv, Matched, Logged

\* A copy is put back: the sessions of the account are as they were, and so are
\* its role and its state unless that is noted.
LEMMA PutBackLogins ==
  ASSUME PartsOK, LoginInv, PutBack
  PROVE  Matched(users', sessions', origin, reverted') /\ Logged(users', owner, origin)
<1> USE DEF PartsOK
<1>1. PICK r \in Requests, i \in DOMAIN users : \E v \in User :
             /\ requests[r].pc = "passkey" /\ v = requests[r].copy
             /\ v.name = users[i].name /\ users' = [users EXCEPT ![i] = v]
             /\ reverted' = IF TakesBack(users[i], v) THEN reverted \cup {v.name} ELSE reverted
             /\ sessions' = sessions
  BY DEF PutBack
<1>2. PICK v \in User :
             /\ requests[r].pc = "passkey" /\ v = requests[r].copy
             /\ v.name = users[i].name /\ users' = [users EXCEPT ![i] = v]
             /\ reverted' = IF TakesBack(users[i], v) THEN reverted \cup {v.name} ELSE reverted
             /\ sessions' = sessions
  BY <1>1
<1>3. /\ DOMAIN users' = DOMAIN users /\ users'[i] = v
      /\ \A j \in DOMAIN users : j # i => users'[j] = users[j]
  BY <1>2 DEF AccountList
<1>4. LoggedIn(v.name, v.lastLogin, owner, origin)
  BY <1>2 DEF LoginInv, CopiesLogged
<1>5. Logged(users', owner, origin)
  BY <1>3, <1>4 DEF LoginInv, Logged
<1>6. CASE TakesBack(users[i], v)
  <2>1. \A n, role : n # v.name /\ Standing(users, n, role) => Standing(users', n, role)
    BY <1>2, <1>3 DEF Standing
  <2>2. reverted' = reverted \cup {v.name} /\ sessions' = sessions
    BY <1>2, <1>6
  <2>3. Matched(users', sessions', origin, reverted')
    BY <2>1, <2>2 DEF LoginInv, Matched
  <2> QED
    BY <1>5, <2>3
<1>7. CASE ~TakesBack(users[i], v)
  <2>1. v.role = users[i].role /\ v.disabled = users[i].disabled /\ v.name = users[i].name
    BY <1>2, <1>7 DEF TakesBack
  <2>2. \A n, role : Standing(users, n, role) => Standing(users', n, role)
    BY <1>3, <2>1 DEF Standing
  <2>3. reverted' = reverted /\ sessions' = sessions
    BY <1>2, <1>7
  <2>4. Matched(users', sessions', origin, reverted')
    BY <2>2, <2>3 DEF LoginInv, Matched
  <2> QED
    BY <1>5, <2>4
<1> QED
  BY <1>6, <1>7

LEMMA LoginInvStep ==
  ASSUME PartsOK, LoginInv, [Next]_vars
  PROVE  LoginInv'
<1>1. ASSUME Saved, Matched(users', sessions', origin', reverted'), Logged(users', owner', origin'),
             Logged(usersFile.data, owner', origin'), CopiesLogged(requests', owner', origin')
      PROVE  LoginInv'
  BY <1>1 DEF Saved, LoginInv
<1>9. ASSUME NEW ow, NEW o, CopiesLogged(requests, ow, o), CopiesStay(requests')
      PROVE  CopiesLogged(requests', ow, o)
  BY <1>9 DEF CopiesLogged, CopiesStay
<1>2. ASSUME Kept, Dropped, CopiesStay(requests') PROVE LoginInv'
  <2>1. UNCHANGED <<users, owner, origin, reverted>> /\ usersFile'.data \in {users', usersFile.data}
    BY <1>2 DEF Kept, Saved
  <2>2. Matched(users, sessions', origin, reverted)
    BY <1>2, FewerMatched DEF Dropped, LoginInv
  <2>3. CopiesLogged(requests', owner, origin)
    BY <1>2, <1>9 DEF LoginInv
  <2> QED
    BY <2>1, <2>2, <2>3 DEF LoginInv
<1>3. CASE AccountSteps
  <2>1. Saved /\ UNCHANGED <<owner, origin, reverted>> /\ CopiesStay(requests')
    BY <1>3, AccountEffect
  <2>2. Matched(users', sessions', origin, reverted) /\ Logged(users', owner, origin)
    BY <1>3, AccountEffect, AddedLogins, RemovedLogins, ChangedLogins
  <2> QED
    BY <1>1, <1>9, <2>1, <2>2 DEF LoginInv
<1>4. CASE LoginSteps
  <2>1. CASE Opened /\ Saved
    BY <1>1, <1>4, <1>9, <2>1, OpenedLogins, LoginEffect
  <2>2. CASE Consumed /\ Saved
    <3>1. UNCHANGED <<owner, origin, reverted>>
      BY <2>2 DEF Consumed
    <3>2. Matched(users', sessions', origin, reverted) /\ Logged(users', owner, origin)
      BY <2>2, ConsumedLogins
    <3> QED
      BY <1>1, <1>4, <1>9, <2>2, <3>1, <3>2, LoginEffect DEF LoginInv
  <2>3. CASE Kept /\ sessions' = sessions
    BY <1>2, <1>4, <2>3, LoginEffect DEF Dropped
  <2> QED
    BY <1>4, <2>1, <2>2, <2>3, LoginEffect
<1>5. CASE SessionSteps \/ SaverSteps
  BY <1>2, <1>5, DroppingEffect
<1>6. CASE Crash
  <2>1. users' = <<>> /\ sessions' = EmptyMap /\ UNCHANGED <<usersFile, owner, origin>>
    BY <1>6 DEF Crash, historyVars
  <2>2. Matched(users', sessions', origin', reverted')
    BY <2>1 DEF Matched, Issued, EmptyMap
  <2>3. Logged(users', owner', origin')
    BY <2>1 DEF Logged
  <2>4. CopiesLogged(requests', owner', origin')
    BY <1>6 DEF Crash, CopiesLogged, IdleRequest
  <2> QED
    BY <2>1, <2>2, <2>3, <2>4 DEF LoginInv
<1>7. CASE NewUserStore
  <2>1. /\ users' = usersFile.data /\ UNCHANGED <<usersFile, owner, requests>>
        /\ origin' = [t \in Tokens |-> IF origin[t] = "issued" THEN "loaded" ELSE origin[t]]
    BY <1>7 DEF NewUserStore, fileVars
  <2>2. \A t \in Tokens : origin'[t] # "issued" /\ (origin'[t] # "stale" => origin[t] # "stale")
    BY <2>1
  <2>3. Matched(users', sessions', origin', reverted')
    BY <2>2 DEF Matched, Issued
  <2>4. \A i \in DOMAIN usersFile.data : usersFile.data[i].lastLogin \in Tokens \cup {NoToken}
    <3>1. \A i \in DOMAIN usersFile.data : usersFile.data[i] \in User
      BY LenProperties, ElementOfSeq DEF PartsOK, FilesOK
    <3> QED
      BY <3>1 DEF User
  <2>5. Logged(usersFile.data, owner, origin')
    BY <2>2, <2>4 DEF LoginInv, Logged, LoggedIn
  <2>6. \A r \in Requests : requests[r].pc = "passkey" => requests[r].copy.lastLogin \in Tokens \cup {NoToken}
    BY DEF PartsOK, Request, IdleRequest, BackupLogin, MetaWrite, PasskeyEdit, User
  <2>7. CopiesLogged(requests, owner, origin')
    BY <2>2, <2>6 DEF LoginInv, CopiesLogged, LoggedIn
  <2> QED
    BY <2>1, <2>3, <2>5, <2>7 DEF LoginInv
<1>8. CASE UNCHANGED vars
  BY <1>8 DEF vars, LoginInv, Matched, Issued, Standing, Logged, CopiesLogged
<1>10. CASE PasskeySteps
  <2>1. CASE CopyTaken
    <3>1. PICK r \in Requests, i \in DOMAIN users :
                 requests' = [requests EXCEPT ![r] = [pc |-> "passkey", copy |-> users[i]]]
      BY <2>1 DEF CopyTaken
    <3>2. UNCHANGED <<users, sessions, usersFile, owner, origin, reverted>>
      BY <2>1 DEF CopyTaken
    <3>3. CopiesLogged(requests', owner, origin)
      BY <3>1 DEF LoginInv, CopiesLogged, Logged, PartsOK
    <3> QED
      BY <3>2, <3>3 DEF LoginInv
  <2>2. CASE PutBack /\ Saved /\ CopiesStay(requests')
    <3>1. UNCHANGED <<owner, origin>>
      BY <2>2 DEF PutBack
    <3> QED
      BY <1>1, <1>9, <2>2, <3>1, PutBackLogins DEF LoginInv
  <2>3. CASE /\ UNCHANGED <<users, sessions, usersFile, owner, origin, reverted>>
             /\ CopiesStay(requests')
    BY <1>9, <2>3 DEF LoginInv
  <2> QED
    BY <1>10, <2>1, <2>2, <2>3, PasskeyEffect
<1> QED
  BY <1>3, <1>4, <1>5, <1>6, <1>7, <1>8, <1>10 DEF Next

\* A session that is accepted and was issued by this process is a session of an
\* enabled account with its present role, and a login is noted in the account
\* that logged in, unless Login went on with a copy that was out of date; the
\* sessions of an account whose old copy a passkey handler put back may differ.
THEOREM LoginsOwnCorrect == Spec => []LoginsOwn
<1>1. Init => LoginInv
  BY AccountsAssumption DEF Init, LoginInv, Matched, Issued, EmptyMap, Logged, LoggedIn, CopiesLogged,
                            IdleRequest
<1>2. TypeInv /\ LoginInv /\ [Next]_vars => LoginInv'
  BY TypeInvParts, LoginInvStep
<1>3. LoginInv => LoginsOwn
  <2> SUFFICES ASSUME LoginInv PROVE LoginsOwn
    OBVIOUS
  <2>1. ASSUME NEW t \in Tokens, Valid(t) PROVE sessions[t] # NoSession /\ ~sessions[t].zero
    BY <2>1 DEF Valid, Expired
  <2>2. IssuedSessionsMatch
    BY <2>1 DEF LoginInv, IssuedSessionsMatch, Matched, Issued, Standing
  <2>3. LastLoginOwn
    BY DEF LoginInv, LastLoginOwn, Logged, LoggedIn
  <2> QED
    BY <2>2, <2>3 DEF LoginsOwn
<1>4. Spec => []TypeInv
  BY InitTypeInv, TypeInvStep, PTL DEF Spec
<1> QED
  BY <1>1, <1>2, <1>3, <1>4, PTL DEF Spec
=============================================================================
