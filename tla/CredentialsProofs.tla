------------------------- MODULE CredentialsProofs --------------------------
(***************************************************************************)
(* Passkeys, second factors and the guard before a login, for any number   *)
(* of accounts, addresses, ceremonies, requests and changes.               *)
(*                                                                         *)
(* A challenge is answered once because a ceremony is in at most one       *)
(* place: the map, or one request that took it out.  What a passkey        *)
(* request puts back undoes nothing because a copy that no edit overtook   *)
(* carries the number of the last edit, and a copy is no worse a second    *)
(* factor than the record was when it was taken.                           *)
(*                                                                         *)
(* The guesses at an account are limited because every one is in the count *)
(* of a record of the tracker or with a handler that is about to record    *)
(* it, and a handler that guesses after the limit was reached had passed   *)
(* the check for a ban before.                                             *)
(***************************************************************************)
EXTENDS Credentials, LoginGuard, FiniteSetTheorems, TLAPS

\* Where a ceremony is: in the map, or with a request.
Held(c, i) == flight[c].pc = "get" /\ flight[c].id = i

\* A ceremony that is still to be answered was drawn, was answered by nobody
\* and is in one place only.
CeremoniesOK ==
  /\ answers \in [Ceremony -> Nat]
  /\ DOMAIN flight = Client
  /\ \A i \in DOMAIN ceremonies : i \in Ceremony /\ i \in drawn /\ answers[i] = 0
  /\ \A c \in Client, i \in DOMAIN ceremonies : ~Held(c, i)
  /\ \A c \in Client : flight[c].pc = "get" =>
        flight[c].id \in Ceremony /\ flight[c].id \in drawn /\ answers[flight[c].id] = 0
  /\ \A c, d \in Client : flight[c].pc = "get" /\ Held(d, flight[c].id) => c = d
  /\ \A i \in Ceremony : i \notin drawn => answers[i] = 0

ChallengeInv == CeremoniesOK /\ ChallengeOnce

-----------------------------------------------------------------------------
(* Challenges.                                                             *)

LEMMA ChallengeInit == ASSUME CredInit PROVE ChallengeInv
<1>1. flight = [c \in Client |-> Ready] /\ \A c \in Client : flight[c].pc = "idle"
  BY DEF CredInit, Ready
<1>2. DOMAIN ceremonies = {} /\ answers = [i \in Ceremony |-> 0]
  BY DEF CredInit
<1> QED
  BY <1>1, <1>2 DEF ChallengeInv, CeremoniesOK, ChallengeOnce, Held

\* A step that answers nothing and only lets go of ceremonies,
LEMMA NothingAnswered ==
  ASSUME ChallengeInv, answers' = answers, drawn \subseteq drawn',
         DOMAIN ceremonies' \subseteq DOMAIN ceremonies, DOMAIN flight' = Client,
         \A c \in Client : flight'[c].pc = "get" => flight'[c] = flight[c]
  PROVE  ChallengeInv'
BY DEF ChallengeInv, CeremoniesOK, ChallengeOnce, Held

\* and one that answers the ceremony the request holds.
LEMMA HeldAnswered ==
  ASSUME ChallengeInv, NEW c \in Client, flight[c].pc = "get",
         answers' = [answers EXCEPT ![flight[c].id] = @ + 1], drawn \subseteq drawn',
         ceremonies' = ceremonies, DOMAIN flight' = Client, flight'[c].pc # "get",
         \A d \in Client \ {c} : flight'[d] = flight[d]
  PROVE  ChallengeInv'
<1>1. answers' \in [Ceremony -> Nat] /\ answers'[flight[c].id] = 1
      /\ \A i \in Ceremony \ {flight[c].id} : answers'[i] = answers[i]
  BY DEF ChallengeInv, CeremoniesOK
<1>2. ChallengeOnce'
  BY <1>1 DEF ChallengeInv, CeremoniesOK, ChallengeOnce
<1>3. \A d \in Client : flight'[d].pc = "get" => d # c /\ flight'[d] = flight[d]
  OBVIOUS
<1>4. \A d \in Client \ {c} : flight[d].pc = "get" => flight[d].id # flight[c].id
  BY DEF ChallengeInv, CeremoniesOK, Held
<1>5. \A i \in DOMAIN ceremonies : i # flight[c].id
  BY DEF ChallengeInv, CeremoniesOK, Held
<1>6. flight[c].id \in drawn /\ flight[c].id \in Ceremony
  BY DEF ChallengeInv, CeremoniesOK
<1>7. CeremoniesOK'
  BY <1>1, <1>3, <1>4, <1>5, <1>6 DEF ChallengeInv, CeremoniesOK, Held
<1> QED
  BY <1>2, <1>7 DEF ChallengeInv

\* A new ceremony is in the map only, whatever cleanupSessions drops.
LEMMA CleanupDrops ==
  ASSUME NEW all, NEW left \in cleanupSessions(all)
  PROVE  DOMAIN left \subseteq DOMAIN all
BY DEF cleanupSessions

LEMMA BeginIsSafe ==
  ASSUME ChallengeInv, NEW n \in Name, NEW i \in Ceremony, Begin(n, i)
  PROVE  ChallengeInv'
<1>1. DOMAIN ceremonies' \subseteq DOMAIN ceremonies \cup {i}
  <2> DEFINE all == [j \in DOMAIN ceremonies \cup {i} |-> IF j = i THEN n ELSE ceremonies[j]]
  <2>1. ceremonies' \in cleanupSessions(all)
    BY DEF Begin
  <2>2. DOMAIN all = DOMAIN ceremonies \cup {i}
    OBVIOUS
  <2> HIDE DEF all
  <2> QED
    BY <2>1, <2>2, CleanupDrops
<1>2. i \notin drawn /\ drawn' = drawn \cup {i} /\ flight' = flight /\ answers' = answers
  BY DEF Begin
<1>3. answers[i] = 0 /\ \A c \in Client : ~Held(c, i)
  BY <1>2 DEF ChallengeInv, CeremoniesOK, Held
<1> QED
  BY <1>1, <1>2, <1>3 DEF ChallengeInv, CeremoniesOK, ChallengeOnce, Held

\* A request that takes a ceremony is the only one to hold it.
LEMMA FinishIsSafe ==
  ASSUME ChallengeInv, NEW c \in Client, NEW op, NEW n \in Name, NEW i \in Ceremony,
         Finish(c, op, n, i)
  PROVE  ChallengeInv'
<1> DEFINE r == [pc |-> "get", op |-> op, name |-> n, id |-> i, by |-> ceremonies[i]]
<1>1. r.pc = "get" /\ r.id = i
  OBVIOUS
<1>2. flight' = [flight EXCEPT ![c] = r] /\ i \in DOMAIN ceremonies
      /\ DOMAIN ceremonies' = DOMAIN ceremonies \ {i} /\ answers' = answers /\ drawn' = drawn
  BY DEF Finish
<1> HIDE DEF r
<1>3. DOMAIN flight' = Client /\ flight'[c].pc = "get" /\ flight'[c].id = i
      /\ \A d \in Client \ {c} : flight'[d] = flight[d]
  BY <1>1, <1>2 DEF ChallengeInv, CeremoniesOK
<1>4. i \in drawn /\ answers[i] = 0 /\ \A d \in Client : ~Held(d, i)
  BY <1>2 DEF ChallengeInv, CeremoniesOK
<1>5. \A d \in Client : flight'[d].pc = "get" =>
         \/ d = c /\ flight'[d].id = i
         \/ d # c /\ flight[d].pc = "get" /\ flight'[d].id = flight[d].id
  BY <1>3
<1>6. \A d \in Client, j \in DOMAIN ceremonies' : ~Held(d, j)'
  BY <1>2, <1>5 DEF ChallengeInv, CeremoniesOK, Held
<1>7. \A d, e \in Client : flight'[d].pc = "get" /\ Held(e, flight[d].id)' => d = e
  BY <1>3, <1>4, <1>5 DEF ChallengeInv, CeremoniesOK, Held
<1> QED
  BY <1>2, <1>3, <1>4, <1>5, <1>6, <1>7 DEF ChallengeInv, CeremoniesOK, ChallengeOnce, Held

-----------------------------------------------------------------------------
(* What the two other properties see of a record.                          *)

Shaped(u) == "edit" \in DOMAIN u /\ "secret" \in DOMAIN u /\ "totp" \in DOMAIN u
Numbered(u) == Shaped(u) /\ u.edit \in Nat
Proven(u, secrets) == u.totp => u.secret \in secrets

\* The two records agree in everything the properties see.
Alike(u, v) == Shaped(v) /\ v.edit = u.edit /\ v.secret = u.secret /\ v.totp = u.totp

LEMMA OtherFields ==
  ASSUME NEW u, Shaped(u), NEW x, NEW y
  PROVE  /\ Alike(u, [u EXCEPT !.pass = x])
         /\ Alike(u, [u EXCEPT !.codes = x])
         /\ Alike(u, [u EXCEPT !.keys = x])
         /\ Alike(u, [u EXCEPT !.keys = x, !.array = y])
BY DEF Alike, Shaped

LEMMA SecretFields ==
  ASSUME NEW u, Shaped(u), NEW x, NEW y
  PROVE  /\ Shaped([u EXCEPT !.secret = x])
         /\ [u EXCEPT !.secret = x].totp = u.totp
         /\ Shaped([u EXCEPT !.totp = x])
         /\ [u EXCEPT !.totp = x].totp = x
         /\ [u EXCEPT !.totp = x].secret = u.secret
         /\ Shaped([u EXCEPT !.totp = x, !.secret = y])
         /\ [u EXCEPT !.totp = x, !.secret = y].totp = x
BY DEF Shaped

LEMMA EditField ==
  ASSUME NEW u, Shaped(u), NEW e \in Nat
  PROVE  /\ Numbered([u EXCEPT !.edit = e])
         /\ [u EXCEPT !.edit = e].edit = e
         /\ [u EXCEPT !.edit = e].totp = u.totp
         /\ [u EXCEPT !.edit = e].secret = u.secret
BY DEF Shaped, Numbered

LEMMA NumberedIsUser == ASSUME NEW u, Numbered(u) PROVE u # NoUser
BY DEF Numbered, NoUser

-----------------------------------------------------------------------------
(* Records and the copies of them that requests hold.                      *)

Copying(c) == flight[c].pc \in {"update", "compact"}

\* A copy of the record of n that may be put back.
GoodCopy(n, u) ==
  /\ Numbered(u) /\ Proven(u, proved)
  /\ Has(n) /\ n \notin raced => u.edit = account[n].edit

RecordsInv ==
  /\ changes \in Nat
  /\ DOMAIN account = Name /\ DOMAIN wanted = Name /\ DOMAIN flight = Client
  /\ \A n \in Name : Has(n) => /\ Numbered(account[n]) /\ Proven(account[n], proved)
                               /\ wanted[n] \in Nat
                               /\ n \notin raced => wanted[n] = account[n].edit
  /\ \A n \in Name : ~Has(n) => wanted[n] = -1
  /\ \A c \in Client : flight[c].pc = "get" => flight[c].name \in Name
  /\ \A c \in Client : Copying(c) =>
        flight[c].name \in Name /\ GoodCopy(flight[c].name, flight[c].user)

LEMMA RecordsImply == RecordsInv => EditsKept /\ SecretProven
<1> SUFFICES ASSUME RecordsInv PROVE EditsKept /\ SecretProven
  OBVIOUS
<1>1. NoUser.edit = -1
  BY DEF NoUser
<1>2. EditsKept
  BY <1>1 DEF RecordsInv, EditsKept, Has
<1>3. SecretProven
  BY DEF RecordsInv, SecretProven, Proven
<1> QED
  BY <1>2, <1>3

LEMMA RecordsInit == ASSUME CredInit PROVE RecordsInv
<1>1. PICK pw \in Password : account = [n \in Name |-> User(0, pw)]
  BY DEF CredInit
<1>2. Numbered(User(0, pw)) /\ User(0, pw).edit = 0 /\ User(0, pw).totp = FALSE
  BY DEF User, Numbered, Shaped
<1>3. \A n \in Name : account[n] = User(0, pw) /\ Has(n)
  BY <1>1, <1>2, NumberedIsUser DEF Has
<1>4. \A n \in Name : Proven(account[n], proved)
  BY <1>2, <1>3 DEF Proven
<1>5. DOMAIN flight = Client /\ \A c \in Client : flight[c].pc = "idle"
  BY DEF CredInit, Ready
<1>6. DOMAIN account = Name
  BY <1>1
<1>7. DOMAIN wanted = Name /\ changes = 0 /\ \A n \in Name : wanted[n] = 0
  BY DEF CredInit
<1>8. \A c \in Client : flight[c].pc # "get" /\ ~Copying(c)
  BY <1>5 DEF Copying
<1>9. \A n \in Name : Numbered(account[n]) /\ wanted[n] \in Nat /\ wanted[n] = account[n].edit
  BY <1>2, <1>3, <1>7
<1> QED
  BY <1>3, <1>4, <1>5, <1>6, <1>7, <1>8, <1>9 DEF RecordsInv

\* A copy is as good after any step that puts back good copies only.
LEMMA PutBack ==
  ASSUME RecordsInv, UNCHANGED <<changes, wanted, raced, proved>>,
         DOMAIN account' = Name, DOMAIN flight' = Client,
         \A n \in Name : account'[n] = account[n] \/ (Has(n) /\ GoodCopy(n, account'[n])),
         \A c \in Client : \/ flight'[c] = flight[c]
                           \/ flight'[c].pc = "idle"
                           \/ flight'[c].pc = "get" /\ flight'[c].name \in Name
                           \/ /\ flight'[c].pc \in {"update", "compact"}
                              /\ flight'[c].name \in Name
                              /\ GoodCopy(flight'[c].name, flight'[c].user)
  PROVE  RecordsInv'
<1>1. \A n \in Name : Has(n)' <=> Has(n)
  BY NumberedIsUser DEF Has, GoodCopy
<1>2. \A n \in Name : Has(n) /\ n \notin raced => account'[n].edit = account[n].edit
  BY DEF GoodCopy
<1>3. ASSUME NEW n \in Name, NEW u, GoodCopy(n, u)
      PROVE  GoodCopy(n, u)'
  BY <1>1, <1>2, <1>3 DEF GoodCopy
<1>4. \A n \in Name : Has(n)' => /\ Numbered(account'[n]) /\ Proven(account'[n], proved')
                                 /\ wanted'[n] \in Nat
                                 /\ n \notin raced' => wanted'[n] = account'[n].edit
  BY <1>1, <1>2 DEF RecordsInv, GoodCopy
<1>5. ASSUME NEW c \in Client, flight'[c].pc \in {"update", "compact"}
      PROVE  flight'[c].name \in Name /\ GoodCopy(flight'[c].name, flight'[c].user)
  BY <1>5 DEF RecordsInv, Copying
<1>6. ASSUME NEW c \in Client, Copying(c)'
      PROVE  flight'[c].name \in Name /\ GoodCopy(flight[c].name, flight[c].user)'
  BY <1>3, <1>5, <1>6 DEF Copying
<1>7. \A c \in Client : flight'[c].pc = "get" => flight'[c].name \in Name
  BY DEF RecordsInv
<1> QED
  BY <1>1, <1>4, <1>6, <1>7 DEF RecordsInv

\* An edit leaves every record proven and marks the copies that it overtakes.
LEMMA EditIsSafe ==
  ASSUME RecordsInv, NEW n \in Name, NEW r, Shaped(r), Change(n, r),
         Proven(r, proved'), proved \subseteq proved'
  PROVE  RecordsInv'
<1> DEFINE v == [r EXCEPT !.edit = changes + 1]
<1>1. changes' = changes + 1 /\ changes' \in Nat
  BY DEF Change, RecordsInv
<1>2. account' = [account EXCEPT ![n] = v] /\ wanted' = [wanted EXCEPT ![n] = changes + 1]
      /\ flight' = flight /\ raced \subseteq raced'
  BY DEF Change
<1>3. Numbered(v) /\ v.edit = changes + 1 /\ v.totp = r.totp /\ v.secret = r.secret
  BY <1>1, EditField
<1>4. Proven(v, proved') /\ v # NoUser
  BY <1>3, NumberedIsUser DEF Proven
<1> HIDE DEF v
<1>5. DOMAIN account' = Name /\ DOMAIN wanted' = Name /\ account'[n] = v /\ wanted'[n] = changes + 1
      /\ \A m \in Name \ {n} : account'[m] = account[m] /\ wanted'[m] = wanted[m]
  BY <1>2 DEF RecordsInv
<1>6. Has(n)' /\ \A m \in Name \ {n} : Has(m)' <=> Has(m)
  BY <1>4, <1>5 DEF Has
<1>7. \A u : Proven(u, proved) => Proven(u, proved')
  BY DEF Proven
<1>8. \A m \in Name : Has(m)' => /\ Numbered(account'[m]) /\ Proven(account'[m], proved')
                                 /\ wanted'[m] \in Nat
                                 /\ m \notin raced' => wanted'[m] = account'[m].edit
  BY <1>1, <1>2, <1>3, <1>4, <1>5, <1>6, <1>7 DEF RecordsInv
<1>9. ASSUME NEW c \in Client, Copying(c)
      PROVE  GoodCopy(flight[c].name, flight[c].user)'
  <2>1. CASE flight[c].name = n
    <3>1. n \in raced'
      BY <1>9, <2>1 DEF Change, Copying
    <3> QED
      BY <1>2, <1>7, <1>9, <2>1, <3>1 DEF RecordsInv, GoodCopy
  <2>2. CASE flight[c].name # n
    <3>1. flight[c].name \in Name /\ GoodCopy(flight[c].name, flight[c].user)
      BY <1>9 DEF RecordsInv
    <3> QED
      BY <1>2, <1>5, <1>6, <1>7, <2>2, <3>1 DEF GoodCopy
  <2> QED
    BY <2>1, <2>2
<1> QED
  BY <1>1, <1>2, <1>5, <1>6, <1>8, <1>9 DEF RecordsInv, Copying

LEMMA AlikeIsGood ==
  ASSUME NEW n, NEW u, NEW v, GoodCopy(n, u), Alike(u, v)
  PROVE  GoodCopy(n, v)
BY DEF GoodCopy, Alike, Numbered, Proven

LEMMA RecordIsGood == ASSUME RecordsInv, NEW n \in Name, Has(n) PROVE GoodCopy(n, account[n])
BY DEF RecordsInv, GoodCopy

\* One request moves on, and no record changes.
LEMMA RequestMoves ==
  ASSUME RecordsInv, UNCHANGED <<account, changes, wanted, raced, proved>>,
         NEW c \in Client, NEW f, flight' = [flight EXCEPT ![c] = f],
         \/ f.pc = "idle"
         \/ f.pc = "get" /\ f.name \in Name
         \/ f.pc \in {"update", "compact"} /\ f.name \in Name /\ GoodCopy(f.name, f.user)
  PROVE  RecordsInv'
<1>1. DOMAIN flight' = Client /\ flight'[c] = f /\ \A d \in Client \ {c} : flight'[d] = flight[d]
  BY DEF RecordsInv
<1>2. DOMAIN account' = Name /\ \A n \in Name : account'[n] = account[n]
  BY DEF RecordsInv
<1> QED
  BY <1>1, <1>2, PutBack

\* A deleted account is in no one's copy any more: a copy is put back only while
\* the name has a record.
LEMMA DeleteIsSafe ==
  ASSUME RecordsInv, NEW n \in Name, DeleteUser(n)
  PROVE  RecordsInv'
<1>1. account' = [account EXCEPT ![n] = NoUser] /\ wanted' = [wanted EXCEPT ![n] = -1]
      /\ UNCHANGED <<flight, changes, raced, proved>>
  BY DEF DeleteUser
<1>2. DOMAIN account' = Name /\ DOMAIN wanted' = Name /\ account'[n] = NoUser /\ wanted'[n] = -1
      /\ \A m \in Name \ {n} : account'[m] = account[m] /\ wanted'[m] = wanted[m]
  BY <1>1 DEF RecordsInv
<1>3. ~Has(n)' /\ \A m \in Name \ {n} : Has(m)' <=> Has(m)
  BY <1>2 DEF Has
<1>4. ASSUME NEW m \in Name, NEW u, GoodCopy(m, u)
      PROVE  GoodCopy(m, u)'
  BY <1>1, <1>2, <1>3, <1>4 DEF GoodCopy
<1>5. ASSUME NEW c \in Client, Copying(c)'
      PROVE  flight'[c].name \in Name /\ GoodCopy(flight[c].name, flight[c].user)'
  <2>1. flight' = flight /\ flight[c].name \in Name /\ GoodCopy(flight[c].name, flight[c].user)
    BY <1>1, <1>5 DEF RecordsInv, Copying
  <2> QED
    BY <1>4, <2>1
<1>6. \A m \in Name : Has(m)' => /\ Numbered(account'[m]) /\ Proven(account'[m], proved')
                                 /\ wanted'[m] \in Nat
                                 /\ m \notin raced' => wanted'[m] = account'[m].edit
  BY <1>1, <1>2, <1>3 DEF RecordsInv
<1> QED
  BY <1>1, <1>2, <1>3, <1>5, <1>6 DEF RecordsInv

-----------------------------------------------------------------------------
(* One step per action.                                                    *)

\* A step that leaves the passkey manager alone.
LEMMA AnswersKept ==
  ASSUME ChallengeInv, drawn \subseteq drawn', UNCHANGED <<ceremonies, flight, answers>>
  PROVE  ChallengeInv'
BY NothingAnswered DEF ChallengeInv, CeremoniesOK

\* Edits by the account's owner.
LEMMA EditKeeps == ASSUME NEW n, NEW r, Change(n, r) PROVE UNCHANGED <<ceremonies, flight, answers>>
BY DEF Change

CredInv == ChallengeInv /\ RecordsInv

LEMMA PasswordStep ==
  ASSUME CredInv, NEW n \in Name, NEW pw, ChangePassword(n, pw) \/ generateBackupCodesHandler(n)
  PROVE  CredInv'
<1> DEFINE r1 == [account[n] EXCEPT !.pass = pw]
           r2 == [account[n] EXCEPT !.codes = GenerateBackupCodes]
<1>1. Has(n) /\ (Change(n, r1) \/ Change(n, r2)) /\ UNCHANGED <<drawn, proved>>
  BY DEF ChangePassword, generateBackupCodesHandler
<1>2. Shaped(account[n]) /\ Proven(account[n], proved)
  BY <1>1 DEF CredInv, RecordsInv, Numbered
<1>3. Alike(account[n], r1) /\ Alike(account[n], r2)
  BY <1>2, OtherFields
<1> HIDE DEF r1, r2
<1>4. Shaped(r1) /\ Proven(r1, proved') /\ Shaped(r2) /\ Proven(r2, proved')
  BY <1>1, <1>2, <1>3 DEF Alike, Proven
<1>5. RecordsInv'
  BY <1>1, <1>4, EditIsSafe DEF CredInv
<1>6. ChallengeInv'
  BY <1>1, EditKeeps, AnswersKept DEF CredInv
<1> QED
  BY <1>5, <1>6 DEF CredInv

LEMMA EnrollStep ==
  ASSUME CredInv, NEW n \in Name, NEW s, EnrollTOTP(n, s)
  PROVE  CredInv'
<1> DEFINE r == [account[n] EXCEPT !.secret = s]
<1>1. Has(n) /\ ~account[n].totp /\ Change(n, r) /\ drawn \subseteq drawn' /\ proved' = proved
  BY DEF EnrollTOTP
<1>2. Shaped(r) /\ r.totp = account[n].totp
  BY <1>1, SecretFields DEF CredInv, RecordsInv, Numbered
<1> HIDE DEF r
<1>3. Proven(r, proved')
  BY <1>1, <1>2 DEF Proven
<1>4. RecordsInv'
  BY <1>1, <1>2, <1>3, EditIsSafe DEF CredInv
<1>5. ChallengeInv'
  BY <1>1, EditKeeps, AnswersKept DEF CredInv
<1> QED
  BY <1>4, <1>5 DEF CredInv

LEMMA ConfirmStep ==
  ASSUME CredInv, NEW n \in Name, NEW code, ConfirmTOTP(n, code)
  PROVE  CredInv'
<1> DEFINE r == [account[n] EXCEPT !.totp = TRUE]
<1>1. Has(n) /\ Change(n, r) /\ drawn' = drawn /\ proved' = proved \cup {code.secret}
      /\ code.secret = account[n].secret
  BY DEF ConfirmTOTP, validateTOTP
<1>2. Shaped(r) /\ r.secret = account[n].secret
  BY <1>1, SecretFields DEF CredInv, RecordsInv, Numbered
<1> HIDE DEF r
<1>3. Proven(r, proved')
  BY <1>1, <1>2 DEF Proven
<1>4. RecordsInv'
  BY <1>1, <1>2, <1>3, EditIsSafe DEF CredInv
<1>5. ChallengeInv'
  BY <1>1, EditKeeps, AnswersKept DEF CredInv
<1> QED
  BY <1>4, <1>5 DEF CredInv

LEMMA DisableStep ==
  ASSUME CredInv, NEW n \in Name, NEW code, DisableTOTP(n, code)
  PROVE  CredInv'
<1> DEFINE r == [account[n] EXCEPT !.totp = FALSE, !.secret = NoSecret]
<1>1. Has(n) /\ Change(n, r) /\ drawn' = drawn /\ proved' = proved
  BY DEF DisableTOTP
<1>2. Shaped(r) /\ r.totp = FALSE
  <2>1. Shaped(account[n])
    BY <1>1 DEF CredInv, RecordsInv, Numbered
  <2>2. Shaped(r) /\ r["totp"] = FALSE
    BY <2>1 DEF Shaped
  <2> QED
    BY <2>2
<1> HIDE DEF r
<1>3. Proven(r, proved')
  BY <1>1, <1>2 DEF Proven
<1>4. RecordsInv'
  BY <1>1, <1>2, <1>3, EditIsSafe DEF CredInv
<1>5. ChallengeInv'
  BY <1>1, EditKeeps, AnswersKept DEF CredInv
<1> QED
  BY <1>4, <1>5 DEF CredInv

LEMMA RegisterStep ==
  ASSUME CredInv, NEW n \in Name, NEW pw, Register(n, pw)
  PROVE  CredInv'
<1> DEFINE r == User(changes + 1, pw)
<1>1. Change(n, r) /\ drawn' = drawn /\ proved' = proved
  BY DEF Register
<1>2. Shaped(r) /\ r.totp = FALSE
  BY DEF User, Shaped
<1> HIDE DEF r
<1>3. Proven(r, proved')
  BY <1>2 DEF Proven
<1>4. RecordsInv'
  BY <1>1, <1>2, <1>3, EditIsSafe DEF CredInv
<1>5. ChallengeInv'
  BY <1>1, EditKeeps, AnswersKept DEF CredInv
<1> QED
  BY <1>4, <1>5 DEF CredInv

LEMMA FinishRegistrationStep ==
  ASSUME CredInv, NEW c \in Client, NEW k, FinishRegistration(c, k)
  PROVE  CredInv'
<1> DEFINE n == flight[c].name
           v(a) == [account[n] EXCEPT !.keys = Append(@, k), !.array = a]
           f(a) == [pc |-> "update", name |-> n, user |-> v(a)]
<1>1. /\ flight[c].pc = "get" /\ Has(n) /\ drawn \subseteq drawn'
      /\ answers' = [answers EXCEPT ![flight[c].id] = @ + 1]
      /\ UNCHANGED <<account, ceremonies, changes, wanted, raced, proved>>
  BY DEF FinishRegistration
<1>2. PICK a : flight' = [flight EXCEPT ![c] = f(a)]
  BY DEF FinishRegistration
<1>3. n \in Name
  BY <1>1 DEF CredInv, RecordsInv
<1>4. GoodCopy(n, account[n]) /\ Shaped(account[n])
  BY <1>1, <1>3, RecordIsGood DEF CredInv, GoodCopy, Numbered
<1>5. Alike(account[n], v(a))
  BY <1>4, OtherFields
<1>6. GoodCopy(n, v(a))
  BY <1>4, <1>5, AlikeIsGood
<1>7. f(a).pc = "update" /\ f(a).name = n /\ f(a).user = v(a)
  OBVIOUS
<1> HIDE DEF f, v
<1>8. RecordsInv'
  BY <1>1, <1>2, <1>3, <1>6, <1>7, RequestMoves DEF CredInv
<1>9. DOMAIN flight' = Client /\ flight'[c].pc # "get"
      /\ \A d \in Client \ {c} : flight'[d] = flight[d]
  BY <1>2, <1>7 DEF CredInv, RecordsInv
<1>10. ChallengeInv'
  BY <1>1, <1>9, HeldAnswered DEF CredInv
<1> QED
  BY <1>8, <1>10 DEF CredInv

LEMMA FinishLoginStep ==
  ASSUME CredInv, NEW c \in Client, FinishLogin(c)
  PROVE  CredInv'
<1> DEFINE n == flight[c].name
           f == [pc |-> "update", name |-> n, user |-> account[n]]
<1>1. /\ flight[c].pc = "get" /\ Has(n) /\ drawn' = drawn
      /\ answers' = [answers EXCEPT ![flight[c].id] = @ + 1]
      /\ flight' = [flight EXCEPT ![c] = f]
      /\ UNCHANGED <<account, ceremonies, changes, wanted, raced, proved>>
  BY DEF FinishLogin
<1>2. n \in Name
  BY <1>1 DEF CredInv, RecordsInv
<1>3. GoodCopy(n, account[n])
  BY <1>1, <1>2, RecordIsGood DEF CredInv
<1>4. f.pc = "update" /\ f.name = n /\ f.user = account[n]
  OBVIOUS
<1> HIDE DEF f
<1>5. RecordsInv'
  BY <1>1, <1>2, <1>3, <1>4, RequestMoves DEF CredInv
<1>6. DOMAIN flight' = Client /\ flight'[c].pc # "get"
      /\ \A d \in Client \ {c} : flight'[d] = flight[d]
  BY <1>1, <1>4 DEF CredInv, RecordsInv
<1>7. ChallengeInv'
  BY <1>1, <1>6, HeldAnswered DEF CredInv
<1> QED
  BY <1>5, <1>7 DEF CredInv

\* A request that answers nothing moves on.
LEMMA QuietMove ==
  ASSUME CredInv, NEW c \in Client, NEW f, flight' = [flight EXCEPT ![c] = f], f.pc # "get",
         UNCHANGED <<ceremonies, drawn, answers>>
  PROVE  ChallengeInv'
<1>1. DOMAIN flight' = Client /\ flight'[c] = f /\ \A d \in Client \ {c} : flight'[d] = flight[d]
  BY DEF CredInv, RecordsInv
<1> QED
  BY <1>1, NothingAnswered DEF CredInv

LEMMA DeleteCredentialStep ==
  ASSUME CredInv, NEW c \in Client, NEW n \in Name, NEW k, DeleteCredential(c, n, k)
  PROVE  CredInv'
<1> DEFINE f == [pc |-> "compact", name |-> n, user |-> account[n], key |-> k]
<1>1. Has(n) /\ flight' = [flight EXCEPT ![c] = f]
      /\ UNCHANGED <<account, ceremonies, drawn, changes, wanted, raced, proved, answers>>
  BY DEF DeleteCredential
<1>2. f.pc = "compact" /\ f.name = n /\ f.user = account[n]
  OBVIOUS
<1> HIDE DEF f
<1>3. GoodCopy(n, account[n])
  BY <1>1, RecordIsGood DEF CredInv
<1>4. RecordsInv'
  BY <1>1, <1>2, <1>3, RequestMoves DEF CredInv
<1>5. ChallengeInv'
  BY <1>1, <1>2, QuietMove
<1> QED
  BY <1>4, <1>5 DEF CredInv

LEMMA CompactStep ==
  ASSUME CredInv, NEW c \in Client, Compact(c)
  PROVE  CredInv'
<1> DEFINE n == flight[c].name
           u == flight[c].user
           kept == SelectSeq(u.keys, LAMBDA k : k # flight[c].key)
           old == account[n].keys
           w == [j \in DOMAIN old |-> IF j <= Len(kept) THEN kept[j] ELSE old[j]]
           v == [account[n] EXCEPT !.keys = w]
           x == [u EXCEPT !.keys = kept]
           f == [pc |-> "update", name |-> n, user |-> x]
<1>1. /\ flight[c].pc = "compact" /\ flight' = [flight EXCEPT ![c] = f]
      /\ account' = account \/ (Has(n) /\ account' = [account EXCEPT ![n] = v])
      /\ UNCHANGED <<ceremonies, drawn, changes, wanted, raced, proved, answers>>
  BY DEF Compact
<1>2. f.pc = "update" /\ f.name = n /\ f.user = x
  OBVIOUS
<1>3. n \in Name /\ GoodCopy(n, u) /\ Shaped(u)
  BY <1>1 DEF CredInv, RecordsInv, Copying, GoodCopy, Numbered
<1>4. GoodCopy(n, x)
  <2>1. Alike(u, x)
    BY <1>3, OtherFields
  <2> QED
    BY <1>3, <2>1, AlikeIsGood
<1>5. Has(n) => GoodCopy(n, v)
  <2> SUFFICES ASSUME Has(n) PROVE GoodCopy(n, v)
    OBVIOUS
  <2>1. GoodCopy(n, account[n]) /\ Shaped(account[n])
    BY <1>3, RecordIsGood DEF CredInv, GoodCopy, Numbered
  <2>2. Alike(account[n], v)
    BY <2>1, OtherFields
  <2> QED
    BY <2>1, <2>2, AlikeIsGood
<1> HIDE DEF f, v, x, n, u
<1>6. DOMAIN account' = Name
      /\ \A m \in Name : account'[m] = account[m] \/ (Has(m) /\ GoodCopy(m, account'[m]))
  BY <1>1, <1>3, <1>5 DEF CredInv, RecordsInv
<1>7. DOMAIN flight' = Client /\ flight'[c] = f /\ \A d \in Client \ {c} : flight'[d] = flight[d]
  BY <1>1 DEF CredInv, RecordsInv
<1>8. RecordsInv'
  BY <1>1, <1>2, <1>3, <1>4, <1>6, <1>7, PutBack DEF CredInv
<1>9. ChallengeInv'
  BY <1>1, <1>2, QuietMove
<1> QED
  BY <1>8, <1>9 DEF CredInv

LEMMA UpdateUserStep ==
  ASSUME CredInv, NEW c \in Client, UpdateUser(c)
  PROVE  CredInv'
<1> DEFINE n == flight[c].name
<1>1. /\ flight[c].pc = "update" /\ flight' = [flight EXCEPT ![c] = Ready]
      /\ account' = account \/ (Has(n) /\ account' = [account EXCEPT ![n] = flight[c].user])
      /\ UNCHANGED <<ceremonies, drawn, changes, wanted, raced, proved, answers>>
  BY DEF UpdateUser
<1>2. Ready.pc = "idle"
  BY DEF Ready
<1>3. n \in Name /\ GoodCopy(n, flight[c].user)
  BY <1>1 DEF CredInv, RecordsInv, Copying
<1>4. DOMAIN account' = Name
      /\ \A m \in Name : account'[m] = account[m] \/ (Has(m) /\ GoodCopy(m, account'[m]))
  BY <1>1, <1>3 DEF CredInv, RecordsInv
<1>5. DOMAIN flight' = Client /\ flight'[c] = Ready /\ \A d \in Client \ {c} : flight'[d] = flight[d]
  BY <1>1 DEF CredInv, RecordsInv
<1>6. RecordsInv'
  BY <1>1, <1>2, <1>4, <1>5, PutBack DEF CredInv
<1>7. ChallengeInv'
  BY <1>1, <1>2, QuietMove
<1> QED
  BY <1>6, <1>7 DEF CredInv

LEMMA PasskeyStep ==
  ASSUME CredInv, PasskeyNext
  PROVE  CredInv'
<1>1. ASSUME NEW n \in Name, NEW i \in Ceremony, Begin(n, i)
      PROVE  CredInv'
  <2>1. UNCHANGED <<account, flight, changes, wanted, raced, proved>>
    BY <1>1 DEF Begin
  <2>2. RecordsInv'
    BY <2>1, PutBack DEF CredInv, RecordsInv
  <2> QED
    BY <1>1, <2>2, BeginIsSafe DEF CredInv
<1>2. ASSUME NEW c \in Client, NEW op, NEW n \in Name, NEW i \in Ceremony, Finish(c, op, n, i)
      PROVE  CredInv'
  <2> DEFINE f == [pc |-> "get", op |-> op, name |-> n, id |-> i, by |-> ceremonies[i]]
  <2>1. flight' = [flight EXCEPT ![c] = f] /\ UNCHANGED <<account, changes, wanted, raced, proved>>
    BY <1>2 DEF Finish
  <2>2. f.pc = "get" /\ f.name = n
    OBVIOUS
  <2> HIDE DEF f
  <2>3. RecordsInv'
    BY <2>1, <2>2, RequestMoves DEF CredInv
  <2> QED
    BY <1>2, <2>3, FinishIsSafe DEF CredInv
<1>3. ASSUME NEW c \in Client, FinishFails(c)
      PROVE  CredInv'
  <2>1. flight' = [flight EXCEPT ![c] = Ready] /\ Ready.pc = "idle"
        /\ UNCHANGED <<account, ceremonies, drawn, changes, wanted, raced, proved, answers>>
    BY <1>3 DEF FinishFails, Ready
  <2> QED
    BY <2>1, RequestMoves, QuietMove DEF CredInv
<1>4. ASSUME NEW n \in Name, DeleteUser(n)
      PROVE  CredInv'
  <2>1. UNCHANGED <<ceremonies, flight, drawn, answers>>
    BY <1>4 DEF DeleteUser
  <2> QED
    BY <1>4, <2>1, DeleteIsSafe, AnswersKept DEF CredInv
<1> QED
  BY <1>1, <1>2, <1>3, <1>4, FinishRegistrationStep, FinishLoginStep, DeleteCredentialStep,
     CompactStep, UpdateUserStep, RegisterStep
  DEF PasskeyNext, waBeginRegisterHandler, waBeginLoginHandler, BeginRegistration, BeginLogin,
      waFinishRegisterHandler, waFinishLoginHandler, waDeleteCredHandler

\* Steps that change neither a record nor a ceremony.
LEMMA ElsewhereStep ==
  ASSUME CredInv, UNCHANGED <<account, ceremonies, flight, drawn, changes, wanted, raced, proved, answers>>
  PROVE  CredInv'
<1>1. RecordsInv'
  BY PutBack DEF CredInv, RecordsInv
<1> QED
  BY <1>1, AnswersKept DEF CredInv

LEMMA SecretStep ==
  ASSUME CredInv, SecretNext
  PROVE  CredInv'
<1>1. ASSUME NEW p, SetPolicy(p)
      PROVE  CredInv'
  BY <1>1, ElsewhereStep DEF SetPolicy
<1>2. CASE HalfMinute
  BY <1>2, ElsewhereStep DEF HalfMinute
<1>3. CASE NewPasswordPolicy
  <2>1. flight' = [c \in Client |-> Ready] /\ Ready.pc = "idle" /\ DOMAIN ceremonies' = {}
        /\ UNCHANGED <<account, drawn, changes, wanted, raced, proved, answers>>
    BY <1>3 DEF NewPasswordPolicy, Ready
  <2>2. DOMAIN flight' = Client /\ \A c \in Client : flight'[c].pc = "idle"
    BY <2>1
  <2>3. ChallengeInv'
    BY <2>1, <2>2, NothingAnswered DEF CredInv
  <2>4. RecordsInv'
    BY <2>1, <2>2, PutBack DEF CredInv, RecordsInv
  <2> QED
    BY <2>3, <2>4 DEF CredInv
<1> QED
  BY <1>1, <1>2, <1>3, PasswordStep, EnrollStep, ConfirmStep, DisableStep
  DEF SecretNext, changePasswordHandler, totpEnrollHandler, totpConfirmHandler, totpDisableHandler,
      setPasswordPolicyHandler

LEMMA CredInductive == CredSpec => []CredInv
<1>1. CredInit => CredInv
  BY ChallengeInit, RecordsInit DEF CredInv
<1>2. CredInv /\ [CredNext]_credVars => CredInv'
  BY PasskeyStep, SecretStep, ElsewhereStep DEF CredNext, credVars
<1> QED
  BY <1>1, <1>2, PTL DEF CredSpec

\* However many requests finish ceremonies at the same time, a challenge is
\* accepted at most once (FinishRegistration, FinishLogin).
THEOREM ChallengeOnceCorrect == CredSpec => []ChallengeOnce
<1>1. CredInv => ChallengeOnce
  BY DEF CredInv, ChallengeInv
<1> QED
  BY <1>1, CredInductive, PTL

\* Passkey requests undo no edit that does not fall between their GetUser and
\* their UpdateUser, and bring back no deleted account (webauthn.go, UpdateUser).
THEOREM EditsKeptCorrect == CredSpec => []EditsKept
<1>1. CredInv => EditsKept
  BY RecordsImply DEF CredInv
<1> QED
  BY <1>1, CredInductive, PTL

\* A second factor that is on has a secret for which a right code was given,
\* in the store and in every copy that may be put back (ConfirmTOTP, EnrollTOTP).
THEOREM SecretProvenCorrect == CredSpec => []SecretProven
<1>1. CredInv => SecretProven
  BY RecordsImply DEF CredInv
<1> QED
  BY <1>1, CredInductive, PTL

-----------------------------------------------------------------------------
(* The login guard.  What a record of the tracker says about the guesses   *)
(* it is kept for is the same for an address and for a name: E are the     *)
(* wrong guesses, P the handlers whose failure is still to be recorded and *)
(* Q those that are past the check for a ban, and may still guess.         *)

\* The failures that fit into one record: those that reach the limit, the last
\* of them one of as many as there are handlers.
Most == MaxAttempts - 1 + Cardinality(Handler)

Since(E, s) == {e \in E : e.at > s}
Events(E, t) == IsFiniteSet(E) /\ \A e \in E : e.at \in Nat /\ e.at <= t
Spaced(E, span, most) == \A u \in Nat : Within(E, u, span) <= most

\* The guesses since the record began are in its count or still to be recorded, and
\* so are, but for as many as one record holds, those of the window before.  A
\* record that has reached the limit bans; while it does, nobody passes the check,
\* and after its last failure no guess was recorded.
RecordSays(rec, E, p, q, t) ==
  /\ rec = NoRecord => Cardinality(E) <= p
  /\ rec # NoRecord =>
       /\ rec.first <= t
       /\ Cardinality(Since(E, rec.first)) <= rec.count - 1 + p
       /\ Cardinality(Since(E, rec.first - Window - 1)) <= Most - 1 + rec.count - 1 + p
       /\ rec.count < MaxAttempts => rec.until = 0
       /\ rec.count >= MaxAttempts =>
            rec.until >= rec.first + Ban /\ Cardinality(Since(E, rec.until - Ban)) <= p
       /\ t < rec.until => rec.count + q <= Most

Tracked(rec, E, P, Q, t) ==
  /\ rec \in Attempts \cup {NoRecord}
  /\ Events(E, t)
  /\ P \subseteq Q /\ Q \subseteq Handler
  /\ RecordSays(rec, E, Cardinality(P), Cardinality(Q), t)

LEMMA GuardConstants ==
  /\ Cardinality(Handler) \in Nat /\ Cardinality(Handler) >= 1
  /\ Most \in Nat /\ Burst \in Nat /\ Burst = 2 * (Most - 1)
  /\ Cardinality(Handler) <= Most - 1
  /\ MaxAttempts \in Nat /\ MaxAttempts > 1 /\ Window \in Nat /\ Ban \in Nat /\ Window < Ban
  /\ Most = MaxAttempts - 1 + Cardinality(Handler)
<1>1. Cardinality(Handler) \in Nat /\ Cardinality(Handler) # 0
  BY GuardAssumption, FS_CardinalityType, FS_EmptySet
<1>2. MaxAttempts \in Nat /\ MaxAttempts > 1 /\ Window \in Nat /\ Ban \in Nat /\ Window < Ban
  BY GuardAssumption
<1> QED BY <1>1, <1>2 DEF Most, Burst

LEMMA HandlerSets ==
  ASSUME NEW P, NEW Q, P \subseteq Q, Q \subseteq Handler
  PROVE  /\ IsFiniteSet(P) /\ IsFiniteSet(Q)
         /\ Cardinality(P) \in Nat /\ Cardinality(Q) \in Nat
         /\ Cardinality(P) <= Cardinality(Q) /\ Cardinality(Q) <= Cardinality(Handler)
<1>1. IsFiniteSet(Handler)
  BY GuardAssumption
<1>2. IsFiniteSet(Q) /\ Cardinality(Q) <= Cardinality(Handler)
  BY <1>1, FS_Subset
<1>3. IsFiniteSet(P) /\ Cardinality(P) <= Cardinality(Q)
  BY <1>2, FS_Subset
<1> QED BY <1>2, <1>3, FS_CardinalityType

\* Later parts of a log, and parts of a smaller log, are no larger.
LEMMA SinceShrinks ==
  ASSUME NEW E, IsFiniteSet(E), NEW D, NEW s \in Int, NEW u \in Int,
         \A e \in E : e.at \in Nat, D \subseteq E, s <= u
  PROVE  /\ IsFiniteSet(Since(E, s)) /\ IsFiniteSet(Since(D, u))
         /\ Cardinality(Since(E, s)) \in Nat /\ Cardinality(Since(D, u)) \in Nat
         /\ Cardinality(Since(D, u)) <= Cardinality(Since(E, s))
<1>1. Since(D, u) \in SUBSET Since(E, s) /\ Since(E, s) \in SUBSET E
  BY DEF Since
<1>2. IsFiniteSet(Since(E, s))
  BY <1>1, FS_Subset
<1>3. IsFiniteSet(Since(D, u)) /\ Cardinality(Since(D, u)) <= Cardinality(Since(E, s))
  BY <1>1, <1>2, FS_Subset
<1> QED BY <1>2, <1>3, FS_CardinalityType

LEMMA SinceGrows ==
  ASSUME NEW E, IsFiniteSet(E), NEW d, NEW s \in Int, \A e \in E : e.at \in Nat, d.at \in Nat
  PROVE  /\ Cardinality(Since(E, s)) \in Nat /\ Cardinality(Since(E \cup {d}, s)) \in Nat
         /\ Cardinality(Since(E \cup {d}, s)) <= Cardinality(Since(E, s)) + 1
<1>1. Since(E, s) \in SUBSET E
  BY DEF Since
<1>2. IsFiniteSet(Since(E, s))
  BY <1>1, FS_Subset
<1>3. /\ IsFiniteSet(Since(E, s) \cup {d})
      /\ Cardinality(Since(E, s) \cup {d}) <= Cardinality(Since(E, s)) + 1
      /\ Cardinality(Since(E, s)) \in Nat
  <2>1. Cardinality(Since(E, s)) \in Nat
    BY <1>2, FS_CardinalityType
  <2>2. /\ IsFiniteSet(Since(E, s) \cup {d})
        /\ \/ Cardinality(Since(E, s) \cup {d}) = Cardinality(Since(E, s))
           \/ Cardinality(Since(E, s) \cup {d}) = Cardinality(Since(E, s)) + 1
    BY <1>2, FS_AddElement
  <2> QED BY <2>1, <2>2
<1>4. Since(E \cup {d}, s) \in SUBSET (Since(E, s) \cup {d})
  BY DEF Since
<1>5. /\ Cardinality(Since(E \cup {d}, s)) <= Cardinality(Since(E, s) \cup {d})
      /\ IsFiniteSet(Since(E \cup {d}, s))
  BY <1>3, <1>4, FS_Subset
<1>6. Cardinality(Since(E \cup {d}, s)) \in Nat /\ Cardinality(Since(E, s) \cup {d}) \in Nat
  BY <1>3, <1>5, FS_CardinalityType
<1> QED BY <1>3, <1>5, <1>6

LEMMA SinceNow ==
  ASSUME NEW E, NEW t \in Nat, NEW s \in Int, Events(E, t), t <= s
  PROVE  Cardinality(Since(E, s)) = 0
<1>1. Since(E, s) = {}
  BY DEF Since, Events
<1> QED BY <1>1, FS_EmptySet

\* An event that happens now keeps a log spaced when the events of the span that
\* ends now are few enough.
LEMMA SpacedGrows ==
  ASSUME NEW E, NEW d, NEW t \in Nat, NEW span \in Nat, NEW most \in Int,
         Events(E, t), d.at = t, Spaced(E, span, most),
         Cardinality(Since(E \cup {d}, t - span - 1)) <= most
  PROVE  Events(E \cup {d}, t) /\ Spaced(E \cup {d}, span, most)
<1>1. Events(E \cup {d}, t)
  BY FS_AddElement DEF Events
<1>2. ASSUME NEW u \in Nat PROVE Within(E \cup {d}, u, span) <= most
  <2>1. CASE u < t
    <3>1. {e \in E \cup {d} : e.at <= u /\ u <= e.at + span}
            = {e \in E : e.at <= u /\ u <= e.at + span}
      BY <2>1 DEF Events
    <3> QED BY <3>1 DEF Within, Spaced
  <2>2. CASE t <= u
    <3> DEFINE W == {e \in E \cup {d} : e.at <= u /\ u <= e.at + span}
               N == Since(E \cup {d}, t - span - 1)
    <3>1. W \in SUBSET N
      BY <1>1, <2>2 DEF Since, Events
    <3>2. IsFiniteSet(N) /\ Cardinality(N) \in Nat
      BY <1>1, SinceShrinks DEF Events
    <3>3. IsFiniteSet(W) /\ Cardinality(W) <= Cardinality(N)
      BY <3>1, <3>2, FS_Subset
    <3>4. Cardinality(W) \in Nat
      BY <3>3, FS_CardinalityType
    <3>5. Cardinality(W) <= most
      BY <3>2, <3>3, <3>4
    <3> QED BY <3>5 DEF Within
  <2> QED BY <2>1, <2>2
<1> QED BY <1>1, <1>2 DEF Spaced

LEMMA SpacedShrinks ==
  ASSUME NEW E, NEW D, NEW t \in Nat, NEW u \in Nat, NEW span \in Nat, NEW most \in Int,
         Events(E, t), D \subseteq E, t <= u, Spaced(E, span, most)
  PROVE  Events(D, u) /\ Spaced(D, span, most)
<1>1. Events(D, u)
  BY FS_Subset DEF Events
<1>2. ASSUME NEW v \in Nat PROVE Within(D, v, span) <= most
  <2> DEFINE W(F) == {e \in F : e.at <= v /\ v <= e.at + span}
  <2>1. W(D) \in SUBSET W(E) /\ W(E) \in SUBSET E
    OBVIOUS
  <2>2. IsFiniteSet(W(E))
    BY <2>1, FS_Subset DEF Events
  <2>3. /\ IsFiniteSet(W(D)) /\ Cardinality(W(D)) <= Cardinality(W(E))
        /\ Cardinality(W(D)) \in Nat /\ Cardinality(W(E)) \in Nat
    BY <2>1, <2>2, FS_Subset, FS_CardinalityType
  <2>4. Cardinality(W(E)) <= most
    BY DEF Spaced, Within
  <2>5. Cardinality(W(D)) <= most
    BY <2>3, <2>4
  <2> QED BY <2>5 DEF Within
<1> QED BY <1>1, <1>2 DEF Spaced

\* The types of a record, and the sets that count.
LEMMA TrackedTypes ==
  ASSUME NEW rec, NEW E, NEW P, NEW Q, NEW t \in Nat, Tracked(rec, E, P, Q, t)
  PROVE  /\ IsFiniteSet(E) /\ Cardinality(E) \in Nat /\ \A e \in E : e.at \in Nat
         /\ Cardinality(P) \in Nat /\ Cardinality(Q) \in Nat
         /\ Cardinality(P) <= Cardinality(Q) /\ Cardinality(Q) <= Cardinality(Handler)
         /\ \A s \in Int : Cardinality(Since(E, s)) \in Nat
         /\ rec # NoRecord => rec.count \in Nat /\ rec.count >= 1 /\ rec.first \in Nat /\ rec.until \in Nat
<1>1. IsFiniteSet(E) /\ \A e \in E : e.at \in Nat
  BY DEF Tracked, Events
<1>2. Cardinality(E) \in Nat
  BY <1>1, FS_CardinalityType
<1>3. /\ Cardinality(P) \in Nat /\ Cardinality(Q) \in Nat
      /\ Cardinality(P) <= Cardinality(Q) /\ Cardinality(Q) <= Cardinality(Handler)
  BY HandlerSets DEF Tracked
<1>4. ASSUME NEW s \in Int PROVE Cardinality(Since(E, s)) \in Nat
  BY <1>1, SinceShrinks
<1>5. rec # NoRecord => rec.count \in Nat /\ rec.count >= 1 /\ rec.first \in Nat /\ rec.until \in Nat
  BY DEF Tracked, Attempts
<1> QED BY <1>1, <1>2, <1>3, <1>4, <1>5

\* Before a new record begins, no more than Most - 1 guesses are in the window that
\* ends now.
LEMMA OldWindow ==
  ASSUME NEW rec, NEW E, NEW P, NEW Q, NEW t \in Nat, Tracked(rec, E, P, Q, t),
         rec = NoRecord \/ t - rec.first > Window
  PROVE  Cardinality(Since(E, t - Window - 1)) <= Most - 1
<1> DEFINE now == Cardinality(Since(E, t - Window - 1))
           p == Cardinality(P)
           q == Cardinality(Q)
<1> SUFFICES now <= Most - 1
  OBVIOUS
<1>1. /\ now \in Nat /\ p \in Nat /\ q \in Nat /\ p <= q /\ q <= Cardinality(Handler)
      /\ t - Window - 1 \in Int
  BY TrackedTypes, GuardConstants
<1>2. RecordSays(rec, E, p, q, t) /\ IsFiniteSet(E) /\ \A e \in E : e.at \in Nat
  BY TrackedTypes DEF Tracked
<1>3. CASE rec = NoRecord
  <2>1. Cardinality(E) <= p
    BY <1>2, <1>3 DEF RecordSays
  <2>2. Since(E, t - Window - 1) \in SUBSET E
    BY DEF Since
  <2>3. now <= Cardinality(E) /\ Cardinality(E) \in Nat
    BY <1>2, <2>2, FS_Subset, FS_CardinalityType
  <2> HIDE DEF now, p, q
  <2> QED BY <1>1, <2>1, <2>3, GuardConstants
<1>4. CASE rec # NoRecord
  <2> DEFINE c == rec.count  f == rec.first  b == rec.until
  <2>1. c \in Nat /\ c >= 1 /\ f \in Nat /\ b \in Nat /\ f < t - Window
    BY <1>4, TrackedTypes, GuardConstants
  <2>2. now <= Cardinality(Since(E, f))
    BY <1>1, <1>2, <2>1, SinceShrinks, GuardConstants
  <2>3. /\ Cardinality(Since(E, f)) <= c - 1 + p
        /\ Cardinality(Since(E, f)) \in Nat
        /\ c >= MaxAttempts => Cardinality(Since(E, b - Ban)) <= p
        /\ t < b => c + q <= Most
    BY <1>2, <1>4, <2>1, TrackedTypes DEF RecordSays
  <2>4. CASE c < MaxAttempts
    <3> HIDE DEF now, p, q, c, f, b
    <3> QED BY <1>1, <2>1, <2>2, <2>3, <2>4, GuardConstants
  <2>5. CASE t < b
    <3> HIDE DEF now, p, q, c, f, b
    <3> QED BY <1>1, <2>1, <2>2, <2>3, <2>5, GuardConstants
  <2>6. CASE c >= MaxAttempts /\ b <= t
    <3>1. b - Ban \in Int /\ b - Ban <= t - Window - 1
      BY <2>1, <2>6, GuardConstants
    <3>2. now <= Cardinality(Since(E, b - Ban)) /\ Cardinality(Since(E, b - Ban)) \in Nat
      BY <1>1, <1>2, <3>1, SinceShrinks
    <3>3. Cardinality(Since(E, b - Ban)) <= p
      BY <2>3, <2>6
    <3> HIDE DEF now, p, q, c, f, b
    <3> QED BY <1>1, <3>2, <3>3, GuardConstants
  <2> QED BY <2>1, <2>4, <2>5, <2>6, GuardConstants
<1> QED BY <1>3, <1>4

\* No more than Burst guesses are in the window that ends now.
LEMMA ThisWindow ==
  ASSUME NEW rec, NEW E, NEW P, NEW Q, NEW t \in Nat, Tracked(rec, E, P, Q, t)
  PROVE  Cardinality(Since(E, t - Window - 1)) <= Burst
<1> DEFINE now == Cardinality(Since(E, t - Window - 1))
           p == Cardinality(P)
           q == Cardinality(Q)
<1> SUFFICES now <= Burst
  OBVIOUS
<1>1. /\ now \in Nat /\ p \in Nat /\ q \in Nat /\ p <= q /\ q <= Cardinality(Handler)
      /\ t - Window - 1 \in Int
  BY TrackedTypes, GuardConstants
<1>2. RecordSays(rec, E, p, q, t) /\ IsFiniteSet(E) /\ \A e \in E : e.at \in Nat
  BY TrackedTypes DEF Tracked
<1>3. CASE rec = NoRecord \/ t - rec.first > Window
  <2>1. now <= Most - 1
    BY <1>3, OldWindow
  <2> HIDE DEF now, p, q
  <2> QED BY <1>1, <2>1, GuardConstants
<1>4. CASE rec # NoRecord /\ ~(t - rec.first > Window)
  <2> DEFINE c == rec.count  f == rec.first  b == rec.until
             before == Cardinality(Since(E, f - Window - 1))
  <2>1. c \in Nat /\ c >= 1 /\ f \in Nat /\ b \in Nat /\ f - Window - 1 \in Int
    BY <1>4, TrackedTypes, GuardConstants
  <2>2. /\ f <= t /\ before <= Most - 1 + c - 1 + p /\ before \in Nat
        /\ c >= MaxAttempts => b >= f + Ban
        /\ t < b => c + q <= Most
    BY <1>2, <1>4, <2>1, TrackedTypes DEF RecordSays
  <2>3. now <= before
    <3>1. f - Window - 1 <= t - Window - 1
      BY <2>1, <2>2, GuardConstants
    <3> QED BY <1>1, <1>2, <2>1, <3>1, SinceShrinks
  <2>4. t <= f + Window
    BY <1>4, <2>1, GuardConstants
  <2> HIDE DEF now, p, q, c, f, b, before
  <2>5. c - 1 + p <= Most - 1
    BY <1>1, <2>1, <2>2, <2>4, GuardConstants
  <2> QED BY <1>1, <2>1, <2>2, <2>3, <2>5, GuardConstants
<1> QED BY <1>3, <1>4

-----------------------------------------------------------------------------
(* What the steps of a login do to a record.                               *)

Guarded(rec, E, P, Q, t) == Tracked(rec, E, P, Q, t) /\ Spaced(E, Window, Burst)

\* Time passes, guesses are forgotten, handlers leave or fail without a guess.
LEMMA GuardWeakens ==
  ASSUME NEW rec, NEW E, NEW P, NEW Q, NEW t \in Nat, Guarded(rec, E, P, Q, t),
         NEW D, NEW R, NEW S, NEW u \in Nat,
         D \subseteq E, P \subseteq R, R \subseteq S, S \subseteq Q, t <= u
  PROVE  Guarded(rec, D, R, S, u)
<1> DEFINE p == Cardinality(P)  r == Cardinality(R)  q == Cardinality(Q)  s == Cardinality(S)
<1>1. Events(D, u) /\ Spaced(D, Window, Burst)
  <2>1. Events(E, t) /\ Spaced(E, Window, Burst)
    BY DEF Guarded, Tracked
  <2>2. Window \in Nat /\ Burst \in Int
    BY GuardConstants
  <2> QED BY <2>1, <2>2, SpacedShrinks
<1>2. P \subseteq R /\ R \subseteq S /\ S \subseteq Q /\ Q \subseteq Handler
  BY DEF Guarded, Tracked
<1>3. p \in Nat /\ r \in Nat /\ s \in Nat /\ q \in Nat
  BY <1>2, HandlerSets
<1>4. IsFiniteSet(Handler) /\ IsFiniteSet(Q) /\ IsFiniteSet(S) /\ IsFiniteSet(R)
  BY <1>2, HandlerSets, GuardAssumption
<1>5. p <= r /\ s <= q
  BY <1>2, <1>4, FS_Subset
<1>6. /\ RecordSays(rec, E, p, q, t) /\ rec \in Attempts \cup {NoRecord}
      /\ IsFiniteSet(E) /\ Cardinality(E) \in Nat /\ \A e \in E : e.at \in Nat
  BY TrackedTypes DEF Guarded, Tracked
<1>7. RecordSays(rec, D, r, s, u)
  <2>1. CASE rec = NoRecord
    <3>1. Cardinality(D) \in Nat /\ Cardinality(D) <= Cardinality(E)
      BY <1>6, FS_Subset, FS_CardinalityType
    <3>2. Cardinality(E) <= p
      BY <1>6, <2>1 DEF RecordSays
    <3>3. Cardinality(D) <= r
      BY <1>3, <1>5, <1>6, <3>1, <3>2
    <3> QED BY <2>1, <3>3 DEF RecordSays
  <2>2. CASE rec # NoRecord
    <3> DEFINE c == rec.count  f == rec.first  b == rec.until
    <3>1. c \in Nat /\ c >= 1 /\ f \in Nat /\ b \in Nat
          /\ f - Window - 1 \in Int /\ b - Ban \in Int
      BY <2>2, TrackedTypes, GuardConstants DEF Guarded
    <3>2. /\ f <= t
          /\ Cardinality(Since(E, f)) <= c - 1 + p
          /\ Cardinality(Since(E, f - Window - 1)) <= Most - 1 + c - 1 + p
          /\ c < MaxAttempts => b = 0
          /\ c >= MaxAttempts => b >= f + Ban /\ Cardinality(Since(E, b - Ban)) <= p
          /\ t < b => c + q <= Most
      BY <1>6, <2>2 DEF RecordSays
    <3>3. ASSUME NEW k \in Int
          PROVE  /\ Cardinality(Since(E, k)) \in Nat /\ Cardinality(Since(D, k)) \in Nat
                 /\ Cardinality(Since(D, k)) <= Cardinality(Since(E, k))
      <4>1. k <= k
        OBVIOUS
      <4> QED BY <1>6, <4>1, SinceShrinks
    <3>4. f <= u
      BY <3>1, <3>2
    <3>5. Cardinality(Since(D, f)) <= c - 1 + r
      BY <1>3, <1>5, <3>1, <3>2, <3>3
    <3>6. Cardinality(Since(D, f - Window - 1)) <= Most - 1 + c - 1 + r
      BY <1>3, <1>5, <3>1, <3>2, <3>3, GuardConstants
    <3>7. c >= MaxAttempts => b >= f + Ban /\ Cardinality(Since(D, b - Ban)) <= r
      BY <1>3, <1>5, <3>1, <3>2, <3>3, GuardConstants
    <3>8. u < b => c + s <= Most
      BY <1>3, <1>5, <3>1, <3>2, GuardConstants
    <3> QED BY <2>2, <3>2, <3>4, <3>5, <3>6, <3>7, <3>8 DEF RecordSays
  <2> QED BY <2>1, <2>2
<1>8. R \subseteq S /\ S \subseteq Handler
  BY <1>2
<1> QED BY <1>1, <1>6, <1>7, <1>8 DEF Guarded, Tracked

\* A handler passes the check for a ban.
LEMMA GuardPasses ==
  ASSUME NEW rec, NEW E, NEW P, NEW Q, NEW t \in Nat, Guarded(rec, E, P, Q, t),
         NEW h \in Handler, ~(rec # NoRecord /\ t < rec.until)
  PROVE  Guarded(rec, E, P, Q \cup {h}, t)
<1>1. P \subseteq Q \cup {h} /\ Q \cup {h} \subseteq Handler
  BY DEF Guarded, Tracked
<1> QED BY <1>1 DEF Guarded, Tracked, RecordSays

\* A handler that is past the check guesses wrong; its failure is to be recorded.
LEMMA GuardGuess ==
  ASSUME NEW rec, NEW E, NEW P, NEW Q, NEW t \in Nat, Guarded(rec, E, P, Q, t),
         NEW h \in Q, h \notin P, NEW d, d.at = t
  PROVE  Guarded(rec, E \cup {d}, P \cup {h}, Q, t)
<1> DEFINE p == Cardinality(P)  r == Cardinality(P \cup {h})  q == Cardinality(Q)
           D == E \cup {d}
<1>1. P \subseteq Q /\ P \cup {h} \subseteq Q /\ Q \subseteq Handler
  BY DEF Guarded, Tracked
<1>2. IsFiniteSet(P) /\ p \in Nat /\ q \in Nat
  BY <1>1, HandlerSets
<1>3. r = p + 1
  BY <1>2, FS_AddElement
<1>4. /\ RecordSays(rec, E, p, q, t) /\ rec \in Attempts \cup {NoRecord} /\ Events(E, t)
      /\ IsFiniteSet(E) /\ Cardinality(E) \in Nat /\ \A e \in E : e.at \in Nat
  BY TrackedTypes DEF Guarded, Tracked
<1>5. Events(D, t) /\ IsFiniteSet(D)
  BY <1>4, FS_AddElement DEF Events
<1>6. RecordSays(rec, D, r, q, t)
  <2>1. CASE rec = NoRecord
    <3>1. \/ Cardinality(D) = Cardinality(E)
          \/ Cardinality(D) = Cardinality(E) + 1
      BY <1>4, FS_AddElement
    <3>2. Cardinality(E) <= p
      BY <1>4, <2>1 DEF RecordSays
    <3>3. Cardinality(D) <= r
      BY <1>2, <1>3, <1>4, <3>1, <3>2
    <3> QED BY <2>1, <3>3 DEF RecordSays
  <2>2. CASE rec # NoRecord
    <3> DEFINE c == rec.count  f == rec.first  b == rec.until
    <3>1. c \in Nat /\ c >= 1 /\ f \in Nat /\ b \in Nat
          /\ f - Window - 1 \in Int /\ b - Ban \in Int
      BY <2>2, TrackedTypes, GuardConstants DEF Guarded
    <3>2. /\ f <= t
          /\ Cardinality(Since(E, f)) <= c - 1 + p
          /\ Cardinality(Since(E, f - Window - 1)) <= Most - 1 + c - 1 + p
          /\ c < MaxAttempts => b = 0
          /\ c >= MaxAttempts => b >= f + Ban /\ Cardinality(Since(E, b - Ban)) <= p
          /\ t < b => c + q <= Most
      BY <1>4, <2>2 DEF RecordSays
    <3>3. ASSUME NEW k \in Int
          PROVE  /\ Cardinality(Since(E, k)) \in Nat /\ Cardinality(Since(D, k)) \in Nat
                 /\ Cardinality(Since(D, k)) <= Cardinality(Since(E, k)) + 1
      <4>1. d.at \in Nat
        OBVIOUS
      <4> QED BY <1>4, <4>1, SinceGrows
    <3> HIDE DEF D, p, r, q
    <3>4. Cardinality(Since(D, f)) <= c - 1 + r
      BY <1>2, <1>3, <3>1, <3>2, <3>3
    <3>5. Cardinality(Since(D, f - Window - 1)) <= Most - 1 + c - 1 + r
      BY <1>2, <1>3, <3>1, <3>2, <3>3, GuardConstants
    <3>6. c >= MaxAttempts => b >= f + Ban /\ Cardinality(Since(D, b - Ban)) <= r
      BY <1>2, <1>3, <3>1, <3>2, <3>3, GuardConstants
    <3> QED BY <2>2, <3>2, <3>4, <3>5, <3>6 DEF RecordSays
  <2> QED BY <2>1, <2>2
<1>7. Tracked(rec, D, P \cup {h}, Q, t)
  BY <1>1, <1>4, <1>5, <1>6 DEF Tracked
<1>8. Cardinality(Since(D, t - Window - 1)) <= Burst
  BY <1>7, ThisWindow
<1>9. Spaced(D, Window, Burst)
  BY <1>4, <1>8, SpacedGrows, GuardConstants DEF Guarded
<1> QED BY <1>7, <1>9 DEF Guarded

\* The tracker has the thresholds it was made with.
Untouched == limits = [most |-> MaxAttempts, window |-> Window, ban |-> Ban]

LEMMA FailedFields ==
  ASSUME NEW rec, Untouched
  PROVE  /\ Failed(rec) # NoRecord
         /\ rec = NoRecord \/ clock - rec.first > Window =>
              /\ Failed(rec).count = 1 /\ Failed(rec).first = clock
              /\ Failed(rec).until = IF 1 >= MaxAttempts THEN clock + Ban ELSE 0
         /\ ~(rec = NoRecord \/ clock - rec.first > Window) =>
              /\ Failed(rec).count = rec.count + 1 /\ Failed(rec).first = rec.first
              /\ Failed(rec).until = IF rec.count + 1 >= MaxAttempts THEN clock + Ban ELSE rec.until
         /\ Failed(rec) = [count |-> Failed(rec).count, first |-> Failed(rec).first,
                           until |-> Failed(rec).until]
  BY DEF Failed, Untouched, NoRecord

\* A failure is recorded.
LEMMA GuardRecords ==
  ASSUME NEW rec, NEW E, NEW P, NEW Q, clock \in Nat, Guarded(rec, E, P, Q, clock),
         NEW h \in P, Untouched
  PROVE  Guarded(Failed(rec), E, P \ {h}, Q \ {h}, clock)
<1> DEFINE p == Cardinality(P)  r == Cardinality(P \ {h})  q == Cardinality(Q)
           s == Cardinality(Q \ {h})
           new == Failed(rec)
<1>1. P \subseteq Q /\ P \ {h} \subseteq Q \ {h} /\ Q \ {h} \subseteq Handler /\ Q \subseteq Handler /\ h \in Q
  BY DEF Guarded, Tracked
<1>2. /\ IsFiniteSet(P) /\ IsFiniteSet(Q) /\ p \in Nat /\ q \in Nat /\ r \in Nat /\ s \in Nat
      /\ p <= q /\ q <= Cardinality(Handler)
  BY <1>1, HandlerSets
<1>3. r = p - 1 /\ s = q - 1
  BY <1>1, <1>2, FS_RemoveElement
<1>4. /\ RecordSays(rec, E, p, q, clock) /\ rec \in Attempts \cup {NoRecord} /\ Events(E, clock)
      /\ IsFiniteSet(E) /\ \A e \in E : e.at \in Nat
      /\ \A k \in Int : Cardinality(Since(E, k)) \in Nat
      /\ Tracked(rec, E, P, Q, clock)
  BY TrackedTypes DEF Guarded, Tracked
<1>5. new # NoRecord
  BY FailedFields
<1>6. CASE rec = NoRecord \/ clock - rec.first > Window
  <2>1. new.count = 1 /\ new.first = clock /\ new.until = 0
    BY <1>6, FailedFields, GuardConstants
  <2>2. new \in Attempts
    BY <2>1, FailedFields DEF Attempts
  <2>3. Cardinality(Since(E, clock)) = 0
    BY <1>4, SinceNow
  <2>4. Cardinality(Since(E, clock - Window - 1)) <= Most - 1
    BY <1>4, <1>6, OldWindow
  <2>5. clock - Window - 1 \in Int
    BY GuardConstants
  <2>6. Cardinality(Since(E, clock - Window - 1)) <= Most - 1 + 1 - 1 + r
    BY <1>2, <1>4, <2>4, <2>5, GuardConstants
  <2>7. 0 <= 1 - 1 + r
    BY <1>2
  <2>8. RecordSays(new, E, r, s, clock)
    BY <1>5, <2>1, <2>3, <2>6, <2>7, GuardConstants DEF RecordSays
  <2> QED BY <1>1, <1>4, <2>2, <2>8 DEF Guarded, Tracked
<1>7. CASE ~(rec = NoRecord \/ clock - rec.first > Window)
  <2> DEFINE c == rec.count  f == rec.first  b == rec.until  n == new.until
  <2>1. /\ c \in Nat /\ c >= 1 /\ f \in Nat /\ b \in Nat
        /\ f - Window - 1 \in Int /\ b - Ban \in Int /\ clock <= f + Window
    BY <1>4, <1>7, TrackedTypes, GuardConstants
  <2>2. /\ f <= clock
        /\ Cardinality(Since(E, f)) <= c - 1 + p
        /\ Cardinality(Since(E, f - Window - 1)) <= Most - 1 + c - 1 + p
        /\ c < MaxAttempts => b = 0
        /\ c >= MaxAttempts => b >= f + Ban
        /\ clock < b => c + q <= Most
    BY <1>4, <1>7 DEF RecordSays
  <2>3. /\ new.count = c + 1 /\ new.first = f
        /\ n = IF c + 1 >= MaxAttempts THEN clock + Ban ELSE b
    BY <1>7, FailedFields
  <2>4. n \in Nat
    BY <2>1, <2>3, GuardConstants
  <2>5. new \in Attempts
    BY <2>1, <2>3, <2>4, FailedFields DEF Attempts
  <2>6. Cardinality(Since(E, f)) <= c + 1 - 1 + r
    BY <1>2, <1>3, <1>4, <2>1, <2>2
  <2>7. Cardinality(Since(E, f - Window - 1)) <= Most - 1 + (c + 1) - 1 + r
    BY <1>2, <1>3, <1>4, <2>1, <2>2, GuardConstants
  <2>8. c + 1 < MaxAttempts => n = 0
    BY <2>1, <2>2, <2>3, GuardConstants
  <2>9. c + 1 >= MaxAttempts => n >= f + Ban /\ Cardinality(Since(E, n - Ban)) <= r
    <3>1. SUFFICES ASSUME c + 1 >= MaxAttempts
                   PROVE  n >= f + Ban /\ Cardinality(Since(E, n - Ban)) <= r
      OBVIOUS
    <3>2. n = clock + Ban /\ n - Ban = clock
      BY <2>3, <3>1, GuardConstants
    <3>3. Cardinality(Since(E, n - Ban)) = 0
      BY <1>4, <3>2, SinceNow
    <3> QED BY <1>2, <2>1, <2>2, <3>2, <3>3, GuardConstants
  <2>10. clock < n => (c + 1) + s <= Most
    BY <1>2, <1>3, <2>1, <2>2, <2>3, GuardConstants
  <2>11. RecordSays(new, E, r, s, clock)
    <3> HIDE DEF new, r, s
    <3>1. new.first <= clock /\ Cardinality(Since(E, new.first)) <= new.count - 1 + r
      BY <1>2, <2>1, <2>2, <2>3, <2>6
    <3>2. Cardinality(Since(E, new.first - Window - 1)) <= Most - 1 + new.count - 1 + r
      BY <2>3, <2>7
    <3>3. new.count < MaxAttempts => new.until = 0
      BY <2>3, <2>8
    <3>4. new.count >= MaxAttempts =>
            new.until >= new.first + Ban /\ Cardinality(Since(E, new.until - Ban)) <= r
      BY <2>3, <2>9
    <3>5. clock < new.until => new.count + s <= Most
      BY <2>3, <2>10
    <3> QED BY <1>5, <3>1, <3>2, <3>3, <3>4, <3>5 DEF RecordSays
  <2> QED BY <1>1, <1>4, <2>5, <2>11 DEF Guarded, Tracked
<1> QED BY <1>6, <1>7

\* A success forgets the record and the guesses.
LEMMA GuardForgets ==
  ASSUME NEW P, NEW Q, NEW t \in Nat, P \subseteq Q, Q \subseteq Handler
  PROVE  Guarded(NoRecord, {}, P, Q, t)
<1>1. Cardinality(P) \in Nat
  BY HandlerSets
<1>2. ASSUME NEW u \in Nat PROVE Within({}, u, Window) <= Burst
  <2>1. {e \in {} : e.at <= u /\ u <= e.at + Window} = {}
    OBVIOUS
  <2> QED BY <2>1, FS_EmptySet, GuardConstants DEF Within
<1> QED BY <1>1, <1>2, FS_EmptySet DEF Guarded, Tracked, Events, RecordSays, Spaced

-----------------------------------------------------------------------------
(* What a bucket says about the requests that were let through.            *)

Filled(b) == IF b.count > Limit THEN Limit ELSE b.count

\* The requests since the bucket was opened, but for the first, are in its count,
\* and so are, but for those of a full bucket, the ones of the period before.
BucketSays(b, E, t) ==
  /\ b = NoRecord => /\ \A e \in E : e.at < t
                     /\ Cardinality(Since(E, t - Period - 1)) <= Limit - 1
  /\ b # NoRecord =>
       /\ b.resetAt - Period <= t
       /\ \A e \in E : e.at <= b.resetAt
       /\ Cardinality(Since(E, b.resetAt - Period)) <= Filled(b) - 1
       /\ Cardinality(Since(E, b.resetAt - Period - Period - 1)) <= Limit - 1 + Filled(b)

Bucketed(b, E, t) ==
  /\ b \in Bucket \cup {NoRecord}
  /\ Events(E, t)
  /\ BucketSays(b, E, t)
  /\ Spaced(E, Period, 2 * Limit - 1)

LEMMA LimitConstants == Limit \in Nat /\ Limit >= 1 /\ Period \in Nat
  BY GuardAssumption

LEMMA BucketTypes ==
  ASSUME NEW b, NEW E, NEW t \in Nat, Bucketed(b, E, t)
  PROVE  /\ IsFiniteSet(E) /\ \A e \in E : e.at \in Nat
         /\ \A s \in Int : Cardinality(Since(E, s)) \in Nat
         /\ b # NoRecord => /\ b.count \in Nat /\ b.count >= 1 /\ b.resetAt \in Nat
                            /\ Filled(b) \in Nat /\ Filled(b) >= 1 /\ Filled(b) <= Limit
<1>1. IsFiniteSet(E) /\ \A e \in E : e.at \in Nat
  BY DEF Bucketed, Events
<1>2. ASSUME NEW s \in Int PROVE Cardinality(Since(E, s)) \in Nat
  BY <1>1, SinceShrinks
<1>3. b # NoRecord => b.count \in Nat /\ b.count >= 1 /\ b.resetAt \in Nat
  BY LimitConstants DEF Bucketed, Bucket
<1>4. b # NoRecord => Filled(b) \in Nat /\ Filled(b) >= 1 /\ Filled(b) <= Limit
  BY <1>3, LimitConstants DEF Filled
<1> QED BY <1>1, <1>2, <1>3, <1>4

\* A bucket whose period is over may be forgotten.
LEMMA BucketSwept ==
  ASSUME NEW b, NEW E, NEW t \in Nat, Bucketed(b, E, t), b # NoRecord, t > b.resetAt
  PROVE  Bucketed(NoRecord, E, t)
<1>1. /\ b.resetAt \in Nat /\ Filled(b) \in Nat /\ Filled(b) <= Limit
      /\ IsFiniteSet(E) /\ \A e \in E : e.at \in Nat
  BY BucketTypes
<1>2. /\ \A e \in E : e.at <= b.resetAt
      /\ Cardinality(Since(E, b.resetAt - Period)) <= Filled(b) - 1
  BY DEF Bucketed, BucketSays
<1>3. b.resetAt - Period \in Int /\ t - Period - 1 \in Int /\ b.resetAt - Period <= t - Period - 1
  BY <1>1, LimitConstants
<1>4. /\ Cardinality(Since(E, t - Period - 1)) <= Cardinality(Since(E, b.resetAt - Period))
      /\ Cardinality(Since(E, t - Period - 1)) \in Nat
      /\ Cardinality(Since(E, b.resetAt - Period)) \in Nat
  BY <1>1, <1>3, SinceShrinks
<1>5. Cardinality(Since(E, t - Period - 1)) <= Limit - 1
  BY <1>1, <1>2, <1>4, LimitConstants
<1>6. \A e \in E : e.at < t
  BY <1>1, <1>2
<1>7. BucketSays(NoRecord, E, t)
  BY <1>5, <1>6 DEF BucketSays
<1> QED BY <1>7 DEF Bucketed

\* A request that is let through, as the first of its period or as a later one.
LEMMA BucketAdmits ==
  ASSUME NEW b, NEW E, NEW t \in Nat, NEW c, NEW d, d.at = t,
         c \in Bucket, c # NoRecord, Events(E, t), Spaced(E, Period, 2 * Limit - 1),
         BucketSays(c, E \cup {d}, t)
  PROVE  Bucketed(c, E \cup {d}, t)
<1> DEFINE D == E \cup {d}
           f == c.resetAt - Period
<1>1. c.count \in Nat /\ c.resetAt \in Nat /\ Filled(c) \in Nat /\ Filled(c) <= Limit
  BY LimitConstants DEF Bucket, Filled
<1>2. IsFiniteSet(D) /\ \A e \in D : e.at \in Nat
  BY FS_AddElement DEF Events
<1>3. /\ f <= t
      /\ Cardinality(Since(D, f - Period - 1)) <= Limit - 1 + Filled(c)
  BY DEF BucketSays
<1>4. f - Period - 1 \in Int /\ t - Period - 1 \in Int /\ f - Period - 1 <= t - Period - 1
  BY <1>1, <1>3, LimitConstants
<1> HIDE DEF D
<1>5. /\ Cardinality(Since(D, t - Period - 1)) <= Cardinality(Since(D, f - Period - 1))
      /\ Cardinality(Since(D, t - Period - 1)) \in Nat
      /\ Cardinality(Since(D, f - Period - 1)) \in Nat
  BY <1>2, <1>4, SinceShrinks
<1>6. Cardinality(Since(D, t - Period - 1)) <= 2 * Limit - 1 /\ 2 * Limit - 1 \in Int
  BY <1>1, <1>3, <1>5, LimitConstants
<1> USE DEF D
<1>7. Events(D, t) /\ Spaced(D, Period, 2 * Limit - 1)
  BY <1>6, SpacedGrows, LimitConstants
<1> QED BY <1>7 DEF Bucketed

LEMMA BucketOpens ==
  ASSUME NEW E, NEW t \in Nat, NEW d, d.at = t, Bucketed(NoRecord, E, t)
  PROVE  Bucketed([count |-> 1, resetAt |-> t + Period], E \cup {d}, t)
<1> DEFINE D == E \cup {d}
           c == [count |-> 1, resetAt |-> t + Period]
<1>1. c \in Bucket /\ c # NoRecord /\ Filled(c) = 1 /\ c.resetAt = t + Period
  BY LimitConstants DEF Bucket, NoRecord, Filled
<1>2. /\ IsFiniteSet(E) /\ Events(E, t) /\ \A e \in E : e.at \in Nat
      /\ Cardinality(Since(E, t - Period - 1)) <= Limit - 1
      /\ Spaced(E, Period, 2 * Limit - 1)
  BY DEF Bucketed, BucketSays, Events
<1>3. Events(D, t)
  BY <1>2, FS_AddElement DEF Events
<1>4. c.resetAt - Period = t /\ c.resetAt - Period - Period - 1 = t - Period - 1 /\ t - Period - 1 \in Int
  BY <1>1, LimitConstants
<1>5. Cardinality(Since(D, t)) = 0
  BY <1>3, SinceNow
<1>6. /\ Cardinality(Since(D, t - Period - 1)) <= Cardinality(Since(E, t - Period - 1)) + 1
      /\ Cardinality(Since(D, t - Period - 1)) \in Nat /\ Cardinality(Since(E, t - Period - 1)) \in Nat
  <2>1. d.at \in Nat
    OBVIOUS
  <2> QED BY <1>2, <1>4, <2>1, SinceGrows
<1>7. Cardinality(Since(D, t - Period - 1)) <= Limit - 1 + 1
  BY <1>2, <1>6, LimitConstants
<1>8. \A e \in D : e.at <= t + Period
  BY <1>3, LimitConstants DEF Events
<1>9. BucketSays(c, D, t)
  <2> HIDE DEF c, D
  <2>1. c.resetAt - Period <= t
    BY <1>4
  <2>2. \A e \in D : e.at <= c.resetAt
    BY <1>1, <1>8
  <2>3. Cardinality(Since(D, c.resetAt - Period)) <= Filled(c) - 1
    BY <1>1, <1>4, <1>5
  <2>4. Cardinality(Since(D, c.resetAt - Period - Period - 1)) <= Limit - 1 + Filled(c)
    BY <1>1, <1>4, <1>7
  <2> QED BY <1>1, <2>1, <2>2, <2>3, <2>4 DEF BucketSays
<1> HIDE DEF c
<1>10. Bucketed(c, D, t)
  BY <1>1, <1>2, <1>9, BucketAdmits
<1> QED BY <1>10 DEF c

LEMMA BucketCounts ==
  ASSUME NEW b, NEW E, NEW t \in Nat, NEW d, d.at = t, Bucketed(b, E, t),
         b # NoRecord, t <= b.resetAt, NEW c, c \in Bucket,
         c.count = b.count + 1, c.resetAt = b.resetAt
  PROVE  /\ c.count <= Limit => Bucketed(c, E \cup {d}, t)
         /\ Bucketed(c, E, t)
<1> DEFINE D == E \cup {d}
           f == b.resetAt - Period
<1>1. /\ b.count \in Nat /\ b.count >= 1 /\ b.resetAt \in Nat /\ Filled(b) \in Nat /\ Filled(b) >= 1
      /\ IsFiniteSet(E) /\ \A e \in E : e.at \in Nat
      /\ f \in Int /\ f - Period - 1 \in Int
  BY BucketTypes, LimitConstants
<1>2. /\ f <= t /\ Events(E, t) /\ Spaced(E, Period, 2 * Limit - 1)
      /\ \A e \in E : e.at <= b.resetAt
      /\ Cardinality(Since(E, f)) <= Filled(b) - 1
      /\ Cardinality(Since(E, f - Period - 1)) <= Limit - 1 + Filled(b)
  BY DEF Bucketed, BucketSays
<1>3. c # NoRecord
  BY LimitConstants DEF Bucket, NoRecord
<1>4. Filled(c) \in Nat /\ Filled(b) <= Filled(c) /\ (c.count <= Limit => Filled(c) = Filled(b) + 1)
  BY <1>1, LimitConstants DEF Filled
<1>5. ASSUME NEW k \in Int
      PROVE  /\ Cardinality(Since(E, k)) \in Nat /\ Cardinality(Since(D, k)) \in Nat
             /\ Cardinality(Since(D, k)) <= Cardinality(Since(E, k)) + 1
  <2>1. d.at \in Nat
    OBVIOUS
  <2> QED BY <1>1, <2>1, SinceGrows
<1>6. BucketSays(c, E, t)
  <2> HIDE DEF D
  <2>1. Cardinality(Since(E, f)) <= Filled(c) - 1
    BY <1>1, <1>2, <1>4, <1>5
  <2>2. Cardinality(Since(E, f - Period - 1)) <= Limit - 1 + Filled(c)
    BY <1>1, <1>2, <1>4, <1>5, LimitConstants
  <2> QED BY <1>2, <1>3, <2>1, <2>2 DEF BucketSays
<1>7. ASSUME c.count <= Limit PROVE Bucketed(c, D, t)
  <2> HIDE DEF D
  <2>1. Cardinality(Since(D, f)) <= Filled(c) - 1
    BY <1>1, <1>2, <1>4, <1>5, <1>7
  <2>2. Cardinality(Since(D, f - Period - 1)) <= Limit - 1 + Filled(c)
    BY <1>1, <1>2, <1>4, <1>5, <1>7, LimitConstants
  <2>3. \A e \in D : e.at <= c.resetAt
    BY <1>2 DEF D
  <2>4. BucketSays(c, D, t)
    BY <1>2, <1>3, <2>1, <2>2, <2>3 DEF BucketSays
  <2>5. BucketSays(c, E \cup {d}, t)
    BY <2>4 DEF D
  <2> QED BY <1>2, <1>3, <2>5, BucketAdmits DEF D
<1> QED BY <1>2, <1>6, <1>7 DEF Bucketed

LEMMA BucketTicks ==
  ASSUME NEW b, NEW E, NEW t \in Nat, NEW u \in Nat, Bucketed(b, E, t), t <= u
  PROVE  Bucketed(b, E, u)
<1>1. IsFiniteSet(E) /\ (\A e \in E : e.at \in Nat) /\ BucketSays(b, E, t)
  BY BucketTypes DEF Bucketed
<1>2. Events(E, u)
  BY DEF Bucketed, Events
<1>3. BucketSays(b, E, u)
  <2>1. CASE b = NoRecord
    <3>1. t - Period - 1 \in Int /\ u - Period - 1 \in Int /\ t - Period - 1 <= u - Period - 1
      BY LimitConstants
    <3>2. /\ Cardinality(Since(E, u - Period - 1)) <= Cardinality(Since(E, t - Period - 1))
          /\ Cardinality(Since(E, u - Period - 1)) \in Nat
          /\ Cardinality(Since(E, t - Period - 1)) \in Nat
      BY <1>1, <3>1, SinceShrinks
    <3>3. Cardinality(Since(E, t - Period - 1)) <= Limit - 1 /\ \A e \in E : e.at < t
      BY <1>1, <2>1 DEF BucketSays
    <3>4. Cardinality(Since(E, u - Period - 1)) <= Limit - 1 /\ \A e \in E : e.at < u
      BY <1>1, <3>2, <3>3, LimitConstants
    <3> QED BY <2>1, <3>4 DEF BucketSays
  <2>2. CASE b # NoRecord
    <3>1. b.resetAt \in Nat
      BY <2>2, BucketTypes
    <3>2. b.resetAt - Period <= u
      BY <1>1, <2>2, <3>1, LimitConstants DEF BucketSays
    <3> QED BY <1>1, <2>2, <3>2 DEF BucketSays
  <2> QED BY <2>1, <2>2
<1> QED BY <1>2, <1>3 DEF Bucketed

LEMMA BucketForgets ==
  ASSUME NEW t \in Nat
  PROVE  Bucketed(NoRecord, {}, t)
<1>1. \A s \in Int : Since({}, s) = {}
  BY DEF Since
<1>2. ASSUME NEW u \in Nat PROVE Within({}, u, Period) <= 2 * Limit - 1
  <2>1. {e \in {} : e.at <= u /\ u <= e.at + Period} = {}
    OBVIOUS
  <2> QED BY <2>1, FS_EmptySet, LimitConstants DEF Within
<1>3. Cardinality(Since({}, t - Period - 1)) <= Limit - 1
  BY <1>1, FS_EmptySet, LimitConstants
<1> QED BY <1>2, <1>3, FS_EmptySet DEF Bucketed, BucketSays, Events, Spaced

-----------------------------------------------------------------------------
(* The guard as a whole.                                                   *)

FromAddr(S, a) == {e \in S : e.addr = a}
AtName(S, n) == {e \in S : e.name = n}

\* The handlers that have a failure of address a to record, those that are past its
\* check for a ban, and those that try a backup code of n.
Failing(tr, a) == {h \in Handler : tr[h].pc = "failed" /\ tr[h].addr = a}
Passed(tr, a) == {h \in Handler : tr[h].pc \in {"check", "backup", "failed"} /\ tr[h].addr = a}
Backing(tr, n) == {h \in Handler : tr[h].pc = "backup" /\ tr[h].name = n}

AddrsOK(att, w, tr, t) ==
  \A a \in Addr : Guarded(att[a], FromAddr(w, a), Failing(tr, a), Passed(tr, a), t)
NamesOK(names, w, tr, t) ==
  \A n \in Account : Guarded(names[n], AtName(w, n), {}, Backing(tr, n), t)
BucketsOK(b, l, t) == \A a \in Addr : Bucketed(b[a], FromAddr(l, a), t)

\* What the steps of one login need to know of the rest.
Placed ==
  /\ clock \in Nat
  /\ trying \in [Handler -> LoginState \cup {NoLogin}]
  /\ attempts \in [Addr -> Attempts \cup {NoRecord}]
  /\ usernames \in [Account -> Attempts \cup {NoRecord}]
  /\ buckets \in [Addr -> Bucket \cup {NoRecord}]
  /\ limits \in [most : Nat \ {0}, window : Nat \ {0}, ban : Nat \ {0}]
  /\ acts \in Nat
Logged ==
  /\ admitted \subseteq [addr : Addr, at : Nat, nth : Nat] /\ IsFiniteSet(admitted)
  /\ wrong \subseteq [addr : Addr, name : Account, at : Nat, nth : Nat] /\ IsFiniteSet(wrong)

TrackerInv ==
  acts = 0 => /\ Untouched
              /\ AddrsOK(attempts, wrong, trying, clock)
              /\ NamesOK(usernames, wrong, trying, clock)

GuardInv == Placed /\ Logged /\ TrackerInv /\ BucketsOK(buckets, admitted, clock)

LEMMA GuardSets ==
  ASSUME NEW tr, NEW a, NEW n
  PROVE  /\ Failing(tr, a) \subseteq Passed(tr, a) /\ Passed(tr, a) \subseteq Handler
         /\ {} \subseteq Backing(tr, n) /\ Backing(tr, n) \subseteq Handler
  BY DEF Failing, Passed, Backing

\* Where a handler is counted after its login went on to q.
Moved(h, q) ==
  /\ \A a : Failing(trying', a) = IF q.pc = "failed" /\ q.addr = a
                                    THEN Failing(trying, a) \cup {h} ELSE Failing(trying, a) \ {h}
  /\ \A a : Passed(trying', a) = IF q.pc \in {"check", "backup", "failed"} /\ q.addr = a
                                   THEN Passed(trying, a) \cup {h} ELSE Passed(trying, a) \ {h}
  /\ \A n : Backing(trying', n) = IF q.pc = "backup" /\ q.name = n
                                    THEN Backing(trying, n) \cup {h} ELSE Backing(trying, n) \ {h}

LEMMA LoginMoves ==
  ASSUME Placed, NEW h \in Handler, NEW q, Goto(h, q)
  PROVE  Moved(h, q)
<1>1. trying'[h] = q /\ \A g \in Handler : g # h => trying'[g] = trying[g]
  BY DEF Placed, Goto
<1>2. ASSUME NEW a
      PROVE  Failing(trying', a) = IF q.pc = "failed" /\ q.addr = a
                                     THEN Failing(trying, a) \cup {h} ELSE Failing(trying, a) \ {h}
  BY <1>1 DEF Failing
<1>3. ASSUME NEW a
      PROVE  Passed(trying', a) = IF q.pc \in {"check", "backup", "failed"} /\ q.addr = a
                                    THEN Passed(trying, a) \cup {h} ELSE Passed(trying, a) \ {h}
  BY <1>1 DEF Passed
<1>4. ASSUME NEW n
      PROVE  Backing(trying', n) = IF q.pc = "backup" /\ q.name = n
                                     THEN Backing(trying, n) \cup {h} ELSE Backing(trying, n) \ {h}
  BY <1>1 DEF Backing
<1> QED BY <1>2, <1>3, <1>4 DEF Moved

\* The states of a login, and the address and name they carry.
LEMMA LoginFields ==
  ASSUME Placed, NEW h \in Handler
  PROVE  /\ trying[h].pc # "idle" => trying[h] # NoLogin /\ trying[h].addr \in Addr
         /\ trying[h].pc \in {"backup", "success"} => trying[h].name \in Account
         /\ trying[h] = NoLogin => trying[h].pc = "idle"
  BY DEF Placed, LoginState, NoLogin

LEMMA StageStates ==
  ASSUME NEW a \in Addr, NEW pc \in {"gate", "check", "failed", "welcome", "cleared"}
  PROVE  /\ [pc |-> pc, addr |-> a] \in LoginState
         /\ [pc |-> pc, addr |-> a].pc = pc /\ [pc |-> pc, addr |-> a].addr = a
  BY DEF LoginState

LEMMA ForStates ==
  ASSUME NEW a \in Addr, NEW n \in Account, NEW pc \in {"backup", "success"}
  PROVE  /\ [pc |-> pc, addr |-> a, name |-> n] \in LoginState
         /\ [pc |-> pc, addr |-> a, name |-> n].pc = pc
         /\ [pc |-> pc, addr |-> a, name |-> n].addr = a
         /\ [pc |-> pc, addr |-> a, name |-> n].name = n
  BY DEF LoginState

\* Time passes, guesses are forgotten or handlers leave: nothing is recorded.
LEMMA TrackerWeakens ==
  ASSUME GuardInv, acts = 0, clock' \in Nat, clock <= clock', wrong' \subseteq wrong,
         UNCHANGED <<attempts, usernames>>,
         \A a \in Addr : /\ Failing(trying, a) \subseteq Failing(trying', a)
                         /\ Passed(trying', a) \subseteq Passed(trying, a),
         \A n \in Account : Backing(trying', n) \subseteq Backing(trying, n)
  PROVE  /\ AddrsOK(attempts', wrong', trying', clock')
         /\ NamesOK(usernames', wrong', trying', clock')
<1>1. ASSUME NEW a \in Addr
      PROVE  Guarded(attempts'[a], FromAddr(wrong', a), Failing(trying', a), Passed(trying', a), clock')
  <2>1. Guarded(attempts[a], FromAddr(wrong, a), Failing(trying, a), Passed(trying, a), clock)
    BY DEF GuardInv, TrackerInv, AddrsOK
  <2>2. FromAddr(wrong', a) \subseteq FromAddr(wrong, a) /\ attempts'[a] = attempts[a]
    BY DEF FromAddr
  <2>3. Failing(trying', a) \subseteq Passed(trying', a)
    BY GuardSets
  <2>4. clock \in Nat
    BY DEF GuardInv, Placed
  <2> QED BY <2>1, <2>2, <2>3, <2>4, GuardWeakens
<1>2. ASSUME NEW n \in Account
      PROVE  Guarded(usernames'[n], AtName(wrong', n), {}, Backing(trying', n), clock')
  <2>1. Guarded(usernames[n], AtName(wrong, n), {}, Backing(trying, n), clock)
    BY DEF GuardInv, TrackerInv, NamesOK
  <2>2. AtName(wrong', n) \subseteq AtName(wrong, n) /\ usernames'[n] = usernames[n]
    BY DEF AtName
  <2>3. {} \subseteq {} /\ {} \subseteq Backing(trying', n)
    OBVIOUS
  <2>4. clock \in Nat
    BY DEF GuardInv, Placed
  <2> QED BY <2>1, <2>2, <2>3, <2>4, GuardWeakens
<1> QED BY <1>1, <1>2 DEF AddrsOK, NamesOK

\* A login goes on to q, and nothing is recorded.
LEMMA LoginProceeds ==
  ASSUME GuardInv, NEW h \in Handler, NEW q \in LoginState \cup {NoLogin}, Goto(h, q),
         UNCHANGED <<clock, attempts, usernames, limits, acts, wrong>>,
         q.pc = "failed" \/ trying[h].pc # "failed",
         q.pc \in {"check", "backup", "failed"} =>
           /\ trying[h].pc \in {"check", "backup", "failed"} /\ q.addr = trying[h].addr,
         q.pc # "backup"
  PROVE  TrackerInv' /\ trying' \in [Handler -> LoginState \cup {NoLogin}]
<1>0. Placed /\ Moved(h, q)
  BY LoginMoves DEF GuardInv
<1>1. trying' \in [Handler -> LoginState \cup {NoLogin}]
  BY <1>0 DEF Placed, Goto
<1>2. ASSUME NEW a \in Addr
      PROVE  /\ Failing(trying, a) \subseteq Failing(trying', a)
             /\ Passed(trying', a) \subseteq Passed(trying, a)
  <2>1. CASE q.pc = "failed" /\ q.addr = a
    BY <1>0, <2>1 DEF Passed, Moved
  <2>2. CASE q.pc = "failed" /\ q.addr # a
    <3>1. h \notin Failing(trying, a)
      BY <2>2 DEF Failing
    <3> QED BY <1>0, <2>2, <3>1 DEF Moved
  <2>3. CASE q.pc # "failed"
    <3>1. h \notin Failing(trying, a)
      BY <2>3 DEF Failing
    <3>2. q.pc \in {"check", "backup", "failed"} /\ q.addr = a => h \in Passed(trying, a)
      BY DEF Passed
    <3> QED BY <1>0, <2>3, <3>1, <3>2 DEF Moved
  <2> QED BY <2>1, <2>2, <2>3
<1>3. ASSUME NEW n \in Account PROVE Backing(trying', n) \subseteq Backing(trying, n)
  BY <1>0 DEF Moved
<1>4. ASSUME acts = 0
      PROVE  AddrsOK(attempts', wrong', trying', clock') /\ NamesOK(usernames', wrong', trying', clock')
  <2>1. clock' \in Nat /\ clock <= clock' /\ wrong' \subseteq wrong
    BY DEF GuardInv, Placed
  <2> QED BY <1>2, <1>3, <1>4, <2>1, TrackerWeakens
<1> QED BY <1>1, <1>4 DEF GuardInv, TrackerInv, Untouched

LEMMA IsBannedTracked ==
  ASSUME GuardInv, NEW h \in Handler, IsBanned(h)
  PROVE  TrackerInv' /\ trying' \in [Handler -> LoginState \cup {NoLogin}]
<1> DEFINE a0 == trying[h].addr
<1>0. /\ Placed /\ a0 \in Addr /\ trying[h].pc = "gate" /\ clock \in Nat
      /\ UNCHANGED <<clock, attempts, usernames, limits, acts, wrong>>
  BY LoginFields DEF IsBanned, GuardInv, Placed
<1>1. CASE Banned(attempts[a0])
  <2>1. Goto(h, NoLogin) /\ NoLogin \in LoginState \cup {NoLogin} /\ NoLogin.pc = "idle"
    BY <1>1 DEF IsBanned, NoLogin
  <2> QED BY <1>0, <2>1, LoginProceeds
<1>2. CASE ~Banned(attempts[a0])
  <2> DEFINE q == [pc |-> "check", addr |-> a0]
  <2>1. Goto(h, q) /\ q \in LoginState /\ q.pc = "check" /\ q.addr = a0
    BY <1>0, <1>2, StageStates DEF IsBanned, Stage
  <2> HIDE DEF q
  <2>2. Moved(h, q)
    BY <1>0, <2>1, LoginMoves
  <2>3. trying' \in [Handler -> LoginState \cup {NoLogin}]
    BY <1>0, <2>1 DEF Placed, Goto
  <2>4. ASSUME acts = 0, NEW a \in Addr
        PROVE  Guarded(attempts'[a], FromAddr(wrong', a), Failing(trying', a), Passed(trying', a), clock')
    <3>1. Guarded(attempts[a], FromAddr(wrong, a), Failing(trying, a), Passed(trying, a), clock)
      BY <2>4 DEF GuardInv, TrackerInv, AddrsOK
    <3>2. h \notin Failing(trying, a) /\ h \notin Passed(trying, a)
      BY <1>0 DEF Failing, Passed
    <3>3. Failing(trying', a) = Failing(trying, a)
      BY <2>1, <2>2, <3>2 DEF Moved
    <3>4. CASE a = a0
      <4>1. Passed(trying', a) = Passed(trying, a) \cup {h}
        BY <2>1, <2>2, <3>4 DEF Moved
      <4>2. ~(attempts[a] # NoRecord /\ clock < attempts[a].until)
        BY <1>2, <3>4 DEF Banned
      <4>3. Guarded(attempts[a], FromAddr(wrong, a), Failing(trying, a), Passed(trying, a) \cup {h}, clock)
        BY <1>0, <3>1, <4>2, GuardPasses
      <4> QED BY <1>0, <3>3, <4>1, <4>3
    <3>5. CASE a # a0
      <4>1. Passed(trying', a) = Passed(trying, a)
        BY <2>1, <2>2, <3>2, <3>5 DEF Moved
      <4> QED BY <1>0, <3>1, <3>3, <4>1
    <3> QED BY <3>4, <3>5
  <2>5. ASSUME acts = 0, NEW n \in Account
        PROVE  Guarded(usernames'[n], AtName(wrong', n), {}, Backing(trying', n), clock')
    <3>1. Guarded(usernames[n], AtName(wrong, n), {}, Backing(trying, n), clock)
      BY <2>5 DEF GuardInv, TrackerInv, NamesOK
    <3>2. Backing(trying', n) = Backing(trying, n)
      BY <1>0, <2>1, <2>2 DEF Moved, Backing
    <3> QED BY <1>0, <3>1, <3>2
  <2> QED BY <1>0, <2>3, <2>4, <2>5 DEF GuardInv, TrackerInv, AddrsOK, NamesOK, Untouched
<1> QED BY <1>1, <1>2

LEMMA RecordFailureTracked ==
  ASSUME GuardInv, NEW h \in Handler, RecordFailure(h)
  PROVE  TrackerInv' /\ trying' \in [Handler -> LoginState \cup {NoLogin}]
<1> DEFINE a0 == trying[h].addr
<1>0. /\ Placed /\ a0 \in Addr /\ trying[h].pc = "failed" /\ clock \in Nat
      /\ UNCHANGED <<clock, usernames, limits, acts, wrong>>
      /\ Goto(h, NoLogin) /\ NoLogin \in LoginState \cup {NoLogin} /\ NoLogin.pc = "idle"
  BY LoginFields DEF RecordFailure, GuardInv, Placed, NoLogin
<1>1. Moved(h, NoLogin) /\ trying' \in [Handler -> LoginState \cup {NoLogin}]
  BY <1>0, LoginMoves DEF Placed, Goto
<1>2. ASSUME acts = 0, NEW a \in Addr
      PROVE  Guarded(attempts'[a], FromAddr(wrong', a), Failing(trying', a), Passed(trying', a), clock')
  <2>1. /\ Guarded(attempts[a], FromAddr(wrong, a), Failing(trying, a), Passed(trying, a), clock)
        /\ Untouched
    BY <1>2 DEF GuardInv, TrackerInv, AddrsOK
  <2>2. Failing(trying', a) = Failing(trying, a) \ {h} /\ Passed(trying', a) = Passed(trying, a) \ {h}
    BY <1>0, <1>1 DEF Moved
  <2>3. CASE a = a0
    <3>1. h \in Failing(trying, a)
      BY <1>0, <2>3 DEF Failing
    <3>2. attempts'[a] = Failed(attempts[a])
      BY <1>0, <2>3 DEF RecordFailure, Placed
    <3>3. Guarded(Failed(attempts[a]), FromAddr(wrong, a), Failing(trying, a) \ {h}, Passed(trying, a) \ {h}, clock)
      BY <1>0, <2>1, <3>1, GuardRecords
    <3> QED BY <1>0, <2>2, <3>2, <3>3
  <2>4. CASE a # a0
    <3>1. Failing(trying', a) = Failing(trying, a) /\ Passed(trying', a) = Passed(trying, a)
      BY <2>2, <2>4 DEF Failing, Passed
    <3>2. attempts'[a] = attempts[a]
      BY <1>0, <2>4 DEF RecordFailure, Placed
    <3> QED BY <1>0, <2>1, <3>1, <3>2
  <2> QED BY <2>3, <2>4
<1>3. ASSUME acts = 0, NEW n \in Account
      PROVE  Guarded(usernames'[n], AtName(wrong', n), {}, Backing(trying', n), clock')
  <2>1. Guarded(usernames[n], AtName(wrong, n), {}, Backing(trying, n), clock)
    BY <1>3 DEF GuardInv, TrackerInv, NamesOK
  <2>2. Backing(trying', n) = Backing(trying, n)
    BY <1>0, <1>1 DEF Moved, Backing
  <2> QED BY <1>0, <2>1, <2>2
<1> QED BY <1>0, <1>1, <1>2, <1>3 DEF GuardInv, TrackerInv, AddrsOK, NamesOK, Untouched

\* Neither end of a login is counted anywhere.
LEMMA UncountedMoves ==
  ASSUME Placed, NEW h \in Handler, NEW q, Goto(h, q),
         trying[h].pc \notin {"check", "backup", "failed"}, q.pc \notin {"check", "backup", "failed"}
  PROVE  /\ \A a : Failing(trying', a) = Failing(trying, a) /\ Passed(trying', a) = Passed(trying, a)
         /\ \A n : Backing(trying', n) = Backing(trying, n)
<1>1. Moved(h, q)
  BY LoginMoves
<1>2. \A a : h \notin Failing(trying, a) /\ h \notin Passed(trying, a) /\ h \notin Backing(trying, a)
  BY DEF Failing, Passed, Backing
<1> QED BY <1>1, <1>2 DEF Moved

LEMMA RecordSuccessTracked ==
  ASSUME GuardInv, NEW h \in Handler, RecordSuccess(h)
  PROVE  TrackerInv' /\ trying' \in [Handler -> LoginState \cup {NoLogin}]
<1> DEFINE a0 == trying[h].addr
<1>0. /\ Placed /\ a0 \in Addr /\ trying[h].pc = "cleared" /\ clock \in Nat
      /\ UNCHANGED <<clock, usernames, limits, acts>> /\ wrong' = {w \in wrong : w.addr # a0}
      /\ Goto(h, NoLogin) /\ NoLogin \in LoginState \cup {NoLogin} /\ NoLogin.pc = "idle"
  BY LoginFields DEF RecordSuccess, GuardInv, Placed, NoLogin
<1>1. trying' \in [Handler -> LoginState \cup {NoLogin}]
  BY <1>0 DEF Placed, Goto
<1>2. /\ \A a : Failing(trying', a) = Failing(trying, a) /\ Passed(trying', a) = Passed(trying, a)
      /\ \A n : Backing(trying', n) = Backing(trying, n)
  BY <1>0, UncountedMoves
<1>3. ASSUME acts = 0, NEW a \in Addr
      PROVE  Guarded(attempts'[a], FromAddr(wrong', a), Failing(trying', a), Passed(trying', a), clock')
  <2>1. CASE a = a0
    <3>1. FromAddr(wrong', a) = {} /\ attempts'[a] = NoRecord
      BY <1>0, <2>1 DEF FromAddr, RecordSuccess, Placed
    <3>2. Guarded(NoRecord, {}, Failing(trying, a), Passed(trying, a), clock)
      BY <1>0, GuardForgets, GuardSets
    <3> QED BY <1>0, <1>2, <3>1, <3>2
  <2>2. CASE a # a0
    <3>1. FromAddr(wrong', a) = FromAddr(wrong, a) /\ attempts'[a] = attempts[a]
      BY <1>0, <2>2 DEF FromAddr, RecordSuccess, Placed
    <3> QED BY <1>0, <1>2, <1>3, <3>1 DEF GuardInv, TrackerInv, AddrsOK
  <2> QED BY <2>1, <2>2
<1>4. ASSUME acts = 0, NEW n \in Account
      PROVE  Guarded(usernames'[n], AtName(wrong', n), {}, Backing(trying', n), clock')
  <2>1. Guarded(usernames[n], AtName(wrong, n), {}, Backing(trying, n), clock)
    BY <1>4 DEF GuardInv, TrackerInv, NamesOK
  <2>2. AtName(wrong', n) \subseteq AtName(wrong, n) /\ clock <= clock
    BY <1>0 DEF AtName
  <2>3. {} \subseteq {} /\ {} \subseteq Backing(trying, n) /\ Backing(trying, n) \subseteq Backing(trying, n)
    OBVIOUS
  <2>4. Guarded(usernames[n], AtName(wrong', n), {}, Backing(trying, n), clock)
    BY <1>0, <2>1, <2>2, <2>3, GuardWeakens
  <2> QED BY <1>0, <1>2, <2>4
<1> QED BY <1>0, <1>1, <1>3, <1>4 DEF GuardInv, TrackerInv, AddrsOK, NamesOK, Untouched

LEMMA RecordUsernameSuccessTracked ==
  ASSUME GuardInv, NEW h \in Handler, RecordUsernameSuccess(h)
  PROVE  TrackerInv' /\ trying' \in [Handler -> LoginState \cup {NoLogin}]
<1> DEFINE n0 == trying[h].name
           q == [pc |-> "welcome", addr |-> trying[h].addr]
<1>0. /\ Placed /\ n0 \in Account /\ trying[h].addr \in Addr /\ trying[h].pc = "success" /\ clock \in Nat
      /\ UNCHANGED <<clock, attempts, limits, acts>> /\ wrong' = {w \in wrong : w.name # n0}
      /\ Goto(h, q)
  BY LoginFields DEF RecordUsernameSuccess, GuardInv, Placed, Stage
<1>1. q \in LoginState /\ q.pc = "welcome"
  BY <1>0, StageStates
<1> HIDE DEF q
<1>2. trying' \in [Handler -> LoginState \cup {NoLogin}]
  BY <1>0, <1>1 DEF Placed, Goto
<1>3. /\ \A a : Failing(trying', a) = Failing(trying, a) /\ Passed(trying', a) = Passed(trying, a)
      /\ \A n : Backing(trying', n) = Backing(trying, n)
  BY <1>0, <1>1, UncountedMoves
<1>4. ASSUME acts = 0, NEW n \in Account
      PROVE  Guarded(usernames'[n], AtName(wrong', n), {}, Backing(trying', n), clock')
  <2>1. CASE n = n0
    <3>1. AtName(wrong', n) = {} /\ usernames'[n] = NoRecord
      BY <1>0, <2>1 DEF AtName, RecordUsernameSuccess, Placed
    <3>2. Guarded(NoRecord, {}, {}, Backing(trying, n), clock)
      BY <1>0, GuardForgets, GuardSets
    <3> QED BY <1>0, <1>3, <3>1, <3>2
  <2>2. CASE n # n0
    <3>1. AtName(wrong', n) = AtName(wrong, n) /\ usernames'[n] = usernames[n]
      BY <1>0, <2>2 DEF AtName, RecordUsernameSuccess, Placed
    <3> QED BY <1>0, <1>3, <1>4, <3>1 DEF GuardInv, TrackerInv, NamesOK
  <2> QED BY <2>1, <2>2
<1>5. ASSUME acts = 0, NEW a \in Addr
      PROVE  Guarded(attempts'[a], FromAddr(wrong', a), Failing(trying', a), Passed(trying', a), clock')
  <2>1. Guarded(attempts[a], FromAddr(wrong, a), Failing(trying, a), Passed(trying, a), clock)
    BY <1>5 DEF GuardInv, TrackerInv, AddrsOK
  <2>2. FromAddr(wrong', a) \subseteq FromAddr(wrong, a) /\ clock <= clock
    BY <1>0 DEF FromAddr
  <2>3. /\ Failing(trying, a) \subseteq Failing(trying, a) /\ Failing(trying, a) \subseteq Passed(trying, a)
        /\ Passed(trying, a) \subseteq Passed(trying, a)
    BY GuardSets
  <2>4. Guarded(attempts[a], FromAddr(wrong', a), Failing(trying, a), Passed(trying, a), clock)
    BY <1>0, <2>1, <2>2, <2>3, GuardWeakens
  <2> QED BY <1>0, <1>3, <2>4
<1> QED BY <1>0, <1>2, <1>4, <1>5 DEF GuardInv, TrackerInv, AddrsOK, NamesOK, Untouched

LEMMA LoginTryBackupTracked ==
  ASSUME GuardInv, NEW h \in Handler, NEW n0 \in Account, LoginTryBackup(h, n0)
  PROVE  TrackerInv' /\ trying' \in [Handler -> LoginState \cup {NoLogin}]
<1> DEFINE a0 == trying[h].addr
           q == [pc |-> "backup", addr |-> a0, name |-> n0]
<1>0. /\ Placed /\ a0 \in Addr /\ trying[h].pc = "check" /\ clock \in Nat
      /\ UNCHANGED <<clock, attempts, usernames, limits, acts, wrong>>
      /\ Goto(h, q) /\ ~Banned(usernames[n0])
  BY LoginFields DEF LoginTryBackup, Proceeds, GuardInv, Placed, For
<1>1. q \in LoginState /\ q.pc = "backup" /\ q.addr = a0 /\ q.name = n0
  BY <1>0, ForStates
<1> HIDE DEF q
<1>2. Moved(h, q) /\ trying' \in [Handler -> LoginState \cup {NoLogin}]
  BY <1>0, <1>1, LoginMoves DEF Placed, Goto
<1>3. ASSUME acts = 0, NEW a \in Addr
      PROVE  Guarded(attempts'[a], FromAddr(wrong', a), Failing(trying', a), Passed(trying', a), clock')
  <2>1. Guarded(attempts[a], FromAddr(wrong, a), Failing(trying, a), Passed(trying, a), clock)
    BY <1>3 DEF GuardInv, TrackerInv, AddrsOK
  <2>2. h \notin Failing(trying, a) /\ (h \in Passed(trying, a) <=> a = a0)
    BY <1>0 DEF Failing, Passed
  <2>3. Failing(trying', a) = Failing(trying, a) /\ Passed(trying', a) = Passed(trying, a)
    BY <1>1, <1>2, <2>2 DEF Moved
  <2> QED BY <1>0, <2>1, <2>3
<1>4. ASSUME acts = 0, NEW n \in Account
      PROVE  Guarded(usernames'[n], AtName(wrong', n), {}, Backing(trying', n), clock')
  <2>1. Guarded(usernames[n], AtName(wrong, n), {}, Backing(trying, n), clock)
    BY <1>4 DEF GuardInv, TrackerInv, NamesOK
  <2>2. CASE n = n0
    <3>1. Backing(trying', n) = Backing(trying, n) \cup {h}
      BY <1>1, <1>2, <2>2 DEF Moved
    <3>2. ~(usernames[n] # NoRecord /\ clock < usernames[n].until)
      BY <1>0, <2>2 DEF Banned
    <3>3. Guarded(usernames[n], AtName(wrong, n), {}, Backing(trying, n) \cup {h}, clock)
      BY <1>0, <2>1, <3>2, GuardPasses
    <3> QED BY <1>0, <3>1, <3>3
  <2>3. CASE n # n0
    <3>1. Backing(trying', n) = Backing(trying, n)
      BY <1>0, <1>1, <1>2, <2>3 DEF Moved, Backing
    <3> QED BY <1>0, <2>1, <3>1
  <2> QED BY <2>2, <2>3
<1> QED BY <1>0, <1>2, <1>3, <1>4 DEF GuardInv, TrackerInv, AddrsOK, NamesOK, Untouched

\* A guess at n0 that was looked at, by a handler that either was not counted for
\* n0 and met no ban, or was trying a backup code.
LEMMA GuessWrongTracked ==
  ASSUME GuardInv, NEW h \in Handler, NEW n0 \in Account, GuessWrong(h, n0),
         \/ trying[h].pc = "check" /\ ~Banned(usernames[n0])
         \/ trying[h].pc = "backup" /\ trying[h].name = n0
  PROVE  TrackerInv' /\ trying' \in [Handler -> LoginState \cup {NoLogin}]
<1> DEFINE a0 == trying[h].addr
           q == [pc |-> "failed", addr |-> a0]
           d == [addr |-> a0, name |-> n0, at |-> clock,
                 nth |-> Cardinality({w \in wrong : w.addr = a0 /\ w.name = n0 /\ w.at = clock}) + 1]
<1>0. /\ Placed /\ a0 \in Addr /\ trying[h].pc \in {"check", "backup"} /\ clock \in Nat
      /\ UNCHANGED <<clock, attempts, limits, acts>>
      /\ Goto(h, q) /\ wrong' = wrong \cup {d}
      /\ usernames' = [usernames EXCEPT ![n0] = Failed(usernames[n0])]
  BY LoginFields DEF GuessWrong, Wrong, GuardInv, Placed, Stage
<1>1. /\ q \in LoginState /\ q.pc = "failed" /\ q.addr = a0
      /\ d.addr = a0 /\ d.name = n0 /\ d.at = clock
  BY <1>0, StageStates
<1> HIDE DEF q, d
<1>2. Moved(h, q) /\ trying' \in [Handler -> LoginState \cup {NoLogin}]
  BY <1>0, <1>1, LoginMoves DEF Placed, Goto
<1>3. ASSUME acts = 0, NEW a \in Addr
      PROVE  Guarded(attempts'[a], FromAddr(wrong', a), Failing(trying', a), Passed(trying', a), clock')
  <2>1. Guarded(attempts[a], FromAddr(wrong, a), Failing(trying, a), Passed(trying, a), clock)
    BY <1>3 DEF GuardInv, TrackerInv, AddrsOK
  <2>2. h \notin Failing(trying, a) /\ (h \in Passed(trying, a) <=> a = a0)
    BY <1>0 DEF Failing, Passed
  <2>3. Passed(trying', a) = Passed(trying, a)
    BY <1>1, <1>2, <2>2 DEF Moved
  <2>4. CASE a = a0
    <3>1. Failing(trying', a) = Failing(trying, a) \cup {h}
      BY <1>1, <1>2, <2>4 DEF Moved
    <3>2. FromAddr(wrong', a) = FromAddr(wrong, a) \cup {d}
      BY <1>0, <1>1, <2>4 DEF FromAddr
    <3>3. h \in Passed(trying, a)
      BY <2>2, <2>4
    <3>4. Guarded(attempts[a], FromAddr(wrong, a) \cup {d}, Failing(trying, a) \cup {h}, Passed(trying, a), clock)
      BY <1>0, <1>1, <2>1, <2>2, <3>3, GuardGuess
    <3> QED BY <1>0, <2>3, <3>1, <3>2, <3>4
  <2>5. CASE a # a0
    <3>1. Failing(trying', a) = Failing(trying, a)
      BY <1>1, <1>2, <2>2, <2>5 DEF Moved
    <3>2. FromAddr(wrong', a) = FromAddr(wrong, a)
      BY <1>0, <1>1, <2>5 DEF FromAddr
    <3> QED BY <1>0, <2>1, <2>3, <3>1, <3>2
  <2> QED BY <2>4, <2>5
<1>4. ASSUME acts = 0, NEW n \in Account
      PROVE  Guarded(usernames'[n], AtName(wrong', n), {}, Backing(trying', n), clock')
  <2> DEFINE B == Backing(trying, n)
  <2>1. Guarded(usernames[n], AtName(wrong, n), {}, B, clock) /\ Untouched
    BY <1>4 DEF GuardInv, TrackerInv, NamesOK
  <2>2. Backing(trying', n) = B \ {h}
    BY <1>1, <1>2 DEF Moved
  <2>3. CASE n = n0
    <3>1. AtName(wrong', n) = AtName(wrong, n) \cup {d}
      BY <1>0, <1>1, <2>3 DEF AtName
    <3>2. usernames'[n] = Failed(usernames[n])
      BY <1>0, <2>3 DEF Placed
    <3>3. Guarded(usernames[n], AtName(wrong, n), {}, B \cup {h}, clock)
      <4>1. CASE trying[h].pc = "check" /\ ~Banned(usernames[n0])
        <5>1. ~(usernames[n] # NoRecord /\ clock < usernames[n].until)
          BY <2>3, <4>1 DEF Banned
        <5> QED BY <1>0, <2>1, <5>1, GuardPasses
      <4>2. CASE trying[h].pc = "backup" /\ trying[h].name = n0
        <5>1. B \cup {h} = B
          BY <2>3, <4>2 DEF Backing
        <5> QED BY <2>1, <5>1
      <4> QED BY <4>1, <4>2
    <3>4. Guarded(usernames[n], AtName(wrong, n) \cup {d}, {} \cup {h}, B \cup {h}, clock)
      <4>1. h \in B \cup {h} /\ h \notin {}
        OBVIOUS
      <4> QED BY <1>0, <1>1, <3>3, <4>1, GuardGuess
    <3>5. Guarded(Failed(usernames[n]), AtName(wrong, n) \cup {d}, ({} \cup {h}) \ {h}, (B \cup {h}) \ {h}, clock)
      <4>1. h \in {} \cup {h}
        OBVIOUS
      <4> QED BY <1>0, <2>1, <3>4, <4>1, GuardRecords
    <3>6. ({} \cup {h}) \ {h} = {} /\ (B \cup {h}) \ {h} = B \ {h}
      OBVIOUS
    <3> QED BY <1>0, <2>2, <3>1, <3>2, <3>5, <3>6
  <2>4. CASE n # n0
    <3>1. AtName(wrong', n) = AtName(wrong, n)
      BY <1>0, <1>1, <2>4 DEF AtName
    <3>2. usernames'[n] = usernames[n]
      BY <1>0, <2>4 DEF Placed
    <3>3. h \notin B
      BY <1>0, <2>4 DEF Backing
    <3>4. Backing(trying', n) = B
      BY <2>2, <3>3
    <3> QED BY <1>0, <2>1, <3>1, <3>2, <3>4
  <2> QED BY <2>3, <2>4
<1> QED BY <1>0, <1>2, <1>3, <1>4 DEF GuardInv, TrackerInv, AddrsOK, NamesOK, Untouched

\* The steps of a check that record nothing.
LEMMA ProceedsTracked ==
  ASSUME GuardInv, NEW h \in Handler,
         \/ LoginUnknown(h) \/ LoginUndecided(h) \/ BackupRight(h)
         \/ \E n \in Account : LoginLocked(h, n) \/ LoginRight(h, n)
  PROVE  TrackerInv' /\ trying' \in [Handler -> LoginState \cup {NoLogin}]
<1>0. Placed
  BY DEF GuardInv
<1>1. CASE LoginUnknown(h) \/ \E n \in Account : LoginLocked(h, n)
  <2> DEFINE q == [pc |-> "failed", addr |-> trying[h].addr]
  <2>1. /\ trying[h].pc = "check" /\ Goto(h, q)
        /\ UNCHANGED <<clock, attempts, usernames, limits, acts, wrong>>
    BY <1>1 DEF LoginUnknown, LoginLocked, Proceeds, Stage
  <2>2. trying[h].addr \in Addr
    BY <1>0, <2>1, LoginFields
  <2>3. q \in LoginState /\ q.pc = "failed" /\ q.addr = trying[h].addr
    BY <2>2, StageStates
  <2> HIDE DEF q
  <2> QED BY <2>1, <2>3, LoginProceeds
<1>2. CASE LoginUndecided(h)
  <2>1. /\ trying[h].pc = "check" /\ Goto(h, NoLogin)
        /\ UNCHANGED <<clock, attempts, usernames, limits, acts, wrong>>
    BY <1>2 DEF LoginUndecided, Proceeds
  <2>2. NoLogin \in LoginState \cup {NoLogin} /\ NoLogin.pc = "idle"
    BY DEF NoLogin
  <2> QED BY <2>1, <2>2, LoginProceeds
<1>3. CASE BackupRight(h) \/ \E n \in Account : LoginRight(h, n)
  <2>1. PICK n \in Account :
          /\ trying[h].pc \in {"check", "backup"} /\ Goto(h, For(h, "success", n))
          /\ UNCHANGED <<clock, attempts, usernames, limits, acts, wrong>>
    <3>1. BackupRight(h) => trying[h].name \in Account
      BY <1>0, LoginFields DEF BackupRight
    <3> QED BY <1>3, <3>1 DEF BackupRight, LoginRight, Proceeds
  <2> DEFINE q == [pc |-> "success", addr |-> trying[h].addr, name |-> n]
  <2>2. trying[h].addr \in Addr
    BY <1>0, <2>1, LoginFields
  <2>3. q \in LoginState /\ q.pc = "success" /\ Goto(h, q)
    BY <2>1, <2>2, ForStates DEF For
  <2> HIDE DEF q
  <2> QED BY <2>1, <2>3, LoginProceeds
<1> QED BY <1>1, <1>2, <1>3

LEMMA AllowTracked ==
  ASSUME GuardInv, NEW h \in Handler, NEW a \in Addr, allow(h, a)
  PROVE  TrackerInv' /\ trying' \in [Handler -> LoginState \cup {NoLogin}]
<1>0. /\ Placed /\ trying[h].pc = "idle"
      /\ UNCHANGED <<clock, attempts, usernames, limits, acts, wrong>>
  BY DEF GuardInv, allow, NoLogin
<1>1. CASE Counted(a).count <= Limit
  <2> DEFINE q == [pc |-> "gate", addr |-> a]
  <2>1. Goto(h, q) /\ q \in LoginState /\ q.pc = "gate"
    BY <1>1, StageStates DEF allow
  <2> HIDE DEF q
  <2> QED BY <1>0, <2>1, LoginProceeds
<1>2. CASE ~(Counted(a).count <= Limit)
  <2>1. UNCHANGED <<trying>>
    BY <1>2 DEF allow
  <2> QED BY <1>0, <2>1 DEF GuardInv, Placed, TrackerInv, AddrsOK, NamesOK, Untouched
<1> QED BY <1>1, <1>2

LEMMA ForgetBucketTracked ==
  ASSUME GuardInv, NEW h \in Handler, ForgetBucket(h)
  PROVE  TrackerInv' /\ trying' \in [Handler -> LoginState \cup {NoLogin}]
<1> DEFINE q == [pc |-> "cleared", addr |-> trying[h].addr]
<1>1. /\ trying[h].pc = "welcome" /\ Goto(h, q) /\ Placed
      /\ UNCHANGED <<clock, attempts, usernames, limits, acts, wrong>>
  BY DEF ForgetBucket, Stage, GuardInv
<1>2. trying[h].addr \in Addr
  BY <1>1, LoginFields
<1>3. q \in LoginState /\ q.pc = "cleared"
  BY <1>2, StageStates
<1> HIDE DEF q
<1> QED BY <1>1, <1>3, LoginProceeds

LEMMA ClockTickTracked ==
  ASSUME GuardInv, ClockTick
  PROVE  TrackerInv'
<1>1. /\ clock \in Nat /\ clock' \in Nat /\ clock <= clock' /\ wrong' \subseteq wrong
      /\ UNCHANGED <<attempts, usernames, limits, trying, acts, wrong>>
  BY DEF ClockTick, GuardInv, Placed
<1>2. ASSUME acts = 0
      PROVE  AddrsOK(attempts', wrong', trying', clock') /\ NamesOK(usernames', wrong', trying', clock')
  BY <1>1, <1>2, TrackerWeakens
<1> QED BY <1>1, <1>2 DEF GuardInv, TrackerInv, Untouched

LEMMA FailedType ==
  ASSUME Placed, NEW rec \in Attempts \cup {NoRecord}
  PROVE  Failed(rec) \in Attempts
<1>1. /\ clock \in Nat /\ limits.most \in Nat \ {0} /\ limits.window \in Nat \ {0}
      /\ limits.ban \in Nat \ {0}
  BY DEF Placed
<1>2. CASE rec = NoRecord \/ clock - rec.first > limits.window
  <2>1. Failed(rec) = [count |-> 1, first |-> clock,
                       until |-> IF 1 >= limits.most THEN clock + limits.ban ELSE 0]
    BY <1>2 DEF Failed
  <2>2. (IF 1 >= limits.most THEN clock + limits.ban ELSE 0) \in Nat
    BY <1>1
  <2> QED BY <1>1, <2>1, <2>2 DEF Attempts
<1>3. CASE ~(rec = NoRecord \/ clock - rec.first > limits.window)
  <2>1. rec.count \in Nat \ {0} /\ rec.first \in Nat /\ rec.until \in Nat
    BY <1>3 DEF Attempts
  <2>2. Failed(rec) = [count |-> rec.count + 1, first |-> rec.first,
                       until |-> IF rec.count + 1 >= limits.most THEN clock + limits.ban ELSE rec.until]
    BY <1>3 DEF Failed
  <2>3. /\ rec.count + 1 \in Nat \ {0}
        /\ (IF rec.count + 1 >= limits.most THEN clock + limits.ban ELSE rec.until) \in Nat
    BY <1>1, <2>1
  <2> QED BY <2>1, <2>2, <2>3 DEF Attempts
<1> QED BY <1>2, <1>3

\* Steps that leave the limiter alone.
LEMMA BucketsStay ==
  ASSUME GuardInv, UNCHANGED <<clock, buckets, admitted>>
  PROVE  BucketsOK(buckets', admitted', clock')
  BY DEF GuardInv, BucketsOK

LEMMA CountedShape ==
  ASSUME Placed, NEW a \in Addr, Counted(a).count <= Limit + 1
  PROVE  /\ Counted(a) \in Bucket
         /\ buckets[a] = NoRecord \/ clock > buckets[a].resetAt =>
              Counted(a) = [count |-> 1, resetAt |-> clock + Period]
         /\ ~(buckets[a] = NoRecord \/ clock > buckets[a].resetAt) =>
              /\ Counted(a).count = buckets[a].count + 1 /\ Counted(a).resetAt = buckets[a].resetAt
<1>1. CASE buckets[a] = NoRecord \/ clock > buckets[a].resetAt
  <2>1. Counted(a) = [count |-> 1, resetAt |-> clock + Period]
    BY <1>1 DEF Counted, OpenBucket
  <2>2. clock + Period \in Nat /\ 1 \in 1 .. (Limit + 1)
    BY LimitConstants DEF Placed
  <2> QED BY <1>1, <2>1, <2>2 DEF Bucket
<1>2. CASE ~(buckets[a] = NoRecord \/ clock > buckets[a].resetAt)
  <2> DEFINE b == buckets[a]
  <2>1. b \in Bucket
    BY <1>2 DEF Placed
  <2>2. b.count \in Nat /\ b.count >= 1 /\ b.resetAt \in Nat /\ DOMAIN b = {"count", "resetAt"}
    BY <2>1, LimitConstants DEF Bucket
  <2>3. Counted(a) = [b EXCEPT !.count = b.count + 1]
    BY <1>2 DEF Counted
  <2>4. Counted(a).count = b.count + 1 /\ Counted(a).resetAt = b.resetAt
    BY <2>2, <2>3
  <2>5. Counted(a) = [count |-> b.count + 1, resetAt |-> b.resetAt]
    BY <2>1, <2>3 DEF Bucket
  <2>6. b.count + 1 \in 1 .. (Limit + 1)
    BY <2>2, <2>4, LimitConstants
  <2> QED BY <1>2, <2>2, <2>4, <2>5, <2>6 DEF Bucket
<1> QED BY <1>1, <1>2

LEMMA AllowBuckets ==
  ASSUME GuardInv, NEW h \in Handler, NEW a0 \in Addr, allow(h, a0)
  PROVE  /\ BucketsOK(buckets', admitted', clock')
         /\ buckets' \in [Addr -> Bucket \cup {NoRecord}]
<1> DEFINE c == Counted(a0)
           d == [addr |-> a0, at |-> clock,
                 nth |-> Cardinality({l \in admitted : l.addr = a0 /\ l.at = clock}) + 1]
<1>0. /\ Placed /\ clock \in Nat /\ clock' = clock /\ c.count <= Limit + 1
      /\ buckets' = [buckets EXCEPT ![a0] = c]
      /\ c.count <= Limit => admitted' = admitted \cup {d}
      /\ ~(c.count <= Limit) => admitted' = admitted
  BY DEF allow, Admit, GuardInv, Placed
<1>1. /\ c \in Bucket
      /\ buckets[a0] = NoRecord \/ clock > buckets[a0].resetAt =>
           c = [count |-> 1, resetAt |-> clock + Period]
      /\ ~(buckets[a0] = NoRecord \/ clock > buckets[a0].resetAt) =>
           c.count = buckets[a0].count + 1 /\ c.resetAt = buckets[a0].resetAt
      /\ d.addr = a0 /\ d.at = clock
  BY <1>0, CountedShape
<1> HIDE DEF c, d
<1>2. buckets' \in [Addr -> Bucket \cup {NoRecord}] /\ buckets'[a0] = c
      /\ \A a \in Addr : a # a0 => buckets'[a] = buckets[a]
  BY <1>0, <1>1 DEF Placed
<1>3. ASSUME NEW a \in Addr PROVE Bucketed(buckets'[a], FromAddr(admitted', a), clock)
  <2> DEFINE E == FromAddr(admitted, a)
  <2>1. Bucketed(buckets[a], E, clock)
    BY DEF GuardInv, BucketsOK
  <2>2. CASE a # a0
    <3>1. FromAddr(admitted', a) = E
      BY <1>0, <1>1, <2>2 DEF FromAddr
    <3> QED BY <1>2, <2>1, <2>2, <3>1
  <2>3. CASE a = a0 /\ (buckets[a] = NoRecord \/ clock > buckets[a].resetAt)
    <3>1. c = [count |-> 1, resetAt |-> clock + Period] /\ c.count <= Limit
      BY <1>1, <2>3, LimitConstants
    <3>2. FromAddr(admitted', a) = E \cup {d}
      BY <1>0, <1>1, <2>3, <3>1 DEF FromAddr
    <3>3. Bucketed(NoRecord, E, clock)
      BY <1>0, <2>1, <2>3, BucketSwept
    <3>4. Bucketed([count |-> 1, resetAt |-> clock + Period], E \cup {d}, clock)
      BY <1>0, <1>1, <3>3, BucketOpens
    <3> QED BY <1>2, <2>3, <3>1, <3>2, <3>4
  <2>4. CASE a = a0 /\ ~(buckets[a] = NoRecord \/ clock > buckets[a].resetAt)
    <3>1. c.count = buckets[a].count + 1 /\ c.resetAt = buckets[a].resetAt
      BY <1>1, <2>4
    <3>2. buckets[a].resetAt \in Nat
      BY <1>0, <2>1, <2>4, BucketTypes
    <3>3. clock <= buckets[a].resetAt /\ buckets[a] # NoRecord
      BY <1>0, <2>4, <3>2
    <3>4. /\ c.count <= Limit => Bucketed(c, E \cup {d}, clock)
          /\ Bucketed(c, E, clock)
      BY <1>0, <1>1, <2>1, <3>1, <3>3, BucketCounts
    <3>5. c.count <= Limit => FromAddr(admitted', a) = E \cup {d}
      BY <1>0, <1>1, <2>4 DEF FromAddr
    <3>6. ~(c.count <= Limit) => FromAddr(admitted', a) = E
      BY <1>0
    <3> QED BY <1>2, <2>4, <3>4, <3>5, <3>6
  <2> QED BY <2>2, <2>3, <2>4
<1> QED BY <1>0, <1>2, <1>3 DEF BucketsOK

LEMMA SweepBuckets ==
  ASSUME GuardInv, Sweep
  PROVE  /\ BucketsOK(buckets', admitted', clock')
         /\ buckets' \in [Addr -> Bucket \cup {NoRecord}]
<1>0. /\ clock \in Nat /\ UNCHANGED <<clock, admitted>> /\ Placed
      /\ buckets' = [a \in Addr |-> IF buckets[a] # NoRecord /\ clock > buckets[a].resetAt
                                       THEN NoRecord ELSE buckets[a]]
  BY DEF Sweep, GuardInv, Placed
<1>1. ASSUME NEW a \in Addr PROVE Bucketed(buckets'[a], FromAddr(admitted, a), clock)
  <2>1. Bucketed(buckets[a], FromAddr(admitted, a), clock)
    BY DEF GuardInv, BucketsOK
  <2>2. CASE buckets[a] # NoRecord /\ clock > buckets[a].resetAt
    <3>1. Bucketed(NoRecord, FromAddr(admitted, a), clock)
      BY <1>0, <2>1, <2>2, BucketSwept
    <3> QED BY <1>0, <2>2, <3>1
  <2>3. CASE ~(buckets[a] # NoRecord /\ clock > buckets[a].resetAt)
    BY <1>0, <2>1, <2>3
  <2> QED BY <2>2, <2>3
<1>2. buckets' \in [Addr -> Bucket \cup {NoRecord}]
  BY <1>0 DEF Placed
<1> QED BY <1>0, <1>1, <1>2 DEF BucketsOK

LEMMA ForgetBuckets ==
  ASSUME GuardInv, NEW h \in Handler, ForgetBucket(h)
  PROVE  /\ BucketsOK(buckets', admitted', clock')
         /\ buckets' \in [Addr -> Bucket \cup {NoRecord}]
<1> DEFINE a0 == trying[h].addr
<1>0. /\ Placed /\ a0 \in Addr /\ clock \in Nat /\ clock' = clock
      /\ buckets' = [buckets EXCEPT ![a0] = NoRecord]
      /\ admitted' = {l \in admitted : l.addr # a0}
  BY LoginFields DEF ForgetBucket, GuardInv, Placed
<1>1. ASSUME NEW a \in Addr PROVE Bucketed(buckets'[a], FromAddr(admitted', a), clock)
  <2>1. CASE a = a0
    <3>1. buckets'[a] = NoRecord /\ FromAddr(admitted', a) = {}
      BY <1>0, <2>1 DEF FromAddr, Placed
    <3> QED BY <1>0, <3>1, BucketForgets
  <2>2. CASE a # a0
    <3>1. buckets'[a] = buckets[a] /\ FromAddr(admitted', a) = FromAddr(admitted, a)
      BY <1>0, <2>2 DEF FromAddr, Placed
    <3> QED BY <3>1 DEF GuardInv, BucketsOK
  <2> QED BY <2>1, <2>2
<1>2. buckets' \in [Addr -> Bucket \cup {NoRecord}]
  BY <1>0 DEF Placed
<1> QED BY <1>0, <1>1, <1>2 DEF BucketsOK

LEMMA TickBuckets ==
  ASSUME GuardInv, ClockTick
  PROVE  BucketsOK(buckets', admitted', clock')
<1>1. clock \in Nat /\ clock' \in Nat /\ clock <= clock' /\ UNCHANGED <<buckets, admitted>>
  BY DEF ClockTick, GuardInv, Placed
<1>2. ASSUME NEW a \in Addr PROVE Bucketed(buckets[a], FromAddr(admitted, a), clock')
  <2>1. Bucketed(buckets[a], FromAddr(admitted, a), clock)
    BY DEF GuardInv, BucketsOK
  <2> QED BY <1>1, <2>1, BucketTicks
<1> QED BY <1>1, <1>2 DEF BucketsOK

\* The logs are finite sets of events.
LEMMA LogsGrow ==
  ASSUME GuardInv, NEW a \in Addr
  PROVE  /\ Admit(a) => admitted' \subseteq [addr : Addr, at : Nat, nth : Nat] /\ IsFiniteSet(admitted')
         /\ \A n \in Account : Wrong(a, n) =>
               /\ wrong' \subseteq [addr : Addr, name : Account, at : Nat, nth : Nat]
               /\ IsFiniteSet(wrong')
<1>0. clock \in Nat /\ Logged
  BY DEF GuardInv, Placed
<1>1. ASSUME Admit(a)
      PROVE  admitted' \subseteq [addr : Addr, at : Nat, nth : Nat] /\ IsFiniteSet(admitted')
  <2> DEFINE like == {l \in admitted : l.addr = a /\ l.at = clock}
  <2>1. like \in SUBSET admitted /\ IsFiniteSet(admitted)
    BY <1>0 DEF Logged
  <2>2. Cardinality(like) \in Nat
    BY <2>1, FS_Subset, FS_CardinalityType
  <2> HIDE DEF like
  <2> DEFINE d == [addr |-> a, at |-> clock, nth |-> Cardinality(like) + 1]
  <2>3. admitted' = admitted \cup {d}
    BY <1>1 DEF Admit, like
  <2>4. d \in [addr : Addr, at : Nat, nth : Nat]
    BY <1>0, <2>2
  <2> HIDE DEF d
  <2> QED BY <1>0, <2>1, <2>3, <2>4, FS_AddElement DEF Logged
<1>2. ASSUME NEW n \in Account, Wrong(a, n)
      PROVE  /\ wrong' \subseteq [addr : Addr, name : Account, at : Nat, nth : Nat]
             /\ IsFiniteSet(wrong')
  <2> DEFINE like == {w \in wrong : w.addr = a /\ w.name = n /\ w.at = clock}
  <2>1. like \in SUBSET wrong /\ IsFiniteSet(wrong)
    BY <1>0 DEF Logged
  <2>2. Cardinality(like) \in Nat
    BY <2>1, FS_Subset, FS_CardinalityType
  <2> HIDE DEF like
  <2> DEFINE d == [addr |-> a, name |-> n, at |-> clock, nth |-> Cardinality(like) + 1]
  <2>3. wrong' = wrong \cup {d}
    BY <1>2 DEF Wrong, like
  <2>4. d \in [addr : Addr, name : Account, at : Nat, nth : Nat]
    BY <1>0, <2>2
  <2> HIDE DEF d
  <2> QED BY <1>0, <2>1, <2>3, <2>4, FS_AddElement DEF Logged
<1> QED BY <1>1, <1>2

\* Steps of the check that move a login, and record nothing or a name only.
LEMMA QuietSteps ==
  ASSUME GuardInv, UNCHANGED <<clock, buckets, attempts, limits, acts, admitted>>,
         usernames' \in [Account -> Attempts \cup {NoRecord}],
         wrong' \subseteq [addr : Addr, name : Account, at : Nat, nth : Nat], IsFiniteSet(wrong'),
         TrackerInv', trying' \in [Handler -> LoginState \cup {NoLogin}]
  PROVE  GuardInv'
<1>1. Placed' /\ Logged'
  BY DEF GuardInv, Placed, Logged
<1>2. BucketsOK(buckets', admitted', clock')
  BY BucketsStay
<1> QED BY <1>1, <1>2 DEF GuardInv

LEMMA CheckStepsKeep ==
  ASSUME GuardInv, NEW h \in Handler, CheckSteps(h)
  PROVE  GuardInv'
<1>0. /\ Placed /\ Logged /\ IsFiniteSet(wrong) /\ IsFiniteSet(admitted)
      /\ usernames \in [Account -> Attempts \cup {NoRecord}]
      /\ attempts \in [Addr -> Attempts \cup {NoRecord}]
      /\ wrong \subseteq [addr : Addr, name : Account, at : Nat, nth : Nat]
  BY DEF GuardInv, Placed, Logged
<1>1. ASSUME IsBanned(h) PROVE GuardInv'
  <2>1. TrackerInv' /\ trying' \in [Handler -> LoginState \cup {NoLogin}]
    BY <1>1, IsBannedTracked
  <2>2. UNCHANGED <<clock, buckets, attempts, usernames, limits, acts, admitted, wrong>>
    BY <1>1 DEF IsBanned
  <2> QED BY <1>0, <2>1, <2>2, QuietSteps
<1>2. ASSUME \/ LoginUnknown(h) \/ LoginUndecided(h) \/ BackupRight(h)
             \/ \E n \in Account : LoginLocked(h, n) \/ LoginRight(h, n)
      PROVE GuardInv'
  <2>1. TrackerInv' /\ trying' \in [Handler -> LoginState \cup {NoLogin}]
    BY <1>2, ProceedsTracked
  <2>2. UNCHANGED <<clock, buckets, attempts, usernames, limits, acts, admitted, wrong>>
    BY <1>2 DEF LoginUnknown, LoginUndecided, BackupRight, LoginLocked, LoginRight, Proceeds
  <2> QED BY <1>0, <2>1, <2>2, QuietSteps
<1>3. ASSUME NEW n \in Account, LoginTryBackup(h, n) PROVE GuardInv'
  <2>1. TrackerInv' /\ trying' \in [Handler -> LoginState \cup {NoLogin}]
    BY <1>3, LoginTryBackupTracked
  <2>2. UNCHANGED <<clock, buckets, attempts, usernames, limits, acts, admitted, wrong>>
    BY <1>3 DEF LoginTryBackup, Proceeds
  <2> QED BY <1>0, <2>1, <2>2, QuietSteps
<1>4. ASSUME NEW n \in Account, GuessWrong(h, n),
             \/ trying[h].pc = "check" /\ ~Banned(usernames[n])
             \/ trying[h].pc = "backup" /\ trying[h].name = n
      PROVE  GuardInv'
  <2>1. TrackerInv' /\ trying' \in [Handler -> LoginState \cup {NoLogin}]
    BY <1>4, GuessWrongTracked
  <2>2. /\ UNCHANGED <<clock, buckets, attempts, limits, acts, admitted>>
        /\ usernames' = [usernames EXCEPT ![n] = Failed(usernames[n])]
        /\ Wrong(trying[h].addr, n)
    BY <1>4 DEF GuessWrong
  <2>3. trying[h].addr \in Addr
    BY <1>0, <1>4, LoginFields
  <2>4. /\ wrong' \subseteq [addr : Addr, name : Account, at : Nat, nth : Nat]
        /\ IsFiniteSet(wrong')
    BY <2>2, <2>3, LogsGrow
  <2>5. Failed(usernames[n]) \in Attempts
    BY <1>0, FailedType
  <2>6. usernames' \in [Account -> Attempts \cup {NoRecord}]
    BY <1>0, <2>2, <2>5
  <2> QED BY <2>1, <2>2, <2>4, <2>6, QuietSteps
<1>5. ASSUME NEW n \in Account, LoginWrong(h, n) PROVE GuardInv'
  BY <1>4, <1>5 DEF LoginWrong
<1>6. ASSUME BackupWrong(h) PROVE GuardInv'
  <2>1. trying[h].name \in Account /\ trying[h].pc = "backup" /\ GuessWrong(h, trying[h].name)
    BY <1>0, <1>6, LoginFields DEF BackupWrong
  <2> QED BY <1>4, <2>1
<1>7. ASSUME RecordUsernameSuccess(h) PROVE GuardInv'
  <2>1. TrackerInv' /\ trying' \in [Handler -> LoginState \cup {NoLogin}]
    BY <1>7, RecordUsernameSuccessTracked
  <2>2. /\ UNCHANGED <<clock, buckets, attempts, limits, acts, admitted>>
        /\ usernames' = [usernames EXCEPT ![trying[h].name] = NoRecord]
        /\ wrong' \in SUBSET wrong
    BY <1>7 DEF RecordUsernameSuccess
  <2>3. usernames' \in [Account -> Attempts \cup {NoRecord}]
    BY <1>0, <2>2
  <2>4. IsFiniteSet(wrong') /\ wrong' \subseteq [addr : Addr, name : Account, at : Nat, nth : Nat]
    BY <1>0, <2>2, FS_Subset
  <2> QED BY <2>1, <2>2, <2>3, <2>4, QuietSteps
<1>8. ASSUME RecordFailure(h) PROVE GuardInv'
  <2>1. TrackerInv' /\ trying' \in [Handler -> LoginState \cup {NoLogin}]
    BY <1>8, RecordFailureTracked
  <2>2. /\ UNCHANGED <<clock, buckets, usernames, limits, acts, admitted, wrong>>
        /\ attempts' = [attempts EXCEPT ![trying[h].addr] = Failed(attempts[trying[h].addr])]
    BY <1>8 DEF RecordFailure
  <2>3. trying[h].addr \in Addr
    BY <1>0, <1>8, LoginFields DEF RecordFailure
  <2>4. Failed(attempts[trying[h].addr]) \in Attempts
    BY <1>0, <2>3, FailedType
  <2>5. attempts' \in [Addr -> Attempts \cup {NoRecord}]
    BY <1>0, <2>2, <2>4
  <2>6. Placed' /\ Logged'
    BY <1>0, <2>1, <2>2, <2>5 DEF Placed, Logged
  <2>7. BucketsOK(buckets', admitted', clock')
    BY <2>2, BucketsStay
  <2> QED BY <2>1, <2>6, <2>7 DEF GuardInv
<1>9. ASSUME RecordSuccess(h) PROVE GuardInv'
  <2>1. TrackerInv' /\ trying' \in [Handler -> LoginState \cup {NoLogin}]
    BY <1>9, RecordSuccessTracked
  <2>2. /\ UNCHANGED <<clock, buckets, usernames, limits, acts, admitted>>
        /\ attempts' = [attempts EXCEPT ![trying[h].addr] = NoRecord]
        /\ wrong' \in SUBSET wrong
    BY <1>9 DEF RecordSuccess
  <2>3. attempts' \in [Addr -> Attempts \cup {NoRecord}]
    BY <1>0, <2>2
  <2>4. IsFiniteSet(wrong') /\ wrong' \subseteq [addr : Addr, name : Account, at : Nat, nth : Nat]
    BY <1>0, <2>2, FS_Subset
  <2>5. Placed' /\ Logged'
    BY <1>0, <2>1, <2>2, <2>3, <2>4 DEF Placed, Logged
  <2>6. BucketsOK(buckets', admitted', clock')
    BY <2>2, BucketsStay
  <2> QED BY <2>1, <2>5, <2>6 DEF GuardInv
<1>10. ASSUME ForgetBucket(h) PROVE GuardInv'
  <2>1. TrackerInv' /\ trying' \in [Handler -> LoginState \cup {NoLogin}]
    BY <1>10, ForgetBucketTracked
  <2>2. BucketsOK(buckets', admitted', clock') /\ buckets' \in [Addr -> Bucket \cup {NoRecord}]
    BY <1>10, ForgetBuckets
  <2>3. UNCHANGED <<clock, attempts, usernames, limits, acts, wrong>> /\ admitted' \in SUBSET admitted
    BY <1>10 DEF ForgetBucket
  <2>4. IsFiniteSet(admitted')
    BY <1>0, <2>3, FS_Subset
  <2>5. Placed' /\ Logged'
    BY <1>0, <2>1, <2>2, <2>3, <2>4 DEF Placed, Logged
  <2> QED BY <2>1, <2>2, <2>5 DEF GuardInv
<1> QED BY <1>1, <1>2, <1>3, <1>5, <1>6, <1>7, <1>8, <1>9, <1>10 DEF CheckSteps

LEMMA AllowKeeps ==
  ASSUME GuardInv, NEW h \in Handler, NEW a \in Addr, allow(h, a)
  PROVE  GuardInv'
<1>1. TrackerInv' /\ trying' \in [Handler -> LoginState \cup {NoLogin}]
  BY AllowTracked
<1>2. BucketsOK(buckets', admitted', clock') /\ buckets' \in [Addr -> Bucket \cup {NoRecord}]
  BY AllowBuckets
<1>3. UNCHANGED <<clock, attempts, usernames, limits, acts, wrong>> /\ (Admit(a) \/ admitted' = admitted)
  BY DEF allow
<1>4. admitted' \subseteq [addr : Addr, at : Nat, nth : Nat] /\ IsFiniteSet(admitted')
  BY <1>3, LogsGrow DEF GuardInv, Logged
<1>5. Placed' /\ Logged'
  BY <1>1, <1>2, <1>3, <1>4 DEF GuardInv, Placed, Logged
<1> QED BY <1>1, <1>2, <1>5 DEF GuardInv

\* The acts of an administrator end the promise about guesses.
LEMMA AdminKeeps ==
  ASSUME GuardInv,
         \/ \E a \in Addr : bruteForceUnbanHandler(a)
         \/ \E new \in Thresholds : bruteForceThresholdsHandler(new)
  PROVE  GuardInv'
<1>1. /\ acts' = acts + 1 /\ acts \in Nat
      /\ UNCHANGED <<clock, buckets, usernames, trying, admitted, wrong>>
  BY DEF bruteForceUnbanHandler, bruteForceThresholdsHandler, UnbanIP, SetThresholds, GuardInv, Placed
<1>2. TrackerInv'
  BY <1>1 DEF TrackerInv
<1>3. attempts' \in [Addr -> Attempts \cup {NoRecord}]
  BY DEF bruteForceUnbanHandler, bruteForceThresholdsHandler, UnbanIP, SetThresholds, GuardInv, Placed
<1>4. limits' \in [most : Nat \ {0}, window : Nat \ {0}, ban : Nat \ {0}]
  <2>1. CASE \E a \in Addr : bruteForceUnbanHandler(a)
    BY <2>1 DEF bruteForceUnbanHandler, UnbanIP, GuardInv, Placed
  <2>2. CASE \E new \in Thresholds : bruteForceThresholdsHandler(new)
    <3>1. PICK new \in Thresholds :
            limits' = [most |-> Positive(new.most, limits.most),
                       window |-> Positive(new.window, limits.window),
                       ban |-> Positive(new.ban, limits.ban)]
      BY <2>2 DEF bruteForceThresholdsHandler, SetThresholds
    <3>2. new.most \in Int /\ new.window \in Int /\ new.ban \in Int
      BY GuardAssumption
    <3>3. limits.most \in Nat \ {0} /\ limits.window \in Nat \ {0} /\ limits.ban \in Nat \ {0}
      BY DEF GuardInv, Placed
    <3>4. \A x \in Int, y \in Nat \ {0} : Positive(x, y) \in Nat \ {0}
      BY DEF Positive
    <3> QED BY <3>1, <3>2, <3>3, <3>4
  <2> QED BY <2>1, <2>2
<1>5. Placed' /\ Logged'
  BY <1>1, <1>3, <1>4 DEF GuardInv, Placed, Logged
<1>6. BucketsOK(buckets', admitted', clock')
  BY <1>1, BucketsStay
<1> QED BY <1>2, <1>5, <1>6 DEF GuardInv

LEMMA GuardStep == GuardInv /\ [GuardNext]_guardVars => GuardInv'
<1> SUFFICES ASSUME GuardInv, [GuardNext]_guardVars PROVE GuardInv'
  OBVIOUS
<1>1. CASE UNCHANGED guardVars
  BY <1>1 DEF guardVars, GuardInv, Placed, Logged, TrackerInv, AddrsOK, NamesOK, BucketsOK, Untouched
<1>2. CASE \E h \in Handler : CheckSteps(h)
  BY <1>2, CheckStepsKeep
<1>3. CASE \E h \in Handler, a \in Addr : allow(h, a)
  BY <1>3, AllowKeeps
<1>4. CASE \/ \E a \in Addr : bruteForceUnbanHandler(a)
           \/ \E new \in Thresholds : bruteForceThresholdsHandler(new)
  BY <1>4, AdminKeeps
<1>5. CASE Sweep
  <2>1. BucketsOK(buckets', admitted', clock') /\ buckets' \in [Addr -> Bucket \cup {NoRecord}]
    BY <1>5, SweepBuckets
  <2>2. UNCHANGED <<clock, attempts, usernames, limits, trying, acts, admitted, wrong>>
    BY <1>5 DEF Sweep
  <2> QED BY <2>1, <2>2 DEF GuardInv, Placed, Logged, TrackerInv, AddrsOK, NamesOK, Untouched
<1>6. CASE ClockTick
  <2>1. TrackerInv' /\ BucketsOK(buckets', admitted', clock')
    BY <1>6, ClockTickTracked, TickBuckets
  <2>2. /\ UNCHANGED <<buckets, attempts, usernames, limits, trying, acts, admitted, wrong>>
        /\ clock' \in Nat
    BY <1>6 DEF ClockTick, GuardInv, Placed
  <2> QED BY <2>1, <2>2 DEF GuardInv, Placed, Logged
<1> QED BY <1>1, <1>2, <1>3, <1>4, <1>5, <1>6 DEF GuardNext

LEMMA GuardStarts == GuardInit => GuardInv
<1> SUFFICES ASSUME GuardInit PROVE GuardInv
  OBVIOUS
<1>1. \A a : FromAddr({}, a) = {} /\ AtName({}, a) = {}
  BY DEF FromAddr, AtName
<1>2. limits \in [most : Nat \ {0}, window : Nat \ {0}, ban : Nat \ {0}] /\ Untouched
  BY GuardAssumption DEF GuardInit, Untouched
<1>3. Placed /\ Logged
  BY <1>2, FS_EmptySet DEF GuardInit, Placed, Logged
<1>4. ASSUME NEW a \in Addr PROVE Bucketed(buckets[a], FromAddr(admitted, a), clock)
  BY <1>1, BucketForgets DEF GuardInit
<1>5. ASSUME NEW a \in Addr
      PROVE  Guarded(attempts[a], FromAddr(wrong, a), Failing(trying, a), Passed(trying, a), clock)
  <2>1. attempts[a] = NoRecord /\ FromAddr(wrong, a) = {} /\ clock = 0
    BY <1>1 DEF GuardInit
  <2>2. Guarded(NoRecord, {}, Failing(trying, a), Passed(trying, a), 0)
    BY GuardForgets, GuardSets
  <2> QED BY <2>1, <2>2
<1>6. ASSUME NEW n \in Account
      PROVE  Guarded(usernames[n], AtName(wrong, n), {}, Backing(trying, n), clock)
  <2>1. usernames[n] = NoRecord /\ AtName(wrong, n) = {} /\ clock = 0
    BY <1>1 DEF GuardInit
  <2>2. Guarded(NoRecord, {}, {}, Backing(trying, n), 0)
    BY GuardForgets, GuardSets
  <2> QED BY <2>1, <2>2
<1> QED BY <1>2, <1>3, <1>4, <1>5, <1>6 DEF GuardInv, TrackerInv, AddrsOK, NamesOK, BucketsOK

LEMMA GuardLimits == GuardInv => GuardTypeOK /\ GuessesLimited
<1> SUFFICES ASSUME GuardInv PROVE GuardTypeOK /\ GuessesLimited
  OBVIOUS
<1>1. GuardTypeOK
  BY DEF GuardInv, Placed, Logged, GuardTypeOK
<1>2. 0 .. MaxTicks \subseteq Nat
  BY GuardAssumption
<1>3. ASSUME acts = 0, NEW n \in Account, NEW t \in 0 .. MaxTicks
      PROVE  Within({w \in wrong : w.name = n}, t, Window) <= Burst
  <2>1. Spaced(AtName(wrong, n), Window, Burst)
    BY <1>3 DEF GuardInv, TrackerInv, NamesOK, Guarded
  <2> QED BY <1>2, <2>1 DEF Spaced, AtName
<1>4. ASSUME acts = 0, NEW a \in Addr, NEW t \in 0 .. MaxTicks
      PROVE  Within({w \in wrong : w.addr = a}, t, Window) <= Burst
  <2>1. Spaced(FromAddr(wrong, a), Window, Burst)
    BY <1>4 DEF GuardInv, TrackerInv, AddrsOK, Guarded
  <2> QED BY <1>2, <2>1 DEF Spaced, FromAddr
<1>5. ASSUME NEW a \in Addr, NEW t \in 0 .. MaxTicks
      PROVE  Within({l \in admitted : l.addr = a}, t, Period) <= 2 * Limit - 1
  <2>1. Spaced(FromAddr(admitted, a), Period, 2 * Limit - 1)
    BY DEF GuardInv, BucketsOK, Bucketed
  <2> QED BY <1>2, <2>1 DEF Spaced, FromAddr
<1> QED BY <1>1, <1>3, <1>4, <1>5 DEF GuessesLimited, NameLockout, AddressLockout, LimiterBurst

\* However many logins overlap, and however late their failures are recorded, no
\* more than Burst wrong guesses at one account, or from one address, are looked at
\* within a window, and no more than two full buckets of requests get through
\* within a period (BruteForceTracker and loginRateLimiter).
THEOREM GuessesCorrect == GuardSpec => [](GuardTypeOK /\ GuessesLimited)
<1>1. GuardSpec => []GuardInv
  BY GuardStarts, GuardStep, PTL DEF GuardSpec
<1> QED BY <1>1, GuardLimits, PTL
=============================================================================
