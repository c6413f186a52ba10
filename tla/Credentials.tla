---------------------------- MODULE Credentials ----------------------------
(***************************************************************************)
(* What an account proves itself with, behind the handlers of              *)
(* internal/api/router.go: passkeys (internal/auth/webauthn.go), the TOTP  *)
(* secret (totp.go and userstore.go), backup codes and the password with   *)
(* its policy (policy.go).                                                 *)
(*                                                                         *)
(* The user store changes a record under its lock, but the passkey manager *)
(* takes a copy (GetUser), works on it and puts the whole copy back        *)
(* (UpdateUser): what was changed in between is undone.  The slice in the  *)
(* copy is still the array of the store, which DeleteCredential compacts   *)
(* in place.  Passwords are abstracted to length and classes of characters,*)
(* a TOTP code to its secret and the 30-second step it was made for.       *)
(***************************************************************************)
EXTENDS Integers, Sequences, FiniteSets, SequencesExt

CONSTANTS
    Name,         \* user names
    Key,          \* the passkeys an authenticator makes, each once
    Secret,       \* what generateTOTPSecret draws, each once
    Ceremony,     \* the session identifiers genRandomString draws, each once
    Client,       \* requests under way at the same time
    Password,     \* the passwords people choose: [len, has]
    Policy,       \* the policies an administrator may ask for: [min, require, codes]
    MaxCeremonies, Trimmed, \* limits of cleanupSessions (100, 51)
    MaxStep,      \* bound: the 30-second steps the clock counts
    MaxChanges    \* bound: changes of accounts

VARIABLES
    account,    \* account[n]: the record of n, or NoUser
    ceremonies, \* the pending ceremonies, by identifier
    flight,     \* flight[c]: where a request of the passkey manager is
    policy, policyFile,
    step,       \* time.Now().Unix() / 30
    \* History, read by guards of fresh values and by properties:
    drawn,      \* the ceremonies, keys and secrets that were given out
    changes,    \* how many changes accounts had
    wanted,     \* wanted[n]: the number of the last edit of n, -1 for "deleted"
    raced,      \* the accounts that were edited between GetUser and UpdateUser
    proved,     \* the secrets that a code was given for
    answers     \* answers[i]: how many requests finished ceremony i

credVars == <<account, ceremonies, flight, policy, policyFile, step, drawn, changes,
              wanted, raced, proved, answers>>

NoUser == [edit |-> -1]
NoSecret == "none"
User(e, pw) == [edit |-> e, pass |-> pw, secret |-> NoSecret, totp |-> FALSE, codes |-> 0,
                keys |-> <<>>, array |-> e]
Has(n) == account[n] # NoUser
Ready == [pc |-> "idle"]
DefaultPolicy == [min |-> 12, require |-> {"upper", "lower", "digit"}, codes |-> 10]

\* An edit under the lock of the store.  The save and its failure are UserStore's.
Change(n, record) ==
    /\ changes < MaxChanges
    /\ changes' = changes + 1
    /\ account' = [account EXCEPT ![n] = [record EXCEPT !.edit = changes + 1]]
    /\ wanted' = [wanted EXCEPT ![n] = changes + 1]
    /\ raced' = IF \E c \in Client : flight[c].pc \in {"update", "compact"} /\ flight[c].name = n
                  THEN raced \cup {n} ELSE raced
    /\ UNCHANGED <<ceremonies, flight, step, answers>>

-----------------------------------------------------------------------------
(* Password and backup codes.                                              *)

Validate(pw) == pw.len >= policy.min /\ policy.require \subseteq pw.has

\* The account is local and the old password is right.
ChangePassword(n, pw) ==
    /\ Has(n)
    /\ Change(n, [account[n] EXCEPT !.pass = pw])
    /\ UNCHANGED <<policy, policyFile, drawn, proved>>

changePasswordHandler(n, pw) == Validate(pw) /\ ChangePassword(n, pw)

\* How many codes there are; zero asks for the default.
GenerateBackupCodes == IF policy.codes <= 0 THEN 10 ELSE policy.codes

generateBackupCodesHandler(n) ==
    /\ Has(n)
    /\ Change(n, [account[n] EXCEPT !.codes = GenerateBackupCodes])
    /\ UNCHANGED <<policy, policyFile, drawn, proved>>

\* The policy is in force even when the file could not be written.
SetPolicy(p) ==
    /\ p.min >= 4 /\ p.codes \in 0..50
    /\ policy' = p
    /\ policyFile' \in {p, policyFile}
    /\ UNCHANGED <<account, ceremonies, flight, step, drawn, changes, wanted, raced, proved, answers>>

setPasswordPolicyHandler(p) == SetPolicy(p)

\* Load at the start of the daemon; pending ceremonies are gone.  (A policy file
\* that cannot be parsed leaves the default.)
NewPasswordPolicy ==
    /\ policy' = policyFile
    /\ ceremonies' = <<>>
    /\ flight' = [c \in Client |-> Ready]
    /\ UNCHANGED <<account, policyFile, step, drawn, changes, wanted, raced, proved, answers>>

-----------------------------------------------------------------------------
(* TOTP.                                                                   *)

\* A code of the step before, this one or the next.
validateTOTP(secret, code) == code.secret = secret /\ code.step \in (step - 1)..(step + 1)

SlipEnrollTOTP(n, s) ==
    /\ Has(n) /\ s \notin drawn
    /\ drawn' = drawn \cup {s}
    /\ Change(n, [account[n] EXCEPT !.secret = s])
    /\ UNCHANGED <<policy, policyFile, proved>>

\* A second enrolment replaces the secret of one that was not confirmed.
EnrollTOTP(n, s) ==
    /\ Has(n) /\ ~account[n].totp /\ s \notin drawn
    /\ drawn' = drawn \cup {s}
    /\ Change(n, [account[n] EXCEPT !.secret = s])
    /\ UNCHANGED <<policy, policyFile, proved>>

ConfirmTOTP(n, code) ==
    /\ Has(n) /\ account[n].secret # NoSecret
    /\ validateTOTP(account[n].secret, code)
    /\ Change(n, [account[n] EXCEPT !.totp = TRUE])
    /\ proved' = proved \cup {code.secret}
    /\ UNCHANGED <<policy, policyFile, drawn>>

DisableTOTP(n, code) ==
    /\ Has(n) /\ account[n].totp
    /\ validateTOTP(account[n].secret, code)
    /\ Change(n, [account[n] EXCEPT !.totp = FALSE, !.secret = NoSecret])
    /\ UNCHANGED <<policy, policyFile, drawn, proved>>

totpEnrollHandler(n, s) == EnrollTOTP(n, s)
totpConfirmHandler(n, code) == ConfirmTOTP(n, code)
totpDisableHandler(n, code) == DisableTOTP(n, code)

-----------------------------------------------------------------------------
(* Passkeys.                                                               *)

\* Too many pending ceremonies: any 51 of them are dropped.
cleanupSessions(all) ==
    IF Cardinality(DOMAIN all) <= MaxCeremonies THEN {all}
    ELSE {[i \in DOMAIN all \ gone |-> all[i]] :
             gone \in {S \in SUBSET DOMAIN all : Cardinality(S) = Trimmed}}

Begin(n, i) ==
    /\ i \notin drawn
    /\ drawn' = drawn \cup {i}
    /\ ceremonies' \in cleanupSessions(
          [j \in DOMAIN ceremonies \cup {i} |-> IF j = i THEN n ELSE ceremonies[j]])
    /\ UNCHANGED <<account, flight, policy, policyFile, step, changes, wanted, raced, proved, answers>>

BeginRegistration(n, i) == Has(n) /\ Begin(n, i)
BeginLogin(n, i) == Has(n) /\ account[n].keys # <<>> /\ Begin(n, i)
waBeginRegisterHandler(n, i) == BeginRegistration(n, i)
waBeginLoginHandler(n, i) == BeginLogin(n, i)

SlipFinish(c, op, n, i) ==
    /\ flight[c] = Ready /\ i \in DOMAIN ceremonies
    /\ flight' = [flight EXCEPT ![c] = [pc |-> "get", op |-> op, name |-> n, id |-> i, by |-> ceremonies[i]]]
    /\ UNCHANGED <<account, ceremonies, policy, policyFile, step, drawn, changes, wanted, raced, proved, answers>>

\* FinishRegistration and FinishLogin take the ceremony out of the map, whoever
\* asks and whatever becomes of it.
Finish(c, op, n, i) ==
    /\ flight[c] = Ready /\ i \in DOMAIN ceremonies
    /\ ceremonies' = [j \in DOMAIN ceremonies \ {i} |-> ceremonies[j]]
    /\ flight' = [flight EXCEPT ![c] = [pc |-> "get", op |-> op, name |-> n, id |-> i, by |-> ceremonies[i]]]
    /\ UNCHANGED <<account, policy, policyFile, step, drawn, changes, wanted, raced, proved, answers>>

waFinishRegisterHandler(c, n, i) == Finish(c, "register", n, i)

\* The name is the one in the query, which nobody has checked.
waFinishLoginHandler(c, n, i) == Finish(c, "login", n, i)

\* The check of the library: the ceremony was begun for this account.
Verified(f) == f.by = f.name

\* FinishRegistration: the new key is appended to the copy.
FinishRegistration(c, k) ==
    LET f == flight[c] u == account[f.name] IN
    /\ f.pc = "get" /\ f.op = "register" /\ Has(f.name) /\ Verified(f) /\ k \notin drawn
    /\ drawn' = drawn \cup {k}
    /\ answers' = [answers EXCEPT ![f.id] = @ + 1]
    \* append may or may not leave the array of the store
    /\ \E a \in {u.array, -1} :
          flight' = [flight EXCEPT ![c] =
             [pc |-> "update", name |-> f.name, user |-> [u EXCEPT !.keys = Append(@, k), !.array = a]]]
    /\ UNCHANGED <<account, ceremonies, policy, policyFile, step, changes, wanted, raced, proved>>

\* FinishLogin: the key is one of the copy; only its counter changes.
FinishLogin(c) ==
    LET f == flight[c] u == account[f.name] IN
    /\ f.pc = "get" /\ f.op = "login" /\ Has(f.name) /\ Verified(f) /\ u.keys # <<>>
    /\ answers' = [answers EXCEPT ![f.id] = @ + 1]
    /\ flight' = [flight EXCEPT ![c] = [pc |-> "update", name |-> f.name, user |-> u]]
    /\ UNCHANGED <<account, ceremonies, policy, policyFile, step, drawn, changes, wanted, raced, proved>>

\* No account, another account's ceremony, or an answer the library refuses.
FinishFails(c) ==
    /\ flight[c].pc = "get"
    /\ flight' = [flight EXCEPT ![c] = Ready]
    /\ UNCHANGED <<account, ceremonies, policy, policyFile, step, drawn, changes, wanted, raced, proved, answers>>

\* DeleteCredential: GetUser, for a key that is in the copy ...
DeleteCredential(c, n, k) ==
    /\ flight[c] = Ready /\ Has(n) /\ k \in ToSet(account[n].keys)
    /\ flight' = [flight EXCEPT ![c] = [pc |-> "compact", name |-> n, user |-> account[n], key |-> k]]
    /\ UNCHANGED <<account, ceremonies, policy, policyFile, step, drawn, changes, wanted, raced, proved, answers>>

waDeleteCredHandler(c, n, k) == DeleteCredential(c, n, k)

\* ... and the compaction, in the array that the record may still have.
Compact(c) ==
    LET f    == flight[c]
        kept == SelectSeq(f.user.keys, LAMBDA k : k # f.key)
        old  == account[f.name].keys
    IN  /\ f.pc = "compact"
        /\ account' = IF Has(f.name) /\ account[f.name].array = f.user.array
                        THEN [account EXCEPT ![f.name].keys =
                                [j \in DOMAIN old |-> IF j <= Len(kept) THEN kept[j] ELSE old[j]]]
                        ELSE account
        /\ flight' = [flight EXCEPT ![c] = [pc |-> "update", name |-> f.name, user |-> [f.user EXCEPT !.keys = kept]]]
        /\ UNCHANGED <<ceremonies, policy, policyFile, step, drawn, changes, wanted, raced, proved, answers>>

SlipUpdateUser(c) ==
    LET f == flight[c] IN
    /\ f.pc = "update"
    /\ account' = [account EXCEPT ![f.name] = f.user]
    /\ flight' = [flight EXCEPT ![c] = Ready]
    /\ UNCHANGED <<ceremonies, policy, policyFile, step, drawn, changes, wanted, raced, proved, answers>>

\* The whole copy replaces the record, if the name still has one.
UpdateUser(c) ==
    LET f == flight[c] IN
    /\ f.pc = "update"
    /\ account' = IF Has(f.name) THEN [account EXCEPT ![f.name] = f.user] ELSE account
    /\ flight' = [flight EXCEPT ![c] = Ready]
    /\ UNCHANGED <<ceremonies, policy, policyFile, step, drawn, changes, wanted, raced, proved, answers>>

-----------------------------------------------------------------------------
\* An administrator deletes an account, or makes it again (UserStore).
DeleteUser(n) ==
    /\ Has(n)
    /\ account' = [account EXCEPT ![n] = NoUser]
    /\ wanted' = [wanted EXCEPT ![n] = -1]
    /\ UNCHANGED <<ceremonies, flight, policy, policyFile, step, drawn, changes, raced, proved, answers>>

Register(n, pw) ==
    /\ ~Has(n)
    /\ Change(n, User(changes + 1, pw))
    /\ UNCHANGED <<policy, policyFile, drawn, proved>>

HalfMinute ==
    /\ step < MaxStep
    /\ step' = step + 1
    /\ UNCHANGED <<account, ceremonies, flight, policy, policyFile, drawn, changes, wanted, raced, proved, answers>>

CredInit ==
    /\ \E pw \in Password : account = [n \in Name |-> User(0, pw)]
    /\ ceremonies = <<>>
    /\ flight = [c \in Client |-> Ready]
    /\ policy = DefaultPolicy /\ policyFile = DefaultPolicy
    /\ step = 0 /\ drawn = {} /\ changes = 0
    /\ wanted = [n \in Name |-> 0]
    /\ raced = {} /\ proved = {}
    /\ answers = [i \in Ceremony |-> 0]

PasskeyNext ==
    \/ \E n \in Name, i \in Ceremony :
          \/ waBeginRegisterHandler(n, i) \/ waBeginLoginHandler(n, i)
          \/ \E c \in Client : waFinishRegisterHandler(c, n, i) \/ waFinishLoginHandler(c, n, i)
    \/ \E c \in Client :
          \/ FinishLogin(c) \/ FinishFails(c) \/ Compact(c) \/ UpdateUser(c)
          \/ \E k \in Key : FinishRegistration(c, k) \/ \E n \in Name : waDeleteCredHandler(c, n, k)
    \/ \E n \in Name : DeleteUser(n) \/ \E pw \in Password : Register(n, pw)

SecretNext ==
    \/ \E n \in Name :
          \/ \E pw \in Password : changePasswordHandler(n, pw)
          \/ generateBackupCodesHandler(n)
          \/ \E s \in Secret :
                \/ totpEnrollHandler(n, s)
                \/ \E k \in 0..(MaxStep + 1) : LET code == [secret |-> s, step |-> k] IN
                      totpConfirmHandler(n, code) \/ totpDisableHandler(n, code)
    \/ \E p \in Policy : setPasswordPolicyHandler(p)
    \/ NewPasswordPolicy \/ HalfMinute

CredNext == PasskeyNext \/ SecretNext

CredSpec == CredInit /\ [][CredNext]_credVars

-----------------------------------------------------------------------------
(* Properties.                                                             *)

\* Every request to finish a ceremony takes it out of the map first: a
\* challenge is accepted at most once, however the requests overlap.
ChallengeOnce == \A i \in Ceremony : answers[i] <= 1

\* Passkey requests of any length undo no edit of an account but one that falls
\* between their GetUser and their UpdateUser, and never bring back an account
\* that was deleted (webauthn.go:133, UpdateUser).
EditsKept ==
    \A n \in Name : /\ wanted[n] = -1 => ~Has(n)
                    /\ n \notin raced => account[n].edit = wanted[n]

\* A second factor that is on has a secret for which its user has given a right
\* code, whatever enrolments were started since and whichever copy of the
\* record the passkey requests put back.
SecretProven == \A n \in Name : Has(n) /\ account[n].totp => account[n].secret \in proved
=============================================================================
