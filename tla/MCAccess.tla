------------------------------ MODULE MCAccess ------------------------------
(***************************************************************************)
(* Four models that share no state, for TLC: the access control of         *)
(* AccessControl, what accounts prove themselves with (Credentials), the   *)
(* login guard of LoginGuard and the license of Licensing.  Because none   *)
(* reads or writes what another one does, they are explored one after the  *)
(* other (focus) instead of in all their interleavings.                    *)
(***************************************************************************)
EXTENDS AccessControl, Credentials, Licensing, LoginGuard, TLC

CONSTANTS alice, bob

VARIABLE focus

\* What an administrator asks the tracker for: a window that is not positive is
\* left as it is.
OneThreshold == {[most |-> 1, window |-> 0, ban |-> 2]}

\* Tokens for ever and for a time, of both tiers, one that is not signed and one
\* that is too short.
Signed(tier, exp) == [envelope |-> "ok", signed |-> TRUE, json |-> "ok", tier |-> tier,
                      nodes |-> 1, exp |-> exp, trial |-> exp # 0]
FiveTokens == {Signed("pro", 0), Signed("pro", 3), Signed("home", 0),
               [Signed("pro", 0) EXCEPT !.signed = FALSE],
               [Signed("pro", 0) EXCEPT !.envelope = "short"]}

\* One password that the default policy accepts, and a policy with the default
\* number of codes.
OnePassword == {[len |-> 12, has |-> {"upper", "lower", "digit"}]}
TwoPolicies == {[min |-> 4, require |-> {}, codes |-> 0], [min |-> 13, require |-> {}, codes |-> 1]}

\* One edit falls among ceremonies of two accounts and two clients; or one account
\* has all its edits, with one passkey and no change of policy, or with such
\* changes and no passkey.
CredScope ==
  \/ focus = "passkeys" /\ changes <= 1
  \/ /\ focus = "factors" /\ wanted[bob] = 0
     /\ Cardinality(drawn \cap (Ceremony \cup Key)) <= 2
     /\ \/ Ceremony \cap drawn = {}
        \/ /\ policy = policyFile /\ policy = DefaultPolicy
           /\ \A c, d \in Client : c = d \/ flight[c].pc = "idle" \/ flight[d].pc = "idle"
           /\ \A i \in DOMAIN ceremonies : ceremonies[i] = alice

\* Overlapping logins from one connection; or logins from two connections, one
\* after the other, with one failure or one act of an administrator.
GuardScope ==
  \/ /\ focus = "lockout" /\ acts = 0 /\ buckets["conn2"] = NoRecord
  \/ /\ focus = "limiter"
     /\ \A g, h \in Handler : g = h \/ trying[g] = NoLogin \/ trying[h] = NoLogin
     /\ attempts["conn1"].count + acts <= 1 /\ attempts["conn2"] = NoRecord
     /\ buckets["conn2"].count <= 1 /\ \A n \in Account : usernames[n] = NoRecord

\* The part that is not looked at starts in one state only.
MCInit == /\ Init /\ CredInit /\ LicInit /\ GuardInit
          /\ \/ focus = "access"
             \/ /\ ~static /\ Present = {}
                /\ focus \in {"passkeys", "factors", "lockout", "limiter", "license"}

CredStep(foci, A) ==
  focus \in foci /\ A /\ UNCHANGED <<focus, vars, guardVars, licVars>> /\ CredScope'

MCNext == \/ focus = "access" /\ Next /\ UNCHANGED <<focus, credVars, guardVars, licVars>>
          \/ CredStep({"passkeys", "factors"}, PasskeyNext)
          \/ CredStep({"passkeys"}, \E n \in Name : generateBackupCodesHandler(n))
          \/ CredStep({"factors"}, SecretNext)
          \/ /\ focus \in {"lockout", "limiter"} /\ GuardNext
             /\ UNCHANGED <<focus, vars, credVars, licVars>> /\ GuardScope'
          \/ focus = "license" /\ LicNext /\ UNCHANGED <<focus, vars, credVars, guardVars>>

MCSpec == MCInit /\ [][MCNext]_<<focus, vars, credVars, guardVars, licVars>>

\* The behaviours of the license alone.
LicenseSpec == MCInit /\ focus = "license" /\ [][MCNext]_<<focus, vars, credVars, guardVars, licVars>>

Symmetry == Permutations(Names) \cup Permutations(Tokens) \cup Permutations(Keys)
              \cup Permutations(Requests) \cup Permutations(Client)
=============================================================================
