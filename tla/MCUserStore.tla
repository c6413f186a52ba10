---------------------------- MODULE MCUserStore ----------------------------
(***************************************************************************)
(* UserStore on small instances: an administrator and an account with a    *)
(* second factor and two backup codes left.                                *)
(***************************************************************************)
EXTENDS UserStore, TLC

CONSTANTS alice, bob, c1, c2, c3, admin, readonly

\* "logins": logins overlap edits of accounts; "passkeys": copies of accounts are
\* put back meanwhile; "restart": writes fail and the daemon ends.
VARIABLE focus

MCAccounts ==
  <<[name |-> alice, role |-> admin, disabled |-> FALSE, secret |-> FALSE,
     totp |-> FALSE, codes |-> {}, lastLogin |-> NoToken],
    [name |-> bob, role |-> admin, disabled |-> FALSE, secret |-> TRUE,
     totp |-> TRUE, codes |-> {c1, c2}, lastLogin |-> NoToken]>>

\* At most one of the processes S is not idle.
OneOf(S, pc(_)) == \A p, q \in S : p = q \/ pc(p) = "idle" \/ pc(q) = "idle"

OneRequest == OneOf(Requests, LAMBDA r : requests[r].pc)
OneSaver == OneOf(Savers, LAMBDA g : savers[g].pc)
NoSaver == \A g \in Savers : savers[g].pc = "idle"

Holds(r) == requests[r].pc = "passkey"
Tries(r) == requests[r].pc \in {"backup", "relock"}

\* Two logins and two edits of accounts, or one and three, with files that can
\* be written; a copy of the second account, a login and two edits, new codes
\* among them; or one request and one edit with failures.
Scope ==
  /\ \A i \in DOMAIN users : \/ users[i].codes = {c3} /\ focus = "passkeys"
                            \/ users[i].codes \subseteq MCAccounts[2].codes
  /\ \/ /\ focus = "logins" /\ faults = 0 /\ crashes = 0 /\ OneSaver
        /\ edits = 3 => OneRequest
        /\ \A r \in Requests : ~Holds(r) /\ (Tries(r) => requests[r].code = c1)
     \/ /\ focus = "passkeys" /\ edits <= 2 /\ faults = 0 /\ crashes = 0 /\ NoSaver
        /\ \A r, q \in Requests : Holds(r) /\ Holds(q) => r = q
        /\ \A r \in Requests : Holds(r) => requests[r].copy.name = bob
     \/ /\ focus = "restart" /\ edits <= 1 /\ OneRequest
        /\ crashes = 1 \/ edits = 1 => OneSaver
        /\ crashes = 1 => \A r \in Requests : ~Holds(r)
        /\ \A r \in Requests : Tries(r) => requests[r].code = c1

MCInit == Init /\ focus \in {"logins", "passkeys", "restart"}
MCNext == Next /\ UNCHANGED focus /\ Scope'

MCSpec == MCInit /\ [][MCNext]_<<vars, focus>>

\* The behaviours with failures.
StoreSpec == MCInit /\ focus = "restart" /\ [][MCNext]_<<vars, focus>>

Symmetry == Permutations(Tokens) \cup Permutations(Savers) \cup Permutations(Requests)
=============================================================================
