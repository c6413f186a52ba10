----------------------------- MODULE ShareLinks -----------------------------
(***************************************************************************)
(* The share links of internal/storage/linux.go (CreateShareLink,          *)
(* RevokeShareLink, ResolveShareToken) behind the handlers of              *)
(* internal/api/files.go and router.go.  The links live in shares.json     *)
(* only.  Every request reads the whole file, changes its copy and writes  *)
(* the whole file again; there is no lock, so requests overlap, and a      *)
(* request that reads while another one writes finds a file it cannot      *)
(* parse, which loadShareLinks takes for an empty list.                    *)
(***************************************************************************)
EXTENDS Integers, FiniteSets, Functions

CONSTANTS
    Link,      \* the tokens CreateShareLink draws, never twice the same
    Caller,    \* requests that may be under way at the same time
    MaxUses,   \* the limits a link may be created with; 0 is "none"
    ExpiresIn, \* the lifetimes a link may be created with; 0 is "for ever"
    MaxClock,  \* bound: the clock
    MaxServed, \* bound: resolutions of one link
    SaveFails  \* whether writing shares.json may fail

ASSUME LinkAssumption == MaxUses \subseteq Nat /\ ExpiresIn \subseteq Nat

VARIABLES
    clock,     \* the clock, in seconds
    linksFile, \* shares.json, as loadShareLinks reads it: Link -> its record
    pending,   \* pending[r]: where a request is, and the list it is going to write
    limit,     \* limit[l]: the limit l was created with, for links that were created
    granted,   \* granted[l]: how often ResolveShareToken found l valid
    served,    \* served[l]: how often it returned l
    revoked,   \* the links whose revocation was confirmed
    orderly    \* no two requests overlapped so far and no write failed

linkVars == <<clock, linksFile, pending, limit, granted, served, revoked, orderly>>

NoLinks == [l \in {} |-> 0]
NoCall == [pc |-> "idle", op |-> "none", link |-> 0, list |-> NoLinks]

\* What loadShareLinks returns; a file that is being written is an empty list.
loadShareLinks == linksFile

\* A request has loaded the links and goes on to save its changed copy.
Load(r, op, l, list) ==
    /\ pending[r] = NoCall
    /\ pending' = [pending EXCEPT ![r] = [pc |-> "open", op |-> op, link |-> l, list |-> list]]
    /\ orderly' = (orderly /\ \A q \in Caller : pending[q] = NoCall)

CreateShareLink(r, l, max, lifetime) ==
    /\ l \notin DOMAIN limit
    /\ LET link == [used |-> 0, max |-> max, expires |-> IF lifetime > 0 THEN clock + lifetime ELSE 0]
       IN  Load(r, "create", l, [k \in DOMAIN loadShareLinks \cup {l} |->
                                   IF k = l THEN link ELSE loadShareLinks[k]])
    /\ limit' = [k \in DOMAIN limit \cup {l} |-> IF k = l THEN max ELSE limit[k]]
    /\ UNCHANGED <<clock, linksFile, granted, served, revoked>>

\* The list is written without the link; a link that is not there is an error.
RevokeShareLink(r, l) ==
    /\ l \in DOMAIN loadShareLinks
    /\ Load(r, "revoke", l, Restrict(loadShareLinks, DOMAIN loadShareLinks \ {l}))
    /\ UNCHANGED <<clock, linksFile, limit, granted, served, revoked>>

SlipUsable(link) == (link.expires > 0 => clock <= link.expires) /\ (link.max > 0 => link.used <= link.max)

Usable(link) ==
    /\ link.expires > 0 => clock <= link.expires
    /\ link.max > 0 => link.used < link.max

\* A link that is found and usable is counted; any other is refused.
ResolveShareToken(r, l) ==
    /\ l \in DOMAIN loadShareLinks /\ Usable(loadShareLinks[l])
    /\ granted[l] < MaxServed
    /\ Load(r, "resolve", l, [loadShareLinks EXCEPT ![l].used = @ + 1])
    /\ granted' = [granted EXCEPT ![l] = @ + 1]
    /\ UNCHANGED <<clock, linksFile, limit, served, revoked>>

\* os.WriteFile opens the file and empties it ...
Open(r) ==
    /\ pending[r].pc = "open"
    /\ linksFile' = NoLinks
    /\ pending' = [pending EXCEPT ![r].pc = "write"]
    /\ UNCHANGED <<clock, limit, granted, served, revoked, orderly>>

\* The request returns: ResolveShareToken and CreateShareLink ignore the
\* outcome of the write, RevokeShareLink reports it.
Return(r, ok) ==
    /\ pending' = [pending EXCEPT ![r] = NoCall]
    /\ served' = IF pending[r].op = "resolve" THEN [served EXCEPT ![pending[r].link] = @ + 1] ELSE served
    /\ revoked' = IF pending[r].op = "revoke" /\ ok THEN revoked \cup {pending[r].link} ELSE revoked

\* ... and writes its text from the beginning.  What another request wrote in
\* between can stay behind its end, and then nothing can be parsed.
saveShareLinks(r) ==
    /\ pending[r].pc = "write"
    /\ linksFile' \in IF linksFile \in {NoLinks, pending[r].list} THEN {pending[r].list} ELSE {pending[r].list, NoLinks}
    /\ Return(r, TRUE)
    /\ UNCHANGED <<clock, limit, granted, orderly>>

\* The file cannot be opened.
SaveFailed(r) ==
    /\ SaveFails /\ pending[r].pc = "open"
    /\ orderly' = FALSE
    /\ Return(r, FALSE)
    /\ UNCHANGED <<clock, linksFile, limit, granted>>

createShareLinkHandler(r, l, max, lifetime) == CreateShareLink(r, l, max, lifetime)
revokeShareHandler(r, l) == RevokeShareLink(r, l)

\* Anybody who has the token; the use is counted before the file is looked for,
\* so that a file that is gone uses the link up too.
publicShareHandler(r, l) == ResolveShareToken(r, l)

ClockTicks ==
    /\ clock < MaxClock
    /\ clock' = clock + 1
    /\ UNCHANGED <<linksFile, pending, limit, granted, served, revoked, orderly>>

LinkInit ==
    /\ clock = 0 /\ linksFile = NoLinks
    /\ pending = [r \in Caller |-> NoCall]
    /\ limit = NoLinks
    /\ granted = [l \in Link |-> 0] /\ served = [l \in Link |-> 0]
    /\ revoked = {} /\ orderly = TRUE

LinkNext ==
    \/ ClockTicks
    \/ \E r \in Caller :
          \/ \E l \in Link : \/ \E max \in MaxUses, t \in ExpiresIn : createShareLinkHandler(r, l, max, t)
                             \/ revokeShareHandler(r, l) \/ publicShareHandler(r, l)
          \/ Open(r) \/ saveShareLinks(r) \/ SaveFailed(r)

LinkSpec == LinkInit /\ [][LinkNext]_linkVars

-----------------------------------------------------------------------------
(* Properties.                                                             *)

NeverOvercounted == \A l \in DOMAIN linksFile : linksFile[l].used <= granted[l]

OrderlyLimits ==
    orderly => /\ \A l \in DOMAIN limit : limit[l] > 0 => served[l] <= limit[l]
               /\ \A l \in revoked : l \notin DOMAIN linksFile

\* However requests overlap, the counter of a link in shares.json is never ahead
\* of the resolutions that were granted: a link is not used up early.  Requests
\* that do not overlap, with writes that succeed, keep what a link was given:
\* ResolveShareToken returns it at most MaxUses times, and a link that was
\* revoked is gone from shares.json.
LinksLimited == NeverOvercounted /\ OrderlyLimits
=============================================================================
