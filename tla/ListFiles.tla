----------------------------- MODULE ListFiles -----------------------------
(***************************************************************************)
(* The lists that internal/storage/linux.go keeps in files of their own:   *)
(* notification channels, alert rules, log alert rules, lifecycle          *)
(* policies, favourite apps, SSH keys and their audit, /etc/hosts and the  *)
(* cron file of the scrubs.  A request reads the file, changes the list    *)
(* and writes all of it back, without a lock; only AddSSHKey and AddHost   *)
(* append to the file.  A file that cannot be opened stays as it is, a     *)
(* write that fails or is cut off leaves an empty one, and what cannot be  *)
(* parsed is read as an empty list.  Most requests do not look whether     *)
(* they could write.                                                       *)
(*                                                                         *)
(* The alert rules have two sets of routes for one file: those that change *)
(* one rule, and SetAlertRules, which replaces all of them.                *)
(***************************************************************************)
EXTENDS Naturals, Sequences, SequencesExt, FiniteSets

CONSTANTS
    Name,      \* names of entries, as sequences of characters
    Request,   \* requests that can be in progress at the same time
    MaxHosts   \* bound on the entries of /etc/hosts and authorized_keys

JSONLists == {"channels", "rules", "logrules", "policies", "favorites"}
File == JSONLists \cup {"keys", "keyaudit", "hosts", "scrub"}

VARIABLES
    list,      \* list[f]: the entries of a file, in order
    req,       \* req[c]: what a request is about to write, and whether another
               \* one wrote to that file since it was read
    repeated   \* history: SetAlertRules was given a document with a name twice

listVars == <<list, req, repeated>>

Idle == [file |-> "none", at |-> "idle", own |-> <<>>, lines |-> <<>>, disturbed |-> FALSE]

ListInit ==
    /\ list = [f \in File |-> <<>>]
    /\ req = [c \in Request |-> Idle]
    /\ repeated = FALSE

Entry(n, v) == [name |-> n, val |-> v]
Names(l) == {l[i].name : i \in DOMAIN l}
Only(l, n) == SelectSeq(l, LAMBDA e : e.name = n)
Without(l, n) == SelectSeq(l, LAMBDA e : e.name # n)
First(l, n) == CHOOSE i \in DOMAIN l : l[i].name = n /\ \A j \in 1 .. i - 1 : l[j].name # n
Has(f, n) == n \in Names(list[f])
Replaced(f, n, v) == [list[f] EXCEPT ![First(list[f], n)] = Entry(n, v)]
Removed(f, n) == RemoveAt(list[f], First(list[f], n))
Added(f, n, v) == Append(list[f], Entry(n, v))

ListTypeOK ==
    /\ DOMAIN list = File
    /\ \A f \in File : Names(list[f]) \subseteq Name
    /\ \A c \in Request : req[c].file \in File \cup {"none"}
    /\ repeated \in BOOLEAN
-----------------------------------------------------------------------------
(* Read, and write later.                                                  *)

Begin(c, f, n, lines) ==
    /\ req[c] = Idle
    /\ req' = [req EXCEPT ![c] = [file |-> f, at |-> "write", own |-> n, lines |-> lines, disturbed |-> FALSE]]
    /\ UNCHANGED list

Prepare(c, f, n, lines) == Begin(c, f, n, lines) /\ UNCHANGED repeated

\* The file changes, and the request is over.
Put(c, lines) ==
    LET f == req[c].file IN
    /\ list' = [list EXCEPT ![f] = lines]
    /\ req' = [o \in Request |-> IF o = c THEN Idle
                                 ELSE IF req[o].file = f THEN [req[o] EXCEPT !.disturbed = TRUE] ELSE req[o]]
    /\ UNCHANGED repeated

Write(c) == req[c].at = "write" /\ Put(c, req[c].lines)

\* The disk is full, or nasd is stopped while it writes.
Tear(c) == req[c].at = "write" /\ Put(c, <<>>)

\* The file cannot be opened, which only some of the requests report.
Lose(c) ==
    /\ req[c].at # "idle"
    /\ req' = [req EXCEPT ![c] = Idle]
    /\ UNCHANGED <<list, repeated>>
-----------------------------------------------------------------------------
(* Lists of names that are meant to be unique.                             *)

CreateNotificationChannel(c, n, v) == ~Has("channels", n) /\ Prepare(c, "channels", n, Added("channels", n, v))

UpdateNotificationChannel(c, n, v) == Has("channels", n) /\ Prepare(c, "channels", n, Replaced("channels", n, v))

DeleteNotificationChannel(c, n) == Has("channels", n) /\ Prepare(c, "channels", n, Removed("channels", n))

\* A rule: after how many minutes it fires again, whether it is silenced, and
\* whether it is switched on.  The routes for one rule know nothing of the last,
\* and saving their list drops it for every rule.
Rule(dedupe, silenced, enabled) == [dedupe |-> dedupe, silenced |-> silenced, enabled |-> enabled]
Saved(l) == [i \in DOMAIN l |-> [l[i] EXCEPT !.val.enabled = FALSE]]

CreateMonitorAlertRule(c, n, r) ==
    /\ ~Has("rules", n)
    /\ Prepare(c, "rules", n, Saved(Added("rules", n, IF r.dedupe = 0 THEN [r EXCEPT !.dedupe = 5] ELSE r)))

\* All of the rule, its silence included, is what the request says.
UpdateMonitorAlertRule(c, n, r) == Has("rules", n) /\ Prepare(c, "rules", n, Saved(Replaced("rules", n, r)))

DeleteMonitorAlertRule(c, n) == Has("rules", n) /\ Prepare(c, "rules", n, Saved(Removed("rules", n)))

SilenceAlert(c, n) ==
    /\ Has("rules", n)
    /\ LET r == list["rules"][First(list["rules"], n)].val
       IN Prepare(c, "rules", n, Saved(Replaced("rules", n, [r EXCEPT !.silenced = TRUE])))

\* The rules ns and no others, whatever their names: what the other routes keep
\* of a rule is lost.
SetAlertRules(c, ns, enabled) ==
    /\ Begin(c, "rules", <<>>, [i \in DOMAIN ns |-> Entry(ns[i], Rule(0, FALSE, enabled))])
    /\ repeated' = (repeated \/ ~IsInjective(ns))

CreateLogAlertRule(c, n, v) == ~Has("logrules", n) /\ Prepare(c, "logrules", n, Added("logrules", n, v))

DeleteLogAlertRule(c, n) == Has("logrules", n) /\ Prepare(c, "logrules", n, Removed("logrules", n))

SetLifecyclePolicy(c, n, v) ==
    Prepare(c, "policies", n, IF Has("policies", n) THEN Replaced("policies", n, v) ELSE Added("policies", n, v))

DeleteLifecyclePolicy(c, n) == Prepare(c, "policies", n, Without(list["policies"], n))

AppSetFavorite(c, n, fav) ==
    IF fav THEN ~Has("favorites", n) /\ Prepare(c, "favorites", n, Added("favorites", n, "on"))
    ELSE Prepare(c, "favorites", n, IF Has("favorites", n) THEN Removed("favorites", n) ELSE list["favorites"])
-----------------------------------------------------------------------------
(* Lines of text files.                                                    *)

SSHKeys == Names(list["keys"])

\* The key is looked for first, and appended to whatever the file holds then.
AddSSHKey(c, n) ==
    /\ n \notin SSHKeys /\ Len(list["keys"]) < MaxHosts
    /\ req[c] = Idle
    /\ req' = [req EXCEPT ![c] = [Idle EXCEPT !.file = "keys", !.at = "append", !.own = n]]
    /\ UNCHANGED <<list, repeated>>

AppendKey(c) ==
    req[c].at = "append" /\ Put(c, Append(list["keys"], Entry(req[c].own, "key")))

DeleteSSHKey(c, n) == n \in SSHKeys /\ Prepare(c, "keys", n, Without(list["keys"], n))

\* A new list of the keys, with those the journal has seen in use.
SSHKeyAudit(c, used) ==
    Prepare(c, "keyaudit", <<>>, [i \in DOMAIN list["keys"] |->
        Entry(list["keys"][i].name, IF list["keys"][i].name \in used THEN "used" ELSE "unused")])

MarkSSHKeyUsed(c, n) ==
    Prepare(c, "keyaudit", n, [i \in DOMAIN list["keyaudit"] |->
        IF list["keyaudit"][i].name = n THEN Entry(n, "used") ELSE list["keyaudit"][i]])

AddHost(n, v) ==
    /\ Len(list["hosts"]) < MaxHosts
    /\ list' = [list EXCEPT !["hosts"] = Append(@, Entry(n, v))]
    /\ req' = [o \in Request |-> IF req[o].file = "hosts" THEN [req[o] EXCEPT !.disturbed = TRUE] ELSE req[o]]
    /\ UNCHANGED repeated

\* The address and the first name have to match.
DeleteHost(c, n, v) ==
    Prepare(c, "hosts", n, SelectSeq(list["hosts"], LAMBDA e : e # Entry(n, v)))

\* The line of a pool is its command with the name of the pool at the end; the
\* letter stands for those that a name may share with "root zpool scrub ".
Command == <<"t", " ">>
Line(e) == Command \o e.name

\* A line is taken for that of a pool when it CONTAINS the command for it.
SetScrubSchedule(c, n, v, enabled) ==
    LET rest == SelectSeq(list["scrub"], LAMBDA e : ~IsPrefix(Command \o n, Line(e)))
    IN Prepare(c, "scrub", n, IF enabled THEN Append(rest, Entry(n, v)) ELSE rest)

\* What is shown for a pool: the last line that has its name anywhere.
ScrubSchedule(l, n) ==
    LET at == {i \in DOMAIN l : n \in SubSeqs(Line(l[i]))}
    IN IF at = {} THEN "off" ELSE l[CHOOSE i \in at : \A j \in at : j <= i].val
-----------------------------------------------------------------------------
createNotificationChannelHandler(c) == \E n \in Name, v \in {"a", "b"} : CreateNotificationChannel(c, n, v)
updateNotificationChannelHandler(c) == \E n \in Name, v \in {"a", "b"} : UpdateNotificationChannel(c, n, v)
deleteNotificationChannelHandler(c) == \E n \in Name : DeleteNotificationChannel(c, n)
createMonitorAlertRuleHandler(c) == \E n \in Name, d \in {0, 5} : CreateMonitorAlertRule(c, n, Rule(d, FALSE, FALSE))
updateMonitorAlertRuleHandler(c) == \E n \in Name, d \in {0, 5} : UpdateMonitorAlertRule(c, n, Rule(d, FALSE, FALSE))
deleteMonitorAlertRuleHandler(c) == \E n \in Name : DeleteMonitorAlertRule(c, n)
silenceAlertHandler(c) == \E n \in Name : SilenceAlert(c, n)
setAlertRulesHandler(c) == \E ns \in BoundedSeq(Name, 2) : SetAlertRules(c, ns, TRUE)
createLogAlertRuleHandler(c) == \E n \in Name : CreateLogAlertRule(c, n, "a")
deleteLogAlertRuleHandler(c) == \E n \in Name : DeleteLogAlertRule(c, n)
setLifecyclePolicyHandler(c) == \E n \in Name, v \in {"a", "b"} : SetLifecyclePolicy(c, n, v)
deleteLifecyclePolicyHandler(c) == \E n \in Name : DeleteLifecyclePolicy(c, n)
appSetFavoriteHandler(c) == \E n \in Name, fav \in BOOLEAN : AppSetFavorite(c, n, fav)
addSSHKeyHandler(c) == \E n \in Name : AddSSHKey(c, n)
deleteSSHKeyHandler(c) == \E n \in Name : DeleteSSHKey(c, n)
sshKeyAuditHandler(c) == \E used \in SUBSET Name : SSHKeyAudit(c, used)
markSSHKeyUsedHandler(c) == \E n \in Name : MarkSSHKeyUsed(c, n)
addHostHandler == \E n \in Name, v \in {"a", "b"} : AddHost(n, v)
deleteHostHandler(c) == \E n \in Name, v \in {"a", "b"} : DeleteHost(c, n, v)
setScrubScheduleHandler(c) == \E n \in Name, v \in {"a", "b"}, on \in BOOLEAN : SetScrubSchedule(c, n, v, on)

ChannelNext(c) ==
    createNotificationChannelHandler(c) \/ updateNotificationChannelHandler(c) \/ deleteNotificationChannelHandler(c)
RuleNext(c) ==
    \/ createMonitorAlertRuleHandler(c) \/ updateMonitorAlertRuleHandler(c)
    \/ deleteMonitorAlertRuleHandler(c) \/ silenceAlertHandler(c) \/ setAlertRulesHandler(c)
LogRuleNext(c) == createLogAlertRuleHandler(c) \/ deleteLogAlertRuleHandler(c)
PolicyNext(c) == setLifecyclePolicyHandler(c) \/ deleteLifecyclePolicyHandler(c)
KeyNext(c) ==
    \/ addSSHKeyHandler(c) \/ AppendKey(c) \/ deleteSSHKeyHandler(c)
    \/ sshKeyAuditHandler(c) \/ markSSHKeyUsedHandler(c)
HostNext(c) == addHostHandler \/ deleteHostHandler(c)

ListNext ==
    \E c \in Request :
        \/ ChannelNext(c) \/ RuleNext(c) \/ LogRuleNext(c) \/ PolicyNext(c) \/ appSetFavoriteHandler(c)
        \/ KeyNext(c) \/ HostNext(c) \/ setScrubScheduleHandler(c)
        \/ Write(c) \/ Tear(c) \/ Lose(c)
-----------------------------------------------------------------------------
\* However requests overlap or are cut off, no list holds a name twice
\* (CreateNotificationChannel and the like); SetAlertRules does not look, and
\* one document with a name twice is enough.
NamesOnce == \A f \in JSONLists :
    (f = "rules" /\ repeated) \/ Cardinality(Names(list[f])) = Len(list[f])

\* Which entries a request may change: its own, all of them where it replaces the
\* whole list, and the schedules of pools whose names begin with that of its pool.
Touches(c, n) == IF req[c].file = "scrub" THEN IsPrefix(req[c].own, n) ELSE req[c].own \in {n, <<>>}

\* The entries of a name, without what the routes for one rule drop.
Kept(f, l, n) == Only(IF f = "rules" THEN Saved(l) ELSE l, n)

\* A request during which no other wrote to the file leaves the other entries of
\* the file as they are (the loops over the list in linux.go).
OthersKept ==
    \A c \in Request :
        req'[c] = Idle /\ req[c].at = "write" /\ ~req[c].disturbed =>
            LET f == req[c].file IN
            \/ list'[f] = <<>>
            \/ \A n \in {m \in Name : ~Touches(c, m)} : Kept(f, list'[f], n) = Kept(f, list[f], n)

\* A schedule that is set is the one that is shown, whatever other lines have the
\* name of the pool in them; one that is switched off can be seen in the lines of
\* other pools only, and not of those whose names begin alike (SetScrubSchedule,
\* ScrubSchedules).
ScrubShown ==
    \A c \in Request :
        LET n == req[c].own
            l == list'["scrub"]
            mine == Only(l, n)
        IN req[c].file = "scrub" /\ req'[c] = Idle /\ l = req[c].lines =>
              IF mine # <<>> THEN ScrubSchedule(l, n) = mine[1].val
              ELSE \A i \in DOMAIN l : ~IsPrefix(n, l[i].name)
=============================================================================
