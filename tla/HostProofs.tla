---------------------------- MODULE HostProofs ------------------------------
(***************************************************************************)
(* What was asked for holds, for any number of requests that overlap, fail *)
(* or are cut off, any texts, and any number of Wake-on-LAN targets,       *)
(* failing writes and restarts.                                            *)
(*                                                                         *)
(* InForce says nothing about a request that is under way, so it is not    *)
(* inductive.  HostInv adds what a request that runs alone, and of which   *)
(* no step has failed, has achieved so far: the places of the steps behind *)
(* it hold their values, because every place belongs to one document and   *)
(* no step of a program writes what an earlier one wrote.  The password    *)
(* that a mail request takes over is the one in force, because it is read  *)
(* while nobody else writes the file.                                      *)
(***************************************************************************)
EXTENDS Host, SequenceTheorems, TLAPS

\* What a place may hold.
Texts == Text \cup {"", "nothing", "torn"}
Values == [text : Texts, user : Texts, username : Texts, pw : Texts]

\* The documents and the requests that replace them.
Kind(op, d) ==
  \/ d = "webhook" /\ op \in {"putWebhook", "deleteWebhook"}
  \/ d = "smtp" /\ op \in {"putSmtp", "deleteSmtp", "setSMTP"}
  \/ d = "cert" /\ op \in {"uploadCert", "generateCert"}
  \/ d = "settings" /\ op \in {"settings", "restore", "hostname", "timezone"}
  \/ d \in {"syslog", "docker", "motd", "tier", "loki", "login", "crontab", "retention"} /\ op = d

\* Every place belongs to one document.
Owner(p) ==
  CASE p \in {"webhook", "webhook.json"} -> "webhook"
    [] p \in {"mailer", "smtp.json"} -> "smtp"
    [] p \in {"cert.pem", "key.pem"} -> "cert"
    [] p \in {"hostname", "timezone", "ntp", "share1", "share2"} -> "settings"
    [] p \in {"syslog.json", "90-kilasos.conf", "rsyslog"} -> "syslog"
    [] p \in {"daemon.json", "docker"} -> "docker"
    [] p = "motd" -> "motd"
    [] p = "tier-policy.json" -> "tier"
    [] p = "loki.json" -> "loki"
    [] p = "login-customization.json" -> "login"
    [] p = "crontab" -> "crontab"
    [] p \in {"audit-retention.json", "retention"} -> "retention"

Steps == {"write", "remove", "set", "tool", "reload", "keep"}

\* A program for document d: its steps change places of d, no place twice, what a
\* service reads again is not changed later, and only the mail password is kept.
Sound(P, op, d, v) ==
  /\ Len(P) \in 1..5
  /\ \A i \in 1..Len(P) :
       /\ P[i].kind \in Steps
       /\ P[i].to \in Places /\ Owner(P[i].to) = d
       /\ P[i].from \in Places /\ Owner(P[i].from) = d
       /\ P[i].val \in {v, Nothing}
       /\ P[i].fail \in 0..Len(P) + 1
       /\ P[i].kind = "keep" => i = 1 /\ op = "setSMTP"
       /\ P[i].kind = "reload" => i = Len(P) /\ P[i].from # P[i].to
  /\ \A i, j \in 1..Len(P) : i # j /\ P[i].kind # "keep" /\ P[j].kind # "keep" => P[i].to # P[j].to

\* A request has the fields of one.
Fields == {"op", "doc", "arg", "asked", "at", "half", "alone", "ok"}

\* What a request carries: its arguments are those it came with, but for the
\* password that a mail request takes over.
Asked(f) ==
  /\ f.arg \in Values /\ f.asked \in Values
  /\ f.op # "setSMTP" => f.arg = f.asked
  /\ f.arg.text = f.asked.text /\ f.arg.user = f.asked.user /\ f.arg.username = f.asked.username
  /\ f.op = "putWebhook" => f.arg = Nothing \/ f.arg.text \in Text
  /\ f.op = "putSmtp" => f.arg.text \in Text /\ f.arg.user = ""
  /\ f.op \in {"deleteWebhook", "deleteSmtp"} => f.arg = Nothing

UnderWay(f) ==
  /\ DOMAIN f = Fields
  /\ Kind(f.op, f.doc)
  /\ f.at \in 1..Len(Todo(f)) + 1
  /\ f.half \in BOOLEAN /\ f.alone \in BOOLEAN /\ f.ok \in BOOLEAN
  /\ Asked(f)

\* The steps behind a request have done their work in pl.
Done(f, pl) ==
  \A j \in 1..f.at - 1 :
    LET s == Todo(f)[j] IN
    s.kind # "keep" => pl[s.to] = IF s.kind = "reload" THEN pl[s.from] ELSE s.val

\* The password that a mail request will have taken over is the one in force.
Takes(f, pl, sec) ==
  f.op = "setSMTP" =>
    /\ f.at = 1 => f.arg = f.asked /\ sec \in {"?", pl["smtp.json"].pw}
    /\ f.at > 1 => /\ f.asked.pw = "" => sec \in {"?", f.arg.pw}
                   /\ f.asked.pw # "" => f.arg.pw = f.asked.pw

Going(f, pl, sec) == Done(f, pl) /\ Takes(f, pl, sec)

Free(d) == \A c \in Client : flight[c].doc # d

PlacesOK == place \in [Places -> Values]
FlightOK == DOMAIN flight = Client /\ \A c \in Client : flight[c] = Idle \/ UnderWay(flight[c])
SettledOK == DOMAIN settled = Docs /\ \A d \in Docs : settled[d].op = "idle" \/ Kind(settled[d].op, d)
AloneOK == \A c, o \in Client :
             c # o /\ flight[c].op # "idle" /\ flight[c].alone => flight[o].doc # flight[c].doc
GoingOK == \A c \in Client :
             flight[c].op # "idle" /\ flight[c].alone /\ flight[c].ok => Going(flight[c], place, secret)
SecretOK == Free("smtp") => secret \in {"?", place["smtp.json"].pw}

\* The inductive invariant.
HostInv == /\ requests \in 0..MaxRequests
           /\ PlacesOK /\ FlightOK /\ SettledOK /\ AloneOK /\ GoingOK /\ SecretOK /\ InForce
-----------------------------------------------------------------------------
(* The programs.                                                           *)

LEMMA ProgramSound ==
  ASSUME NEW op, NEW d, Kind(op, d), NEW v
  PROVE  Sound(Program(op, v), op, d, v)
<1> USE DEF Sound, Program, Places, Owner, Do, Steps
<1>1. CASE op = "putWebhook"
  BY <1>1 DEF Kind, PutWebhook, Store, Write
<1>2. CASE op = "deleteWebhook"
  BY <1>2 DEF Kind, DropWebhook, Store, Remove
<1>3. CASE op = "putSmtp"
  BY <1>3 DEF Kind, PutMail, Store, Write
<1>4. CASE op = "deleteSmtp"
  BY <1>4 DEF Kind, DropMail, Store, Remove
<1>5. CASE op = "setSMTP"
  BY <1>5 DEF Kind, SetSMTPConfig, Keep, Write
<1>6. CASE op = "uploadCert"
  BY <1>6 DEF Kind, UploadServerCertificate, Write
<1>7. CASE op = "generateCert"
  BY <1>7 DEF Kind, GenerateServerCertificate, Write
<1>8. CASE op = "settings"
  BY <1>8 DEF Kind, ApplySettings, Tool
<1>9. CASE op = "restore"
  BY <1>9 DEF Kind, RestoreAll, Tool
<1>10. CASE op = "syslog"
  BY <1>10 DEF Kind, SetSyslogForwarding, Write, Remove, Reload
<1>11. CASE op = "docker"
  BY <1>11 DEF Kind, SetDockerDaemonConfig, Write, Reload
<1>12. CASE op = "retention"
  BY <1>12 DEF Kind, SetAuditRetentionPolicy, Write, Store
<1>13. CASE op = "motd"
  BY <1>13 DEF Kind, SetMOTD, Write
<1>14. CASE op = "hostname"
  BY <1>14 DEF Kind, SetHostname, Tool
<1>15. CASE op = "tier"
  BY <1>15 DEF Kind, SetStorageTierPolicy, Write
<1>16. CASE op = "loki"
  BY <1>16 DEF Kind, SetLokiConfig, Write
<1>17. CASE op = "login"
  BY <1>17 DEF Kind, SetLoginCustomization, Write
<1>18. CASE op = "crontab"
  BY <1>18 DEF Kind, SetCronTab, Tool
<1>19. CASE op = "timezone"
  BY <1>19 DEF Kind, SetTimezone, Tool
<1>20. op \in {"putWebhook", "deleteWebhook", "putSmtp", "deleteSmtp", "setSMTP", "uploadCert",
               "generateCert", "settings", "restore", "syslog", "docker", "retention", "motd",
               "hostname", "timezone", "tier", "loki", "login", "crontab"}
  BY DEF Kind
<1> QED
  BY <1>1, <1>2, <1>3, <1>4, <1>5, <1>6, <1>7, <1>8, <1>9, <1>10, <1>11, <1>12, <1>13, <1>14,
     <1>15, <1>16, <1>17, <1>18, <1>19, <1>20

\* A request under way is no idle one, and its program is sound.
LEMMA UnderWayIs ==
  ASSUME NEW f, UnderWay(f)
  PROVE  /\ f.op # "idle" /\ f # Idle /\ f.doc \in Docs
         /\ Sound(Todo(f), f.op, f.doc, f.arg)
<1>1. f.op # "idle" /\ f.doc \in Docs
  BY DEF UnderWay, Kind, Docs
<1>2. Idle.op = "idle"
  BY DEF Idle
<1>3. Sound(Todo(f), f.op, f.doc, f.arg)
  BY ProgramSound DEF UnderWay, Todo
<1> QED
  BY <1>1, <1>2, <1>3

LEMMA IdleIs == Idle.op = "idle" /\ Idle.doc = "none" /\ "none" \notin Docs /\ Idle.alone /\ Idle.ok
BY DEF Idle, Docs

LEMMA NothingIs == Nothing \in Values /\ Torn \in Values /\ Nothing.pw = "" /\ Torn.pw = ""
BY DEF Nothing, Torn, Plain, Value, Values, Texts

\* What a request has achieved does not depend on the places of other documents.
LEMMA GoingSame ==
  ASSUME NEW f, UnderWay(f), NEW pl, NEW pm, NEW s,
         \A p \in Places : Owner(p) = f.doc => pm[p] = pl[p],
         Going(f, pl, s)
  PROVE  Going(f, pm, s)
<1>1. Sound(Todo(f), f.op, f.doc, f.arg) /\ f.at \in 1..Len(Todo(f)) + 1
  BY UnderWayIs DEF UnderWay
<1>2. Done(f, pm)
  BY <1>1 DEF Going, Done, Sound
<1>3. f.op = "setSMTP" => f.doc = "smtp"
  BY DEF UnderWay, Kind
<1>4. "smtp.json" \in Places /\ Owner("smtp.json") = "smtp"
  BY DEF Places, Owner
<1>5. Takes(f, pm, s)
  BY <1>3, <1>4 DEF Going, Takes
<1> QED
  BY <1>2, <1>5 DEF Going
-----------------------------------------------------------------------------
(* The steps of a request.                                                 *)

\* What a step of the request of c makes of it, and of the places.
Moves(c, g) ==
  /\ flight' = [flight EXCEPT ![c] = g]
  /\ UnderWay(g)
  /\ g.op = flight[c].op /\ g.doc = flight[c].doc /\ g.alone = flight[c].alone
  /\ place' \in [Places -> Values]
  /\ \A p \in Places : Owner(p) # g.doc => place'[p] = place[p]
  /\ g.alone /\ g.ok => Going(g, place', secret)

LEMMA GoesIs ==
  ASSUME NEW f, UnderWay(f), NEW n \in 0..Len(Todo(f)) + 1, NEW good \in BOOLEAN
  PROVE  LET g == Goes(f, n, good) IN
         /\ UnderWay(g)
         /\ g.op = f.op /\ g.doc = f.doc /\ g.alone = f.alone /\ g.arg = f.arg /\ g.asked = f.asked
         /\ g.at = IF n = 0 THEN Len(Todo(f)) + 1 ELSE n
         /\ g.ok <=> f.ok /\ good
         /\ Todo(g) = Todo(f)
<1> DEFINE g == Goes(f, n, good)
<1>1. DOMAIN f = Fields /\ Len(Todo(f)) \in Nat
  BY UnderWayIs DEF UnderWay, Sound
<1>2. /\ DOMAIN g = Fields
      /\ g.op = f.op /\ g.doc = f.doc /\ g.alone = f.alone /\ g.arg = f.arg /\ g.asked = f.asked
      /\ g.at = (IF n = 0 THEN Len(Todo(f)) + 1 ELSE n)
  BY <1>1 DEF Goes, Fields
<1>3. g.half = FALSE /\ g.ok = (f.ok /\ good)
  BY <1>1, Zenon DEF Goes, Fields
<1> HIDE DEF g
<1>4. Todo(g) = Todo(f)
  BY <1>2 DEF Todo
<1>5. Kind(g.op, g.doc) /\ g.alone \in BOOLEAN /\ Asked(g)
  BY <1>2 DEF UnderWay, Asked
<1>6. g.at \in 1..Len(Todo(g)) + 1
  BY <1>1, <1>2, <1>4
<1>7. g.half \in BOOLEAN /\ g.ok \in BOOLEAN /\ (g.ok <=> f.ok /\ good)
  BY <1>3
<1>8. UnderWay(g)
  BY <1>2, <1>5, <1>6, <1>7 DEF UnderWay
<1> QED
  BY <1>2, <1>4, <1>7, <1>8 DEF g

LEMMA HalfIs ==
  ASSUME NEW f, UnderWay(f)
  PROVE  LET g == [f EXCEPT !.half = TRUE] IN
         /\ UnderWay(g)
         /\ g.op = f.op /\ g.doc = f.doc /\ g.alone = f.alone /\ g.arg = f.arg /\ g.asked = f.asked
         /\ g.at = f.at /\ g.ok = f.ok
         /\ Todo(g) = Todo(f)
<1> DEFINE g == [f EXCEPT !.half = TRUE]
<1>1. DOMAIN f = Fields
  BY DEF UnderWay
<1>2. /\ DOMAIN g = Fields
      /\ g.op = f.op /\ g.doc = f.doc /\ g.arg = f.arg /\ g.asked = f.asked /\ g.at = f.at
      /\ g.alone = f.alone /\ g.ok = f.ok /\ g.half = TRUE
  BY <1>1, Zenon DEF Fields
<1> HIDE DEF g
<1>3. Todo(g) = Todo(f)
  BY <1>2 DEF Todo
<1>4. UnderWay(g)
  BY <1>2, <1>3 DEF UnderWay, Asked
<1> QED
  BY <1>2, <1>3, <1>4 DEF g

\* A step of a request that is under way.
Doable(c) == /\ c \in Client /\ PlacesOK /\ FlightOK /\ GoingOK
             /\ flight[c].op # "idle" /\ flight[c].at <= Len(Todo(flight[c]))

LEMMA DoableIs ==
  ASSUME NEW c, Doable(c)
  PROVE  LET f == flight[c]
             s == Doing(f) IN
         /\ UnderWay(f) /\ Sound(Todo(f), f.op, f.doc, f.arg)
         /\ f.at \in 1..Len(Todo(f)) /\ s = Todo(f)[f.at]
         /\ s.to \in Places /\ Owner(s.to) = f.doc
         /\ s.from \in Places /\ Owner(s.from) = f.doc
         /\ s.val \in Values /\ Result(s) \in Values
         /\ f.alone /\ f.ok => Going(f, place, secret)
<1> DEFINE f == flight[c]
           s == Doing(f)
<1>1. UnderWay(f)
  BY IdleIs DEF Doable, FlightOK
<1>2. Sound(Todo(f), f.op, f.doc, f.arg)
  BY <1>1, UnderWayIs
<1>3. f.at \in 1..Len(Todo(f)) /\ s = Todo(f)[f.at]
  BY <1>1, <1>2 DEF UnderWay, Doable, Sound, Doing
<1>4. /\ s.to \in Places /\ Owner(s.to) = f.doc
      /\ s.from \in Places /\ Owner(s.from) = f.doc
      /\ s.val \in {f.arg, Nothing}
  BY <1>2, <1>3 DEF Sound
<1>5. s.val \in Values
  BY <1>1, <1>4, NothingIs DEF UnderWay, Asked
<1>6. Result(s) \in Values
  BY <1>4, <1>5 DEF Result, Doable, PlacesOK
<1>7. f.alone /\ f.ok => Going(f, place, secret)
  BY DEF Doable, GoingOK
<1> QED
  BY <1>1, <1>2, <1>3, <1>4, <1>5, <1>6, <1>7

LEMMA FailMoves ==
  ASSUME NEW c, Doable(c), Fail(c, flight[c], Doing(flight[c]))
  PROVE  \E g : Moves(c, g)
<1> DEFINE f == flight[c]
           s == Doing(f)
           g == Goes(f, s.fail, FALSE)
<1>1. UnderWay(f) /\ s.fail \in 0..Len(Todo(f)) + 1
  BY DoableIs DEF Sound
<1>2. /\ UnderWay(g) /\ g.op = f.op /\ g.doc = f.doc /\ g.alone = f.alone
      /\ g.ok <=> f.ok /\ FALSE
  BY <1>1, GoesIs, ZenonT(60)
<1>3. flight' = [flight EXCEPT ![c] = g] /\ place' = place
  BY DEF Fail
<1> HIDE DEF g
<1>4. Moves(c, g)
  BY <1>2, <1>3 DEF Moves, Doable, PlacesOK
<1> QED
  BY <1>4

LEMMA TruncateMoves ==
  ASSUME NEW c, Doable(c), Truncate(c, flight[c], Doing(flight[c]))
  PROVE  \E g : Moves(c, g)
<1> DEFINE f == flight[c]
           s == Doing(f)
           g == [f EXCEPT !.half = TRUE]
<1>1. /\ UnderWay(f) /\ Sound(Todo(f), f.op, f.doc, f.arg)
      /\ f.at \in 1..Len(Todo(f)) /\ s = Todo(f)[f.at]
      /\ s.to \in Places /\ Owner(s.to) = f.doc
      /\ f.alone /\ f.ok => Going(f, place, secret)
  BY DoableIs
<1>2. /\ UnderWay(g)
      /\ g.op = f.op /\ g.doc = f.doc /\ g.alone = f.alone /\ g.arg = f.arg /\ g.asked = f.asked
      /\ g.at = f.at /\ g.ok = f.ok /\ Todo(g) = Todo(f)
  BY <1>1, HalfIs
<1>3. /\ flight' = [flight EXCEPT ![c] = g]
      /\ place' = [place EXCEPT ![s.to] = Torn] /\ s.kind = "write"
  BY DEF Truncate
<1> HIDE DEF g
<1>4. /\ place' \in [Places -> Values]
      /\ \A p \in Places : p # s.to => place'[p] = place[p]
  BY <1>3, NothingIs DEF Doable, PlacesOK
<1>5. f.alone /\ f.ok => Done(g, place')
  <2> SUFFICES ASSUME f.alone, f.ok, NEW j \in 1..f.at - 1, Todo(f)[j].kind # "keep"
               PROVE  place'[Todo(f)[j].to] = IF Todo(f)[j].kind = "reload"
                                              THEN place'[Todo(f)[j].from] ELSE Todo(f)[j].val
    BY <1>2 DEF Done
  <2>1. j \in 1..Len(Todo(f)) /\ j # f.at /\ j < Len(Todo(f))
    BY <1>1 DEF Sound
  <2>2. Todo(f)[j].kind # "reload" /\ Todo(f)[j].to # s.to /\ Todo(f)[j].to \in Places
    BY <1>1, <1>3, <2>1 DEF Sound
  <2>3. place[Todo(f)[j].to] = Todo(f)[j].val
    BY <1>1, <2>2 DEF Going, Done
  <2> QED
    BY <1>4, <2>2, <2>3
<1>6. f.at # 1 \/ f.op # "setSMTP"
  <2>1. f.op = "setSMTP" => Todo(f)[1].kind = "keep"
    BY DEF Todo, Program, SetSMTPConfig, Keep, Do
  <2> QED
    BY <1>1, <1>3, <2>1
<1>7. f.alone /\ f.ok => Takes(g, place', secret)
  BY <1>1, <1>2, <1>6 DEF Going, Takes
<1>8. Moves(c, g)
  BY <1>1, <1>2, <1>3, <1>4, <1>5, <1>7 DEF Moves, Going
<1> QED
  BY <1>8

LEMMA CompleteMoves ==
  ASSUME NEW c, Doable(c), Complete(c, flight[c], Doing(flight[c]))
  PROVE  \E g : Moves(c, g)
<1> DEFINE f == flight[c]
           s == Doing(f)
           g == Goes(f, f.at + 1, TRUE)
<1>1. /\ UnderWay(f) /\ Sound(Todo(f), f.op, f.doc, f.arg)
      /\ f.at \in 1..Len(Todo(f)) /\ s = Todo(f)[f.at]
      /\ s.to \in Places /\ Owner(s.to) = f.doc /\ s.from \in Places
      /\ Result(s) \in Values
      /\ f.alone /\ f.ok => Going(f, place, secret)
  BY DoableIs
<1>2. f.at + 1 \in 0..Len(Todo(f)) + 1 /\ f.at + 1 # 0 /\ f.at \in Nat /\ Len(Todo(f)) \in Nat
  BY <1>1 DEF Sound
<1>3. /\ UnderWay(g)
      /\ g.op = f.op /\ g.doc = f.doc /\ g.alone = f.alone /\ g.arg = f.arg /\ g.asked = f.asked
      /\ g.at = f.at + 1 /\ (g.ok <=> f.ok) /\ Todo(g) = Todo(f)
  <2>1. TRUE \in BOOLEAN
    OBVIOUS
  <2>2. /\ UnderWay(g)
        /\ g.op = f.op /\ g.doc = f.doc /\ g.alone = f.alone /\ g.arg = f.arg /\ g.asked = f.asked
        /\ g.at = IF f.at + 1 = 0 THEN Len(Todo(f)) + 1 ELSE f.at + 1
        /\ g.ok <=> f.ok /\ TRUE
        /\ Todo(g) = Todo(f)
    BY <1>1, <1>2, <2>1, GoesIs, ZenonT(60)
  <2> HIDE DEF g
  <2> QED
    BY <1>2, <2>2
<1>4. /\ flight' = [flight EXCEPT ![c] = g] /\ s.kind # "keep"
      /\ \/ place' = [place EXCEPT ![s.to] = Result(s)]
         \/ ~f.alone /\ place' = [place EXCEPT ![s.to] = Torn]
  BY DEF Complete
<1> HIDE DEF g
<1>5. /\ place' \in [Places -> Values]
      /\ \A p \in Places : p # s.to => place'[p] = place[p]
      /\ f.alone => place'[s.to] = Result(s)
  BY <1>1, <1>4, NothingIs DEF Doable, PlacesOK
<1>6. f.alone /\ f.ok => Done(g, place')
  <2> SUFFICES ASSUME f.alone, f.ok, NEW j \in 1..f.at, Todo(f)[j].kind # "keep"
               PROVE  place'[Todo(f)[j].to] = IF Todo(f)[j].kind = "reload"
                                              THEN place'[Todo(f)[j].from] ELSE Todo(f)[j].val
    BY <1>2, <1>3 DEF Done
  <2>1. CASE j = f.at
    <3>1. s.kind = "reload" => s.from # s.to
      BY <1>1 DEF Sound
    <3> QED
      BY <1>1, <1>5, <2>1, <3>1 DEF Result
  <2>2. CASE j # f.at
    <3>1. j \in 1..Len(Todo(f)) /\ j < Len(Todo(f)) /\ j \in 1..f.at - 1
      BY <1>1, <1>2, <2>2
    <3>2. Todo(f)[j].kind # "reload" /\ Todo(f)[j].to # s.to /\ Todo(f)[j].to \in Places
      BY <1>1, <1>4, <2>2, <3>1 DEF Sound
    <3>3. place[Todo(f)[j].to] = Todo(f)[j].val
      BY <1>1, <3>1, <3>2 DEF Going, Done
    <3> QED
      BY <1>5, <3>2, <3>3
  <2> QED
    BY <2>1, <2>2
<1>7. f.at # 1 \/ f.op # "setSMTP"
  <2>1. f.op = "setSMTP" => Todo(f)[1].kind = "keep"
    BY DEF Todo, Program, SetSMTPConfig, Keep, Do
  <2> QED
    BY <1>1, <1>4, <2>1
<1>8. ASSUME f.alone, f.ok PROVE Takes(g, place', secret)
  <2>1. f.op = "setSMTP" => f.at > 1 /\ g.at > 1 /\ g.at # 1
    BY <1>1, <1>2, <1>3, <1>7
  <2>2. Takes(f, place, secret)
    BY <1>1, <1>8 DEF Going
  <2> QED
    BY <1>3, <2>1, <2>2 DEF Takes
<1>9. Moves(c, g)
  BY <1>1, <1>3, <1>4, <1>5, <1>6, <1>8 DEF Moves, Going
<1> QED
  BY <1>9

LEMMA NamedIs ==
  ASSUME NEW f, UnderWay(f), f.op = "setSMTP", NEW pw \in Texts
  PROVE  LET g == Named(f, pw) IN
         /\ UnderWay(g)
         /\ g.op = f.op /\ g.doc = f.doc /\ g.alone = f.alone /\ g.asked = f.asked
         /\ g.arg.pw = pw /\ g.at = f.at /\ g.ok = f.ok
<1> DEFINE g == Named(f, pw)
<1>1. DOMAIN f = Fields /\ f.arg \in Values
  BY DEF UnderWay, Asked
<1>2. /\ DOMAIN g = Fields
      /\ g.op = f.op /\ g.doc = f.doc /\ g.asked = f.asked /\ g.at = f.at
      /\ g.arg = [f.arg EXCEPT !.pw = pw]
  BY <1>1 DEF Fields, Named
<1>3. g.half = f.half /\ g.alone = f.alone /\ g.ok = f.ok
  BY <1>1, Zenon DEF Fields, Named
<1> HIDE DEF g
<1>4. g.arg \in Values /\ g.arg.pw = pw /\ g.arg.text = f.arg.text /\ g.arg.user = f.arg.user
      /\ g.arg.username = f.arg.username
  BY <1>1, <1>2 DEF Values
<1>5. Asked(g)
  BY <1>2, <1>4 DEF Asked, UnderWay
<1>6. Len(Todo(g)) = 2 /\ Len(Todo(f)) = 2
  BY <1>2 DEF Todo, Program, SetSMTPConfig
<1>7. UnderWay(g)
  BY <1>2, <1>3, <1>5, <1>6 DEF UnderWay
<1> QED
  BY <1>2, <1>3, <1>4, <1>7 DEF g

LEMMA KeepMoves ==
  ASSUME NEW c, Doable(c), KeepPassword(c, flight[c], Doing(flight[c]))
  PROVE  \E g : Moves(c, g)
<1> DEFINE f == flight[c]
           s == Doing(f)
           pw == IF f.arg.pw = "" /\ Readable(s.from) THEN place[s.from].pw ELSE f.arg.pw
           n == Named(f, pw)
           g == Goes(n, f.at + 1, TRUE)
<1>1. /\ UnderWay(f) /\ Sound(Todo(f), f.op, f.doc, f.arg)
      /\ f.at \in 1..Len(Todo(f)) /\ s = Todo(f)[f.at]
      /\ s.from \in Places
      /\ f.alone /\ f.ok => Going(f, place, secret)
  BY DoableIs
<1>2. f.at = 1 /\ f.op = "setSMTP" /\ s.kind = "keep"
  BY <1>1 DEF KeepPassword, Sound
<1>3. s.from = "smtp.json"
  BY <1>1, <1>2 DEF Todo, Program, SetSMTPConfig, Keep, Do
<1>4. place[s.from] \in Values /\ f.arg \in Values
  BY <1>1 DEF Doable, PlacesOK, UnderWay, Asked
<1>5. pw \in Texts
  BY <1>4 DEF Values
<1>6. flight' = [flight EXCEPT ![c] = g] /\ place' = place
  BY DEF KeepPassword
<1>7. f.arg.pw = "" => pw = place[s.from].pw
  BY NothingIs DEF Readable
<1>8. f.arg.pw # "" => pw = f.arg.pw
  OBVIOUS
<1> HIDE DEF pw
<1>9. /\ UnderWay(n)
      /\ n.op = f.op /\ n.doc = f.doc /\ n.alone = f.alone /\ n.asked = f.asked
      /\ n.arg.pw = pw /\ n.at = f.at /\ n.ok = f.ok
  BY <1>1, <1>2, <1>5, NamedIs
<1> HIDE DEF n
<1>10. Len(Todo(n)) = 2 /\ Todo(n)[1].kind = "keep"
  BY <1>2, <1>9 DEF Todo, Program, SetSMTPConfig, Keep, Do
<1>11. /\ UnderWay(g)
       /\ g.op = f.op /\ g.doc = f.doc /\ g.alone = f.alone /\ g.arg = n.arg /\ g.asked = f.asked
       /\ g.at = 2 /\ (g.ok <=> f.ok) /\ Todo(g) = Todo(n)
  <2>1. TRUE \in BOOLEAN /\ f.at + 1 \in 0..Len(Todo(n)) + 1 /\ f.at + 1 = 2
    BY <1>2, <1>10
  <2>2. /\ UnderWay(g)
        /\ g.op = n.op /\ g.doc = n.doc /\ g.alone = n.alone /\ g.arg = n.arg /\ g.asked = n.asked
        /\ g.at = IF f.at + 1 = 0 THEN Len(Todo(n)) + 1 ELSE f.at + 1
        /\ g.ok <=> n.ok /\ TRUE
        /\ Todo(g) = Todo(n)
    BY <1>9, <2>1, GoesIs, ZenonT(60)
  <2> HIDE DEF g
  <2> QED
    BY <1>9, <2>1, <2>2
<1> HIDE DEF g
<1>12. Done(g, place)
  BY <1>10, <1>11 DEF Done
<1>13. ASSUME f.alone, f.ok PROVE Takes(g, place, secret)
  <2>1. f.arg = f.asked /\ secret \in {"?", place["smtp.json"].pw}
    BY <1>1, <1>2, <1>13 DEF Going, Takes
  <2>2. g.at > 1 /\ g.at # 1
    BY <1>11
  <2> QED
    BY <1>3, <1>7, <1>8, <1>9, <1>11, <2>1, <2>2 DEF Takes
<1>14. Moves(c, g)
  BY <1>6, <1>11, <1>12, <1>13 DEF Moves, Going, Doable, PlacesOK
<1> QED
  BY <1>14
-----------------------------------------------------------------------------
(* What is in force, as a statement about places and a password.           *)

Sane(v) == v \notin {Torn, Nothing}
Lone == {"motd", "tier", "loki", "login", "crontab"}

Shown(d, r, pl, sec) ==
  /\ d = "webhook" /\ r.arg = Nothing =>
       pl["webhook.json"] = Nothing /\ pl["webhook"] \in {Nothing, Plain(WebhookURL)}
  /\ d = "webhook" /\ r.arg # Nothing =>
       /\ pl["webhook"] = r.arg
       /\ (IF Sane(pl["webhook.json"]) THEN pl["webhook.json"] ELSE Plain(WebhookURL)) = r.arg
  /\ r.op = "putSmtp" =>
       /\ pl["mailer"] = r.arg
       /\ (IF Sane(pl["smtp.json"]) THEN [pl["smtp.json"] EXCEPT !.user = ""] ELSE Nothing) = r.arg
  /\ r.op = "deleteSmtp" =>
       /\ pl["mailer"] = Nothing
       /\ (IF Sane(pl["smtp.json"]) THEN [pl["smtp.json"] EXCEPT !.user = ""] ELSE Nothing) = Nothing
  /\ r.op = "setSMTP" => /\ [pl["smtp.json"] EXCEPT !.pw = ""] = [r.asked EXCEPT !.pw = ""]
                         /\ sec \in {"?", pl["smtp.json"].pw}
  /\ d = "cert" => pl["cert.pem"] = r.arg /\ pl["key.pem"] = r.arg
  /\ r.op \in {"settings", "restore"} =>
       pl["hostname"] = r.arg /\ pl["timezone"] = r.arg /\ pl["ntp"] = r.arg
  /\ r.op = "hostname" => pl["hostname"] = r.arg
  /\ r.op = "timezone" => pl["timezone"] = r.arg
  /\ d = "syslog" => pl["rsyslog"] = r.arg /\ pl["syslog.json"] = r.arg
  /\ d = "docker" => pl["docker"] = r.arg
  /\ d = "retention" => pl["audit-retention.json"] = r.arg
  /\ d \in Lone => pl[Program(r.op, r.arg)[1].to] = r.arg

LEMMA HoldsIs ==
  ASSUME NEW d \in Docs, Kind(settled[d].op, d)
  PROVE  Holds(d, settled[d]) <=> Shown(d, settled[d], place, secret)
<1>1. CASE d \in {"webhook", "smtp"}
  BY <1>1 DEF Kind, Holds, Shown, LoadWebhook, LoadMailer, Readable, Sane, Lone
<1>2. CASE d \in {"cert", "settings", "syslog", "docker", "retention"}
  BY <1>2 DEF Kind, Holds, Shown, Lone, Program, SetHostname, SetTimezone, Tool, Do
<1>3. CASE d \in Lone
  BY <1>3 DEF Kind, Holds, Shown, Lone
<1> QED
  BY <1>1, <1>2, <1>3 DEF Docs, Lone

LEMMA HoldsIsNext ==
  ASSUME NEW d \in Docs, Kind(settled'[d].op, d)
  PROVE  Holds(d, settled[d])' <=> Shown(d, settled'[d], place', secret')
<1>1. CASE d \in {"webhook", "smtp"}
  BY <1>1 DEF Kind, Holds, Shown, LoadWebhook, LoadMailer, Readable, Sane, Lone
<1>2. CASE d \in {"cert", "settings", "syslog", "docker", "retention"}
  BY <1>2 DEF Kind, Holds, Shown, Lone, Program, SetHostname, SetTimezone, Tool, Do
<1>3. CASE d \in Lone
  BY <1>3 DEF Kind, Holds, Shown, Lone
<1> QED
  BY <1>1, <1>2, <1>3 DEF Docs, Lone

\* It is about the places of the document only.
LEMMA ShownSame ==
  ASSUME NEW d \in Docs, NEW r, Kind(r.op, d), NEW pl, NEW pm, NEW s, NEW t,
         \A p \in Places : Owner(p) = d => pm[p] = pl[p],
         d = "smtp" => s = t,
         Shown(d, r, pl, s)
  PROVE  Shown(d, r, pm, t)
<1>1. CASE d = "webhook"
  <2>1. pm["webhook"] = pl["webhook"] /\ pm["webhook.json"] = pl["webhook.json"]
    BY <1>1 DEF Places, Owner
  <2> QED
    BY <1>1, <2>1 DEF Kind, Shown, Lone
<1>2. CASE d = "smtp"
  <2>1. pm["mailer"] = pl["mailer"] /\ pm["smtp.json"] = pl["smtp.json"] /\ s = t
    BY <1>2 DEF Places, Owner
  <2> QED
    BY <1>2, <2>1 DEF Kind, Shown, Lone
<1>3. CASE d \in {"cert", "settings", "syslog", "docker", "retention"}
  BY <1>3 DEF Kind, Shown, Lone, Places, Owner
<1>4. CASE d \in Lone
  <2>1. Program(r.op, r.arg)[1].to \in Places /\ Owner(Program(r.op, r.arg)[1].to) = d
    BY ProgramSound DEF Sound
  <2> QED
    BY <1>4, <2>1 DEF Kind, Shown, Lone
<1> QED
  BY <1>1, <1>2, <1>3, <1>4 DEF Docs, Lone
-----------------------------------------------------------------------------
(* The actions keep the invariant.                                         *)

\* The webhook of the command line.
LEMMA FallbackIs == Plain(WebhookURL) \in Values
<1>1. WebhookURL \in Text \cup {"nothing"}
  BY HostAssumption
<1> QED
  BY <1>1 DEF Plain, Value, Values, Texts

LEMMA Init_Inv == ASSUME HostInit PROVE HostInv
<1>1. PlacesOK
  BY NothingIs, FallbackIs DEF HostInit, PlacesOK
<1>2. FlightOK /\ AloneOK /\ GoingOK
  BY IdleIs DEF HostInit, FlightOK, AloneOK, GoingOK
<1>3. SettledOK /\ InForce
  BY IdleIs DEF HostInit, SettledOK, InForce
<1>4. SecretOK
  BY NothingIs DEF HostInit, SecretOK, Places
<1>5. requests \in 0..MaxRequests
  <2>1. MaxRequests \in Nat
    BY HostAssumption
  <2>2. requests = 0
    BY DEF HostInit
  <2> QED
    BY <2>1, <2>2
<1> QED
  BY <1>1, <1>2, <1>3, <1>4, <1>5 DEF HostInv

\* What is in force stays so when the places, the password and the list of the
\* requests that ended do not change, and no document is left.
LEMMA InForceSame ==
  ASSUME HostInv, SettledOK', UNCHANGED settled,
         \A d \in Docs : Free(d)' => Free(d) /\ (\A p \in Places : Owner(p) = d => place'[p] = place[p])
                                     /\ (d = "smtp" => secret' = secret)
  PROVE  InForce'
<1> SUFFICES ASSUME NEW d \in Docs, settled'[d].op # "idle", Free(d)'
             PROVE  Holds(d, settled[d])'
  BY DEF InForce, Free
<1>1. settled'[d] = settled[d] /\ Kind(settled[d].op, d)
  BY DEF HostInv, SettledOK
<1>2. Shown(d, settled[d], place, secret)
  BY <1>1, HoldsIs DEF HostInv, InForce, Free
<1>3. Shown(d, settled[d], place', secret')
  BY <1>1, <1>2, ShownSame
<1> QED
  BY <1>1, <1>3, HoldsIsNext

LEMMA Step_Inv ==
  ASSUME HostInv, NEW c \in Client, Step(c)
  PROVE  HostInv'
<1>1. Doable(c) /\ UNCHANGED <<settled, secret, requests>>
  BY DEF Step, Doable, HostInv
<1>2. PICK g : Moves(c, g)
  BY <1>1, FailMoves, TruncateMoves, CompleteMoves, KeepMoves DEF Step
<1>3. UnderWay(flight[c]) /\ g.op # "idle" /\ flight[c].op # "idle"
  BY <1>1, <1>2, DoableIs, UnderWayIs DEF Moves
<1>4. /\ flight'[c] = g
      /\ \A o \in Client : o # c => flight'[o] = flight[o]
      /\ \A o \in Client : flight'[o].doc = flight[o].doc
      /\ DOMAIN flight' = Client
  BY <1>2 DEF Moves, HostInv, FlightOK
<1>5. FlightOK'
  BY <1>2, <1>4 DEF HostInv, FlightOK, Moves
<1>6. PlacesOK'
  BY <1>2 DEF Moves, PlacesOK
<1>7. AloneOK'
  BY <1>2, <1>3, <1>4 DEF HostInv, AloneOK, Moves
<1>8. GoingOK'
  <2> SUFFICES ASSUME NEW o \in Client, flight'[o].op # "idle", flight'[o].alone, flight'[o].ok
               PROVE  Going(flight'[o], place', secret')
    BY DEF GoingOK
  <2>1. CASE o = c
    BY <1>1, <1>2, <1>4, <2>1 DEF Moves
  <2>2. CASE o # c
    <3>1. flight'[o] = flight[o] /\ Going(flight[o], place, secret) /\ UnderWay(flight[o])
      BY <1>4, <2>2, IdleIs DEF HostInv, GoingOK, FlightOK
    <3>2. flight[o].doc # g.doc
      BY <1>2, <2>2, <3>1 DEF HostInv, AloneOK, Moves
    <3>3. \A p \in Places : Owner(p) = flight[o].doc => place'[p] = place[p]
      BY <1>2, <3>2 DEF Moves
    <3> QED
      BY <1>1, <3>1, <3>3, GoingSame
  <2> QED
    BY <2>1, <2>2
<1>9. SettledOK'
  BY <1>1 DEF HostInv, SettledOK
<1>10. ASSUME NEW d \in Docs, Free(d)'
       PROVE  Free(d) /\ \A p \in Places : Owner(p) = d => place'[p] = place[p]
  <2>1. Free(d)
    BY <1>4, <1>10 DEF Free
  <2>2. g.doc # d
    BY <1>4, <1>10 DEF Free
  <2> QED
    BY <1>2, <2>1, <2>2 DEF Moves
<1>11. InForce'
  BY <1>1, <1>9, <1>10, InForceSame
<1>12. SecretOK'
  <2>1. "smtp" \in Docs /\ "smtp.json" \in Places /\ Owner("smtp.json") = "smtp"
    BY DEF Docs, Places, Owner
  <2> QED
    BY <1>1, <1>10, <2>1 DEF HostInv, SecretOK
<1> QED
  BY <1>1, <1>5, <1>6, <1>7, <1>8, <1>9, <1>11, <1>12 DEF HostInv

\* A request as it begins.
Fresh(op, doc, v, alone) ==
  [Idle EXCEPT !.op = op, !.doc = doc, !.arg = v, !.asked = v, !.at = 1, !.alone = alone]

\* The arguments that a handler lets a request begin with.
Fit(op, doc, v) ==
  /\ Kind(op, doc) /\ v \in Values
  /\ op = "putWebhook" => v = Nothing \/ v.text \in Text
  /\ op = "putSmtp" => v.text \in Text /\ v.user = ""
  /\ op \in {"deleteWebhook", "deleteSmtp"} => v = Nothing

LEMMA FirstStep == \A n \in 1..5 : 1 \in 1..n + 1
OBVIOUS

LEMMA FreshIs ==
  ASSUME NEW op, NEW doc, NEW v, Fit(op, doc, v), NEW alone \in BOOLEAN
  PROVE  LET g == Fresh(op, doc, v, alone) IN
         /\ UnderWay(g)
         /\ g.op = op /\ g.doc = doc /\ g.arg = v /\ g.asked = v /\ g.at = 1 /\ g.alone = alone
<1> DEFINE g == Fresh(op, doc, v, alone)
<1>1. /\ DOMAIN g = Fields
      /\ g.op = op /\ g.doc = doc /\ g.arg = v /\ g.asked = v /\ g.at = 1
  BY DEF Fresh, Idle, Fields
<1>2. g.half = FALSE /\ g.ok = TRUE /\ g.alone = alone
  BY Zenon DEF Fresh, Idle
<1> HIDE DEF g
<1>3. Len(Todo(g)) \in 1..5
  BY <1>1, ProgramSound DEF Todo, Sound, Fit
<1>4. Asked(g)
  BY <1>1 DEF Asked, Fit
<1>5. UnderWay(g)
  <2>1. g.at \in 1..Len(Todo(g)) + 1
    BY <1>1, <1>3, FirstStep, Zenon
  <2>2. g.half \in BOOLEAN /\ g.ok \in BOOLEAN /\ g.alone \in BOOLEAN
    <3>1. g.alone \in BOOLEAN
      BY <1>2
    <3>2. g.half \in BOOLEAN /\ g.ok \in BOOLEAN
      BY <1>2
    <3> QED
      BY <3>1, <3>2
  <2>3. Kind(g.op, g.doc)
    BY <1>1 DEF Fit
  <2> QED
    BY <1>1, <1>4, <2>1, <2>2, <2>3, Zenon DEF UnderWay
<1> QED
  BY <1>1, <1>2, <1>5, Zenon DEF g

LEMMA NotAloneIs ==
  ASSUME NEW f, UnderWay(f)
  PROVE  LET g == [f EXCEPT !.alone = FALSE] IN
         UnderWay(g) /\ g.op = f.op /\ g.doc = f.doc /\ ~g.alone
<1> DEFINE g == [f EXCEPT !.alone = FALSE]
<1>1. DOMAIN f = Fields
  BY DEF UnderWay
<1>2. /\ DOMAIN g = Fields
      /\ g.op = f.op /\ g.doc = f.doc /\ g.arg = f.arg /\ g.asked = f.asked /\ g.at = f.at
      /\ g.alone = FALSE /\ g.ok = f.ok /\ g.half = f.half
  BY <1>1, Zenon DEF Fields
<1> HIDE DEF g
<1>3. Todo(g) = Todo(f)
  BY <1>2 DEF Todo
<1>4. UnderWay(g)
  BY <1>2, <1>3 DEF UnderWay, Asked
<1> QED
  BY <1>2, <1>4 DEF g

LEMMA Begin_Inv ==
  ASSUME HostInv, NEW c \in Client, NEW op, NEW doc, NEW v, Fit(op, doc, v), Begin(c, op, doc, v)
  PROVE  HostInv'
<1> DEFINE others == {o \in Client \ {c} : flight[o].doc = doc}
           solo == others = {}
           g == Fresh(op, doc, v, solo)
<1>1. /\ flight[c] = Idle /\ requests < MaxRequests /\ requests' = requests + 1
      /\ flight' = [o \in Client |-> IF o = c THEN g
                       ELSE IF o \in others THEN [flight[o] EXCEPT !.alone = FALSE] ELSE flight[o]]
      /\ place' = place /\ settled' = settled /\ secret' = secret
  BY DEF Begin, Fresh
<1>2. /\ UnderWay(g) /\ g.op = op /\ g.doc = doc /\ g.arg = v /\ g.asked = v /\ g.at = 1
      /\ g.alone = solo
  <2>1. solo \in BOOLEAN
    OBVIOUS
  <2> HIDE DEF solo
  <2> QED
    BY <2>1, FreshIs
<1> HIDE DEF g
<1>3. doc \in Docs /\ g.op # "idle"
  BY <1>2, UnderWayIs
<1>4. flight'[c] = g /\ DOMAIN flight' = Client
  BY <1>1
<1>5. ASSUME NEW o \in Client, o # c, flight[o].doc = doc
      PROVE  UnderWay(flight'[o]) /\ flight'[o].doc = doc /\ ~flight'[o].alone
  <2>1. UnderWay(flight[o])
    BY <1>3, <1>5, IdleIs DEF HostInv, FlightOK
  <2>2. flight'[o] = [flight[o] EXCEPT !.alone = FALSE]
    BY <1>1, <1>5
  <2> QED
    BY <1>5, <2>1, <2>2, NotAloneIs
<1>6. ASSUME NEW o \in Client, o # c, flight[o].doc # doc
      PROVE  flight'[o] = flight[o]
  BY <1>1, <1>6
<1>7. \A o \in Client : o # c => flight'[o].doc = flight[o].doc
  BY <1>5, <1>6
<1>8. g.alone => \A o \in Client : o # c => flight[o].doc # doc
  BY <1>2
<1> HIDE DEF others
<1>9. FlightOK'
  BY <1>2, <1>4, <1>5, <1>6 DEF HostInv, FlightOK
<1>10. PlacesOK' /\ SettledOK' /\ requests' \in 0..MaxRequests
  <2>1. MaxRequests \in Nat
    BY HostAssumption
  <2>2. requests' \in 0..MaxRequests
    BY <1>1, <2>1 DEF HostInv
  <2> QED
    BY <1>1, <2>2 DEF HostInv, PlacesOK, SettledOK
<1>11. AloneOK'
  <2> SUFFICES ASSUME NEW a \in Client, NEW b \in Client, a # b, flight'[a].op # "idle", flight'[a].alone
               PROVE  flight'[b].doc # flight'[a].doc
    BY DEF AloneOK
  <2>1. CASE a = c
    BY <1>2, <1>4, <1>7, <1>8, <2>1
  <2>2. CASE a # c
    <3>1. flight[a].doc # doc /\ flight'[a] = flight[a]
      BY <1>5, <1>6, <2>2
    <3>2. CASE b = c
      BY <1>2, <1>4, <3>1, <3>2
    <3>3. CASE b # c
      BY <1>7, <3>1, <3>3 DEF HostInv, AloneOK
    <3> QED
      BY <3>2, <3>3
  <2> QED
    BY <2>1, <2>2
<1>12. \A d \in Docs : Free(d)' => Free(d) /\ d # doc
  BY <1>1, <1>2, <1>4, <1>7, IdleIs DEF Free
<1>13. InForce'
  BY <1>1, <1>10, <1>12, InForceSame
<1>14. SecretOK'
  <2>1. "smtp" \in Docs
    BY DEF Docs
  <2> QED
    BY <1>1, <1>12, <2>1 DEF HostInv, SecretOK
<1>15. GoingOK'
  <2> SUFFICES ASSUME NEW o \in Client, flight'[o].op # "idle", flight'[o].alone, flight'[o].ok
               PROVE  Going(flight'[o], place', secret')
    BY DEF GoingOK
  <2>1. CASE o = c
    <3>1. Done(g, place')
      BY <1>2 DEF Done
    <3>2. op = "setSMTP" => secret \in {"?", place["smtp.json"].pw}
      <4>1. op = "setSMTP" => doc = "smtp"
        BY DEF Fit, Kind
      <4>2. op = "setSMTP" => Free("smtp")
        BY <1>1, <1>4, <1>8, <2>1, <4>1, IdleIs DEF Free
      <4> QED
        BY <4>2 DEF HostInv, SecretOK
    <3>3. Takes(g, place', secret')
      BY <1>1, <1>2, <3>2 DEF Takes
    <3> QED
      BY <1>4, <2>1, <3>1, <3>3 DEF Going
  <2>2. CASE o # c
    <3>1. flight'[o] = flight[o]
      BY <1>5, <1>6, <2>2
    <3> QED
      BY <1>1, <3>1 DEF HostInv, GoingOK
  <2> QED
    BY <2>1, <2>2
<1> QED
  BY <1>9, <1>10, <1>11, <1>13, <1>14, <1>15 DEF HostInv

\* The handlers let nothing else begin.
LEMMA Handler_Inv ==
  ASSUME HostInv, NEW t \in Text, HandlerNext(Docs, t)
  PROVE  HostInv'
<1>1. Plain(t) \in Values /\ Plain(t).text = t /\ Plain(t).user = ""
  BY DEF Plain, Value, Values, Texts
<1>2. \A pw \in {"", t} :
        /\ Value(t, "", t, pw) \in Values /\ Value(t, t, "", pw) \in Values
        /\ Value(t, "", t, pw).text = t /\ Value(t, "", t, pw).user = ""
  BY DEF Value, Values, Texts
<1>3. PICK c \in Client : \E op, doc, v : Fit(op, doc, v) /\ Begin(c, op, doc, v)
  <2>1. PICK c \in Client :
          \/ \E w \in {Nothing, Plain(t)} : putWebhookConfigHandler(c, w)
          \/ deleteWebhookConfigHandler(c) \/ deleteSmtpConfigHandler(c)
          \/ \E pw \in {"", t} : putSmtpConfigHandler(c, Value(t, "", t, pw))
                                \/ setSMTPHandler(c, Value(t, t, "", pw))
          \/ uploadServerCertHandler(c, Plain(t)) \/ generateServerCertHandler(c, Plain(t))
          \/ applySettingsHandler(c, Plain(t)) \/ restoreHandler(c, Plain(t))
          \/ setHostnameHandler(c, Plain(t)) \/ setTimezoneHandler(c, Plain(t))
          \/ \E w \in {Nothing, Plain(t)} : setSyslogForwardingHandler(c, w)
          \/ setDockerDaemonConfigHandler(c, Plain(t)) \/ setMOTDHandler(c, Plain(t))
          \/ setStorageTierPolicyHandler(c, Plain(t))
          \/ setLokiConfigHandler(c, Plain(t)) \/ setLoginCustomizationHandler(c, Plain(t))
          \/ setCronTabHandler(c, Plain(t)) \/ setAuditRetentionHandler(c, Plain(t))
    BY DEF HandlerNext
  <2>2. /\ \A w \in {Nothing, Plain(t)} : Fit("putWebhook", "webhook", w)
        /\ Fit("deleteWebhook", "webhook", Nothing)
    BY <1>1, NothingIs DEF Fit, Kind
  <2>3. /\ Fit("deleteSmtp", "smtp", Nothing)
        /\ \A pw \in {"", t} : Fit("putSmtp", "smtp", Value(t, "", t, pw)) /\ Fit("setSMTP", "smtp", Value(t, t, "", pw))
    BY <1>2, NothingIs DEF Fit, Kind
  <2>4. Fit("uploadCert", "cert", Plain(t)) /\ Fit("generateCert", "cert", Plain(t))
    BY <1>1 DEF Fit, Kind
  <2>5. \A op \in {"settings", "restore", "hostname", "timezone"} : Fit(op, "settings", Plain(t))
    BY <1>1 DEF Fit, Kind
  <2>6. \A w \in {Nothing, Plain(t)} : Fit("syslog", "syslog", w)
    BY <1>1, NothingIs DEF Fit, Kind
  <2>7. \A d \in {"docker", "motd", "tier", "loki", "login", "crontab", "retention"} :
          Fit(d, d, Plain(t))
    BY <1>1 DEF Fit, Kind
  <2>8. CASE \/ \E w \in {Nothing, Plain(t)} : putWebhookConfigHandler(c, w)
             \/ deleteWebhookConfigHandler(c) \/ deleteSmtpConfigHandler(c)
             \/ \E pw \in {"", t} : putSmtpConfigHandler(c, Value(t, "", t, pw))
                                   \/ setSMTPHandler(c, Value(t, t, "", pw))
    BY <2>2, <2>3, <2>8, Zenon DEF putWebhookConfigHandler, deleteWebhookConfigHandler,
       deleteSmtpConfigHandler, putSmtpConfigHandler, setSMTPHandler
  <2>9. CASE \/ uploadServerCertHandler(c, Plain(t)) \/ generateServerCertHandler(c, Plain(t))
             \/ applySettingsHandler(c, Plain(t)) \/ restoreHandler(c, Plain(t))
             \/ setHostnameHandler(c, Plain(t)) \/ setTimezoneHandler(c, Plain(t))
             \/ \E w \in {Nothing, Plain(t)} : setSyslogForwardingHandler(c, w)
    BY <2>4, <2>5, <2>6, <2>9, Zenon DEF uploadServerCertHandler, generateServerCertHandler,
       applySettingsHandler, restoreHandler, setHostnameHandler, setTimezoneHandler, setSyslogForwardingHandler
  <2>10. CASE \/ setDockerDaemonConfigHandler(c, Plain(t)) \/ setMOTDHandler(c, Plain(t))
              \/ setStorageTierPolicyHandler(c, Plain(t))
              \/ setLokiConfigHandler(c, Plain(t)) \/ setLoginCustomizationHandler(c, Plain(t))
              \/ setCronTabHandler(c, Plain(t)) \/ setAuditRetentionHandler(c, Plain(t))
    BY <2>7, <2>10, Zenon DEF setDockerDaemonConfigHandler, setMOTDHandler,
       setStorageTierPolicyHandler, setLokiConfigHandler, setLoginCustomizationHandler,
       setCronTabHandler, setAuditRetentionHandler
  <2> QED
    BY <2>1, <2>8, <2>9, <2>10
<1> QED
  BY <1>3, Begin_Inv

\* The password in force after a mail request.
Left(f, sec) == IF f.op = "setSMTP" /\ f.asked.pw = "" THEN sec ELSE f.asked.pw

LEMMA SaneIs ==
  ASSUME NEW v, v.text \in Text
  PROVE  Sane(v)
<1>1. "torn" \notin Text /\ "nothing" \notin Text
  BY HostAssumption
<1>2. Torn.text = "torn" /\ Nothing.text = "nothing"
  BY DEF Torn, Nothing, Plain, Value
<1> QED
  BY <1>1, <1>2 DEF Sane

\* A request that ran alone and without a failure leaves what it asked for.
LEMMA EndShown ==
  ASSUME NEW f, UnderWay(f), f.at > Len(Todo(f)), NEW pl \in [Places -> Values], NEW sec,
         Going(f, pl, sec),
         NEW r, r.op = f.op, r.arg = f.arg, r.asked = f.asked,
         NEW s, f.doc = "smtp" => s = Left(f, sec)
  PROVE  Shown(f.doc, r, pl, s) /\ (f.doc = "smtp" => s \in {"?", pl["smtp.json"].pw})
<1> DEFINE P == Todo(f)
<1>1. f.at = Len(P) + 1 /\ Len(P) \in Nat
  BY UnderWayIs DEF UnderWay, Sound
<1>2. \A j \in 1..Len(P) :
        P[j].kind # "keep" => pl[P[j].to] = IF P[j].kind = "reload" THEN pl[P[j].from] ELSE P[j].val
  BY <1>1 DEF Going, Done
<1>3. Asked(f) /\ Kind(f.op, f.doc)
  BY DEF UnderWay
<1> USE DEF Do, Write, Remove, Store, Tool, Reload, Keep
<1>4. CASE f.doc = "webhook"
  <2>1. \A v : v.text \in Text => Sane(v)
    BY SaneIs
  <2>2. CASE f.op = "putWebhook"
    <3>1. P = <<Store("webhook", f.arg), Write("webhook.json", f.arg, 0)>>
      BY <2>2 DEF Todo, Program, PutWebhook
    <3>2. pl["webhook"] = f.arg /\ pl["webhook.json"] = f.arg
      BY <1>2, <3>1
    <3>3. CASE f.arg = Nothing
      BY <1>4, <2>2, <3>2, <3>3 DEF Shown, Lone
    <3>4. CASE f.arg # Nothing
      <4>1. Sane(f.arg)
        BY <1>3, <2>1, <2>2, <3>4 DEF Asked
      <4> QED
        BY <1>4, <2>2, <3>2, <3>4, <4>1 DEF Shown, Lone
    <3> QED
      BY <3>3, <3>4
  <2>3. CASE f.op = "deleteWebhook"
    <3>1. P = <<Store("webhook", Nothing), Remove("webhook.json", 0)>>
      BY <2>3 DEF Todo, Program, DropWebhook
    <3>2. pl["webhook"] = Nothing /\ pl["webhook.json"] = Nothing
      BY <1>2, <3>1
    <3>3. f.arg = Nothing
      BY <1>3, <2>3 DEF Asked
    <3> QED
      BY <1>4, <2>3, <3>2, <3>3 DEF Shown, Lone
  <2> QED
    BY <1>3, <1>4, <2>2, <2>3 DEF Kind
<1>5. CASE f.doc = "smtp"
  <2>1. \A v : v.text \in Text => Sane(v)
    BY SaneIs
  <2>2. CASE f.op = "putSmtp"
    <3>1. P = <<Write("smtp.json", f.arg, 0), Store("mailer", f.arg)>>
      BY <2>2 DEF Todo, Program, PutMail
    <3>2. pl["smtp.json"] = f.arg /\ pl["mailer"] = f.arg
      BY <1>2, <3>1
    <3>3. Sane(f.arg) /\ [f.arg EXCEPT !.user = ""] = f.arg
      BY <1>3, <2>1, <2>2 DEF Asked, Values
    <3>4. s = f.arg.pw
      BY <1>3, <1>5, <2>2 DEF Left, Asked
    <3> QED
      BY <1>5, <2>2, <3>2, <3>3, <3>4 DEF Shown, Lone
  <2>3. CASE f.op = "deleteSmtp"
    <3>1. P = <<Remove("smtp.json", 2), Store("mailer", Nothing)>>
      BY <2>3 DEF Todo, Program, DropMail
    <3>2. pl["smtp.json"] = Nothing /\ pl["mailer"] = Nothing
      BY <1>2, <3>1
    <3>3. s = ""
      BY <1>3, <1>5, <2>3, NothingIs DEF Left, Asked
    <3> QED
      BY <1>5, <2>3, <3>2, <3>3, NothingIs DEF Shown, Lone, Sane
  <2>4. CASE f.op = "setSMTP"
    <3>1. P = <<Keep("smtp.json"), Write("smtp.json", f.arg, 0)>>
      BY <2>4 DEF Todo, Program, SetSMTPConfig
    <3>2. pl["smtp.json"] = f.arg
      BY <1>2, <3>1
    <3>3. f.at > 1
      BY <1>1, <3>1
    <3>4. s \in {"?", f.arg.pw}
      BY <1>5, <2>4, <3>3 DEF Going, Takes, Left
    <3>5. [f.arg EXCEPT !.pw = ""] = [f.asked EXCEPT !.pw = ""]
      BY <1>3 DEF Asked, Values
    <3> QED
      BY <1>5, <2>4, <3>2, <3>4, <3>5 DEF Shown, Lone
  <2> QED
    BY <1>3, <1>5, <2>2, <2>3, <2>4 DEF Kind
<1>6. CASE f.doc \in {"cert", "settings"}
  <2>1. CASE f.op = "uploadCert"
    <3>1. P = <<Write("cert.pem", f.arg, 0), Write("key.pem", f.arg, 0)>>
      BY <2>1 DEF Todo, Program, UploadServerCertificate
    <3>2. pl["cert.pem"] = f.arg /\ pl["key.pem"] = f.arg
      BY <1>2, <3>1
    <3> QED
      BY <1>3, <2>1, <3>2 DEF Shown, Lone, Kind
  <2>2. CASE f.op = "generateCert"
    <3>1. P = <<Write("cert.pem", f.arg, 2), Write("key.pem", f.arg, 3)>>
      BY <2>2 DEF Todo, Program, GenerateServerCertificate
    <3>2. pl["cert.pem"] = f.arg /\ pl["key.pem"] = f.arg
      BY <1>2, <3>1
    <3> QED
      BY <1>3, <2>2, <3>2 DEF Shown, Lone, Kind
  <2>3. CASE f.op = "settings"
    <3>1. P = <<Tool("hostname", f.arg, 0), Tool("timezone", f.arg, 0), Tool("ntp", f.arg, 0)>>
      BY <2>3 DEF Todo, Program, ApplySettings
    <3>2. pl["hostname"] = f.arg /\ pl["timezone"] = f.arg /\ pl["ntp"] = f.arg
      BY <1>2, <3>1
    <3> QED
      BY <1>3, <2>3, <3>2 DEF Shown, Lone, Kind
  <2>4. CASE f.op = "restore"
    <3>1. P = <<Tool("hostname", f.arg, 4), Tool("timezone", f.arg, 4), Tool("ntp", f.arg, 4),
                Tool("share1", f.arg, 5), Tool("share2", f.arg, 6)>>
      BY <2>4 DEF Todo, Program, RestoreAll
    <3>2. pl["hostname"] = f.arg /\ pl["timezone"] = f.arg /\ pl["ntp"] = f.arg
      BY <1>2, <3>1
    <3> QED
      BY <1>3, <2>4, <3>2 DEF Shown, Lone, Kind
  <2>5. CASE f.op \in {"hostname", "timezone"}
    <3>1. P = <<Tool(f.op, f.arg, 0)>>
      BY <2>5 DEF Todo, Program, SetHostname, SetTimezone
    <3>2. pl[f.op] = f.arg
      BY <1>2, <3>1
    <3> QED
      BY <1>3, <2>5, <3>2 DEF Shown, Lone, Kind
  <2> QED
    BY <1>3, <1>6, <2>1, <2>2, <2>3, <2>4, <2>5 DEF Kind
<1>7. CASE f.doc = "syslog"
  <2>1. f.op = "syslog" /\ P = <<Write("syslog.json", f.arg, 2),
              IF f.arg = Nothing THEN Remove("90-kilasos.conf", 3) ELSE Write("90-kilasos.conf", f.arg, 3),
              Reload("rsyslog", "90-kilasos.conf")>>
    BY <1>3, <1>7 DEF Todo, Program, SetSyslogForwarding, Kind
  <2>2. pl["syslog.json"] = f.arg /\ pl["90-kilasos.conf"] = f.arg /\ pl["rsyslog"] = pl["90-kilasos.conf"]
    BY <1>2, <2>1
  <2> QED
    BY <1>7, <2>1, <2>2 DEF Shown, Lone
<1>8. CASE f.doc = "docker"
  <2>1. f.op = "docker" /\ P = <<Write("daemon.json", f.arg, 0), Reload("docker", "daemon.json")>>
    BY <1>3, <1>8 DEF Todo, Program, SetDockerDaemonConfig, Kind
  <2>2. pl["docker"] = f.arg
    BY <1>2, <2>1
  <2> QED
    BY <1>8, <2>1, <2>2 DEF Shown, Lone
<1>9. CASE f.doc = "retention"
  <2>1. f.op = "retention" /\ P = <<Write("audit-retention.json", f.arg, 0), Store("retention", f.arg)>>
    BY <1>3, <1>9 DEF Todo, Program, SetAuditRetentionPolicy, Kind
  <2>2. pl["audit-retention.json"] = f.arg
    BY <1>2, <2>1
  <2> QED
    BY <1>9, <2>1, <2>2 DEF Shown, Lone
<1>10. CASE f.doc \in Lone
  <2>1. f.op = f.doc
    BY <1>3, <1>10 DEF Kind, Lone
  <2>2. Len(P) >= 1 /\ P[1].kind \in {"write", "tool"} /\ P[1].val = f.arg
    <3>1. CASE f.op = "motd"
      BY <3>1 DEF Todo, Program, SetMOTD
    <3>2. CASE f.op = "tier"
      BY <3>2 DEF Todo, Program, SetStorageTierPolicy
    <3>3. CASE f.op = "loki"
      BY <3>3 DEF Todo, Program, SetLokiConfig
    <3>4. CASE f.op = "login"
      BY <3>4 DEF Todo, Program, SetLoginCustomization
    <3>5. CASE f.op = "crontab"
      BY <3>5 DEF Todo, Program, SetCronTab
    <3> QED
      BY <1>10, <2>1, <3>1, <3>2, <3>3, <3>4, <3>5 DEF Lone
  <2>3. pl[P[1].to] = f.arg
    BY <1>1, <1>2, <2>2
  <2>4. P = Program(r.op, r.arg)
    BY DEF Todo
  <2> QED
    BY <1>10, <2>1, <2>3, <2>4 DEF Shown, Lone
<1> QED
  BY <1>3, <1>4, <1>5, <1>6, <1>7, <1>8, <1>9, <1>10 DEF Kind, Lone

LEMMA Answer_Inv ==
  ASSUME HostInv, NEW c \in Client, Answer(c)
  PROVE  HostInv'
<1> DEFINE f == flight[c]
           good == f.alone /\ f.ok
           r == [f EXCEPT !.at = 0]
<1>1. /\ f.op # "idle" /\ f.at > Len(Todo(f))
      /\ settled' = [settled EXCEPT ![f.doc] = IF good THEN r ELSE Idle]
      /\ flight' = [flight EXCEPT ![c] = Idle]
      /\ secret' = IF f.doc # "smtp" THEN secret ELSE IF ~good THEN "?" ELSE Left(f, secret)
      /\ place' = place /\ requests' = requests
  BY DEF Answer, Left
<1>2. UnderWay(f) /\ f.doc \in Docs
  BY <1>1, IdleIs, UnderWayIs DEF HostInv, FlightOK
<1>3. r.op = f.op /\ r.arg = f.arg /\ r.asked = f.asked
  BY <1>2 DEF UnderWay, Fields
<1> HIDE DEF r
<1>4. /\ DOMAIN flight' = Client /\ flight'[c] = Idle
      /\ \A o \in Client : o # c => flight'[o] = flight[o]
  BY <1>1 DEF HostInv, FlightOK
<1>5. /\ DOMAIN settled' = Docs
      /\ settled'[f.doc] = IF good THEN r ELSE Idle
      /\ \A d \in Docs : d # f.doc => settled'[d] = settled[d]
  BY <1>1, <1>2 DEF HostInv, SettledOK
<1>6. FlightOK' /\ AloneOK'
  BY <1>4, IdleIs DEF HostInv, FlightOK, AloneOK, UnderWay, Kind
<1>7. SettledOK'
  BY <1>2, <1>3, <1>5, IdleIs DEF HostInv, SettledOK, UnderWay
<1>8. PlacesOK' /\ requests' \in 0..MaxRequests
  BY <1>1 DEF HostInv, PlacesOK
<1>9. GoingOK'
  <2> SUFFICES ASSUME NEW o \in Client, flight'[o].op # "idle", flight'[o].alone, flight'[o].ok
               PROVE  Going(flight'[o], place', secret')
    BY DEF GoingOK
  <2>1. o # c /\ flight'[o] = flight[o]
    BY <1>4, IdleIs
  <2>2. Going(flight[o], place, secret) /\ flight[o].doc # f.doc /\ UnderWay(flight[o])
    BY <2>1, IdleIs DEF HostInv, GoingOK, AloneOK, FlightOK
  <2>3. flight[o].op = "setSMTP" => flight[o].doc = "smtp"
    BY <2>2 DEF UnderWay, Kind
  <2>4. flight[o].op = "setSMTP" => secret' = secret
    BY <1>1, <2>2, <2>3
  <2> QED
    BY <1>1, <2>1, <2>2, <2>4 DEF Going, Takes
<1>10. good => Shown(f.doc, r, place, secret') /\ (f.doc = "smtp" => secret' \in {"?", place["smtp.json"].pw})
  <2> SUFFICES ASSUME f.alone, f.ok
               PROVE  Shown(f.doc, r, place, secret') /\ (f.doc = "smtp" => secret' \in {"?", place["smtp.json"].pw})
    OBVIOUS
  <2>1. Going(f, place, secret) /\ place \in [Places -> Values]
    BY <1>1 DEF HostInv, GoingOK, PlacesOK
  <2>2. f.doc = "smtp" => secret' = Left(f, secret)
    BY <1>1
  <2> QED
    BY <1>1, <1>2, <1>3, <2>1, <2>2, EndShown
<1>11. InForce'
  <2> SUFFICES ASSUME NEW d \in Docs, settled'[d].op # "idle", Free(d)'
               PROVE  Holds(d, settled[d])'
    BY DEF InForce, Free
  <2>1. CASE d = f.doc
    <3>1. good /\ settled'[d] = r /\ Kind(r.op, d)
      BY <1>2, <1>3, <1>5, <2>1, IdleIs DEF UnderWay
    <3>2. Shown(d, settled'[d], place', secret')
      BY <1>1, <1>10, <2>1, <3>1
    <3> QED
      BY <3>1, <3>2, HoldsIsNext
  <2>2. CASE d # f.doc
    <3>1. settled'[d] = settled[d] /\ Kind(settled[d].op, d) /\ Free(d)
      BY <1>4, <1>5, <2>2 DEF HostInv, SettledOK, Free
    <3>2. Shown(d, settled[d], place, secret)
      BY <3>1, HoldsIs DEF HostInv, InForce, Free
    <3>3. d = "smtp" => secret' = secret
      BY <1>1, <2>2
    <3>4. Shown(d, settled[d], place, secret')
      BY <3>1, <3>2, <3>3, ShownSame
    <3> QED
      BY <1>1, <3>1, <3>4, HoldsIsNext
  <2> QED
    BY <2>1, <2>2
<1>12. SecretOK'
  <2> SUFFICES ASSUME Free("smtp")'
               PROVE  secret' \in {"?", place["smtp.json"].pw}
    BY <1>1 DEF SecretOK
  <2>1. CASE f.doc = "smtp"
    BY <1>1, <1>10, <2>1
  <2>2. CASE f.doc # "smtp"
    BY <1>1, <1>4, <2>2 DEF HostInv, SecretOK, Free
  <2> QED
    BY <2>1, <2>2
<1> QED
  BY <1>6, <1>7, <1>8, <1>9, <1>11, <1>12 DEF HostInv

\* A restart loads what is in force again.
LEMMA Restart_Inv ==
  ASSUME HostInv, Restart
  PROVE  HostInv'
<1>1. /\ place' = [place EXCEPT !["webhook"] = LoadWebhook, !["mailer"] = LoadMailer, !["retention"] = Nothing]
      /\ settled' = [d \in Docs |-> IF \E c \in Client : flight[c].doc = d THEN Idle ELSE settled[d]]
      /\ flight' = [c \in Client |-> Idle]
      /\ secret' = IF \E c \in Client : flight[c].doc = "smtp" THEN "?" ELSE secret
      /\ requests' = requests
  BY DEF Restart
<1>2. place \in [Places -> Values]
  BY DEF HostInv, PlacesOK
<1>3. LoadWebhook \in Values /\ LoadMailer \in Values
  <2>1. place["webhook.json"] \in Values /\ place["smtp.json"] \in Values
    BY <1>2 DEF Places
  <2>2. [place["smtp.json"] EXCEPT !.user = ""] \in Values
    BY <2>1 DEF Values, Texts
  <2> QED
    BY <2>1, <2>2, NothingIs, FallbackIs DEF LoadWebhook, LoadMailer
<1>4. /\ place' \in [Places -> Values]
      /\ place'["webhook"] = LoadWebhook /\ place'["mailer"] = LoadMailer
      /\ \A p \in Places \ {"webhook", "mailer", "retention"} : place'[p] = place[p]
  BY <1>1, <1>2, <1>3, NothingIs DEF Places
<1>5. PlacesOK' /\ FlightOK' /\ AloneOK' /\ GoingOK' /\ requests' \in 0..MaxRequests
  BY <1>1, <1>4, IdleIs DEF HostInv, PlacesOK, FlightOK, AloneOK, GoingOK
<1>6. SettledOK'
  BY <1>1, IdleIs DEF HostInv, SettledOK
<1>7. SecretOK'
  <2>1. "smtp.json" \in Places \ {"webhook", "mailer", "retention"}
    BY DEF Places
  <2> QED
    BY <1>1, <1>4, <2>1 DEF HostInv, SecretOK, Free
<1>8. InForce'
  <2> SUFFICES ASSUME NEW d \in Docs, settled'[d].op # "idle"
               PROVE  Holds(d, settled[d])'
    BY DEF InForce
  <2>1. Free(d) /\ settled'[d] = settled[d] /\ Kind(settled[d].op, d)
    BY <1>1, IdleIs DEF Free, HostInv, SettledOK
  <2>2. Shown(d, settled[d], place, secret)
    BY <2>1, HoldsIs DEF HostInv, InForce, Free
  <2>3. Shown(d, settled[d], place', secret')
    <3>1. CASE d = "webhook"
      <4>1. place'["webhook"] = LoadWebhook /\ place'["webhook.json"] = place["webhook.json"]
        BY <1>4 DEF Places
      <4> QED
        BY <2>1, <2>2, <3>1, <4>1 DEF Shown, Lone, LoadWebhook, Readable, Sane, Kind
    <3>2. CASE d = "smtp"
      <4>1. place'["mailer"] = LoadMailer /\ place'["smtp.json"] = place["smtp.json"] /\ secret' = secret
        BY <1>1, <1>4, <2>1, <3>2 DEF Places, Free
      <4> QED
        BY <2>1, <2>2, <3>2, <4>1 DEF Shown, Lone, LoadMailer, Readable, Sane, Kind
    <3>3. CASE d = "retention"
      <4>1. place'["audit-retention.json"] = place["audit-retention.json"]
        BY <1>4 DEF Places
      <4> QED
        BY <2>1, <2>2, <3>3, <4>1 DEF Shown, Lone, Kind
    <3>4. CASE d \notin {"webhook", "smtp", "retention"}
      <4>1. \A p \in Places : Owner(p) = d => p \notin {"webhook", "mailer", "retention"}
        BY <3>4 DEF Owner
      <4> QED
        BY <1>4, <2>1, <2>2, <3>4, <4>1, ShownSame
    <3> QED
      BY <3>1, <3>2, <3>3, <3>4
  <2> QED
    BY <2>1, <2>3, HoldsIsNext
<1> QED
  BY <1>5, <1>6, <1>7, <1>8 DEF HostInv

LEMMA HostInvHolds == HostSpec => []HostInv
<1>1. HostInit => HostInv
  BY Init_Inv
<1>2. HostInv /\ [HostNext(Docs)]_hostVars => HostInv'
  <2> SUFFICES ASSUME HostInv, [HostNext(Docs)]_hostVars
               PROVE  HostInv'
    OBVIOUS
  <2>1. CASE \E t \in Text : HandlerNext(Docs, t)
    BY <2>1, Handler_Inv
  <2>2. ASSUME NEW c \in Client, Step(c) PROVE HostInv'
    BY <2>2, Step_Inv
  <2>3. ASSUME NEW c \in Client, Answer(c) PROVE HostInv'
    BY <2>3, Answer_Inv
  <2>4. CASE Restart
    BY <2>4, Restart_Inv
  <2>5. CASE UNCHANGED hostVars
    <3>1. /\ place' = place /\ flight' = flight /\ settled' = settled /\ secret' = secret
          /\ requests' = requests
      BY <2>5 DEF hostVars
    <3>2. SettledOK' /\ FlightOK' /\ PlacesOK' /\ AloneOK' /\ GoingOK' /\ SecretOK'
      BY <3>1 DEF HostInv, SettledOK, FlightOK, PlacesOK, AloneOK, GoingOK, SecretOK, Free
    <3>3. InForce'
      BY <3>1, <3>2, InForceSame DEF Free
    <3> QED
      BY <3>1, <3>2, <3>3 DEF HostInv
  <2> QED
    BY <2>1, <2>2, <2>3, <2>4, <2>5 DEF HostNext
<1> QED
  BY <1>1, <1>2, PTL DEF HostSpec
-----------------------------------------------------------------------------
(* Wake-on-LAN.  Every target of the list, and of the file, names the      *)
(* device it was added for, in the one form that can be sent.              *)

Target(m) == {t \in [id : 1..Len(m), mac : [device : Device, form : {"colons"}]] : t.mac.device = m[t.id]}
ListOK(l, m) == l \in Seq(Target(m)) /\ Len(l) <= Len(m)

\* The inductive invariant.
WolInv ==
  /\ added \in 0..MaxAdded /\ faults \in 0..MaxFaults
  /\ meant \in Seq(Device) /\ Len(meant) = added
  /\ ListOK(targets, meant)
  /\ file = TornList \/ ListOK(file, meant)
  /\ sent = NoPacket \/ (sent.id \in 1..added /\ sent.device = meant[sent.id])

LEMMA WolInit_Inv == ASSUME WolInit PROVE WolInv
<1>1. MaxAdded \in Nat /\ MaxFaults \in Nat
  BY WolAssumption
<1>2. added = 0 /\ faults = 0 /\ targets = <<>> /\ file = <<>> /\ meant = <<>> /\ sent = NoPacket
  BY DEF WolInit
<1>3. meant \in Seq(Device) /\ Len(meant) = 0 /\ ListOK(<<>>, meant)
  BY <1>2 DEF ListOK
<1>4. added \in 0..MaxAdded /\ faults \in 0..MaxFaults
  BY <1>1, <1>2
<1> QED
  BY <1>2, <1>3, <1>4 DEF WolInv

\* A write is complete, or fails and leaves the file torn.
LEMMA SaveMoves ==
  ASSUME NEW l, NEW m, ListOK(l, m), faults \in 0..MaxFaults, save(l)
  PROVE  faults' \in 0..MaxFaults /\ (file' = TornList \/ ListOK(file', m))
<1>1. MaxFaults \in Nat
  BY WolAssumption
<1>2. CASE file' = l /\ faults' = faults
  BY <1>2
<1>3. CASE faults < MaxFaults /\ faults' = faults + 1 /\ file' = TornList
  BY <1>1, <1>3
<1> QED
  BY <1>2, <1>3 DEF save

\* A list that is right stays so when another target is added.
LEMMA ListGrows ==
  ASSUME NEW m \in Seq(Device), NEW d \in Device, NEW l, ListOK(l, m)
  PROVE  ListOK(l, Append(m, d))
<1>1. Target(m) \subseteq Target(Append(m, d))
  BY DEF Target
<1>2. \A i \in 1..Len(l) : l[i] \in Target(Append(m, d))
  BY <1>1 DEF ListOK
<1>3. l \in Seq(Target(Append(m, d)))
  BY <1>1, <1>2 DEF ListOK
<1>4. Len(Append(m, d)) = Len(m) + 1 /\ Len(l) \in Nat /\ Len(m) \in Nat
  BY DEF ListOK
<1> QED
  BY <1>3, <1>4 DEF ListOK

LEMMA Add_Inv ==
  ASSUME WolInv, NEW d \in Device, NEW f \in Form, Add([device |-> d, form |-> f])
  PROVE  WolInv'
<1> DEFINE mac == [device |-> d, form |-> f]
           t == [id |-> added + 1, mac |-> normaliseMac(mac)]
<1>1. /\ added < MaxAdded /\ added' = added + 1 /\ meant' = Append(meant, d)
      /\ targets' = Append(targets, t) /\ sent' = sent
      /\ parseMac(mac) # 0
  BY DEF Add
<1>2. normaliseMac(mac) = [device |-> d, form |-> "colons"]
  BY <1>1 DEF normaliseMac, parseMac
<1>3. MaxAdded \in Nat /\ MaxFaults \in Nat
  BY WolAssumption
<1>4. /\ added' \in 0..MaxAdded /\ meant' \in Seq(Device) /\ Len(meant') = added'
      /\ meant'[added'] = d /\ \A i \in 1..added : meant'[i] = meant[i]
  BY <1>1, <1>3 DEF WolInv
<1>5. t \in Target(meant')
  BY <1>1, <1>2, <1>4 DEF Target, WolInv
<1> HIDE DEF t
<1>6. ListOK(targets, meant') /\ (file = TornList \/ ListOK(file, meant'))
  BY <1>1, ListGrows DEF WolInv
<1>7. ListOK(targets', meant')
  <2>1. targets' \in Seq(Target(meant')) /\ Len(targets') = Len(targets) + 1
    BY <1>1, <1>5, <1>6 DEF ListOK
  <2>2. Len(targets) <= Len(meant) /\ Len(targets) \in Nat /\ Len(meant') = Len(meant) + 1 /\ Len(meant) \in Nat
    BY <1>1, <1>4 DEF WolInv, ListOK
  <2> QED
    BY <2>1, <2>2 DEF ListOK
<1>8. faults' \in 0..MaxFaults /\ (file' = TornList \/ ListOK(file', meant'))
  BY <1>7, SaveMoves DEF Add, WolInv
<1>9. sent' = NoPacket \/ (sent'.id \in 1..added' /\ sent'.device = meant'[sent'.id])
  <2>1. added \in Nat
    BY <1>3 DEF WolInv
  <2>2. CASE sent = NoPacket
    BY <1>1, <2>2
  <2>3. CASE sent.id \in 1..added /\ sent.device = meant[sent.id]
    <3>1. meant'[sent.id] = meant[sent.id]
      BY <1>4, <2>3
    <3>2. sent.id \in 1..added'
      BY <1>1, <2>1, <2>3
    <3> QED
      BY <1>1, <2>3, <3>1, <3>2
  <2> QED
    BY <2>2, <2>3 DEF WolInv
<1> QED
  BY <1>4, <1>7, <1>8, <1>9 DEF WolInv

LEMMA Delete_Inv ==
  ASSUME WolInv, NEW i \in 1..MaxAdded, Delete(i)
  PROVE  WolInv'
<1>1. /\ i \in 1..Len(targets) /\ targets' = Without(targets, i)
      /\ added' = added /\ meant' = meant /\ sent' = sent
  BY DEF Delete
<1>2. targets \in Seq(Target(meant)) /\ Len(targets) <= Len(meant) /\ Len(meant) \in Nat
  BY DEF WolInv, ListOK
<1> DEFINE front == SubSeq(targets, 1, i - 1)
           back == SubSeq(targets, i + 1, Len(targets))
<1>3. front \in Seq(Target(meant)) /\ Len(front) = i - 1
  BY <1>1, <1>2
<1>4. back \in Seq(Target(meant)) /\ Len(back) = Len(targets) - i
  BY <1>1, <1>2
<1>5. targets' = front \o back
  BY <1>1 DEF Without
<1> HIDE DEF front, back
<1>6. targets' \in Seq(Target(meant)) /\ Len(targets') = Len(front) + Len(back)
  BY <1>3, <1>4, <1>5, ConcatProperties
<1>7. ListOK(targets', meant)
  BY <1>1, <1>2, <1>3, <1>4, <1>6 DEF ListOK
<1>8. faults' \in 0..MaxFaults /\ (file' = TornList \/ ListOK(file', meant))
  BY <1>7, SaveMoves DEF Delete, WolInv
<1> QED
  BY <1>1, <1>7, <1>8 DEF WolInv

LEMMA Wake_Inv ==
  ASSUME WolInv, NEW i \in 1..MaxAdded, wolWakeHandler(i)
  PROVE  WolInv'
<1>1. /\ i \in 1..Len(targets) /\ sent' = [id |-> targets[i].id, device |-> parseMac(targets[i].mac)]
      /\ added' = added /\ meant' = meant /\ targets' = targets /\ file' = file /\ faults' = faults
  BY DEF wolWakeHandler, Wake
<1>2. targets[i] \in Target(meant)
  BY <1>1 DEF WolInv, ListOK
<1>3. targets[i].id \in 1..added /\ parseMac(targets[i].mac) = meant[targets[i].id]
  BY <1>2 DEF Target, parseMac, WolInv
<1> QED
  BY <1>1, <1>3 DEF WolInv

LEMMA NewStore_Inv == ASSUME WolInv, NewStore PROVE WolInv'
<1>1. ListOK(<<>>, meant)
  BY DEF ListOK, WolInv
<1>2. MaxFaults \in Nat
  BY WolAssumption
<1>3. ListOK(targets', meant) /\ faults' \in 0..MaxFaults
  BY <1>1, <1>2 DEF NewStore, WolInv
<1> QED
  BY <1>3 DEF NewStore, WolInv

LEMMA WolInvHolds == WolSpec => []WolInv
<1>1. WolInit => WolInv
  BY WolInit_Inv
<1>2. WolInv /\ [WolNext]_wolVars => WolInv'
  <2> SUFFICES ASSUME WolInv, [WolNext]_wolVars
               PROVE  WolInv'
    OBVIOUS
  <2>1. CASE NewStore
    BY <2>1, NewStore_Inv
  <2>2. ASSUME NEW d \in Device, NEW f \in Form, wolAddHandler([device |-> d, form |-> f]) PROVE WolInv'
    BY <2>2, Add_Inv DEF wolAddHandler
  <2>3. ASSUME NEW i \in 1..MaxAdded, wolDeleteHandler(i) PROVE WolInv'
    BY <2>3, Delete_Inv DEF wolDeleteHandler
  <2>4. ASSUME NEW i \in 1..MaxAdded, wolWakeHandler(i) PROVE WolInv'
    BY <2>4, Wake_Inv
  <2>5. CASE UNCHANGED wolVars
    BY <2>5 DEF WolInv, wolVars
  <2> QED
    BY <2>1, <2>2, <2>3, <2>4, <2>5 DEF WolNext
<1> QED
  BY <1>1, <1>2, PTL DEF WolSpec
-----------------------------------------------------------------------------
(* The theorems.                                                           *)

\* A program of at most five steps is left by its sixth.
LEMMA PastTheLast == \A n \in 1..5 : \A k \in 1..n + 1 : k \in 0..6
  OBVIOUS

\* The places, requests and targets have their types, however requests and writes
\* fail and overlap (linux.go, router.go, Store of internal/wol).
THEOREM HostTypesCorrect == HostSpec /\ WolSpec => [](HostTypeOK /\ WolTypeOK)
<1>1. HostInv => HostTypeOK
  <2> SUFFICES ASSUME HostInv PROVE HostTypeOK
    OBVIOUS
  <2>1. ASSUME NEW c \in Client PROVE flight[c].at \in 0..6 /\ flight[c].doc \in Docs \cup {"none"}
    <3>1. CASE flight[c] = Idle
      BY <3>1 DEF Idle
    <3>2. CASE UnderWay(flight[c])
      <4>1. flight[c].doc \in Docs /\ Len(Todo(flight[c])) \in 1..5
        BY <3>2, UnderWayIs DEF Sound
      <4>2. flight[c].at \in 1..Len(Todo(flight[c])) + 1
        BY <3>2 DEF UnderWay
      <4>3. flight[c].at \in 0..6
        BY <4>1, <4>2, PastTheLast
      <4> QED
        BY <4>1, <4>3
    <3> QED
      BY <3>1, <3>2 DEF HostInv, FlightOK
  <2> QED
    BY <2>1 DEF HostInv, PlacesOK, HostTypeOK
<1>2. WolInv => WolTypeOK
  <2> SUFFICES ASSUME WolInv PROVE WolTypeOK
    OBVIOUS
  <2>1. \A i \in 1..Len(targets) : targets[i].id \in 1..added
    BY DEF WolInv, ListOK, Target
  <2>2. file = TornList \/ Len(file) <= MaxAdded
    <3>1. MaxAdded \in Nat /\ added <= MaxAdded /\ Len(meant) = added
      BY WolAssumption DEF WolInv
    <3>2. ListOK(file, meant) => Len(file) \in Nat /\ Len(file) <= added
      BY <3>1 DEF ListOK
    <3> QED
      BY <3>1, <3>2 DEF WolInv
  <2> QED
    BY <2>1, <2>2 DEF WolInv, WolTypeOK
<1> QED
  BY <1>1, <1>2, HostInvHolds, WolInvHolds, PTL

\* What was asked for holds: a document whose request ran alone and met no error is
\* in force, after a restart too (the handlers of HostSettings), and a wake reaches
\* the machine its target was added for (Add, Wake and NewStore of internal/wol).
THEOREM AsAskedCorrect == HostSpec /\ WolSpec => []AsAsked
<1>1. HostInv => InForce
  BY DEF HostInv
<1>2. WolInv => WokenAsAdded
  <2> SUFFICES ASSUME WolInv PROVE WokenAsAdded
    OBVIOUS
  <2>1. ASSUME NEW i \in 1..Len(targets) PROVE Wake(i).device = meant[targets[i].id]
    <3>1. targets[i] \in Target(meant)
      BY DEF WolInv, ListOK
    <3> QED
      BY <3>1 DEF Target, Wake, parseMac
  <2> QED
    BY <2>1 DEF WolInv, WokenAsAdded
<1> QED
  BY <1>1, <1>2, HostInvHolds, WolInvHolds, PTL DEF AsAsked
=============================================================================
