---------------------------- MODULE HostSettings ----------------------------
(***************************************************************************)
(* The settings that are one document each: webhook, mail, certificate,    *)
(* syslog forwarding, docker daemon, message of the day, crontab, host     *)
(* name and clock, tier policy, Loki, audit retention and the login page   *)
(* (internal/storage/linux.go, internal/api/router.go and                  *)
(* cmd/nasd/main.go).  The alert rules are in ListFiles: their file has    *)
(* other writers.                                                          *)
(*                                                                         *)
(* No lock protects any of them.  A handler is the sequence of places it   *)
(* changes, one after the other: a file (truncated, then written), a field *)
(* of the running daemon, or a service that reads its file again.  Any     *)
(* step may fail, requests may overlap and nasd may be restarted between   *)
(* two steps.                                                              *)
(***************************************************************************)
EXTENDS Naturals, Sequences

CONSTANTS
  Client,      \* the requests that may overlap
  Text,        \* what may be asked for
  WebhookURL,  \* the webhook given by --webhook or KILASOS_WEBHOOK, "nothing" if none is
  MaxRequests  \* bound on the requests

ASSUME HostAssumption == /\ Text \cap {"", "nothing", "torn"} = {} /\ MaxRequests \in Nat
                         /\ WebhookURL \in Text \cup {"nothing"}

VARIABLES
  place,    \* what every place holds
  flight,   \* the request each client has under way
  settled,  \* history: the last request for each document that ended, if it ran alone and succeeded
  secret,   \* history: the mail password in force, "?" when that cannot be told
  requests  \* the requests so far

hostVars == <<place, flight, settled, secret, requests>>

\* The contents of a place: a text; a mail account has a password, and a user
\* under the name that the storage provider ("user") or the mailer ("username")
\* gives it in the same file.
Value(t, user, username, pw) == [text |-> t, user |-> user, username |-> username, pw |-> pw]
Plain(t) == Value(t, "", "", "")
Nothing == Plain("nothing")
Torn == Plain("torn")

Idle == [op |-> "idle", doc |-> "none", arg |-> Nothing, asked |-> Nothing, at |-> 0, half |-> FALSE,
         alone |-> TRUE, ok |-> TRUE]

\* The steps of a handler: write a file, remove it, set a field of the daemon,
\* run a tool that stores a value, let a service read a file again, take the
\* stored password over.  After a failure the handler goes on with step "fail",
\* 0 being its end.
Do(kind, p, v, from, f) == [kind |-> kind, to |-> p, val |-> v, from |-> from, fail |-> f]
Write(p, v, f) == Do("write", p, v, p, f)
Remove(p, f) == Do("remove", p, Nothing, p, f)
Store(p, v) == Do("set", p, v, p, 0)
Tool(p, v, f) == Do("tool", p, v, p, f)
Reload(p, file) == Do("reload", p, Nothing, file, 0)
Keep(p) == Do("keep", p, Nothing, p, 0)

Readable(p) == place[p] \notin {Torn, Nothing}
-----------------------------------------------------------------------------
\* Webhook: the daemon first, then the file.  A file without a URL says as much
\* as none.
PutWebhook(v) == <<Store("webhook", v), Write("webhook.json", v, 0)>>
SlipDropWebhook == <<Store("webhook", Nothing)>>
DropWebhook == <<Store("webhook", Nothing), Remove("webhook.json", 0)>>

\* Mail, by /smtp-config: the file first, then the daemon.
PutMail(v) == <<Write("smtp.json", v, 0), Store("mailer", v)>>
DropMail == <<Remove("smtp.json", 2), Store("mailer", Nothing)>>

\* Mail, by /system/smtp: the same file without the daemon.  A request without
\* a password takes the stored one over, none if the file cannot be read.
SetSMTPConfig(v) == <<Keep("smtp.json"), Write("smtp.json", v, 0)>>

\* The certificate and the key are two files; a generated pair is written
\* without looking at the errors.
UploadServerCertificate(v) == <<Write("cert.pem", v, 0), Write("key.pem", v, 0)>>
GenerateServerCertificate(v) == <<Write("cert.pem", v, 2), Write("key.pem", v, 3)>>

\* Syslog forwarding: the setting, rsyslog's own file, a restart of rsyslog.
SetSyslogForwarding(v) ==
  <<Write("syslog.json", v, 2),
    IF v = Nothing THEN Remove("90-kilasos.conf", 3) ELSE Write("90-kilasos.conf", v, 3),
    Reload("rsyslog", "90-kilasos.conf")>>

SetDockerDaemonConfig(v) == <<Write("daemon.json", v, 0), Reload("docker", "daemon.json")>>

\* Documents that are one file.
SetMOTD(v) == <<Write("motd", v, 0)>>
SetStorageTierPolicy(v) == <<Write("tier-policy.json", v, 0)>>
SetLokiConfig(v) == <<Write("loki.json", v, 0)>>
SetLoginCustomization(v) == <<Write("login-customization.json", v, 0)>>

\* The crontab is handed over in a file of its own and replaced in one step.
SetCronTab(v) == <<Tool("crontab", v, 0)>>

\* The retention of the audit log: the file, then the daemon's logger.
SetAuditRetentionPolicy(v) == <<Write("audit-retention.json", v, 0), Store("retention", v)>>

\* Host name, time zone and NTP: three tools, the first failure ends it.  The
\* first two have routes of their own as well.
ApplySettings(v) == <<Tool("hostname", v, 0), Tool("timezone", v, 0), Tool("ntp", v, 0)>>
SetHostname(v) == <<Tool("hostname", v, 0)>>
SetTimezone(v) == <<Tool("timezone", v, 0)>>

\* POST /restore: the settings of the document, then each of its shares
\* (CreateShare is in module Shares), whatever failed before.
RestoreAll(v) == <<Tool("hostname", v, 4), Tool("timezone", v, 4), Tool("ntp", v, 4),
                   Tool("share1", v, 5), Tool("share2", v, 6)>>

Program(op, v) ==
  CASE op = "putWebhook" -> PutWebhook(v)       [] op = "deleteWebhook" -> DropWebhook
    [] op = "putSmtp" -> PutMail(v)             [] op = "deleteSmtp" -> DropMail
    [] op = "setSMTP" -> SetSMTPConfig(v)       [] op = "uploadCert" -> UploadServerCertificate(v)
    [] op = "generateCert" -> GenerateServerCertificate(v)
    [] op = "syslog" -> SetSyslogForwarding(v)  [] op = "docker" -> SetDockerDaemonConfig(v)
    [] op = "motd" -> SetMOTD(v)                [] op = "loki" -> SetLokiConfig(v)
    [] op = "tier" -> SetStorageTierPolicy(v)
    [] op = "login" -> SetLoginCustomization(v) [] op = "crontab" -> SetCronTab(v)
    [] op = "retention" -> SetAuditRetentionPolicy(v)
    [] op = "settings" -> ApplySettings(v)      [] op = "restore" -> RestoreAll(v)
    [] op = "hostname" -> SetHostname(v)        [] op = "timezone" -> SetTimezone(v)

Docs == {"webhook", "smtp", "cert", "settings", "syslog", "docker", "motd", "tier",
         "loki", "login", "crontab", "retention"}
Places == {"webhook", "webhook.json", "mailer", "smtp.json", "cert.pem", "key.pem", "syslog.json",
           "90-kilasos.conf", "rsyslog", "daemon.json", "docker", "motd", "tier-policy.json",
           "loki.json", "login-customization.json", "crontab",
           "audit-retention.json", "retention", "hostname", "timezone", "ntp", "share1", "share2"}
-----------------------------------------------------------------------------
HostInit == /\ place = [p \in Places |-> IF p = "webhook" THEN Plain(WebhookURL) ELSE Nothing]
            /\ flight = [c \in Client |-> Idle]
            /\ settled = [d \in Docs |-> Idle]
            /\ secret = "" /\ requests = 0

\* A request begins.  It is not alone, and neither are the others, if one for
\* the same document is under way.
Begin(c, op, doc, v) ==
  LET others == {o \in Client \ {c} : flight[o].doc = doc} IN
  /\ flight[c] = Idle
  /\ requests < MaxRequests
  /\ requests' = requests + 1
  /\ flight' = [o \in Client |->
       IF o = c THEN [Idle EXCEPT !.op = op, !.doc = doc, !.arg = v, !.asked = v, !.at = 1,
                              !.alone = others = {}]
       ELSE IF o \in others THEN [flight[o] EXCEPT !.alone = FALSE] ELSE flight[o]]
  /\ UNCHANGED <<place, settled, secret>>

\* The handlers, with what they check.
putWebhookConfigHandler(c, v) == Begin(c, "putWebhook", "webhook", v)
deleteWebhookConfigHandler(c) == Begin(c, "deleteWebhook", "webhook", Nothing)
putSmtpConfigHandler(c, v) == v # Nothing /\ Begin(c, "putSmtp", "smtp", v)
deleteSmtpConfigHandler(c) == Begin(c, "deleteSmtp", "smtp", Nothing)
setSMTPHandler(c, v) == Begin(c, "setSMTP", "smtp", v)
uploadServerCertHandler(c, v) == v # Nothing /\ Begin(c, "uploadCert", "cert", v)
generateServerCertHandler(c, v) == v # Nothing /\ Begin(c, "generateCert", "cert", v)
setSyslogForwardingHandler(c, v) == Begin(c, "syslog", "syslog", v)
setDockerDaemonConfigHandler(c, v) == Begin(c, "docker", "docker", v)
setMOTDHandler(c, v) == Begin(c, "motd", "motd", v)
setStorageTierPolicyHandler(c, v) == Begin(c, "tier", "tier", v)
setLokiConfigHandler(c, v) == Begin(c, "loki", "loki", v)
setLoginCustomizationHandler(c, v) == Begin(c, "login", "login", v)
setCronTabHandler(c, v) == Begin(c, "crontab", "crontab", v)
setAuditRetentionHandler(c, v) == Begin(c, "retention", "retention", v)
applySettingsHandler(c, v) == Begin(c, "settings", "settings", v)
restoreHandler(c, v) == Begin(c, "restore", "settings", v)
setHostnameHandler(c, v) == v # Nothing /\ Begin(c, "hostname", "settings", v)
setTimezoneHandler(c, v) == Begin(c, "timezone", "settings", v)

\* What a request is to do, what it does next, and the value of that.
Todo(f) == Program(f.op, f.arg)
Doing(f) == Todo(f)[f.at]
Result(s) == IF s.kind = "reload" THEN place[s.from] ELSE s.val

\* A request after a step that leads to step n, 0 being the end.
Goes(f, n, good) ==
  [f EXCEPT !.at = IF n = 0 THEN Len(Todo(f)) + 1 ELSE n, !.half = FALSE, !.ok = f.ok /\ good]
Named(f, pw) == [f EXCEPT !.arg.pw = pw]

KeepPassword(c, f, s) ==
  /\ s.kind = "keep"
  /\ flight' = [flight EXCEPT ![c] =
       Goes(Named(f, IF f.arg.pw = "" /\ Readable(s.from) THEN place[s.from].pw ELSE f.arg.pw),
            f.at + 1, TRUE)]
  /\ UNCHANGED place

\* A write truncates the file first.
Truncate(c, f, s) ==
  /\ s.kind = "write" /\ ~f.half
  /\ place' = [place EXCEPT ![s.to] = Torn]
  /\ flight' = [flight EXCEPT ![c] = [f EXCEPT !.half = TRUE]]

\* Of two writes that overlap the longer one may leave its end behind the
\* shorter one.
Complete(c, f, s) ==
  /\ s.kind # "keep" /\ (s.kind = "write" => f.half)
  /\ \/ place' = [place EXCEPT ![s.to] = Result(s)]
     \/ ~f.alone /\ place' = [place EXCEPT ![s.to] = Torn]
  /\ flight' = [flight EXCEPT ![c] = Goes(f, f.at + 1, TRUE)]

\* The handler goes on where its error handling leads.
Fail(c, f, s) ==
  /\ s.kind \notin {"set", "keep"}
  /\ flight' = [flight EXCEPT ![c] = Goes(f, s.fail, FALSE)]
  /\ UNCHANGED place

\* A step of a request.
Step(c) ==
  LET f == flight[c] IN
  /\ f.op # "idle" /\ f.at <= Len(Todo(f))
  /\ \/ KeepPassword(c, f, Doing(f)) \/ Truncate(c, f, Doing(f))
     \/ Complete(c, f, Doing(f)) \/ Fail(c, f, Doing(f))
  /\ UNCHANGED <<settled, secret, requests>>

\* The answer.
Answer(c) ==
  LET f == flight[c] IN
  /\ f.op # "idle" /\ f.at > Len(Todo(f))
  /\ settled' = [settled EXCEPT ![f.doc] = IF f.alone /\ f.ok THEN [f EXCEPT !.at = 0] ELSE Idle]
  /\ flight' = [flight EXCEPT ![c] = Idle]
  /\ secret' = IF f.doc # "smtp" THEN secret
               ELSE IF ~(f.alone /\ f.ok) THEN "?"
               ELSE IF f.op = "setSMTP" /\ f.asked.pw = "" THEN secret ELSE f.asked.pw
  /\ UNCHANGED <<place, requests>>

\* What main makes of the two files at the start: a file that cannot be parsed
\* is as good as none, without a webhook the one of the command line is taken,
\* and only "username" is the mailer's user.
LoadWebhook == IF Readable("webhook.json") THEN place["webhook.json"] ELSE Plain(WebhookURL)
LoadMailer == IF Readable("smtp.json") THEN [place["smtp.json"] EXCEPT !.user = ""] ELSE Nothing

\* nasd ends and starts again: requests are cut off where they are.
Restart ==
  /\ place' = [place EXCEPT !["webhook"] = LoadWebhook, !["mailer"] = LoadMailer,
                            !["retention"] = Nothing]
  /\ settled' = [d \in Docs |-> IF \E c \in Client : flight[c].doc = d THEN Idle ELSE settled[d]]
  /\ flight' = [c \in Client |-> Idle]
  /\ secret' = IF \E c \in Client : flight[c].doc = "smtp" THEN "?" ELSE secret
  /\ UNCHANGED requests

HandlerNext(docs, v) == \E c \in Client :
  \/ "webhook" \in docs /\ (deleteWebhookConfigHandler(c) \/ \E w \in {Nothing, Plain(v)} :
                             putWebhookConfigHandler(c, w))
  \/ "smtp" \in docs /\ (deleteSmtpConfigHandler(c) \/ \E pw \in {"", v} :
                          putSmtpConfigHandler(c, Value(v, "", v, pw)) \/ setSMTPHandler(c, Value(v, v, "", pw)))
  \/ "cert" \in docs /\ (uploadServerCertHandler(c, Plain(v)) \/ generateServerCertHandler(c, Plain(v)))
  \/ "settings" \in docs /\ (\/ applySettingsHandler(c, Plain(v)) \/ restoreHandler(c, Plain(v))
                             \/ setHostnameHandler(c, Plain(v)) \/ setTimezoneHandler(c, Plain(v)))
  \/ "syslog" \in docs /\ \E w \in {Nothing, Plain(v)} : setSyslogForwardingHandler(c, w)
  \/ "docker" \in docs /\ setDockerDaemonConfigHandler(c, Plain(v))
  \/ "motd" \in docs /\ setMOTDHandler(c, Plain(v))
  \/ "tier" \in docs /\ setStorageTierPolicyHandler(c, Plain(v))
  \/ "loki" \in docs /\ setLokiConfigHandler(c, Plain(v))
  \/ "login" \in docs /\ setLoginCustomizationHandler(c, Plain(v))
  \/ "crontab" \in docs /\ setCronTabHandler(c, Plain(v))
  \/ "retention" \in docs /\ setAuditRetentionHandler(c, Plain(v))

HostNext(docs) == \/ \E v \in Text : HandlerNext(docs, v)
                  \/ \E c \in Client : Step(c) \/ Answer(c)
                  \/ Restart

HostSpec == HostInit /\ [][HostNext(Docs)]_hostVars
-----------------------------------------------------------------------------
\* The types of the places and requests (linux.go, router.go).
HostTypeOK == /\ DOMAIN place = Places
              /\ \A c \in Client : flight[c].at \in 0..6 /\ flight[c].doc \in Docs \cup {"none"}
              /\ requests \in 0..MaxRequests

\* A document holds what the request r for it asked for: the daemon, the file
\* and the service agree, and a restart loads the same.  A webhook that was
\* removed is gone from the file, and from the daemon until a restart takes the
\* one of the command line.
Holds(d, r) ==
  LET v == r.arg IN
  CASE d = "webhook" -> IF v = Nothing
                        THEN place["webhook.json"] = v /\ place["webhook"] \in {v, Plain(WebhookURL)}
                        ELSE place["webhook"] = v /\ LoadWebhook = v
    [] r.op = "putSmtp" -> place["mailer"] = v /\ LoadMailer = v
    [] r.op = "deleteSmtp" -> place["mailer"] = Nothing /\ LoadMailer = Nothing
    [] r.op = "setSMTP" -> /\ [place["smtp.json"] EXCEPT !.pw = ""] = [r.asked EXCEPT !.pw = ""]
                           /\ secret \in {"?", place["smtp.json"].pw}
    [] d = "cert" -> place["cert.pem"] = v /\ place["key.pem"] = v
    [] r.op \in {"settings", "restore"} ->
         place["hostname"] = v /\ place["timezone"] = v /\ place["ntp"] = v
    [] d = "syslog" -> place["rsyslog"] = v /\ place["syslog.json"] = v
    [] d = "docker" -> place["docker"] = v
    [] d = "retention" -> place["audit-retention.json"] = v
    [] OTHER -> v = place[Program(r.op, v)[1].to]

\* Whatever failed, overlapped or was cut off before: once a request for a
\* document ran alone and none of its steps failed, what it asked for is in
\* force and stays so over a restart, until the next request for it begins.  A
\* mail password that is not named is the one that was there, and a pair is a
\* certificate with its own key.
InForce ==
  \A d \in Docs :
    settled[d].op # "idle" /\ (\A c \in Client : flight[c].doc # d) => Holds(d, settled[d])
=============================================================================
