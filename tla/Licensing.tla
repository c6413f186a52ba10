------------------------------ MODULE Licensing -----------------------------
(***************************************************************************)
(* The license of nasd (internal/license, internal/api/license_*.go and    *)
(* the start of cmd/nasd/main.go): the signed token, its verification, the *)
(* key file, the license the process keeps from its start to its end, and  *)
(* the routes that only a Pro license opens.                               *)
(*                                                                         *)
(* A token is abstracted to what Verify looks at, one field for each of    *)
(* its checks; bytes, JSON and the signature's arithmetic are left out.    *)
(* The time is a small counter of half days, and 0 is the zero time of     *)
(* "no expiry".                                                            *)
(***************************************************************************)
EXTENDS Integers, FiniteSets

CONSTANTS
  Token,      \* the tokens that may reach the daemon, records of the form below
  Feature,    \* the names HasFeature knows
  MaxTime,    \* bound on the clock
  MaxAdmin    \* bound on uploads and clears

ASSUME TokenAssumption == \A t \in Token : t.exp \in Nat

VARIABLES
  now,        \* the clock
  keyFile,    \* what /etc/kilasos/license.key holds: Missing or a body
  lic,        \* the license of this process: NoLicense or the decoded token
  running,    \* whether nasd runs
  admins,     \* uploads and clears so far
  accepted,   \* history: the token of the last upload answered ok, if nothing was cleared since
  effective,  \* history: accepted as it was when this process started
  served      \* history: the routes of Pro features answered, with the license and the time

licVars == <<now, keyFile, lic, running, admins, accepted, effective, served>>

Missing == [form |-> "missing"]
NoLicense == [tier |-> "none", nodes |-> 1, exp |-> 0, trial |-> FALSE]
Raw(t) == [form |-> "raw", token |-> t]
Coded(t) == [form |-> "base64", token |-> t]
Torn == [form |-> "torn"]               \* a file cut off while it was written

\* The token as Verify decodes it.
License(t) == [tier |-> t.tier, nodes |-> t.nodes, exp |-> t.exp, trial |-> t.trial]

Past(at) == at # 0 /\ now > at
-----------------------------------------------------------------------------
\* The checks before the license is built, in any order that lets all of them
\* pass: the size of the envelope, its version, the declared length, the
\* signature, the JSON with its dates, the tier and the number of nodes.
Sound(body) == /\ body.form = "raw"
               /\ body.token.envelope = "ok"
               /\ body.token.signed
               /\ body.token.json = "ok"
               /\ body.token.tier \in {"home", "pro"}
               /\ body.token.nodes >= 1

\* An expired token gives both an error and a license, without its trial mark.
Verify(body) ==
  IF ~Sound(body) THEN [err |-> "invalid", lic |-> NoLicense]
  ELSE IF Past(body.token.exp)
       THEN [err |-> "expired", lic |-> [License(body.token) EXCEPT !.trial = FALSE]]
       ELSE [err |-> "none", lic |-> License(body.token)]

HasFeature(l, f) == l.tier = "pro" /\ f \in Feature
IsExpired(l) == Past(l.exp)

HalfDays == 2
\* int(hours / 24): whole days, so 0 on the last day too.
DaysRemaining(l) == IF l.exp = 0 THEN -1 ELSE IF l.exp > now THEN (l.exp - now) \div HalfDays ELSE 0

\* What GET /license/status answers.
licenseStatus == [tier |-> IF lic = NoLicense THEN "home" ELSE lic.tier,
                  days |-> DaysRemaining(lic), nodes |-> lic.nodes, trial |-> lic.trial,
                  status |-> IF lic = NoLicense THEN "missing"
                             ELSE IF IsExpired(lic) THEN "expired" ELSE "ok"]
-----------------------------------------------------------------------------
LicInit == /\ now = 1 /\ keyFile = Missing /\ lic = NoLicense /\ running = TRUE
           /\ admins = 0 /\ accepted = Missing /\ effective = Missing /\ served = {}

\* main: the key file is read once.  Whatever Verify returns as a license is
\* kept, with an error or without one.
Start == /\ ~running
         /\ running' = TRUE
         /\ lic' = IF keyFile = Missing THEN NoLicense ELSE Verify(keyFile).lic
         /\ effective' = accepted
         /\ UNCHANGED <<now, keyFile, admins, accepted, served>>

Stop == running /\ running' = FALSE
        /\ UNCHANGED <<now, keyFile, lic, admins, accepted, effective, served>>

Tick == now < MaxTime /\ now' = now + 1
        /\ UNCHANGED <<keyFile, lic, running, admins, accepted, effective, served>>

\* The form of the body decides: base64 is decoded, anything else is taken as
\* it is.
Decoded(body) == IF body.form = "base64" THEN Raw(body.token) ELSE body

SlipInstalled(body) == body

\* What the upload handler puts into the key file: the decoded bytes.
Installed(body) == Decoded(body)

\* POST /license/upload.  A token that does not verify, an expired one too, is
\* refused, and so is one whose file cannot be opened; the file is written in
\* place, so the process may end, or the disk be full, in the middle of it; only
\* the next start reads it.
licenseUploadHandler(body) ==
  /\ running /\ admins < MaxAdmin
  /\ admins' = admins + 1
  /\ \/ UNCHANGED <<keyFile, running, accepted>>
     \/ /\ Verify(Decoded(body)).err = "none"
        /\ \/ /\ keyFile' = Installed(body) /\ accepted' = Raw(body.token)
              /\ running' = running
           \/ /\ keyFile' = Torn /\ accepted' = Missing
              /\ running' \in BOOLEAN
  /\ UNCHANGED <<now, lic, effective, served>>

\* POST /license/clear.  A missing file is no error, one that stays is.
licenseClearHandler ==
  /\ running /\ admins < MaxAdmin
  /\ admins' = admins + 1
  /\ \/ keyFile' = Missing /\ accepted' = Missing
     \/ UNCHANGED <<keyFile, accepted>>
  /\ UNCHANGED <<now, lic, running, effective, served>>

\* A request to a route of a Pro feature that the gate lets through.
requireFeature(f) ==
  /\ running
  /\ HasFeature(lic, f)
  /\ served' = {[lic |-> lic, at |-> now]}
  /\ UNCHANGED <<now, keyFile, lic, running, admins, accepted, effective>>

LicNext == \/ Start \/ Stop \/ Tick \/ licenseClearHandler
           \/ \E t \in Token : licenseUploadHandler(Raw(t)) \/ licenseUploadHandler(Coded(t))
           \/ \E f \in Feature : requireFeature(f)

LicSpec == LicInit /\ [][LicNext]_licVars
-----------------------------------------------------------------------------
\* What an administrator was told is what the next start brings about (the
\* upload handler, the file's forms and the start of main): after an upload
\* answered ok the process runs with that token's tier and nodes, however many
\* uploads were refused since, after a clear or a torn write it runs without a
\* license, and nothing is a license that was not signed.  The status page says
\* so, with no day left when the token has expired and only in its last day
\* otherwise, and the routes of Pro features are answered only to such a Pro token.
TakesEffect ==
  /\ effective = Missing => lic = NoLicense /\ licenseStatus.status = "missing"
  /\ effective # Missing => /\ lic.tier = effective.token.tier
                            /\ lic.nodes = effective.token.nodes
                            /\ effective.token.signed
                            /\ licenseStatus.status = IF Past(effective.token.exp) THEN "expired" ELSE "ok"
                            /\ licenseStatus.status = "expired" => licenseStatus.days = 0
                            /\ licenseStatus.days = 0 => effective.token.exp \in 1 .. (now + HalfDays - 1)
  /\ \A s \in served : s.lic.tier = "pro"

\* "License loading - degraded to Home mode on any failure" (main) and "Expired
\* Pro -> treated as Home" (home_caps_test): no route of a Pro feature is
\* answered to a license that has expired (Verify, HasFeature).
HomeWhenExpired == \A s \in served : s.lic.exp # 0 => s.at <= s.lic.exp
=============================================================================
