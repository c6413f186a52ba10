------------------------------- MODULE Shares -------------------------------
(***************************************************************************)
(* The network shares of internal/storage/linux.go: one Samba stanza per   *)
(* share, the NFS clients of the shares in one JSON file, the exports file *)
(* derived from both, the exports an administrator adds by hand, and the   *)
(* global section of smb.conf.  A request reads and writes these files one *)
(* after the other and without a lock; any write may fail, and nasd may    *)
(* stop between any two of them.                                           *)
(***************************************************************************)
EXTENDS Naturals, Sequences, SequencesExt, FiniteSets, Functions

CONSTANTS
    Share,     \* names of shares
    Path,      \* directories
    Clients,   \* what NFS shares are exported to
    Request,   \* requests that can be in progress at the same time
    MaxLines   \* bound on the lines of /etc/exports

VARIABLES
    conf,      \* conf[n]: the path in the stanza of a share
    meta,      \* nfs.json: its clients per share, or why it cannot be used
    exports,   \* the exports file of nasd: pairs of a path and clients
    etc,       \* /etc/exports
    smb,       \* the lines of smb.conf
    req,       \* req[c]: where a request is
    calm       \* ghost: no requests overlapped, none was cut off, and no failed
               \* write was passed over

shareVars == <<conf, meta, exports, etc, smb, req, calm>>

NotNFS == "none"
Nobody == [m \in {} |-> NotNFS]
Keys == {"workgroup", "log level"}
Missing == [file |-> "ok", map |-> Nobody]
\* A file that WriteFile has truncated, and one that holds a nil map.
Torn == [Missing EXCEPT !.file = "torn"]
Null == [Missing EXCEPT !.file = "null"]

\* A request that is over, and one that has begun.
Ended(result) == [op |-> result, at |-> "end", n |-> NotNFS, nfs |-> NotNFS, map |-> Missing, path |-> <<>>, lines |-> <<>>]
Over(c) == req[c].at = "end"
Job(op, at, n, nfs) == [Ended(op) EXCEPT !.at = at, !.n = n, !.nfs = nfs]

Section(s) == [key |-> s, val |-> "section"]
Setting(k, v) == [key |-> k, val |-> v]
Include == Setting("include", "shares")

ShareInit ==
    /\ conf = [n \in {} |-> CHOOSE p \in Path : TRUE]
    /\ meta = Missing
    /\ exports = {} /\ etc = <<>>
    /\ smb \in { <<Section("[global]"), Setting("workgroup", "a")>>,
                 <<Section("[global]"), Setting("workgroup", "a"), Section("[homes]")>>,
                 <<Section("[global]"), Section("[homes]"), Setting("log level", "a")>> }
    /\ req = [c \in Request |-> Ended("ok")]
    /\ calm = TRUE

ShareTypeOK ==
    /\ DOMAIN conf \subseteq Share /\ Range(conf) \subseteq Path
    /\ DOMAIN meta.map \subseteq Share /\ Range(meta.map) \subseteq Clients
    /\ exports \subseteq Path \X Clients
-----------------------------------------------------------------------------
loadNFSMeta == meta.map

Unusable == meta.file # "ok"

\* A nil map is written as null.
saveNFSMeta(m) == meta' = IF m.file = "ok" THEN m ELSE Null

\* The exports of the shares that have both a stanza and clients.
regenerateNFSExports(m) ==
    exports' = {<<conf[n], m.map[n]>> : n \in DOMAIN conf \cap DOMAIN m.map}

Shares == {[Name |-> n, Path |-> conf[n],
            NFSClients |-> IF n \in DOMAIN loadNFSMeta THEN loadNFSMeta[n] ELSE NotNFS] : n \in DOMAIN conf}

writeShareConf(n, p) == conf' = [m \in DOMAIN conf \cup {n} |-> IF m = n THEN p ELSE conf[m]]

readShareConf(n) == conf[n]

ensureSmbConfInclude == smb' = IF Contains(smb, Include) THEN smb ELSE Append(smb, Include)
-----------------------------------------------------------------------------
(* A request: the stanza first, then nfs.json is loaded, saved, and the    *)
(* exports are made.                                                       *)

Goto(c, r) == req' = [req EXCEPT ![c] = r]

Begin(c, r) ==
    /\ Over(c) /\ Goto(c, r)
    /\ calm' = (calm /\ \A o \in Request \ {c} : Over(o))

\* Without NFS nothing more is done, whatever the share was before; and if
\* smbd can be neither reloaded nor restarted the stanza stays.
CreateShare(c, n, p, nfs) ==
    /\ \/ Begin(c, IF nfs = NotNFS THEN Ended("ok") ELSE Job("create", "load", n, nfs))
       \/ Begin(c, Ended("failed"))
    /\ writeShareConf(n, p) /\ ensureSmbConfInclude
    /\ UNCHANGED <<meta, exports, etc>>

\* Slip: a share without a stanza is reported as deleted.
SlipDeleteShare(c, n) ==
    /\ Begin(c, IF n \in DOMAIN conf THEN Job("delete", "load", n, NotNFS) ELSE Job("delete", "return", n, NotNFS))
    /\ conf' = Restrict(conf, DOMAIN conf \ {n})
    /\ UNCHANGED <<meta, exports, etc, smb>>

\* A stanza that is gone already is no reason to stop.
DeleteShare(c, n) ==
    /\ Begin(c, Job("delete", "load", n, NotNFS))
    /\ conf' = Restrict(conf, DOMAIN conf \ {n})
    /\ UNCHANGED <<meta, exports, etc, smb>>

UpdateShare(c, n, nfs) ==
    /\ n \in DOMAIN conf
    /\ Begin(c, Job("update", "load", n, nfs))
    /\ writeShareConf(n, readShareConf(n))
    /\ UNCHANGED <<meta, exports, etc, smb>>

\* The map as the request changes it.
Changed(r) ==
    [meta EXCEPT !.map = IF r.nfs = NotNFS THEN Restrict(@, DOMAIN @ \ {r.n})
                         ELSE [m \in DOMAIN @ \cup {r.n} |-> IF m = r.n THEN r.nfs ELSE @[m]]]

\* A file that cannot be read ends a creation and a deletion; an update goes on
\* with a nil map, in which a key can be deleted but not set: it panics.
Stops(r) == Unusable /\ (r.nfs # NotNFS \/ (r.op = "delete" /\ meta.file = "torn"))

Load(c) ==
    LET r == req[c] IN
    /\ r.at = "load"
    /\ Goto(c, CASE Stops(r) -> Ended("failed")
                 [] r.op = "delete" /\ r.n \notin DOMAIN meta.map -> [r EXCEPT !.at = "return"]
                 [] OTHER -> [r EXCEPT !.at = "save", !.map = Changed(r)])
    /\ UNCHANGED <<conf, meta, exports, etc, smb, calm>>

\* A save that fails, at once or half way, ends the request, but an update
\* exports what is not saved.
Save(c) ==
    /\ req[c].at = "save"
    /\ \/ saveNFSMeta(req[c].map) /\ Goto(c, [req[c] EXCEPT !.at = "export"]) /\ UNCHANGED calm
       \/ /\ Goto(c, IF req[c].op = "update" THEN [req[c] EXCEPT !.at = "export"] ELSE Ended("failed"))
          /\ calm' = (calm /\ req[c].op # "update") /\ meta' \in {meta, Torn}
    /\ UNCHANGED <<conf, exports, etc, smb>>

Export(c) ==
    /\ req[c].at = "export"
    /\ \/ regenerateNFSExports(req[c].map) /\ Goto(c, [req[c] EXCEPT !.at = "return"]) /\ UNCHANGED calm
       \/ /\ Goto(c, Ended(IF req[c].op = "update" THEN "ok" ELSE "failed"))
          /\ calm' = FALSE /\ UNCHANGED exports
    /\ UNCHANGED <<conf, meta, etc, smb>>

Return(c) ==
    /\ req[c].at = "return"
    /\ Goto(c, Ended("ok"))
    /\ UNCHANGED <<conf, meta, exports, etc, smb, calm>>
-----------------------------------------------------------------------------
(* /etc/exports: read, and written again.                                  *)

NFSExports == {<<etc[i].path, etc[i].clients>> : i \in DOMAIN etc}

AddNFSExport(c, p, x) ==
    /\ Len(etc) < MaxLines
    /\ Begin(c, [Job("export", "write", NotNFS, x) EXCEPT !.path = p, !.lines = Append(etc, [path |-> p, clients |-> x])])
    /\ UNCHANGED <<conf, meta, exports, etc, smb>>

LinesWithout(p) == SelectSeq(etc, LAMBDA l : l.path # p)

DeleteNFSExport(c, p) ==
    /\ Begin(c, [Job("unexport", "write", NotNFS, NotNFS) EXCEPT !.path = p, !.lines = LinesWithout(p)])
    /\ UNCHANGED <<conf, meta, exports, etc, smb>>

Write(c) ==
    /\ req[c].at = "write"
    /\ \/ etc' = req[c].lines /\ Goto(c, Ended("ok")) /\ UNCHANGED calm
       \/ etc' \in {etc, <<>>} /\ Goto(c, Ended("failed")) /\ calm' = FALSE
    /\ UNCHANGED <<conf, meta, exports, smb>>
-----------------------------------------------------------------------------
(* The global section of smb.conf.                                         *)

\* The last line with a key counts, whatever section it is in.
GetSambaGlobal(lines) ==
    [k \in Keys |-> LET at == {i \in DOMAIN lines : lines[i].key = k}
                    IN IF at = {} THEN "default" ELSE lines[CHOOSE i \in at : \A j \in at : j <= i].val]

FirstShareSection(lines) ==
    LET at == {i \in DOMAIN lines : lines[i].val = "section" /\ lines[i].key # "[global]"}
    IN IF at = {} THEN 0 ELSE CHOOSE i \in at : \A j \in at : i <= j

\* Every line with the key is replaced; a key that is missing goes before the
\* first section of a share, and nowhere if there is none.
WithKey(lines, k, v) ==
    IF \E i \in DOMAIN lines : lines[i].key = k
    THEN [i \in DOMAIN lines |-> IF lines[i].key = k THEN Setting(k, v) ELSE lines[i]]
    ELSE IF FirstShareSection(lines) = 0 THEN lines
         ELSE InsertAt(lines, FirstShareSection(lines), Setting(k, v))

WithKeys(lines, cfg) == WithKey(WithKey(lines, "workgroup", cfg["workgroup"]), "log level", cfg["log level"])

\* A write that fails half way leaves an empty file.
SetSambaGlobal(cfg) ==
    /\ smb' \in {WithKeys(smb, cfg), <<>>}
    /\ UNCHANGED <<conf, meta, exports, etc, req, calm>>
-----------------------------------------------------------------------------
createShareHandler(c) ==
    \E n \in Share, p \in Path, x \in Clients \cup {NotNFS} : CreateShare(c, n, p, x)

deleteShareHandler(c) == \E n \in Share : DeleteShare(c, n)

updateShareHandler(c) == \E n \in Share, x \in Clients \cup {NotNFS} : UpdateShare(c, n, x)

addNFSExportHandler(c) == \E p \in Path, x \in Clients : AddNFSExport(c, p, x)

deleteNFSExportHandler(c) == \E p \in Path : DeleteNFSExport(c, p)

setSambaGlobalHandler == \E cfg \in [Keys -> {"a", "b"}] : SetSambaGlobal(cfg)

\* nasd stops and is started again; a save that had begun has torn the file.
Crash ==
    /\ \E c \in Request : ~Over(c)
    /\ meta' \in {meta} \cup (IF \E c \in Request : req[c].at = "save" THEN {Torn} ELSE {})
    /\ req' = [c \in Request |-> Ended("failed")]
    /\ calm' = FALSE
    /\ UNCHANGED <<conf, exports, etc, smb>>

\* The shares, the exports added by hand, and Samba's settings.
StoreNext ==
    \/ \E c \in Request :
        \/ createShareHandler(c) \/ deleteShareHandler(c) \/ updateShareHandler(c)
        \/ Load(c) \/ Save(c) \/ Export(c) \/ Return(c)
    \/ Crash
ExportNext ==
    \/ \E c \in Request : addNFSExportHandler(c) \/ deleteNFSExportHandler(c) \/ Write(c)
    \/ Crash
ShareNext == StoreNext \/ ExportNext \/ setSambaGlobalHandler
-----------------------------------------------------------------------------
\* A deletion that reports success, after one that could not save nfs.json too,
\* leaves no clients there and no export that no share accounts for.  After one
\* that saved it and could not write the exports (calm) a retry finds no clients
\* any more, reports success and leaves the export (DeleteShare).
DeletedIsGone ==
    \A c \in Request :
        calm' /\ req[c].op = "delete" /\ req'[c] = Ended("ok") =>
            /\ req[c].n \notin DOMAIN meta'.map
            /\ \A e \in exports' : \E n \in DOMAIN meta'.map : meta'.map[n] = e[2]

\* The exports added by hand that a request is not about stay as they are
\* (AddNFSExport, DeleteNFSExport).
OthersStay ==
    calm' => \A p \in Path :
        \/ {e \in NFSExports' : e[1] = p} = {e \in NFSExports : e[1] = p}
        \/ \E c \in Request : req[c].at = "write" /\ req[c].path = p

\* What the settings of Samba are set to is what they are read as, though the
\* keys may be missing or be in several sections; only a key that is missing from
\* a file without a share is not set at all, and reads as before (SetSambaGlobal).
SambaRoundTrip ==
    \A cfg \in [Keys -> {"a", "b"}], k \in Keys :
        GetSambaGlobal(WithKeys(smb, cfg))[k] =
            IF FirstShareSection(smb) # 0 \/ (\E i \in DOMAIN smb : smb[i].key = k) THEN cfg[k]
            ELSE GetSambaGlobal(smb)[k]
=============================================================================
