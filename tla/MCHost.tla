------------------------------- MODULE MCHost -------------------------------
(***************************************************************************)
(* The settings and services of the host that nasd writes files and runs   *)
(* tools for, for TLC: shares, lists kept in files, the network, the       *)
(* documents that are replaced as a whole, containers and the targets of   *)
(* Wake-on-LAN.  Where routes share a file (the alert rules, the host name *)
(* and the clock, the mail account) they are in one part; two parts share  *)
(* none, so each is explored on its own (focus) while the others stay in   *)
(* their first state.                                                      *)
(***************************************************************************)
EXTENDS Host, Integers, FiniteSets, TLC

VARIABLES
    focus,
    conf, meta, exports, etc, smb, shareReq, shareCalm,
    list, listReq, repeated,
    ifaces, backup, resolv, timesyncd, chrony, dhcp, sites, caddyfile, siteReq, siteCalm,
    containers, images, volumes, logs, shown

shareVars == <<conf, meta, exports, etc, smb, shareReq, shareCalm>>
listVars == <<list, listReq, repeated>>
settingVars == <<ifaces, backup, resolv, timesyncd, chrony, dhcp>>
siteVars == <<sites, caddyfile, siteReq, siteCalm>>
dockerVars == <<containers, images, volumes, logs, shown>>
all == <<focus, shareVars, listVars, settingVars, siteVars, hostVars, dockerVars, wolVars>>
-----------------------------------------------------------------------------
\* Two shares, one below the directory of the other.
Share == INSTANCE Shares WITH
    Share <- {"s1", "s2"}, Path <- {<<"a">>, <<"a", "b">>}, Clients <- {"net"}, MaxLines <- 2,
    Request <- Client, req <- shareReq, calm <- shareCalm

\* Names of which one is the beginning of the other; for the scrubs a pool more,
\* whose name is the end of one.
Lists == INSTANCE ListFiles WITH
    Name <- {<<"t">>, <<"t", "2">>}, MaxHosts <- 2, Request <- Client, req <- listReq
Scrubs == INSTANCE ListFiles WITH
    Name <- {<<"t">>, <<"t", "2">>, <<"2">>}, MaxHosts <- 2, Request <- Client, req <- listReq

Net == INSTANCE Network WITH
    Iface <- {"eth0", "eth1"}, Server <- {"n1", "n2"}, Site <- {"w1", "w2"},
    Request <- Client, req <- siteReq, calm <- siteCalm

Docker == INSTANCE Containers WITH
    Id <- {"c1", "c2"}, Image <- {"i1", "i2"}, Volume <- {"v"}, Line <- {<<1>>, <<2, 1>>}, MaxLines <- 2

Documents == {"webhook", "smtp", "cert", "settings", "syslog", "docker"}
Lone == {"motd", "tier", "loki", "login", "crontab", "retention"}

\* The part that is not looked at starts in one state only.
MCInit ==
    /\ focus \in {"shares", "exports", "samba",
                  "channels", "alerts", "logrules", "policies", "favorites", "keys", "hosts", "scrub",
                  "ifaces", "resolv", "ntp", "dhcp", "sites",
                  "webhook", "smtp", "cert", "settings", "syslog", "docker", "lone",
                  "logs", "engine", "wol"}
    /\ Share!ShareInit /\ (focus # "samba" => Len(smb) = 3 /\ smb[2].key = "workgroup")
    /\ Lists!ListInit
    /\ Net!NetworkInit
    /\ focus # "ifaces" => ifaces[1].kind = "auto"
    /\ focus # "ntp" => timesyncd = <<>> /\ chrony = Net!NoFile
    /\ HostInit /\ Docker!DockerInit /\ WolInit

ShareStep(f, A) == /\ focus = f /\ A
                   /\ UNCHANGED <<focus, listVars, settingVars, siteVars, hostVars, dockerVars, wolVars>>
ListStep(f, A(_)) == /\ focus = f
                     /\ \E c \in Client : A(c) \/ Lists!Write(c) \/ Lists!Tear(c) \/ Lists!Lose(c)
                     /\ UNCHANGED <<focus, shareVars, settingVars, siteVars, hostVars, dockerVars, wolVars>>
NetStep(f, A) == /\ focus = f /\ A
                 /\ UNCHANGED <<focus, shareVars, listVars, hostVars, dockerVars, wolVars>>
DocStep(docs) == /\ HostNext(docs)
                 /\ UNCHANGED <<focus, shareVars, listVars, settingVars, siteVars, dockerVars, wolVars>>
DockerStep(f, A) == /\ focus = f /\ A
                    /\ UNCHANGED <<focus, shareVars, listVars, settingVars, siteVars, hostVars, wolVars>>

MCNext ==
    \/ ShareStep("shares", Share!StoreNext)
    \/ ShareStep("exports", Share!ExportNext)
    \/ ShareStep("samba", Share!setSambaGlobalHandler)
    \/ ListStep("channels", Lists!ChannelNext)
    \/ ListStep("alerts", Lists!RuleNext)
    \/ ListStep("logrules", Lists!LogRuleNext)
    \/ ListStep("policies", Lists!PolicyNext)
    \/ ListStep("favorites", Lists!appSetFavoriteHandler)
    \/ ListStep("keys", Lists!KeyNext)
    \/ ListStep("hosts", Lists!HostNext)
    \/ ListStep("scrub", Scrubs!setScrubScheduleHandler)
    \/ NetStep("ifaces", Net!setIfaceConfigHandler)
    \/ NetStep("resolv", Net!setDNSConfigHandler)
    \/ NetStep("ntp", Net!setNTPServersHandler)
    \/ NetStep("dhcp", Net!dhcpConfigSetHandler)
    \/ NetStep("sites", Net!CaddyNext)
    \/ focus \in Documents /\ DocStep({focus}) /\ (focus = "settings" => requests' <= 2)
    \/ focus = "lone" /\ DocStep(Lone) /\ requests' <= 2
    \/ DockerStep("logs", Docker!LogNext)
    \/ DockerStep("engine", Docker!EngineNext)
    \/ /\ focus = "wol" /\ WolNext
       /\ UNCHANGED <<focus, shareVars, listVars, settingVars, siteVars, hostVars, dockerVars>>

MCSpec == MCInit /\ [][MCNext]_all

Symmetry == Permutations(Client)
-----------------------------------------------------------------------------
\* Lists that are files: they hold a name once, and a request changes its own entry
\* only (ListFiles); a deleted share leaves no clients and no exports, and exports
\* added by hand stay when a request is about others (Shares).
ListChange == IF focus \in {"shares", "exports"} THEN Share!DeletedIsGone /\ Share!OthersStay
              ELSE Scrubs!OthersKept /\ Scrubs!ScrubShown
ListsKept == []Lists!NamesOnce /\ [][ListChange]_all

\* What is set is shown: interfaces, name servers, time servers, DHCP and the
\* sites of the reverse proxy (Network), the global settings of Samba (Shares).
SettingsShown == /\ focus \in {"ifaces", "resolv", "ntp", "dhcp"} => Net!SettingsShown
                 /\ focus = "sites" => Net!SitesListed
                 /\ focus = "samba" => Share!SambaRoundTrip

\* The log of a container is shown complete, and what a container uses is kept
\* (Containers).
ContainersKept == Docker!LogsComplete /\ Docker!InUseKept

\* The state of the parts has its type.
TypesOK == /\ Scrubs!ListTypeOK /\ Share!ShareTypeOK /\ Net!NetworkTypeOK
           /\ HostTypeOK /\ Docker!DockerTypeOK /\ WolTypeOK
=============================================================================
