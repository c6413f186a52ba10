------------------------------ MODULE Network ------------------------------
(***************************************************************************)
(* The network settings of internal/storage/linux.go that are kept in      *)
(* files other programs own: /etc/network/interfaces, resolv.conf,         *)
(* timesyncd.conf, the DHCP part of dnsmasq and the Caddyfile.  Each has a *)
(* writer and a parser; files that were written by hand are read as well.  *)
(* The Caddyfile is put together from one file per site, by requests that  *)
(* may overlap.                                                            *)
(***************************************************************************)
EXTENDS Naturals, Sequences, SequencesExt, FiniteSets, FiniteSetsExt, Functions

CONSTANTS
    Iface,     \* network interfaces
    Server,    \* name servers and time servers
    Site,      \* names of sites of the reverse proxy
    Request    \* requests about sites that can be in progress at once

VARIABLES
    ifaces, backup,  \* /etc/network/interfaces and its copy: lines
    resolv,          \* resolv.conf
    timesyncd,       \* timesyncd.conf
    chrony,          \* the servers of chrony.conf, or NoFile
    dhcp,            \* kilasos-dhcp.conf
    sites,           \* sites[n]: what the file of a site says, Blank if it could not be written
    caddyfile,       \* the lines of the Caddyfile
    req,             \* req[c]: what a request about a site has read
    calm             \* ghost: no two of them overlapped, and the Caddyfile could be written

settingVars == <<ifaces, backup, resolv, timesyncd, chrony, dhcp>>
caddyVars == <<sites, caddyfile, req, calm>>
networkVars == <<ifaces, backup, resolv, timesyncd, chrony, dhcp, sites, caddyfile, req, calm>>

None == "none"
NoFile == <<"no file">>
-----------------------------------------------------------------------------
(* /etc/network/interfaces.  A line starts a stanza or is an option of the *)
(* stanza above it.                                                        *)

Auto(S) == [kind |-> "auto", names |-> S, arg |-> None]
Stanza(n, family, method) == [kind |-> family, names |-> {n}, arg |-> method]
Option(k, v) == [kind |-> "option", names |-> {k}, arg |-> v]
IsOption(l) == l.kind = "option"
\* The stanza a line belongs to.
StanzaOf(lines, i) == Max({0} \cup {j \in 1 .. i : ~IsOption(lines[j])})

\* An address with a netmask instead of a prefix, and what it is with one.
Bare == "10.0.0.1"
Cidr == "10.0.0.1/8"
netmaskToPrefix(mask) == IF mask = "255.0.0.0" THEN 8 ELSE 0

DHCPOnly == [DHCP |-> TRUE, Address |-> None, Gateway |-> None]

\* The last stanza of the interface counts, and the last option of a kind.
parseIfacesFile(lines, n) ==
    LET mine == {i \in DOMAIN lines : lines[i].kind = "inet" /\ lines[i].names = {n}}
        at == Max({0} \cup mine)
        option(k) == LET js == {j \in DOMAIN lines : lines[j] = Option(k, lines[j].arg) /\ StanzaOf(lines, j) = at}
                     IN IF js = {} THEN None ELSE lines[Max(js)].arg
        address == IF option("address") = Bare /\ netmaskToPrefix(option("netmask")) > 0
                   THEN Cidr ELSE option("address")
    IN IF at = 0 \/ lines[at].arg # "static" THEN DHCPOnly
       ELSE [DHCP |-> FALSE, Address |-> address, Gateway |-> option("gateway")]

buildIfaceStanza(n, cfg) ==
    <<Auto({n}), Stanza(n, "inet", IF cfg.DHCP THEN "dhcp" ELSE "static")>>
        \o (IF cfg.DHCP \/ cfg.Address = None THEN <<>> ELSE <<Option("address", cfg.Address)>>)
        \o (IF cfg.DHCP \/ cfg.Gateway = None THEN <<>> ELSE <<Option("gateway", cfg.Gateway)>>)

Dropped(lines, i, n) ==
    LET h == StanzaOf(lines, i) IN
    IF IsOption(lines[i]) THEN h # 0 /\ lines[h].kind \in {"inet", "inet6"} /\ n \in lines[h].names
    ELSE n \in lines[i].names

\* Slip: the options of the stanza that is replaced are left behind.
SliprewriteIfacesFile(lines, n, new) ==
    SelectSeq(lines, LAMBDA l : IsOption(l) \/ n \notin l.names) \o new

\* The stanzas of the interface go, with their options, and so does every line
\* "auto" that names it.
rewriteIfacesFile(lines, n, new) ==
    FlattenSeq([i \in DOMAIN lines |-> IF Dropped(lines, i, n) THEN <<>> ELSE <<lines[i]>>]) \o new

GetIfaceConfig(n) == parseIfacesFile(ifaces, n)

SetIfaceConfig(n, cfg) ==
    /\ backup' = ifaces
    /\ ifaces' = rewriteIfacesFile(ifaces, n, buildIfaceStanza(n, cfg))
    /\ UNCHANGED <<resolv, timesyncd, chrony, dhcp, caddyVars>>

IfaceConfigs == [DHCP : BOOLEAN, Address : {Cidr, "10.0.0.2/8"}, Gateway : {None, "10.0.0.9"}]
-----------------------------------------------------------------------------
(* resolv.conf, timesyncd.conf and the DHCP server.                        *)

Line(k, v) == [key |-> k, val |-> v]
Values(lines, k) == FlattenSeq([i \in DOMAIN lines |-> IF lines[i].key = k THEN lines[i].val ELSE <<>>])

GetDNSConfig(lines) == [Nameservers |-> Values(lines, "nameserver"), Search |-> Values(lines, "search")]

DNSLines(cfg) ==
    [i \in DOMAIN cfg.Nameservers |-> Line("nameserver", <<cfg.Nameservers[i]>>)]
        \o (IF cfg.Search = <<>> THEN <<>> ELSE <<Line("search", cfg.Search)>>)

SetDNSConfig(cfg) ==
    resolv' = DNSLines(cfg) /\ UNCHANGED <<ifaces, backup, timesyncd, chrony, dhcp, caddyVars>>

\* chrony first; then the first line NTP= of timesyncd.
GetNTPServers(lines, other) ==
    LET at == {i \in DOMAIN lines : lines[i].key = "NTP="}
    IN IF other # NoFile THEN other ELSE IF at = {} THEN <<>> ELSE lines[Min(at)].val

\* A line that is commented out is used as well; without any, one is added.
NTPLines(lines, servers) ==
    LET at == {i \in DOMAIN lines : lines[i].key \in {"NTP=", "#NTP="}}
    IN IF at = {} THEN Append(lines, Line("NTP=", servers))
       ELSE [i \in DOMAIN lines |-> IF i \in at THEN Line("NTP=", servers) ELSE lines[i]]

\* Only timesyncd is written.
SetNTPServers(servers) ==
    /\ timesyncd' = NTPLines(timesyncd, servers)
    /\ UNCHANGED <<ifaces, backup, resolv, chrony, dhcp, caddyVars>>

DefaultDNS == <<"1.1.1.1", "8.8.8.8">>

\* Whether it is enabled is not in the file, and the default servers are shown in
\* front of those that were set.
parseDnsmasqDHCP(lines) ==
    [Enabled |-> FALSE, Router |-> Values(lines, "3"), DNSServers |-> DefaultDNS \o Values(lines, "6")]

DHCPLines(cfg) ==
    IF ~cfg.Enabled THEN <<>>
    ELSE <<Line("3", cfg.Router)>> \o [i \in DOMAIN cfg.DNSServers |-> Line("6", <<cfg.DNSServers[i]>>)]

SetDHCPConfig(cfg) ==
    dhcp' = DHCPLines(cfg) /\ UNCHANGED <<ifaces, backup, resolv, timesyncd, chrony, caddyVars>>

Servers == {<<>>} \cup {<<s>> : s \in Server} \cup {<<s, t>> : s, t \in Server}
DNSConfigs == [Nameservers : Servers, Search : Servers]
DHCPConfigs == [Enabled : BOOLEAN, Router : {<<s>> : s \in Server}, DNSServers : Servers]
-----------------------------------------------------------------------------
(* The reverse proxy.                                                      *)

Open(label) == [kind |-> "open", label |-> label]
Directive == [kind |-> "text", label |-> None]
Close == [kind |-> "close", label |-> None]
Preamble == <<Open(":80"), Open("handle /"), Directive, Close, Close>>

\* The blocks inside that of a site: the addresses it is limited to, what is done
\* for those, and the passwords it asks for.
Inner(s) == (IF s.IPAllow THEN <<"@allowed", "handle @allowed">> ELSE <<>>)
                \o (IF s.BasicAuth THEN <<"basic_auth">> ELSE <<>>)

Blank == [Domain |-> None, IPAllow |-> FALSE, BasicAuth |-> FALSE]

SiteLines(s) ==
    IF s = Blank THEN <<>>
    ELSE <<Open(s.Domain), Directive>>
         \o FlattenSeq([i \in DOMAIN Inner(s) |-> <<Open(Inner(s)[i]), Directive, Close>>])
         \o <<Directive, Close>>

Merged(S) == Preamble \o FoldSet(LAMBDA n, acc : acc \o SiteLines(S[n]), <<>>, DOMAIN S)

\* An opened block takes the place of the one around it.
parseCaddyfile(lines) ==
    FoldLeft(LAMBDA acc, l :
        CASE l.kind = "open" -> [acc EXCEPT !.block = l.label]
          [] l.kind = "close" /\ acc.block # None -> [block |-> None, found |-> Append(acc.found, acc.block)]
          [] OTHER -> acc,
        [block |-> None, found |-> <<>>], lines).found

CaddySites == parseCaddyfile(caddyfile)

Idle == [at |-> "idle", read |-> <<>>]

Begin(c) ==
    /\ req[c] = Idle
    /\ req' = [req EXCEPT ![c].at = "merge"]
    /\ calm' = (calm /\ \A o \in Request \ {c} : req[o] = Idle)
    /\ UNCHANGED <<caddyfile, settingVars>>

\* Nobody looks whether the file could be opened or written.
CreateCaddySite(c, n, s) ==
    /\ Begin(c)
    /\ \/ \E t \in {s, Blank} : sites' = [m \in DOMAIN sites \cup {n} |-> IF m = n THEN t ELSE sites[m]]
       \/ UNCHANGED sites

\* The name in the path is not used: a site that is renamed is a second one.
UpdateCaddySite(c, name, n, s) == name \in Site /\ CreateCaddySite(c, n, s)

DeleteCaddySite(c, n) == Begin(c) /\ sites' = Restrict(sites, DOMAIN sites \ {n})

\* The files of the sites are read, and the Caddyfile is written, or not.
mergeCaddyConfig(c) ==
    \/ /\ req[c].at = "merge"
       /\ req' = [req EXCEPT ![c] = [at |-> "write", read |-> Merged(sites)]]
       /\ UNCHANGED <<sites, caddyfile, calm, settingVars>>
    \/ /\ req[c].at = "write"
       /\ \/ caddyfile' = req[c].read /\ UNCHANGED calm
          \/ caddyfile' \in {caddyfile, <<>>} /\ calm' = FALSE
       /\ req' = [req EXCEPT ![c] = Idle]
       /\ UNCHANGED <<sites, settingVars>>

SiteConfigs == [Domain : {"a.example"}, IPAllow : BOOLEAN, BasicAuth : BOOLEAN]
-----------------------------------------------------------------------------
setIfaceConfigHandler == \E n \in Iface, cfg \in IfaceConfigs : SetIfaceConfig(n, cfg)

setDNSConfigHandler == \E cfg \in DNSConfigs : SetDNSConfig(cfg)

setNTPServersHandler == \E s \in Servers : SetNTPServers(s)

dhcpConfigSetHandler == \E cfg \in DHCPConfigs : SetDHCPConfig(cfg)

caddySiteCreateHandler(c) == \E n \in Site, s \in SiteConfigs : CreateCaddySite(c, n, s)

caddySiteUpdateHandler(c) == \E name, n \in Site, s \in SiteConfigs : UpdateCaddySite(c, name, n, s)

caddySiteDeleteHandler(c) == \E n \in Site : DeleteCaddySite(c, n)

\* The files as an installer or an administrator may have left them.
NetworkInit ==
    /\ ifaces \in { <<Auto(Iface)>> \o SetToSeq({Stanza(n, "inet", "dhcp") : n \in Iface}),
                    FlattenSeq(SetToSeq({<<Stanza(n, "inet", "static"), Option("address", Bare),
                        Option("netmask", "255.0.0.0"), Stanza(n, "inet6", "auto"), Option("gateway", "fe80::1")>> : n \in Iface})) }
    /\ backup = <<>>
    /\ resolv = <<>> /\ dhcp = <<>>
    /\ timesyncd \in {<<>>, <<Line("#NTP=", <<>>)>>, <<Line("#NTP=", <<>>), Line("NTP=", DefaultDNS)>>}
    /\ chrony \in {NoFile, DefaultDNS}
    /\ sites = [n \in {} |-> None] /\ caddyfile = Preamble
    /\ req = [c \in Request |-> Idle] /\ calm = TRUE

SettingNext == setIfaceConfigHandler \/ setDNSConfigHandler \/ setNTPServersHandler \/ dhcpConfigSetHandler

CaddyNext ==
    \E c \in Request :
        caddySiteCreateHandler(c) \/ caddySiteUpdateHandler(c) \/ caddySiteDeleteHandler(c) \/ mergeCaddyConfig(c)

NetworkNext == SettingNext \/ CaddyNext

NetworkTypeOK ==
    /\ \A i \in DOMAIN ifaces : ifaces[i].kind \in {"auto", "inet", "inet6", "option"}
    /\ DOMAIN sites \subseteq Site /\ Range(sites) \subseteq SiteConfigs \cup {Blank}
-----------------------------------------------------------------------------
\* Whatever the files were, what is set is what is shown afterwards, and the
\* other interfaces are shown as before (SetIfaceConfig and GetIfaceConfig,
\* SetNTPServers and GetNTPServers where there is no chrony, SetDNSConfig and
\* GetDNSConfig, the router of DHCPConfig).
SettingsShown ==
    /\ \A n \in Iface, cfg \in IfaceConfigs :
        LET new == rewriteIfacesFile(ifaces, n, buildIfaceStanza(n, cfg)) IN
        /\ parseIfacesFile(new, n) = IF cfg.DHCP THEN DHCPOnly ELSE cfg
        /\ \A m \in Iface \ {n} : parseIfacesFile(new, m) = GetIfaceConfig(m)
    /\ \A s \in Servers : chrony = NoFile => GetNTPServers(NTPLines(timesyncd, s), chrony) = s
    /\ \A cfg \in DNSConfigs : GetDNSConfig(DNSLines(cfg)) = cfg
    /\ \A cfg \in DHCPConfigs : cfg.Enabled => parseDnsmasqDHCP(DHCPLines(cfg)).Router = cfg.Router

\* Once requests that did not overlap and could write the Caddyfile are over, the
\* list of sites is that of the files: the entry of the preamble, then for every
\* file the blocks inside its site, or the domain if there are none, and nothing
\* of a site that was deleted (mergeCaddyConfig, parseCaddyfile).
SitesListed ==
    LET entries(s) == IF s # Blank /\ Inner(s) = <<>> THEN <<s.Domain>> ELSE Inner(s)
    IN calm /\ (\A c \in Request : req[c] = Idle) =>
        CaddySites = <<"handle /">> \o FoldSet(LAMBDA n, acc : acc \o entries(sites[n]), <<>>, DOMAIN sites)
=============================================================================
