------------------------------- MODULE Probes -------------------------------
(***************************************************************************)
(* One poll of the collectors that are all or nothing, and of those that   *)
(* publish one check for every entry of their configuration, in the form   *)
(* of module Collectors.                                                   *)
(***************************************************************************)
EXTENDS Collectors

(***************************************************************************)
(* unifi.py.  w.wan: up, slow, down.  w.subsystems: those it reports ->    *)
(* whether they are well.  w.devices: device -> state code; w.watched.     *)
(***************************************************************************)
STATE_CONNECTED     == 1
TRANSITIONAL_STATES == {4, 5}

WanSeverity(w) ==
  CASE w.wan = "up"   -> OK
    [] w.wan = "slow" -> WARNING
    [] OTHER          -> CRITICAL

DeviceSeverity(w, d) ==
  IF w.devices[d] = STATE_CONNECTED THEN OK
  ELSE IF w.devices[d] \in TRANSITIONAL_STATES THEN UNKNOWN
  ELSE IF d \in w.watched THEN CRITICAL ELSE WARNING

SubsystemSeverity(w, s) == IF w.subsystems[s] THEN OK ELSE WARNING

Unifi(w, r) ==
  IF ~Answers(r.health) \/ ~Answers(r.device) \/ ~Answers(r.sta) THEN Failed
  ELSE Of({Read({Check(<<"unifi", "wan">>, WanSeverity(w)), Check(<<"unifi", "clients">>, OK)}),
           Read({Check(<<"unifi", s>>, SubsystemSeverity(w, s)) : s \in DOMAIN w.subsystems}),
           Read({Check(<<"unifi", "dev", d>>, DeviceSeverity(w, d)) : d \in DOMAIN w.devices})})

\* pihole.py, version 6 of the API.
Pihole(w, r) ==
  IF ~Answers(r.summary) \/ ~Answers(r.blocking) THEN Failed
  ELSE Of({Read({Check(<<"pihole", "blocking">>, IF w.enabled THEN OK ELSE CRITICAL),
                 Check(<<"pihole", "queries">>, IF w.queries > 0 THEN OK ELSE WARNING)})})

(***************************************************************************)
(* ups.py.  upsd lists its variables by name: battery.charge,              *)
(* battery.runtime, ups.load, ups.status.  A connection that is cut ends   *)
(* the list as its last line would; here it is cut after the first.        *)
(***************************************************************************)
CriticalFlags == {"OB", "LB", "OFF", "OVER", "ALARM"}
QuietFlags    == {"OL", "CHRG"}

FlagSeverity(f) ==
  CASE f \in CriticalFlags -> CRITICAL
    [] f \in QuietFlags    -> OK
    [] OTHER               -> WARNING

PowerSeverity_NoFlags(flags) ==  \* faulty: no flag is no trouble
  worst({OK} \cup {FlagSeverity(f) : f \in flags})

\* No flag at all is not health.
PowerSeverity(flags) == worst({FlagSeverity(f) : f \in flags})

Ups(w, r) ==
  LET received == IF Answers(r.list) THEN DOMAIN w.readings ELSE {"battery"}
      flags    == IF Answers(r.list) THEN w.flags ELSE {}
  IN  IF r.list = "fails" THEN Failed
      ELSE Of({Read({Check(<<"ups", "status">>, PowerSeverity(flags))}),
               Read({Check(<<"ups", x>>, AtThresholds(w.readings[x])) : x \in received})})

(***************************************************************************)
(* backups.py.  w.targets: target -> how old its newest restore point is   *)
(* against max_age_hours, "none" without one, "cut" when the listing was   *)
(* cut off; and whether it escalates.                                      *)
(***************************************************************************)
BackupSeverity(t) ==
  CASE t.age = "cut"   -> UNKNOWN
    [] t.age = "fresh" -> OK
    [] t.age = "late"  -> WARNING
    [] OTHER           -> IF t.critical THEN CRITICAL ELSE WARNING

Backups(w, r) ==
  IF ~Answers(r.bucket) \/ ~Answers(r.list) THEN Failed
  ELSE Of({Read({Check(<<"backup", t>>, BackupSeverity(w.targets[t])) : t \in DOMAIN w.targets})})

\* cloudflare.py.  A page that fails, or no tunnel to watch, is an error.
TunnelSeverity(status) ==
  CASE status = "healthy" -> OK
    [] status = "down"    -> CRITICAL
    [] OTHER              -> WARNING

Cloudflare(w, r) ==
  IF ~Answers(r.tunnels) \/ DOMAIN w.tunnels = {} THEN Failed
  ELSE Of({Read({Check(<<"cf", "tunnel", t>>, TunnelSeverity(w.tunnels[t])) : t \in DOMAIN w.tunnels})})

\* wan.py.  w.names: dynamic DNS name -> in sync, stale, silent.
NameSeverity(found) ==
  CASE found = "sync"  -> OK
    [] found = "stale" -> WARNING
    [] OTHER           -> CRITICAL

Wan(w, r) ==
  IF ~Answers(r.echo) THEN Failed
  ELSE Of({Read({Check(<<"wan", "ip">>, OK)}),
           Read({Check(<<"wan", "ddns", x>>, NameSeverity(w.names[x])) : x \in DOMAIN w.names})})

\* jellyfin.py.  The restart check exists only while a restart is pending,
\* and the library is left out in silence when it cannot be counted.
Jellyfin(w, r) ==
  IF ~Answers(r.info) \/ ~Answers(r.sessions) THEN Failed
  ELSE Of({Read({Check(<<"jellyfin", "server">>, OK),
                 Check(<<"jellyfin", "streams">>, IF w.transcoding THEN WARNING ELSE OK)}),
           Read(IF w.restart THEN {Check(<<"jellyfin", "restart">>, WARNING)} ELSE {}),
           Read(IF Answers(r.counts) THEN {Check(<<"jellyfin", "library">>, OK)} ELSE {})})

(***************************************************************************)
(* One check for each entry: services.py, fleet.py, dns.py,                *)
(* certificates.py, with what became of a probe and its severity.  An      *)
(* entry that cannot be probed is `unknown', and keeps its place.          *)
(***************************************************************************)
ServiceSeverity(probe) ==
  CASE probe = "expected" -> OK
    [] probe = "slow"     -> WARNING
    [] probe = "raised"   -> UNKNOWN
    [] probe \in {"unexpected", "unreachable"} -> CRITICAL

PortSeverity(probe) == IF probe = "open" THEN OK ELSE CRITICAL

HostSeverity(probe) ==
  CASE probe = "reply"    -> OK
    [] probe = "critical" -> CRITICAL
    [] probe = "raised"   -> UNKNOWN
    [] probe \in {"slow", "silent"} -> WARNING

ResolverSeverity(probe) ==
  CASE probe = "expected" -> OK
    [] probe = "other"    -> WARNING
    [] probe = "raised"   -> UNKNOWN
    [] probe \in {"mute", "garbled"} -> CRITICAL

CertificateSeverity(probe) ==
  CASE probe = "valid"    -> OK
    [] probe = "expiring" -> CRITICAL
    [] probe = "unusable" -> UNKNOWN
    [] probe \in {"soon", "unreachable"} -> WARNING

EntryChecks(prefix, severities) ==
  IF DOMAIN severities = {} THEN Failed
  ELSE Of({Read({Check(<<prefix, e>>, severities[e]) : e \in DOMAIN severities})})

\* The services that answer HTTP, and the ports that take a connection.
Services(w) ==
  IF DOMAIN w.http \cup DOMAIN w.tcp = {} THEN Failed
  ELSE Of({Read({Check(<<"svc", e>>, ServiceSeverity(w.http[e])) : e \in DOMAIN w.http}),
           Read({Check(<<"tcp", e>>, PortSeverity(w.tcp[e])) : e \in DOMAIN w.tcp})})

\* Without the ping binary no host can be judged, and the panel says so.
Fleet(w, r) ==
  IF ~Answers(r.ping) THEN Failed
  ELSE EntryChecks("fleet", [e \in DOMAIN w.entries |-> HostSeverity(w.entries[e])])

\* host_metrics.py reads its own host, and each disk with a timeout.
HostMetrics(w) ==
  Of({Read({Check(<<"host", "cpu">>, IF w.cpu = "low" THEN OK ELSE WARNING),
            Check(<<"host", "memory">>, IF w.memory = "low" THEN OK ELSE WARNING),
            Check(<<"host", "uptime">>, OK)}),
      Read({Check(<<"host", "disk", d>>, IF w.disks[d] = "hung" THEN UNKNOWN ELSE AtThresholds(w.disks[d])) :
              d \in DOMAIN w.disks})})

Dns(w)          == EntryChecks("dns", [e \in DOMAIN w.entries |-> ResolverSeverity(w.entries[e])])
Certificates(w) == EntryChecks("cert", [e \in DOMAIN w.entries |-> CertificateSeverity(w.entries[e])])
=============================================================================
