------------------------------ MODULE Products ------------------------------
(***************************************************************************)
(* The products that the collectors poll, outside the repository and known *)
(* only from how the collectors use them.  What is the matter with one is  *)
(* a function T from the id of the check that should say so to what it is; *)
(* whatever T does not name is well.                                       *)
(***************************************************************************)
EXTENDS Probes

CONSTANTS
  Keys,         \* the collectors of the instance
  Lab,          \* what there is to watch: a record of sets of names
  Together      \* bound: collector -> the sets of checks that may all be ill at once

Registered == {"proxmox", "wazuh", "authentik", "splunk", "unifi", "pihole", "ups", "backups", "cloudflare",
               "wan", "jellyfin", "host_metrics", "services", "fleet", "dns", "certificates"}

ASSUME KeysAssumption == Keys \subseteq Registered /\ \A c \in Keys : {} \in Together[c]

\* A cluster has a node; agents, rules and tasks are counted, rules have a place
\* in the alphabet and tasks an age, which part of their id tells; a template is
\* no guest that should run; the subsystems are the three unifi.py looks for.
ASSUME LabAssumption ==
  /\ Lab.nodes # {}
  /\ IsFiniteSet(Lab.agents) /\ IsFiniteSet(Lab.rules) /\ IsFiniteSet(Lab.tasks)
  /\ Lab.place \in Injection(Lab.rules, Nat) /\ Lab.age \in Injection(Lab.tasks, Nat)
  /\ Lab.guests \cap Lab.templates = {}
  /\ Lab.subsystems \subseteq {"wlan", "lan", "www"}

Is(T, i, well) == IF i \in DOMAIN T THEN T[i] ELSE well

(***************************************************************************)
(* What may be the matter with each product, as pairs of the id of a check *)
(* and what it should tell of; and what the product then tells a collector *)
(* that reads all of it.                                                   *)
(***************************************************************************)
ProxmoxTroubles ==
  {<<<<"pve", "node", n>>, k>> : n \in Lab.nodes, k \in {"offline", "pressed"}}
  \cup {<<<<"pve", "guest", g>>, "stopped">> : g \in Lab.guests}
  \cup {<<<<"pve", "store", s, n>>, "crit">> : s \in Lab.stores, n \in Lab.nodes}
  \cup {<<<<"pve", "store", s>>, "unknown">> : s \in Lab.shared}
  \cup {<<<<"pve", "disk", n, d>>, k>> : n \in Lab.nodes, d \in Lab.disks, k \in {"worn", "failed"}}
  \cup {<<<<"pve", "task", n, t>>, "failed">> : n \in Lab.nodes, t \in Lab.tasks}

FailedOn(T, n) == {t \in Lab.tasks : <<"pve", "task", n, t>> \in DOMAIN T}

ProxmoxTells(T) ==
  [nodes  |-> [n \in Lab.nodes |-> Is(T, <<"pve", "node", n>>, "online")],
   guests |-> [g \in Lab.guests \cup Lab.templates |->
                 [status   |-> IF g \in Lab.guests THEN Is(T, <<"pve", "guest", g>>, "running") ELSE "stopped",
                  template |-> g \in Lab.templates, critical |-> g \in Lab.critical]],
   stores |-> {[label |-> s, node |-> n, shared |-> FALSE, status |-> "available",
                fill |-> Is(T, <<"pve", "store", s, n>>, "low")] : s \in Lab.stores, n \in Lab.nodes}
              \cup {[label |-> s, node |-> n, shared |-> TRUE, fill |-> "low",
                     status |-> Is(T, <<"pve", "store", s>>, "available")] : s \in Lab.shared, n \in Lab.nodes},
   disks  |-> [n \in Lab.nodes |-> [d \in Lab.disks |-> Is(T, <<"pve", "disk", n, d>>, "passed")]],
   tasks  |-> [n \in Lab.nodes |-> [t \in FailedOn(T, n) |-> Lab.age[t]]]]

\* How the rules of a name fired: once at a high level, often at a notable one,
\* as two descriptions of that name that did one each, or very often at a level
\* that is not notable.
Fired(T, kinds) == {x \in Lab.rules : Is(T, <<"wazuh", "rule", x>>, "quiet") \in kinds}

Description(x, level, count) == [rule |-> x, level |-> level, count |-> count, place |-> Lab.place[x]]

Descriptions(T) ==
  {Description(x, 12, 1) : x \in Fired(T, {"hot", "twins"})}
  \cup {Description(x, 10, 10) : x \in Fired(T, {"noisy", "twins"})}
  \cup {Description(x, 3, 100) : x \in Fired(T, {"busy"})}

WazuhTroubles ==
  {<<<<"wazuh", "agent", a>>, k>> : a \in Lab.agents, k \in {"disconnected", "pending"}}
  \cup {<<<<"wazuh", "manager">>, k>> : k \in {"stopped", "unlisted"}}
  \cup {<<<<"wazuh", "rule", x>>, k>> : x \in Lab.rules, k \in {"hot", "noisy", "twins", "busy"}}

WazuhTells(T) ==
  [agents   |-> [a \in Lab.agents |-> Is(T, <<"wazuh", "agent", a>>, "active")],
   daemons  |-> [d \in {"analysisd", "authd"} |-> d = "analysisd" /\ <<"wazuh", "manager">> \notin DOMAIN T],
   readable |-> Is(T, <<"wazuh", "manager">>, "listed") # "unlisted",
   rules    |-> Descriptions(T),
   high     |-> Cardinality(Fired(T, {"hot", "twins"})) + 10 * Cardinality(Fired(T, {"noisy", "twins"}))]

AuthentikTroubles ==
  {<<<<"authentik", "outpost", o>>, k>> : o \in Lab.outposts, k \in {"old", "never", "mismatch"}}
  \cup {<<<<"authentik", "workers">>, "none">>, <<<<"authentik", "version">>, "outdated">>}

AuthentikTells(T) ==
  [workers  |-> IF <<"authentik", "workers">> \in DOMAIN T THEN 0 ELSE 2,
   outdated |-> <<"authentik", "version">> \in DOMAIN T,
   embeds   |-> FALSE,
   outposts |-> [o \in Lab.outposts |->
                   LET state == Is(T, <<"authentik", "outpost", o>>, "recent")
                   IN  [seen     |-> IF state = "mismatch" THEN "recent" ELSE state,
                        matching |-> state # "mismatch"]]]

SplunkTroubles ==
  {<<<<"splunk", "health">>, k>> : k \in {"yellow", "red", "grey"}}
  \cup {<<<<"splunk", "license">>, k>> : k \in {"warn", "none"}}
  \cup {<<<<"splunk", "index", x>>, k>> : x \in Lab.indexes, k \in {"warn", "crit", "none"}}

SplunkTells(T) ==
  [health  |-> Is(T, <<"splunk", "health">>, "green"), quota |-> Is(T, <<"splunk", "license">>, "low"),
   indexes |-> [x \in Lab.indexes |-> Is(T, <<"splunk", "index", x>>, "low")]]

DeviceState(is) == CASE is = "connected" -> STATE_CONNECTED [] is = "offline" -> 0 [] is = "upgrading" -> 5

UnifiTroubles ==
  {<<<<"unifi", "dev", d>>, k>> : d \in Lab.devices, k \in {"offline", "upgrading"}}
  \cup {<<<<"unifi", "wan">>, k>> : k \in {"slow", "down"}}
  \cup {<<<<"unifi", s>>, "warning">> : s \in Lab.subsystems}

UnifiTells(T) ==
  [wan |-> Is(T, <<"unifi", "wan">>, "up"), watched |-> Lab.watched,
   subsystems |-> [s \in Lab.subsystems |-> <<"unifi", s>> \notin DOMAIN T],
   devices    |-> [d \in Lab.devices |-> DeviceState(Is(T, <<"unifi", "dev", d>>, "connected"))]]

PiholeTroubles ==
  {<<<<"pihole", "blocking">>, "disabled">>, <<<<"pihole", "queries">>, "none">>}

PiholeTells(T) ==
  [enabled |-> <<"pihole", "blocking">> \notin DOMAIN T, queries |-> IF <<"pihole", "queries">> \in DOMAIN T THEN 0 ELSE 7]

Flags(is) ==
  CASE is = "charging"    -> {"OL", "CHRG"}
    [] is = "discharging" -> {"OB", "DISCHRG"}
    [] is = "replace"     -> {"OL", "RB"}
    [] is = "flagless"    -> {}

UpsTroubles ==
  {<<<<"ups", "status">>, k>> : k \in {"discharging", "replace", "flagless"}}
  \cup {<<<<"ups", x>>, "crit">> : x \in {"battery", "runtime", "load"}}

UpsTells(T) ==
  [flags    |-> Flags(Is(T, <<"ups", "status">>, "charging")),
   readings |-> [x \in {"battery", "runtime", "load"} |-> Is(T, <<"ups", x>>, "low")]]

BackupsTroubles ==
  {<<<<"backup", t>>, k>> : t \in Lab.targets, k \in {"late", "old", "none", "cut"}}

BackupsTells(T) ==
  [targets |-> [t \in Lab.targets |-> [age |-> Is(T, <<"backup", t>>, "fresh"), critical |-> t \in Lab.critical]]]

CloudflareTroubles ==
  {<<<<"cf", "tunnel", t>>, k>> : t \in Lab.tunnels, k \in {"degraded", "down", "deleted"}}

CloudflareTells(T) ==
  [tunnels |-> [t \in {x \in Lab.tunnels : Is(T, <<"cf", "tunnel", x>>, "healthy") # "deleted"} |->
                  Is(T, <<"cf", "tunnel", t>>, "healthy")]]

WanTroubles ==
  {<<<<"wan", "ddns", x>>, k>> : x \in Lab.names, k \in {"stale", "silent"}}

WanTells(T) ==
  [names |-> [x \in Lab.names |-> Is(T, <<"wan", "ddns", x>>, "sync")]]

JellyfinTroubles ==
  {<<<<"jellyfin", "restart">>, "pending">>, <<<<"jellyfin", "streams">>, "transcoding">>}

JellyfinTells(T) ==
  [restart |-> <<"jellyfin", "restart">> \in DOMAIN T, transcoding |-> <<"jellyfin", "streams">> \in DOMAIN T]

HostTroubles ==
  {<<<<"host", x>>, "warn">> : x \in {"cpu", "memory"}}
  \cup {<<<<"host", "disk", d>>, k>> : d \in Lab.mounts, k \in {"crit", "hung"}}

HostTells(T) ==
  [cpu |-> Is(T, <<"host", "cpu">>, "low"), memory |-> Is(T, <<"host", "memory">>, "low"),
   disks |-> [d \in Lab.mounts |-> Is(T, <<"host", "disk", d>>, "low")]]

ServiceTroubles ==
  {<<<<"svc", x>>, k>> : x \in Lab.urls, k \in {"slow", "unexpected", "unreachable", "raised"}}
  \cup {<<<<"tcp", x>>, "closed">> : x \in Lab.ports}

ServiceTells(T) ==
  [http |-> [x \in Lab.urls |-> Is(T, <<"svc", x>>, "expected")],
   tcp  |-> [x \in Lab.ports |-> Is(T, <<"tcp", x>>, "open")]]

FleetTroubles ==
  {<<<<"fleet", x>>, k>> : x \in Lab.hosts, k \in {"slow", "silent", "critical", "raised"}}

FleetTells(T) ==
  [entries |-> [x \in Lab.hosts |-> Is(T, <<"fleet", x>>, "reply")]]

DnsTroubles ==
  {<<<<"dns", x>>, k>> : x \in Lab.names, k \in {"other", "mute", "garbled", "raised"}}

DnsTells(T) ==
  [entries |-> [x \in Lab.names |-> Is(T, <<"dns", x>>, "expected")]]

CertificateTroubles ==
  {<<<<"cert", x>>, k>> : x \in Lab.names, k \in {"soon", "expiring", "unreachable", "unusable"}}

CertificateTells(T) ==
  [entries |-> [x \in Lab.names |-> Is(T, <<"cert", x>>, "valid")]]

-----------------------------------------------------------------------------
Possible(c) ==
  CASE c = "proxmox"      -> ProxmoxTroubles
    [] c = "wazuh"        -> WazuhTroubles
    [] c = "authentik"    -> AuthentikTroubles
    [] c = "splunk"       -> SplunkTroubles
    [] c = "unifi"        -> UnifiTroubles
    [] c = "pihole"       -> PiholeTroubles
    [] c = "ups"          -> UpsTroubles
    [] c = "backups"      -> BackupsTroubles
    [] c = "cloudflare"   -> CloudflareTroubles
    [] c = "wan"          -> WanTroubles
    [] c = "jellyfin"     -> JellyfinTroubles
    [] c = "host_metrics" -> HostTroubles
    [] c = "services"     -> ServiceTroubles
    [] c = "fleet"        -> FleetTroubles
    [] c = "dns"          -> DnsTroubles
    [] c = "certificates" -> CertificateTroubles

States(c) ==
  LET P == Possible(c)
  IN  UNION {{T \in [D -> {p[2] : p \in P}] : \A i \in D : <<i, T[i]>> \in P} : D \in Together[c]}

Product(c, T) ==
  CASE c = "proxmox"      -> ProxmoxTells(T)
    [] c = "wazuh"        -> WazuhTells(T)
    [] c = "authentik"    -> AuthentikTells(T)
    [] c = "splunk"       -> SplunkTells(T)
    [] c = "unifi"        -> UnifiTells(T)
    [] c = "pihole"       -> PiholeTells(T)
    [] c = "ups"          -> UpsTells(T)
    [] c = "backups"      -> BackupsTells(T)
    [] c = "cloudflare"   -> CloudflareTells(T)
    [] c = "wan"          -> WanTells(T)
    [] c = "jellyfin"     -> JellyfinTells(T)
    [] c = "host_metrics" -> HostTells(T)
    [] c = "services"     -> ServiceTells(T)
    [] c = "fleet"        -> FleetTells(T)
    [] c = "dns"          -> DnsTells(T)
    [] c = "certificates" -> CertificateTells(T)

\* How each of the requests of a poll may end.  Proxmox and Wazuh are asked for
\* the rest once the first requests were answered: how it would end is all one.
Replies(c) ==
  LET E == {"answers", "fails"}
      J == {"answers", "fails", "junk"}
      M == {"answers", "fails", "missing"}
      A == [Lab.nodes -> {"answers"}]
  IN  CASE c = "proxmox"    -> [resources : {"answers"}, disks : [Lab.nodes -> E], tasks : [Lab.nodes -> E]]
                               \cup [resources : {"fails"}, disks : A, tasks : A]
        [] c = "wazuh"      -> [auth : E, summary : {"answers"}, agents : E, manager : J, indexer : E]
                               \cup [auth : E, summary : {"fails"}, agents : {"answers"},
                                    manager : {"answers"}, indexer : {"answers"}]
        [] c = "authentik"  -> [system : E, tasks_workers : M, admin_workers : M, version : E, outposts : E, health : E]
        [] c = "splunk"     -> [info : E, health : E, pools : E, indexes : E]
        [] c = "unifi"      -> [auth : E, health : E, device : E, sta : E]
        [] c = "pihole"     -> [auth : E, summary : E, blocking : E]
        [] c = "ups"        -> [list : {"answers", "fails", "cut"}]
        [] c = "backups"    -> [auth : E, bucket : E, list : E]
        [] c = "cloudflare" -> [tunnels : E]
        [] c = "wan"        -> [echo : E]
        [] c = "jellyfin"   -> [info : E, sessions : E, counts : E]
        [] c = "fleet"      -> [ping : E]
        [] OTHER            -> [probes : {"answers"}]

\* Every request was answered (the older endpoint is only asked without the newer).
AllAnswered(c, r) ==
  IF c = "proxmox"
  THEN r.resources = "answers" /\ \A n \in Lab.nodes : r.disks[n] = "answers" /\ r.tasks[n] = "answers"
  ELSE \A request \in DOMAIN r \ {"admin_workers"} : r[request] = "answers"

\* Troubles that are no failure of the product, or that no request can see.
Harmless(c) ==
  CASE c = "splunk"       -> {"none"}
    [] c = "wazuh"        -> {"unlisted", "busy"}
    [] c = "unifi"        -> {"upgrading"}
    [] c = "ups"          -> {"flagless"}
    [] c = "backups"      -> {"cut"}
    [] c = "cloudflare"   -> {"deleted"}
    [] c = "host_metrics" -> {"hung"}
    [] c \in {"services", "fleet", "dns"} -> {"raised"}
    [] c = "certificates" -> {"unusable"}
    [] OTHER              -> {}

\* The totals over several failures that a collector publishes besides them.
Totals(c, T) ==
  CASE c = "proxmox" -> {i \in {<<"pve", "tasks">>} : \E n \in Lab.nodes : FailedOn(T, n) # {}}
    [] c = "wazuh" ->
         {i \in {<<"wazuh", "alerts">>} : Fired(T, {"hot", "noisy", "twins"}) # {}}
         \cup {i \in {<<"wazuh", "agents">>} :
                 \/ \E a \in Lab.agents : Is(T, <<"wazuh", "agent", a>>, "active") = "disconnected"
                 \/ \A a \in Lab.agents : <<"wazuh", "agent", a>> \in DOMAIN T}
    [] OTHER -> {}

\* The checks that ought to be bad: those of every failure, and the totals over them.
Faults(c, T) == {i \in DOMAIN T : T[i] \notin Harmless(c)} \cup Totals(c, T)

\* What may be missing from an answer because there is more of it than a
\* collector asks for: failed tasks of a node with more than TaskLimit of them,
\* and rules when more than RuleBuckets descriptions fired.
CutOff(c, T) ==
  CASE c = "proxmox" -> {<<"pve", "task", n, t>> :
                           n \in {m \in Lab.nodes : Cardinality(FailedOn(T, m)) > TaskLimit}, t \in Lab.tasks}
    [] c = "wazuh"   -> {<<"wazuh", "rule", x>> :
                           x \in {y \in Lab.rules : Cardinality(Descriptions(T)) > RuleBuckets}}
    [] OTHER         -> {}
=============================================================================
