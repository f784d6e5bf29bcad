----------------------------- MODULE Collectors -----------------------------
(***************************************************************************)
(* One poll of each collector under app/collectors/ that reads a product   *)
(* in several requests, as a function from what the product would tell,    *)
(* `w', and how each request ended, `r', to the panel.  A request answers, *)
(* fails (httpx.HTTPError), is missing (status 404), or brings junk: a     *)
(* body that raises something else.  Percentages and counts appear as the  *)
(* side of their thresholds they are on: "low", "warn", "crit".            *)
(***************************************************************************)
EXTENDS Panels

CONSTANTS
  RuleBuckets,  \* rule descriptions the indexer is asked for, 25 in the code
  TaskLimit     \* failed tasks a node is asked for, 200 in the code

ASSUME ListingsAssumption == RuleBuckets \in Nat \ {0} /\ TaskLimit \in Nat \ {0}

Answers(reply) == reply = "answers"

AtThresholds(side) ==
  CASE side = "low"  -> OK
    [] side = "warn" -> WARNING
    [] side = "crit" -> CRITICAL

(***************************************************************************)
(* proxmox.py.  w.nodes: node -> online, pressed (CPU or memory), offline. *)
(* w.guests: guest -> status, template, critical.  w.stores: rows, one per *)
(* node even of shared storage.  w.disks: node -> disk -> health.          *)
(* w.tasks: node -> task that failed within the window -> its age.         *)
(***************************************************************************)
Online(w, n) == w.nodes[n] # "offline"

NodeSeverity(w, n) ==
  CASE w.nodes[n] = "offline" -> CRITICAL
    [] w.nodes[n] = "pressed" -> WARNING
    [] OTHER                  -> OK

GuestSeverity(w, g) ==
  IF w.guests[g].status = "running" \/ w.guests[g].template THEN OK
  ELSE IF w.guests[g].critical THEN CRITICAL ELSE WARNING

StoreSeverity(row) ==
  IF row.status # "available" THEN CRITICAL
  ELSE IF row.fill = "none" THEN UNKNOWN ELSE AtThresholds(row.fill)

\* Storage of one name is one store when it is shared, and one per node when not.
StoreId_Label(row) ==  \* faulty: a name is one store
  <<"pve", "store", row.label>>
StoreId(row) ==
  IF row.shared THEN <<"pve", "store", row.label>> ELSE <<"pve", "store", row.label, row.node>>

StoreChecks(w) ==
  {Check(i, StoreSeverity(CHOOSE row \in w.stores : StoreId(row) = i)) :
     i \in {StoreId(row) : row \in w.stores}}

DiskSeverity(health) ==
  CASE health = "passed"  -> OK
    [] health = "worn"    -> WARNING
    [] health = "unknown" -> UNKNOWN
    [] OTHER              -> CRITICAL

DiskPart(w, r, n) ==
  LET prefix == <<"pve", "disk", n>>
  IN  IF ~Online(w, n) THEN Skipped({prefix})
      ELSE IF ~Answers(r.disks[n]) THEN NotRead(<<"pve", "disks", n>>, {prefix})
      ELSE Read({Check(<<"pve", "disk", n, d>>, DiskSeverity(w.disks[n][d])) : d \in DOMAIN w.disks[n]})

\* A node lists its newest failures only.
Newest(ages) == {t \in DOMAIN ages : Cardinality({s \in DOMAIN ages : ages[s] < ages[t]}) < TaskLimit}

TaskPart_AllNodes(w, r) ==  \* faulty: one unread node makes every node's tasks unread
  LET read   == {n \in DOMAIN w.nodes : Online(w, n) /\ Answers(r.tasks[n])}
      failed == UNION {{<<"pve", "task", n, t>> : t \in Newest(w.tasks[n])} : n \in read}
  IN  [checks |-> {Check(<<"pve", "tasks">>, IF failed # {} THEN WARNING ELSE OK)}
                  \cup {Check(i, WARNING) : i \in failed},
       unread |-> IF read = DOMAIN w.nodes THEN {} ELSE {<<"pve", "task">>}]

\* A task's UPID begins with its node, so the prefix to declare unread is the
\* node's.  Partial coverage is not a clean bill of health.
TaskPart(w, r) ==
  LET read   == {n \in DOMAIN w.nodes : Online(w, n) /\ Answers(r.tasks[n])}
      unread == {<<"pve", "task", n>> : n \in DOMAIN w.nodes \ read}
      failed == UNION {{<<"pve", "task", n, t>> : t \in Newest(w.tasks[n])} : n \in read}
      total  == IF failed # {} \/ unread # {} THEN WARNING ELSE OK
  IN  IF unread # {} /\ read = {}
      THEN NotRead(<<"pve", "tasks">>, unread \cup {<<"pve", "tasks">>})
      ELSE [checks |-> {Check(<<"pve", "tasks">>, total)} \cup {Check(i, WARNING) : i \in failed},
            unread |-> unread]

Proxmox(w, r) ==
  IF ~Answers(r.resources) THEN Failed
  ELSE Of({Read({Check(<<"pve", "node", n>>, NodeSeverity(w, n)) : n \in DOMAIN w.nodes}),
           Read({Check(<<"pve", "guest", g>>, GuestSeverity(w, g)) : g \in DOMAIN w.guests}),
           Read(StoreChecks(w)), TaskPart(w, r)}
          \cup {DiskPart(w, r, n) : n \in DOMAIN w.nodes})

(***************************************************************************)
(* wazuh.py.  w.agents: agent -> status.  w.daemons: daemon -> running; a  *)
(* user who may not read them gets an empty list.  w.rules: the rule       *)
(* descriptions that fired lately, each with the name that its first 70    *)
(* characters make (rule), its level, how often (count) and its place in   *)
(* the alphabet; w.high: how often notable ones did, which the indexer     *)
(* counts separately.  The sections guarded by `except httpx.HTTPError'    *)
(* let junk through, to an error panel.                                    *)
(***************************************************************************)
MinActive    == 1
NotableLevel == 10
WarnCount    == 1
CritCount    == 10

OptionalDaemons == {"agentlessd", "authd", "clusterd", "csyslogd", "dbd", "integratord", "maild", "reportd"}

AgentTotals(w) ==
  IF Cardinality({a \in DOMAIN w.agents : w.agents[a] = "active"}) < MinActive THEN CRITICAL
  ELSE IF \E a \in DOMAIN w.agents : w.agents[a] \in {"disconnected", "never_connected"} THEN WARNING
  ELSE OK

DarkSeverity(status) == IF status = "disconnected" THEN CRITICAL ELSE WARNING

AgentPart(w, r) ==
  LET dark == {a \in DOMAIN w.agents : w.agents[a] # "active"}
  IN  IF ~Answers(r.agents) THEN NotRead(<<"wazuh", "agent-list">>, {<<"wazuh", "agent">>})
      ELSE Read({Check(<<"wazuh", "agent", a>>, DarkSeverity(w.agents[a])) : a \in dark})

Listed(w) == IF w.readable THEN DOMAIN w.daemons ELSE {}

ManagerPart(w, r) ==
  LET id      == <<"wazuh", "manager">>
      stopped == {d \in Listed(w) \ OptionalDaemons : ~w.daemons[d]}
  IN  IF ~Answers(r.manager) THEN NotRead(id, {id})
      ELSE Read({Check(id, IF Listed(w) = {} THEN UNKNOWN ELSE IF stopped = {} THEN OK ELSE CRITICAL)})

RuleSeverity(level) == IF level < 12 THEN WARNING ELSE CRITICAL

\* The indexer lists the most frequent descriptions of any level; of these the
\* notable ones are published.  One that is not listed is not declared unread.
Ahead(a, b) == a.count > b.count \/ (a.count = b.count /\ a.place < b.place)

TopRules(w) == {b \in w.rules : Cardinality({a \in w.rules : Ahead(a, b)}) < RuleBuckets}

NotableRules(w) == {b \in TopRules(w) : b.level >= NotableLevel}

\* Descriptions of one name are published under one id, and the engine is left
\* with what the last of them, the rarest, says.
LastOf(w, x) ==
  CHOOSE b \in NotableRules(w) : b.rule = x /\ \A a \in NotableRules(w) : a.rule = x => ~Ahead(b, a)

IndexerPart(w, r) ==
  LET sev == IF w.high >= CritCount THEN CRITICAL ELSE IF w.high >= WarnCount THEN WARNING ELSE OK
  IN  IF ~Answers(r.indexer)
      THEN NotRead(<<"wazuh", "indexer">>, {<<"wazuh", "alerts">>, <<"wazuh", "rule">>})
      ELSE Read({Check(<<"wazuh", "alerts">>, sev)}
                \cup {Check(<<"wazuh", "rule", x>>, RuleSeverity(LastOf(w, x).level)) :
                         x \in {b.rule : b \in NotableRules(w)}})

Wazuh(w, r) ==
  IF ~Answers(r.summary) \/ r.agents = "junk" \/ r.manager = "junk" THEN Failed
  ELSE Of({Read({Check(<<"wazuh", "agents">>, AgentTotals(w))}),
           AgentPart(w, r), ManagerPart(w, r), IndexerPart(w, r)})

(***************************************************************************)
(* authentik.py.  w.workers: how many.  w.outposts: outpost -> when it was *)
(* last seen and whether its version matches; w.embeds: an older server,   *)
(* which has the health of an outpost in the listing.                      *)
(***************************************************************************)
WorkerCheck(w, r) ==
  LET told == \/ Answers(r.tasks_workers)
              \/ r.tasks_workers = "missing" /\ Answers(r.admin_workers)
  IN  IF ~told THEN UNKNOWN ELSE IF w.workers > 0 THEN OK ELSE CRITICAL

OutpostSeverity(o, told) ==
  IF ~told \/ o.seen = "never" THEN WARNING
  ELSE IF o.seen = "old" THEN CRITICAL
  ELSE IF o.matching THEN OK ELSE WARNING

\* A listing that fails leaves a placeholder and declares nothing unread.
OutpostPart(w, r) ==
  IF ~Answers(r.outposts) THEN NotRead(<<"authentik", "outposts">>, {})
  ELSE Read({Check(<<"authentik", "outpost", k>>,
                   OutpostSeverity(w.outposts[k], Answers(r.health) \/ w.embeds)) : k \in DOMAIN w.outposts})

Authentik(w, r) ==
  IF ~Answers(r.system) \/ ~Answers(r.version) THEN Failed
  ELSE Of({Read({Check(<<"authentik", "workers">>, WorkerCheck(w, r)),
                 Check(<<"authentik", "version">>, IF w.outdated THEN WARNING ELSE OK),
                 Check(<<"authentik", "runtime">>, OK)}),
           OutpostPart(w, r)})

(***************************************************************************)
(* splunk.py.  w.health: a colour.  w.quota: the use of the sized license  *)
(* pools, "none" when there is none.  w.indexes: index that is enabled and *)
(* watched -> fill, "none" without a limit.                                *)
(***************************************************************************)
HealthColour(colour) ==
  CASE colour = "green" -> OK
    [] colour = "red"   -> CRITICAL
    [] OTHER            -> WARNING

HealthPart(w, r) ==
  LET id == <<"splunk", "health">>
  IN  IF ~Answers(r.health) THEN NotRead(id, {id})
      ELSE Read({Check(id, HealthColour(w.health))})

LicensePart(w, r) ==
  LET id == <<"splunk", "license">>
  IN  IF ~Answers(r.pools) THEN NotRead(id, {id})
      ELSE Read(IF w.quota = "none" THEN {} ELSE {Check(id, AtThresholds(w.quota))})

IndexPart(w, r) ==
  LET sized == {x \in DOMAIN w.indexes : w.indexes[x] # "none"}
  IN  IF ~Answers(r.indexes) THEN NotRead(<<"splunk", "indexes">>, {<<"splunk", "index">>})
      ELSE Read({Check(<<"splunk", "index", x>>, AtThresholds(w.indexes[x])) : x \in sized})

Splunk(w, r) ==
  IF ~Answers(r.info) THEN Failed
  ELSE Of({Read({Check(<<"splunk", "server">>, OK)}), HealthPart(w, r), LicensePart(w, r), IndexPart(w, r)})
=============================================================================
