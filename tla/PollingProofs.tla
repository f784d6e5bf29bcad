---------------------------- MODULE PollingProofs ----------------------------
(***************************************************************************)
(* The properties of Polling as theorems, for any lab: any nodes, guests,  *)
(* stores, disks, tasks, agents, rules, outposts, indexes, devices,        *)
(* targets, tunnels, names and hosts, any troubles at a time, any limits   *)
(* of the listings and any end of each request.                            *)
(*                                                                         *)
(* The order: what a panel of parts contains; what the listings leave out; *)
(* of every collector, what one poll tells, shows and leaves out; what the *)
(* engine then holds; and last the inductive invariant, one poll from any  *)
(* state.                                                                  *)
(***************************************************************************)
EXTENDS Polling, TLAPS, FiniteSetTheorems, WellFoundedInduction

\* A panel as the engine wants it: severities, no id twice, nothing both
\* published and declared unread.
Typed(p) ==
  /\ \A check \in p.checks : check.severity \in Severities /\ ~Covered(check.id, p.unread \ {check.id})
  /\ \A check, other \in p.checks : check.id = other.id => check = other

\* Its bad checks are the failures F, all of them.
Exact(p, F) ==
  /\ \A check \in p.checks : check.severity \in BAD <=> check.id \in F
  /\ F \subseteq Published(p)

\* The same, but of the failures X some may be missing.
ExactBut(p, F, X) ==
  /\ \A check \in p.checks : check.severity \in BAD <=> check.id \in F
  /\ F \ X \subseteq Published(p)

\* A panel without unread parts that is exact.
Whole(p, F) == Typed(p) /\ p.unread = {} /\ Exact(p, F)

\* T is made of the troubles P.
Ill(T, P) == \A i \in DOMAIN T : <<i, T[i]>> \in P

-----------------------------------------------------------------------------
\* The panel of one, two, three parts that were read.
LEMMA OfRead1 ==
  ASSUME NEW A
  PROVE  Of({Read(A)}) = [error |-> FALSE, checks |-> A, unread |-> {}]
<1> DEFINE P == {Read(A)}
<1>1. {p.checks : p \in P} = {A}
  BY DEF Read
<1>2. {p.unread : p \in P} = {{}}
  BY DEF Read
<1>3. UNION {A} = A
  OBVIOUS
<1>4. UNION {{}} = {}
  OBVIOUS
<1> HIDE DEF P
<1>5. Of(P) = [error |-> FALSE, checks |-> A, unread |-> {}]
  BY <1>1, <1>2, <1>3, <1>4 DEF Of
<1> QED
  BY <1>5 DEF P

LEMMA OfRead2 ==
  ASSUME NEW A, NEW B
  PROVE  Of({Read(A), Read(B)}) = [error |-> FALSE, checks |-> A \cup B, unread |-> {}]
<1> DEFINE P == {Read(A), Read(B)}
<1>1. {p.checks : p \in P} = {A, B}
  BY DEF Read
<1>2. {p.unread : p \in P} = {{}}
  BY DEF Read
<1>3. UNION {A, B} = A \cup B
  OBVIOUS
<1>4. UNION {{}} = {}
  OBVIOUS
<1> HIDE DEF P
<1>5. Of(P) = [error |-> FALSE, checks |-> A \cup B, unread |-> {}]
  BY <1>1, <1>2, <1>3, <1>4 DEF Of
<1> QED
  BY <1>5 DEF P

LEMMA OfRead3 ==
  ASSUME NEW A, NEW B, NEW C
  PROVE  Of({Read(A), Read(B), Read(C)}) = [error |-> FALSE, checks |-> A \cup B \cup C, unread |-> {}]
<1> DEFINE P == {Read(A), Read(B), Read(C)}
<1>1. {p.checks : p \in P} = {A, B, C}
  BY DEF Read
<1>2. {p.unread : p \in P} = {{}}
  BY DEF Read
<1>3. UNION {A, B, C} = A \cup B \cup C
  OBVIOUS
<1>4. UNION {{}} = {}
  OBVIOUS
<1> HIDE DEF P
<1>5. Of(P) = [error |-> FALSE, checks |-> A \cup B \cup C, unread |-> {}]
  BY <1>1, <1>2, <1>3, <1>4 DEF Of
<1> QED
  BY <1>5 DEF P

\* What is the matter with a product is among what may be.
LEMMA Matters ==
  ASSUME NEW c, NEW T, T \in States(c)
  PROVE  Ill(T, Possible(c))
BY DEF States, Ill

-----------------------------------------------------------------------------
\* Collectors that are all or nothing, or that keep the place of every entry:
\* whatever they read makes a panel that is whole.
LEMMA WanWhole ==
  ASSUME NEW T, NEW r, Ill(T, WanTroubles), ~Wan(WanTells(T), r).error
  PROVE  Whole(Wan(WanTells(T), r), Faults("wan", T))
<1> DEFINE w == WanTells(T)
           p == Wan(w, r)
           F == Faults("wan", T)
           Sev(x) == NameSeverity(w.names[x])
           A == {Check(<<"wan", "ip">>, OK)}
           B == {Check(<<"wan", "ddns", x>>, Sev(x)) : x \in DOMAIN w.names}
<1>1. w.names = [x \in Lab.names |-> Is(T, <<"wan", "ddns", x>>, "sync")]
  BY DEF WanTells
<1>2. p = Of({Read(A), Read(B)})
  BY DEF Wan, Failed
<1>3. p.unread = {} /\ p.checks = A \cup B
  <2> HIDE DEF p, A, B
  <2>1. Of({Read(A), Read(B)}) = [error |-> FALSE, checks |-> A \cup B, unread |-> {}]
    BY OfRead2
  <2> QED
    BY <1>2, <2>1
<1>4. \A check : check \in p.checks <=>
        \/ check = Check(<<"wan", "ip">>, OK)
        \/ \E x \in Lab.names : check = Check(<<"wan", "ddns", x>>, Sev(x))
  <2> HIDE DEF p, w, Sev
  <2> QED
    BY <1>1, <1>3
<1>5. ASSUME NEW i \in DOMAIN T
      PROVE  \/ \E x \in Lab.names : i = <<"wan", "ddns", x>> /\ T[i] \in {"stale", "silent"}
  BY DEF Ill, WanTroubles
<1>6. F = DOMAIN T
  BY DEF Faults, Harmless, Totals
<1>7. ASSUME NEW x \in Lab.names
      PROVE  Sev(x) \in Severities /\ (Sev(x) \in BAD <=> <<"wan", "ddns", x>> \in F)
  BY <1>1, <1>5, <1>6 DEF Is, NameSeverity, Severities, BAD, OK, WARNING, CRITICAL, UNKNOWN
<1> HIDE DEF w, p, F, Sev
<1>8. Typed(p)
  BY <1>3, <1>4, <1>7 DEF Typed, Check, Severities, Covered, OK
<1>9. \A check \in p.checks : check.severity \in BAD <=> check.id \in F
  BY <1>4, <1>5, <1>6, <1>7 DEF Check, BAD, OK, WARNING, CRITICAL
<1>10. ASSUME NEW i \in F PROVE \E check \in p.checks : check.id = i
  <2>1. CASE \E x \in Lab.names : i = <<"wan", "ddns", x>>
    <3>1. PICK x \in Lab.names : i = <<"wan", "ddns", x>>
      BY <2>1
    <3>2. Check(i, Sev(x)) \in p.checks
      BY <3>1, <1>4
    <3> QED
      BY <3>2 DEF Check
  <2> QED
    BY <1>5, <1>6, <2>1
<1> QED
  BY <1>3, <1>8, <1>9, <1>10 DEF Whole, Exact, Published, w, p, F

LEMMA PiholeWhole ==
  ASSUME NEW T, NEW r, Ill(T, PiholeTroubles), ~Pihole(PiholeTells(T), r).error
  PROVE  Whole(Pihole(PiholeTells(T), r), Faults("pihole", T))
<1> DEFINE w == PiholeTells(T)
           p == Pihole(w, r)
           F == Faults("pihole", T)
           Blocking == IF w.enabled THEN OK ELSE CRITICAL
           Queries == IF w.queries > 0 THEN OK ELSE WARNING
           A == {Check(<<"pihole", "blocking">>, Blocking), Check(<<"pihole", "queries">>, Queries)}
<1>1. /\ w.enabled = (<<"pihole", "blocking">> \notin DOMAIN T)
      /\ w.queries = IF <<"pihole", "queries">> \in DOMAIN T THEN 0 ELSE 7
  BY DEF PiholeTells
<1>2. p = Of({Read(A)})
  BY DEF Pihole, Failed
<1>3. p.unread = {} /\ p.checks = A
  <2> HIDE DEF p, A
  <2>1. Of({Read(A)}) = [error |-> FALSE, checks |-> A, unread |-> {}]
    BY OfRead1
  <2> QED
    BY <1>2, <2>1
<1>4. \A check : check \in p.checks <=>
        \/ check = Check(<<"pihole", "blocking">>, Blocking)
        \/ check = Check(<<"pihole", "queries">>, Queries)
  <2> HIDE DEF p, w, Blocking, Queries
  <2> QED
    BY <1>1, <1>3
<1>5. ASSUME NEW i \in DOMAIN T
      PROVE  \/ i = <<"pihole", "blocking">>
             \/ i = <<"pihole", "queries">>
  BY DEF Ill, PiholeTroubles
<1>6. F = DOMAIN T
  BY DEF Faults, Harmless, Totals
<1>7. Blocking \in Severities /\ (Blocking \in BAD <=> <<"pihole", "blocking">> \in F)
  BY <1>1, <1>5, <1>6 DEF Is, Severities, BAD, OK, WARNING, CRITICAL, UNKNOWN
<1>8. Queries \in Severities /\ (Queries \in BAD <=> <<"pihole", "queries">> \in F)
  BY <1>1, <1>5, <1>6 DEF Is, Severities, BAD, OK, WARNING, CRITICAL, UNKNOWN
<1> HIDE DEF w, p, F, Blocking, Queries
<1>9. Typed(p)
  BY <1>3, <1>4, <1>7, <1>8 DEF Typed, Check, Severities, Covered, OK
<1>10. \A check \in p.checks : check.severity \in BAD <=> check.id \in F
  BY <1>4, <1>5, <1>6, <1>7, <1>8 DEF Check, BAD, OK, WARNING, CRITICAL
<1>11. ASSUME NEW i \in F PROVE \E check \in p.checks : check.id = i
  <2>1. CASE i = <<"pihole", "blocking">>
    <3>1. Check(i, Blocking) \in p.checks
      BY <2>1, <1>4
    <3> QED
      BY <3>1 DEF Check
  <2>2. CASE i = <<"pihole", "queries">>
    <3>1. Check(i, Queries) \in p.checks
      BY <2>2, <1>4
    <3> QED
      BY <3>1 DEF Check
  <2> QED
    BY <1>5, <1>6, <2>1, <2>2
<1> QED
  BY <1>3, <1>9, <1>10, <1>11 DEF Whole, Exact, Published, w, p, F

LEMMA UnifiWhole ==
  ASSUME NEW T, NEW r, Ill(T, UnifiTroubles), ~Unifi(UnifiTells(T), r).error
  PROVE  Whole(Unifi(UnifiTells(T), r), Faults("unifi", T))
<1> DEFINE w == UnifiTells(T)
           p == Unifi(w, r)
           F == Faults("unifi", T)
           Net == WanSeverity(w)
           Sub(s) == SubsystemSeverity(w, s)
           Dev(d) == DeviceSeverity(w, d)
           A == {Check(<<"unifi", "wan">>, Net), Check(<<"unifi", "clients">>, OK)}
           B == {Check(<<"unifi", s>>, Sub(s)) : s \in DOMAIN w.subsystems}
           C == {Check(<<"unifi", "dev", d>>, Dev(d)) : d \in DOMAIN w.devices}
<1>1. /\ w.wan = Is(T, <<"unifi", "wan">>, "up")
      /\ w.watched = Lab.watched
      /\ w.subsystems = [s \in Lab.subsystems |-> <<"unifi", s>> \notin DOMAIN T]
      /\ w.devices = [d \in Lab.devices |-> DeviceState(Is(T, <<"unifi", "dev", d>>, "connected"))]
  BY DEF UnifiTells
<1>2. p = Of({Read(A), Read(B), Read(C)})
  <2>1. ~(~Answers(r.health) \/ ~Answers(r.device) \/ ~Answers(r.sta))
    BY DEF Unifi, Failed
  <2> QED
    BY <2>1 DEF Unifi
<1>3. p.unread = {} /\ p.checks = A \cup B \cup C
  <2> HIDE DEF p, A, B, C
  <2>1. Of({Read(A), Read(B), Read(C)}) = [error |-> FALSE, checks |-> A \cup B \cup C, unread |-> {}]
    BY OfRead3
  <2> QED
    BY <1>2, <2>1
<1>4. \A check : check \in p.checks <=>
        \/ check = Check(<<"unifi", "wan">>, Net)
        \/ check = Check(<<"unifi", "clients">>, OK)
        \/ \E s \in Lab.subsystems : check = Check(<<"unifi", s>>, Sub(s))
        \/ \E d \in Lab.devices : check = Check(<<"unifi", "dev", d>>, Dev(d))
  <2> HIDE DEF p, w, Net, Sub, Dev
  <2> QED
    BY <1>1, <1>3
<1>5. ASSUME NEW i \in DOMAIN T
      PROVE  \/ i = <<"unifi", "wan">> /\ T[i] \in {"slow", "down"}
             \/ \E s \in Lab.subsystems : i = <<"unifi", s>> /\ T[i] = "warning"
             \/ \E d \in Lab.devices : i = <<"unifi", "dev", d>> /\ T[i] \in {"offline", "upgrading"}
  BY DEF Ill, UnifiTroubles
<1>6. F = {i \in DOMAIN T : T[i] # "upgrading"}
  BY DEF Faults, Harmless, Totals
<1>7. Net \in Severities /\ (Net \in BAD <=> <<"unifi", "wan">> \in F)
  BY <1>1, <1>5, <1>6, LabAssumption DEF Is, WanSeverity, DeviceSeverity, DeviceState, STATE_CONNECTED, TRANSITIONAL_STATES, Severities, BAD, OK, WARNING, CRITICAL, UNKNOWN
<1>8. ASSUME NEW s \in Lab.subsystems
      PROVE  Sub(s) \in Severities /\ (Sub(s) \in BAD <=> <<"unifi", s>> \in F)
  <2>1. w.subsystems[s] <=> <<"unifi", s>> \notin DOMAIN T
    BY <1>1
  <2>2. s # "wan"
    BY LabAssumption
  <2>3. <<"unifi", s>> \in F <=> <<"unifi", s>> \in DOMAIN T
    BY <1>5, <1>6, <2>2
  <2> QED
    BY <2>1, <2>3 DEF SubsystemSeverity, Severities, BAD, OK, WARNING, CRITICAL, UNKNOWN
<1>9. ASSUME NEW d \in Lab.devices
      PROVE  Dev(d) \in Severities /\ (Dev(d) \in BAD <=> <<"unifi", "dev", d>> \in F)
  BY <1>1, <1>5, <1>6, LabAssumption DEF Is, WanSeverity, DeviceSeverity, DeviceState, STATE_CONNECTED, TRANSITIONAL_STATES, Severities, BAD, OK, WARNING, CRITICAL, UNKNOWN
<1> HIDE DEF w, p, F, Net, Sub, Dev
<1>10. Typed(p)
  BY <1>3, <1>4, <1>7, <1>8, <1>9, LabAssumption DEF Typed, Check, Severities, Covered, OK
<1>11. \A check \in p.checks : check.severity \in BAD <=> check.id \in F
  BY <1>4, <1>5, <1>6, <1>7, <1>8, <1>9, LabAssumption DEF Check, BAD, OK, WARNING, CRITICAL
<1>12. ASSUME NEW i \in F PROVE \E check \in p.checks : check.id = i
  <2>1. CASE i = <<"unifi", "wan">>
    <3>1. Check(i, Net) \in p.checks
      BY <2>1, <1>4
    <3> QED
      BY <3>1 DEF Check
  <2>2. CASE \E s \in Lab.subsystems : i = <<"unifi", s>>
    <3>1. PICK s \in Lab.subsystems : i = <<"unifi", s>>
      BY <2>2
    <3>2. Check(i, Sub(s)) \in p.checks
      BY <3>1, <1>4
    <3> QED
      BY <3>2 DEF Check
  <2>3. CASE \E d \in Lab.devices : i = <<"unifi", "dev", d>>
    <3>1. PICK d \in Lab.devices : i = <<"unifi", "dev", d>>
      BY <2>3
    <3>2. Check(i, Dev(d)) \in p.checks
      BY <3>1, <1>4
    <3> QED
      BY <3>2 DEF Check
  <2> QED
    BY <1>5, <1>6, <2>1, <2>2, <2>3
<1> QED
  BY <1>3, <1>10, <1>11, <1>12 DEF Whole, Exact, Published, w, p, F

LEMMA BackupsWhole ==
  ASSUME NEW T, NEW r, Ill(T, BackupsTroubles), ~Backups(BackupsTells(T), r).error
  PROVE  Whole(Backups(BackupsTells(T), r), Faults("backups", T))
<1> DEFINE w == BackupsTells(T)
           p == Backups(w, r)
           F == Faults("backups", T)
           Sev(t) == BackupSeverity(w.targets[t])
           A == {Check(<<"backup", t>>, Sev(t)) : t \in DOMAIN w.targets}
<1>1. w.targets = [t \in Lab.targets |-> [age |-> Is(T, <<"backup", t>>, "fresh"), critical |-> t \in Lab.critical]]
  BY DEF BackupsTells
<1>2. p = Of({Read(A)})
  BY DEF Backups, Failed
<1>3. p.unread = {} /\ p.checks = A
  <2> HIDE DEF p, A
  <2>1. Of({Read(A)}) = [error |-> FALSE, checks |-> A, unread |-> {}]
    BY OfRead1
  <2> QED
    BY <1>2, <2>1
<1>4. \A check : check \in p.checks <=>
        \/ \E t \in Lab.targets : check = Check(<<"backup", t>>, Sev(t))
  <2> HIDE DEF p, w, Sev
  <2> QED
    BY <1>1, <1>3
<1>5. ASSUME NEW i \in DOMAIN T
      PROVE  \/ \E t \in Lab.targets : i = <<"backup", t>> /\ T[i] \in {"late", "old", "none", "cut"}
  BY DEF Ill, BackupsTroubles
<1>6. F = {i \in DOMAIN T : T[i] # "cut"}
  BY DEF Faults, Harmless, Totals
<1>7. ASSUME NEW t \in Lab.targets
      PROVE  Sev(t) \in Severities /\ (Sev(t) \in BAD <=> <<"backup", t>> \in F)
  BY <1>1, <1>5, <1>6 DEF Is, BackupSeverity, Severities, BAD, OK, WARNING, CRITICAL, UNKNOWN
<1> HIDE DEF w, p, F, Sev
<1>8. Typed(p)
  BY <1>3, <1>4, <1>7 DEF Typed, Check, Severities, Covered, OK
<1>9. \A check \in p.checks : check.severity \in BAD <=> check.id \in F
  BY <1>4, <1>5, <1>6, <1>7 DEF Check, BAD, OK, WARNING, CRITICAL
<1>10. ASSUME NEW i \in F PROVE \E check \in p.checks : check.id = i
  <2>1. CASE \E t \in Lab.targets : i = <<"backup", t>>
    <3>1. PICK t \in Lab.targets : i = <<"backup", t>>
      BY <2>1
    <3>2. Check(i, Sev(t)) \in p.checks
      BY <3>1, <1>4
    <3> QED
      BY <3>2 DEF Check
  <2> QED
    BY <1>5, <1>6, <2>1
<1> QED
  BY <1>3, <1>8, <1>9, <1>10 DEF Whole, Exact, Published, w, p, F

LEMMA CloudflareWhole ==
  ASSUME NEW T, NEW r, Ill(T, CloudflareTroubles), ~Cloudflare(CloudflareTells(T), r).error
  PROVE  Whole(Cloudflare(CloudflareTells(T), r), Faults("cloudflare", T))
<1> DEFINE w == CloudflareTells(T)
           p == Cloudflare(w, r)
           F == Faults("cloudflare", T)
           Sev(t) == TunnelSeverity(w.tunnels[t])
           A == {Check(<<"cf", "tunnel", t>>, Sev(t)) : t \in DOMAIN w.tunnels}
<1>1. w.tunnels = [t \in {x \in Lab.tunnels : Is(T, <<"cf", "tunnel", x>>, "healthy") # "deleted"} |->
                       Is(T, <<"cf", "tunnel", t>>, "healthy")]
  BY DEF CloudflareTells
<1>2. p = Of({Read(A)})
  BY DEF Cloudflare, Failed
<1>3. p.unread = {} /\ p.checks = A
  <2> HIDE DEF p, A
  <2>1. Of({Read(A)}) = [error |-> FALSE, checks |-> A, unread |-> {}]
    BY OfRead1
  <2> QED
    BY <1>2, <2>1
<1>4. \A check : check \in p.checks <=>
        \/ \E t \in DOMAIN w.tunnels : check = Check(<<"cf", "tunnel", t>>, Sev(t))
  <2> HIDE DEF p, w, Sev
  <2> QED
    BY <1>1, <1>3
<1>5. ASSUME NEW i \in DOMAIN T
      PROVE  \/ \E t \in Lab.tunnels : i = <<"cf", "tunnel", t>> /\ T[i] \in {"degraded", "down", "deleted"}
  BY DEF Ill, CloudflareTroubles
<1>6. F = {i \in DOMAIN T : T[i] # "deleted"}
  BY DEF Faults, Harmless, Totals
<1>7. ASSUME NEW t \in DOMAIN w.tunnels
      PROVE  Sev(t) \in Severities /\ (Sev(t) \in BAD <=> <<"cf", "tunnel", t>> \in F)
  BY <1>1, <1>5, <1>6 DEF Is, TunnelSeverity, Severities, BAD, OK, WARNING, CRITICAL, UNKNOWN
<1> HIDE DEF w, p, F, Sev
<1>8. Typed(p)
  BY <1>3, <1>4, <1>7 DEF Typed, Check, Severities, Covered, OK
<1>9. \A check \in p.checks : check.severity \in BAD <=> check.id \in F
  BY <1>4, <1>5, <1>6, <1>7 DEF Check, BAD, OK, WARNING, CRITICAL
<1>10. ASSUME NEW i \in F PROVE \E check \in p.checks : check.id = i
  <2>1. CASE \E t \in DOMAIN w.tunnels : i = <<"cf", "tunnel", t>>
    <3>1. PICK t \in DOMAIN w.tunnels : i = <<"cf", "tunnel", t>>
      BY <2>1
    <3>2. Check(i, Sev(t)) \in p.checks
      BY <3>1, <1>4
    <3> QED
      BY <3>2 DEF Check
  <2> QED
    BY <1>5, <1>6, <2>1, <1>1 DEF Is, w
<1> QED
  BY <1>3, <1>8, <1>9, <1>10 DEF Whole, Exact, Published, w, p, F

LEMMA HostWhole ==
  ASSUME NEW T, NEW r, Ill(T, HostTroubles), ~HostMetrics(HostTells(T)).error
  PROVE  Whole(HostMetrics(HostTells(T)), Faults("host_metrics", T))
<1> DEFINE w == HostTells(T)
           p == HostMetrics(w)
           F == Faults("host_metrics", T)
           Cpu == IF w.cpu = "low" THEN OK ELSE WARNING
           Memory == IF w.memory = "low" THEN OK ELSE WARNING
           Disk(d) == IF w.disks[d] = "hung" THEN UNKNOWN ELSE AtThresholds(w.disks[d])
           A == {Check(<<"host", "cpu">>, Cpu), Check(<<"host", "memory">>, Memory), Check(<<"host", "uptime">>, OK)}
           B == {Check(<<"host", "disk", d>>, Disk(d)) : d \in DOMAIN w.disks}
<1>1. /\ w.cpu = Is(T, <<"host", "cpu">>, "low")
      /\ w.memory = Is(T, <<"host", "memory">>, "low")
      /\ w.disks = [d \in Lab.mounts |-> Is(T, <<"host", "disk", d>>, "low")]
  BY DEF HostTells
<1>2. p = Of({Read(A), Read(B)})
  BY DEF HostMetrics, Failed
<1>3. p.unread = {} /\ p.checks = A \cup B
  <2> HIDE DEF p, A, B
  <2>1. Of({Read(A), Read(B)}) = [error |-> FALSE, checks |-> A \cup B, unread |-> {}]
    BY OfRead2
  <2> QED
    BY <1>2, <2>1
<1>4. \A check : check \in p.checks <=>
        \/ check = Check(<<"host", "cpu">>, Cpu)
        \/ check = Check(<<"host", "memory">>, Memory)
        \/ check = Check(<<"host", "uptime">>, OK)
        \/ \E d \in Lab.mounts : check = Check(<<"host", "disk", d>>, Disk(d))
  <2> HIDE DEF p, w, Cpu, Memory, Disk
  <2> QED
    BY <1>1, <1>3
<1>5. ASSUME NEW i \in DOMAIN T
      PROVE  \/ i = <<"host", "cpu">> /\ T[i] = "warn"
             \/ i = <<"host", "memory">> /\ T[i] = "warn"
             \/ \E d \in Lab.mounts : i = <<"host", "disk", d>> /\ T[i] \in {"crit", "hung"}
  BY DEF Ill, HostTroubles
<1>6. F = {i \in DOMAIN T : T[i] # "hung"}
  BY DEF Faults, Harmless, Totals
<1>7. Cpu \in Severities /\ (Cpu \in BAD <=> <<"host", "cpu">> \in F)
  BY <1>1, <1>5, <1>6 DEF Is, AtThresholds, Severities, BAD, OK, WARNING, CRITICAL, UNKNOWN
<1>8. Memory \in Severities /\ (Memory \in BAD <=> <<"host", "memory">> \in F)
  BY <1>1, <1>5, <1>6 DEF Is, AtThresholds, Severities, BAD, OK, WARNING, CRITICAL, UNKNOWN
<1>9. ASSUME NEW d \in Lab.mounts
      PROVE  Disk(d) \in Severities /\ (Disk(d) \in BAD <=> <<"host", "disk", d>> \in F)
  BY <1>1, <1>5, <1>6 DEF Is, AtThresholds, Severities, BAD, OK, WARNING, CRITICAL, UNKNOWN
<1> HIDE DEF w, p, F, Cpu, Memory, Disk
<1>10. Typed(p)
  BY <1>3, <1>4, <1>7, <1>8, <1>9 DEF Typed, Check, Severities, Covered, OK
<1>11. \A check \in p.checks : check.severity \in BAD <=> check.id \in F
  BY <1>4, <1>5, <1>6, <1>7, <1>8, <1>9 DEF Check, BAD, OK, WARNING, CRITICAL
<1>12. ASSUME NEW i \in F PROVE \E check \in p.checks : check.id = i
  <2>1. CASE i = <<"host", "cpu">>
    <3>1. Check(i, Cpu) \in p.checks
      BY <2>1, <1>4
    <3> QED
      BY <3>1 DEF Check
  <2>2. CASE i = <<"host", "memory">>
    <3>1. Check(i, Memory) \in p.checks
      BY <2>2, <1>4
    <3> QED
      BY <3>1 DEF Check
  <2>3. CASE \E d \in Lab.mounts : i = <<"host", "disk", d>>
    <3>1. PICK d \in Lab.mounts : i = <<"host", "disk", d>>
      BY <2>3
    <3>2. Check(i, Disk(d)) \in p.checks
      BY <3>1, <1>4
    <3> QED
      BY <3>2 DEF Check
  <2> QED
    BY <1>5, <1>6, <2>1, <2>2, <2>3
<1> QED
  BY <1>3, <1>10, <1>11, <1>12 DEF Whole, Exact, Published, w, p, F

LEMMA ServicesWhole ==
  ASSUME NEW T, NEW r, Ill(T, ServiceTroubles), ~Services(ServiceTells(T)).error
  PROVE  Whole(Services(ServiceTells(T)), Faults("services", T))
<1> DEFINE w == ServiceTells(T)
           p == Services(w)
           F == Faults("services", T)
           Http(x) == ServiceSeverity(w.http[x])
           Tcp(x) == PortSeverity(w.tcp[x])
           A == {Check(<<"svc", x>>, Http(x)) : x \in DOMAIN w.http}
           B == {Check(<<"tcp", x>>, Tcp(x)) : x \in DOMAIN w.tcp}
<1>1. /\ w.http = [x \in Lab.urls |-> Is(T, <<"svc", x>>, "expected")]
      /\ w.tcp = [x \in Lab.ports |-> Is(T, <<"tcp", x>>, "open")]
  BY DEF ServiceTells
<1>2. p = Of({Read(A), Read(B)})
  <2>1. ~(DOMAIN w.http \cup DOMAIN w.tcp = {})
    BY DEF Services, Failed
  <2> QED
    BY <2>1 DEF Services
<1>3. p.unread = {} /\ p.checks = A \cup B
  <2> HIDE DEF p, A, B
  <2>1. Of({Read(A), Read(B)}) = [error |-> FALSE, checks |-> A \cup B, unread |-> {}]
    BY OfRead2
  <2> QED
    BY <1>2, <2>1
<1>4. \A check : check \in p.checks <=>
        \/ \E x \in Lab.urls : check = Check(<<"svc", x>>, Http(x))
        \/ \E x \in Lab.ports : check = Check(<<"tcp", x>>, Tcp(x))
  <2> HIDE DEF p, w, Http, Tcp
  <2> QED
    BY <1>1, <1>3
<1>5. ASSUME NEW i \in DOMAIN T
      PROVE  \/ \E x \in Lab.urls : i = <<"svc", x>> /\ T[i] \in {"slow", "unexpected", "unreachable", "raised"}
             \/ \E x \in Lab.ports : i = <<"tcp", x>> /\ T[i] = "closed"
  BY DEF Ill, ServiceTroubles
<1>6. F = {i \in DOMAIN T : T[i] # "raised"}
  BY DEF Faults, Harmless, Totals
<1>7. ASSUME NEW x \in Lab.urls
      PROVE  Http(x) \in Severities /\ (Http(x) \in BAD <=> <<"svc", x>> \in F)
  BY <1>1, <1>5, <1>6 DEF Is, ServiceSeverity, Severities, BAD, OK, WARNING, CRITICAL, UNKNOWN
<1>8. ASSUME NEW x \in Lab.ports
      PROVE  Tcp(x) \in Severities /\ (Tcp(x) \in BAD <=> <<"tcp", x>> \in F)
  BY <1>1, <1>5, <1>6 DEF Is, PortSeverity, Severities, BAD, OK, WARNING, CRITICAL, UNKNOWN
<1> HIDE DEF w, p, F, Http, Tcp
<1>9. Typed(p)
  BY <1>3, <1>4, <1>7, <1>8 DEF Typed, Check, Severities, Covered, OK
<1>10. \A check \in p.checks : check.severity \in BAD <=> check.id \in F
  BY <1>4, <1>5, <1>6, <1>7, <1>8 DEF Check, BAD, OK, WARNING, CRITICAL
<1>11. ASSUME NEW i \in F PROVE \E check \in p.checks : check.id = i
  <2>1. CASE \E x \in Lab.urls : i = <<"svc", x>>
    <3>1. PICK x \in Lab.urls : i = <<"svc", x>>
      BY <2>1
    <3>2. Check(i, Http(x)) \in p.checks
      BY <3>1, <1>4
    <3> QED
      BY <3>2 DEF Check
  <2>2. CASE \E x \in Lab.ports : i = <<"tcp", x>>
    <3>1. PICK x \in Lab.ports : i = <<"tcp", x>>
      BY <2>2
    <3>2. Check(i, Tcp(x)) \in p.checks
      BY <3>1, <1>4
    <3> QED
      BY <3>2 DEF Check
  <2> QED
    BY <1>5, <1>6, <2>1, <2>2
<1> QED
  BY <1>3, <1>9, <1>10, <1>11 DEF Whole, Exact, Published, w, p, F

LEMMA FleetWhole ==
  ASSUME NEW T, NEW r, Ill(T, FleetTroubles), ~Fleet(FleetTells(T), r).error
  PROVE  Whole(Fleet(FleetTells(T), r), Faults("fleet", T))
<1> DEFINE w == FleetTells(T)
           p == Fleet(w, r)
           F == Faults("fleet", T)
           Sev(x) == HostSeverity(w.entries[x])
           A == {Check(<<"fleet", x>>, Sev(x)) : x \in DOMAIN w.entries}
<1>1. w.entries = [x \in Lab.hosts |-> Is(T, <<"fleet", x>>, "reply")]
  BY DEF FleetTells
<1>2. p = Of({Read(A)})
  <2> DEFINE g == [e \in DOMAIN w.entries |-> HostSeverity(w.entries[e])]
             B == {Check(<<"fleet", x>>, g[x]) : x \in DOMAIN g}
  <2>1. p = Of({Read(B)})
    BY DEF Fleet, EntryChecks, Failed
  <2>2. B = A
    OBVIOUS
  <2> HIDE DEF A, B, p
  <2> QED
    BY <2>1, <2>2
<1>3. p.unread = {} /\ p.checks = A
  <2> HIDE DEF p, A
  <2>1. Of({Read(A)}) = [error |-> FALSE, checks |-> A, unread |-> {}]
    BY OfRead1
  <2> QED
    BY <1>2, <2>1
<1>4. \A check : check \in p.checks <=>
        \/ \E x \in Lab.hosts : check = Check(<<"fleet", x>>, Sev(x))
  <2> HIDE DEF p, w, Sev
  <2> QED
    BY <1>1, <1>3
<1>5. ASSUME NEW i \in DOMAIN T
      PROVE  \/ \E x \in Lab.hosts : i = <<"fleet", x>> /\ T[i] \in {"slow", "silent", "critical", "raised"}
  BY DEF Ill, FleetTroubles
<1>6. F = {i \in DOMAIN T : T[i] # "raised"}
  BY DEF Faults, Harmless, Totals
<1>7. ASSUME NEW x \in Lab.hosts
      PROVE  Sev(x) \in Severities /\ (Sev(x) \in BAD <=> <<"fleet", x>> \in F)
  BY <1>1, <1>5, <1>6 DEF Is, HostSeverity, Severities, BAD, OK, WARNING, CRITICAL, UNKNOWN
<1> HIDE DEF w, p, F, Sev
<1>8. Typed(p)
  BY <1>3, <1>4, <1>7 DEF Typed, Check, Severities, Covered, OK
<1>9. \A check \in p.checks : check.severity \in BAD <=> check.id \in F
  BY <1>4, <1>5, <1>6, <1>7 DEF Check, BAD, OK, WARNING, CRITICAL
<1>10. ASSUME NEW i \in F PROVE \E check \in p.checks : check.id = i
  <2>1. CASE \E x \in Lab.hosts : i = <<"fleet", x>>
    <3>1. PICK x \in Lab.hosts : i = <<"fleet", x>>
      BY <2>1
    <3>2. Check(i, Sev(x)) \in p.checks
      BY <3>1, <1>4
    <3> QED
      BY <3>2 DEF Check
  <2> QED
    BY <1>5, <1>6, <2>1
<1> QED
  BY <1>3, <1>8, <1>9, <1>10 DEF Whole, Exact, Published, w, p, F

LEMMA DnsWhole ==
  ASSUME NEW T, NEW r, Ill(T, DnsTroubles), ~Dns(DnsTells(T)).error
  PROVE  Whole(Dns(DnsTells(T)), Faults("dns", T))
<1> DEFINE w == DnsTells(T)
           p == Dns(w)
           F == Faults("dns", T)
           Sev(x) == ResolverSeverity(w.entries[x])
           A == {Check(<<"dns", x>>, Sev(x)) : x \in DOMAIN w.entries}
<1>1. w.entries = [x \in Lab.names |-> Is(T, <<"dns", x>>, "expected")]
  BY DEF DnsTells
<1>2. p = Of({Read(A)})
  <2> DEFINE g == [e \in DOMAIN w.entries |-> ResolverSeverity(w.entries[e])]
             B == {Check(<<"dns", x>>, g[x]) : x \in DOMAIN g}
  <2>1. p = Of({Read(B)})
    BY DEF Dns, EntryChecks, Failed
  <2>2. B = A
    OBVIOUS
  <2> HIDE DEF A, B, p
  <2> QED
    BY <2>1, <2>2
<1>3. p.unread = {} /\ p.checks = A
  <2> HIDE DEF p, A
  <2>1. Of({Read(A)}) = [error |-> FALSE, checks |-> A, unread |-> {}]
    BY OfRead1
  <2> QED
    BY <1>2, <2>1
<1>4. \A check : check \in p.checks <=>
        \/ \E x \in Lab.names : check = Check(<<"dns", x>>, Sev(x))
  <2> HIDE DEF p, w, Sev
  <2> QED
    BY <1>1, <1>3
<1>5. ASSUME NEW i \in DOMAIN T
      PROVE  \/ \E x \in Lab.names : i = <<"dns", x>> /\ T[i] \in {"other", "mute", "garbled", "raised"}
  BY DEF Ill, DnsTroubles
<1>6. F = {i \in DOMAIN T : T[i] # "raised"}
  BY DEF Faults, Harmless, Totals
<1>7. ASSUME NEW x \in Lab.names
      PROVE  Sev(x) \in Severities /\ (Sev(x) \in BAD <=> <<"dns", x>> \in F)
  BY <1>1, <1>5, <1>6 DEF Is, ResolverSeverity, Severities, BAD, OK, WARNING, CRITICAL, UNKNOWN
<1> HIDE DEF w, p, F, Sev
<1>8. Typed(p)
  BY <1>3, <1>4, <1>7 DEF Typed, Check, Severities, Covered, OK
<1>9. \A check \in p.checks : check.severity \in BAD <=> check.id \in F
  BY <1>4, <1>5, <1>6, <1>7 DEF Check, BAD, OK, WARNING, CRITICAL
<1>10. ASSUME NEW i \in F PROVE \E check \in p.checks : check.id = i
  <2>1. CASE \E x \in Lab.names : i = <<"dns", x>>
    <3>1. PICK x \in Lab.names : i = <<"dns", x>>
      BY <2>1
    <3>2. Check(i, Sev(x)) \in p.checks
      BY <3>1, <1>4
    <3> QED
      BY <3>2 DEF Check
  <2> QED
    BY <1>5, <1>6, <2>1
<1> QED
  BY <1>3, <1>8, <1>9, <1>10 DEF Whole, Exact, Published, w, p, F

LEMMA CertificatesWhole ==
  ASSUME NEW T, NEW r, Ill(T, CertificateTroubles), ~Certificates(CertificateTells(T)).error
  PROVE  Whole(Certificates(CertificateTells(T)), Faults("certificates", T))
<1> DEFINE w == CertificateTells(T)
           p == Certificates(w)
           F == Faults("certificates", T)
           Sev(x) == CertificateSeverity(w.entries[x])
           A == {Check(<<"cert", x>>, Sev(x)) : x \in DOMAIN w.entries}
<1>1. w.entries = [x \in Lab.names |-> Is(T, <<"cert", x>>, "valid")]
  BY DEF CertificateTells
<1>2. p = Of({Read(A)})
  <2> DEFINE g == [e \in DOMAIN w.entries |-> CertificateSeverity(w.entries[e])]
             B == {Check(<<"cert", x>>, g[x]) : x \in DOMAIN g}
  <2>1. p = Of({Read(B)})
    BY DEF Certificates, EntryChecks, Failed
  <2>2. B = A
    OBVIOUS
  <2> HIDE DEF A, B, p
  <2> QED
    BY <2>1, <2>2
<1>3. p.unread = {} /\ p.checks = A
  <2> HIDE DEF p, A
  <2>1. Of({Read(A)}) = [error |-> FALSE, checks |-> A, unread |-> {}]
    BY OfRead1
  <2> QED
    BY <1>2, <2>1
<1>4. \A check : check \in p.checks <=>
        \/ \E x \in Lab.names : check = Check(<<"cert", x>>, Sev(x))
  <2> HIDE DEF p, w, Sev
  <2> QED
    BY <1>1, <1>3
<1>5. ASSUME NEW i \in DOMAIN T
      PROVE  \/ \E x \in Lab.names : i = <<"cert", x>> /\ T[i] \in {"soon", "expiring", "unreachable", "unusable"}
  BY DEF Ill, CertificateTroubles
<1>6. F = {i \in DOMAIN T : T[i] # "unusable"}
  BY DEF Faults, Harmless, Totals
<1>7. ASSUME NEW x \in Lab.names
      PROVE  Sev(x) \in Severities /\ (Sev(x) \in BAD <=> <<"cert", x>> \in F)
  BY <1>1, <1>5, <1>6 DEF Is, CertificateSeverity, Severities, BAD, OK, WARNING, CRITICAL, UNKNOWN
<1> HIDE DEF w, p, F, Sev
<1>8. Typed(p)
  BY <1>3, <1>4, <1>7 DEF Typed, Check, Severities, Covered, OK
<1>9. \A check \in p.checks : check.severity \in BAD <=> check.id \in F
  BY <1>4, <1>5, <1>6, <1>7 DEF Check, BAD, OK, WARNING, CRITICAL
<1>10. ASSUME NEW i \in F PROVE \E check \in p.checks : check.id = i
  <2>1. CASE \E x \in Lab.names : i = <<"cert", x>>
    <3>1. PICK x \in Lab.names : i = <<"cert", x>>
      BY <2>1
    <3>2. Check(i, Sev(x)) \in p.checks
      BY <3>1, <1>4
    <3> QED
      BY <3>2 DEF Check
  <2> QED
    BY <1>5, <1>6, <2>1
<1> QED
  BY <1>3, <1>8, <1>9, <1>10 DEF Whole, Exact, Published, w, p, F

\* Which tuples are prefixes of which.
LEMMA Prefix22 ==
  ASSUME NEW a1, NEW a2, NEW b1, NEW b2
  PROVE  IsPrefix(<<a1, a2>>, <<b1, b2>>) <=> a1 = b1 /\ a2 = b2
BY DEF IsPrefix

LEMMA Prefix23 ==
  ASSUME NEW a1, NEW a2, NEW b1, NEW b2, NEW b3
  PROVE  IsPrefix(<<a1, a2>>, <<b1, b2, b3>>) <=> a1 = b1 /\ a2 = b2
BY DEF IsPrefix

LEMMA Prefix24 ==
  ASSUME NEW a1, NEW a2, NEW b1, NEW b2, NEW b3, NEW b4
  PROVE  IsPrefix(<<a1, a2>>, <<b1, b2, b3, b4>>) <=> a1 = b1 /\ a2 = b2
BY DEF IsPrefix

LEMMA Prefix32 ==
  ASSUME NEW a1, NEW a2, NEW a3, NEW b1, NEW b2
  PROVE  ~IsPrefix(<<a1, a2, a3>>, <<b1, b2>>)
BY DEF IsPrefix

LEMMA Prefix33 ==
  ASSUME NEW a1, NEW a2, NEW a3, NEW b1, NEW b2, NEW b3
  PROVE  IsPrefix(<<a1, a2, a3>>, <<b1, b2, b3>>) <=> a1 = b1 /\ a2 = b2 /\ a3 = b3
BY DEF IsPrefix

LEMMA Prefix34 ==
  ASSUME NEW a1, NEW a2, NEW a3, NEW b1, NEW b2, NEW b3, NEW b4
  PROVE  IsPrefix(<<a1, a2, a3>>, <<b1, b2, b3, b4>>) <=> a1 = b1 /\ a2 = b2 /\ a3 = b3
BY DEF IsPrefix

\* The worst of some severities is one of them, and none is worse.
LEMMA WorstIs ==
  ASSUME NEW S, S \subseteq Severities, S # {}
  PROVE  worst(S) \in S /\ \A t \in S : rank(t) <= rank(worst(S))
<1>1. \E s \in S : \A t \in S : rank(t) <= rank(s)
  <2>1. CASE CRITICAL \in S
    BY <2>1 DEF rank, Severities, OK, UNKNOWN, WARNING, CRITICAL
  <2>2. CASE CRITICAL \notin S /\ WARNING \in S
    BY <2>2 DEF rank, Severities, OK, UNKNOWN, WARNING, CRITICAL
  <2>3. CASE CRITICAL \notin S /\ WARNING \notin S /\ UNKNOWN \in S
    BY <2>3 DEF rank, Severities, OK, UNKNOWN, WARNING, CRITICAL
  <2>4. CASE S = {OK}
    BY <2>4 DEF rank, Severities, OK, UNKNOWN, WARNING, CRITICAL
  <2> QED
    BY <2>1, <2>2, <2>3, <2>4 DEF Severities
<1> QED
  BY <1>1 DEF worst

\* So it is ok only if all are, and bad just when one is.
LEMMA WorstKnown ==
  ASSUME NEW S, S \subseteq Severities
  PROVE  /\ worst(S) \in Severities
         /\ worst(S) = OK => \A s \in S : s = OK
         /\ worst(S) \in BAD <=> \E s \in S : s \in BAD
<1>1. CASE S = {}
  BY <1>1 DEF worst, Severities, BAD, OK, UNKNOWN, WARNING, CRITICAL
<1>2. CASE S # {}
  BY <1>2, WorstIs DEF rank, Severities, BAD, OK, UNKNOWN, WARNING, CRITICAL
<1> QED
  BY <1>1, <1>2

LEMMA JellyfinWhole ==
  ASSUME NEW T, NEW r, Ill(T, JellyfinTroubles), ~Jellyfin(JellyfinTells(T), r).error
  PROVE  Whole(Jellyfin(JellyfinTells(T), r), Faults("jellyfin", T))
<1> DEFINE w == JellyfinTells(T)
           p == Jellyfin(w, r)
           F == Faults("jellyfin", T)
           Streams == IF w.transcoding THEN WARNING ELSE OK
           A == {Check(<<"jellyfin", "server">>, OK), Check(<<"jellyfin", "streams">>, Streams)}
           B == IF w.restart THEN {Check(<<"jellyfin", "restart">>, WARNING)} ELSE {}
           C == IF Answers(r.counts) THEN {Check(<<"jellyfin", "library">>, OK)} ELSE {}
<1>1. /\ w.restart <=> <<"jellyfin", "restart">> \in DOMAIN T
      /\ w.transcoding <=> <<"jellyfin", "streams">> \in DOMAIN T
  BY DEF JellyfinTells
<1>2. p = Of({Read(A), Read(B), Read(C)})
  BY DEF Jellyfin, Failed
<1>3. p.unread = {} /\ p.checks = A \cup B \cup C
  <2> HIDE DEF p, A, B, C
  <2>1. Of({Read(A), Read(B), Read(C)}) = [error |-> FALSE, checks |-> A \cup B \cup C, unread |-> {}]
    BY OfRead3
  <2> QED
    BY <1>2, <2>1
<1>4. \A check : check \in p.checks <=>
        \/ check = Check(<<"jellyfin", "server">>, OK)
        \/ check = Check(<<"jellyfin", "streams">>, Streams)
        \/ w.restart /\ check = Check(<<"jellyfin", "restart">>, WARNING)
        \/ Answers(r.counts) /\ check = Check(<<"jellyfin", "library">>, OK)
  <2> HIDE DEF p, w, Streams
  <2> QED
    BY <1>3
<1>5. ASSUME NEW i \in DOMAIN T
      PROVE  i = <<"jellyfin", "restart">> \/ i = <<"jellyfin", "streams">>
  BY DEF Ill, JellyfinTroubles
<1>6. F = DOMAIN T
  BY DEF Faults, Harmless, Totals
<1>7. Streams \in Severities /\ (Streams \in BAD <=> <<"jellyfin", "streams">> \in F)
  BY <1>1, <1>6 DEF Severities, BAD, OK, WARNING, CRITICAL, UNKNOWN
<1> HIDE DEF w, p, F, Streams
<1>8. Typed(p)
  BY <1>3, <1>4, <1>7 DEF Typed, Check, Severities, Covered, OK, WARNING
<1>9. \A check \in p.checks : check.severity \in BAD <=> check.id \in F
  BY <1>1, <1>4, <1>5, <1>6, <1>7 DEF Check, BAD, OK, WARNING, CRITICAL
<1>10. ASSUME NEW i \in F PROVE \E check \in p.checks : check.id = i
  <2>1. CASE i = <<"jellyfin", "streams">>
    <3>1. Check(i, Streams) \in p.checks
      BY <2>1, <1>4
    <3> QED
      BY <3>1 DEF Check
  <2>2. CASE i = <<"jellyfin", "restart">>
    <3>1. Check(i, WARNING) \in p.checks
      BY <2>2, <1>1, <1>4, <1>6
    <3> QED
      BY <3>1 DEF Check
  <2> QED
    BY <1>5, <1>6, <2>1, <2>2
<1> QED
  BY <1>3, <1>8, <1>9, <1>10 DEF Whole, Exact, Published, w, p, F

\* A list that is cut off after its first line tells of the battery only.
LEMMA UpsWhole ==
  ASSUME NEW T, NEW r, Ill(T, UpsTroubles), ~Ups(UpsTells(T), r).error
  PROVE  /\ Typed(Ups(UpsTells(T), r))
         /\ Answers(r.list) => Whole(Ups(UpsTells(T), r), Faults("ups", T))
         /\ ~Answers(r.list) => \E check \in Ups(UpsTells(T), r).checks : check.severity # OK
<1> DEFINE w == UpsTells(T)
           p == Ups(w, r)
           F == Faults("ups", T)
           received == IF Answers(r.list) THEN DOMAIN w.readings ELSE {"battery"}
           flags == IF Answers(r.list) THEN w.flags ELSE {}
           Power == PowerSeverity(flags)
           Sev(x) == AtThresholds(w.readings[x])
           A == {Check(<<"ups", "status">>, Power)}
           B == {Check(<<"ups", x>>, Sev(x)) : x \in received}
           Names == {"battery", "runtime", "load"}
<1>1. /\ w.flags = Flags(Is(T, <<"ups", "status">>, "charging"))
      /\ w.readings = [x \in Names |-> Is(T, <<"ups", x>>, "low")]
  BY DEF UpsTells
<1>2. p = Of({Read(A), Read(B)})
  BY DEF Ups, Failed
<1>3. p.unread = {} /\ p.checks = A \cup B
  <2> HIDE DEF p, A, B
  <2>1. Of({Read(A), Read(B)}) = [error |-> FALSE, checks |-> A \cup B, unread |-> {}]
    BY OfRead2
  <2> QED
    BY <1>2, <2>1
<1>4. \A check : check \in p.checks <=>
        \/ check = Check(<<"ups", "status">>, Power)
        \/ \E x \in received : check = Check(<<"ups", x>>, Sev(x))
  <2> HIDE DEF p, w, Power, received, Sev
  <2> QED
    BY <1>3
<1>5. ASSUME NEW i \in DOMAIN T
      PROVE  \/ i = <<"ups", "status">> /\ T[i] \in {"discharging", "replace", "flagless"}
             \/ \E x \in Names : i = <<"ups", x>> /\ T[i] = "crit"
  BY DEF Ill, UpsTroubles
<1>6. F = {i \in DOMAIN T : T[i] # "flagless"}
  BY DEF Faults, Harmless, Totals
<1>7. received \subseteq Names /\ (Answers(r.list) => received = Names)
  BY <1>1
<1>8. ASSUME NEW x \in Names
      PROVE  Sev(x) \in Severities /\ (Sev(x) \in BAD <=> <<"ups", x>> \in F)
  BY <1>1, <1>5, <1>6 DEF Is, AtThresholds, Severities, BAD, OK, WARNING, CRITICAL, UNKNOWN
<1> DEFINE S == {FlagSeverity(f) : f \in flags}
<1>9. S \subseteq Severities
  BY DEF FlagSeverity, Severities, OK, WARNING, CRITICAL, UNKNOWN
<1>10. Power = worst(S)
  BY DEF PowerSeverity
<1>11. Power \in Severities /\ (Power \in BAD <=> \E s \in S : s \in BAD)
  <2> HIDE DEF S, Power
  <2> QED
    BY <1>9, <1>10, WorstKnown
<1>12. ~Answers(r.list) => Power = UNKNOWN
  BY <1>10 DEF worst
<1>13. Answers(r.list) => (Power \in BAD <=> <<"ups", "status">> \in F)
  <2> SUFFICES ASSUME Answers(r.list) PROVE (\E s \in S : s \in BAD) <=> <<"ups", "status">> \in F
    BY <1>11
  <2>1. CASE <<"ups", "status">> \notin DOMAIN T
    <3>1. flags = {"OL", "CHRG"}
      BY <2>1, <1>1 DEF Is, Flags
    <3> QED
      BY <2>1, <3>1, <1>6 DEF FlagSeverity, QuietFlags, CriticalFlags, BAD, OK, WARNING, CRITICAL
  <2>2. CASE <<"ups", "status">> \in DOMAIN T
    <3>1. T[<<"ups", "status">>] \in {"discharging", "replace", "flagless"}
      BY <2>2, <1>5
    <3>2. flags = IF T[<<"ups", "status">>] = "discharging" THEN {"OB", "DISCHRG"}
                  ELSE IF T[<<"ups", "status">>] = "replace" THEN {"OL", "RB"} ELSE {}
      BY <2>2, <3>1, <1>1 DEF Is, Flags
    <3>3. T[<<"ups", "status">>] # "flagless" <=> \E s \in S : s \in BAD
      BY <3>1, <3>2 DEF FlagSeverity, QuietFlags, CriticalFlags, BAD, OK, WARNING, CRITICAL
    <3> QED
      BY <2>2, <3>3, <1>6
  <2> QED
    BY <2>1, <2>2
<1> HIDE DEF w, p, F, received, flags, Power, Sev
<1>14. Typed(p)
  BY <1>3, <1>4, <1>7, <1>8, <1>11 DEF Typed, Check, Covered
<1>15. ASSUME Answers(r.list)
       PROVE  \A check \in p.checks : check.severity \in BAD <=> check.id \in F
  BY <1>4, <1>7, <1>8, <1>13, <1>15 DEF Check
<1>16. ASSUME NEW i \in F, Answers(r.list) PROVE \E check \in p.checks : check.id = i
  <2>1. CASE i = <<"ups", "status">>
    <3>1. Check(i, Power) \in p.checks
      BY <2>1, <1>4
    <3> QED
      BY <3>1 DEF Check
  <2>2. CASE \E x \in Names : i = <<"ups", x>>
    <3>1. PICK x \in Names : i = <<"ups", x>>
      BY <2>2
    <3>2. Check(i, Sev(x)) \in p.checks
      BY <3>1, <1>4, <1>7, <1>16
    <3> QED
      BY <3>2 DEF Check
  <2> QED
    BY <1>5, <1>6, <2>1, <2>2
<1>17. ASSUME ~Answers(r.list) PROVE \E check \in p.checks : check.severity # OK
  <2>1. Check(<<"ups", "status">>, Power) \in p.checks
    BY <1>4
  <2> QED
    BY <2>1, <1>12, <1>17 DEF Check, OK, UNKNOWN
<1>18. Answers(r.list) => Whole(p, F)
  BY <1>3, <1>14, <1>15, <1>16 DEF Whole, Exact, Published
<1> QED
  BY <1>14, <1>17, <1>18 DEF p, w, F

\* The checks and the unread parts of a panel of four parts.
LEMMA OfFour ==
  ASSUME NEW a, NEW b, NEW c, NEW d
  PROVE  /\ Of({a, b, c, d}).checks = a.checks \cup b.checks \cup c.checks \cup d.checks
         /\ Of({a, b, c, d}).unread = a.unread \cup b.unread \cup c.unread \cup d.unread
<1> DEFINE P == {a, b, c, d}
<1>1. UNION {p.checks : p \in P} = a.checks \cup b.checks \cup c.checks \cup d.checks
  OBVIOUS
<1>2. UNION {p.unread : p \in P} = a.unread \cup b.unread \cup c.unread \cup d.unread
  OBVIOUS
<1> HIDE DEF P
<1>3. Of(P) = [error |-> FALSE, checks |-> UNION {p.checks : p \in P}, unread |-> UNION {p.unread : p \in P}]
  BY DEF Of
<1> QED
  BY <1>1, <1>2, <1>3 DEF P

\* A check is shown as not well, or its absence is declared.
Shown(p, i)  == \E s : Check(i, s) \in p.checks /\ s # OK
Missed(p, i) == i \notin Published(p) /\ Covered(i, p.unread)

Shows(p, i) == \E check \in p.checks : check.id = i /\ check.severity # OK

\* No failure of F goes without one or the other.
Tells(p, F) == \A i \in F : Shows(p, i) \/ Missed(p, i)

LEMMA ShownIs == \A p, i : Shown(p, i) => Shows(p, i)
BY DEF Shown, Shows, Check

\* No panel is green while something is wrong.
Notices(p, F) == F # {} => \E check \in p.checks : check.severity # OK

-----------------------------------------------------------------------------
\* Listings.  What is listed of the failed tasks of a node: some, if there are
\* any, and all of them up to the limit.
Dated(T, n, t) == t \in Newest(ProxmoxTells(T).tasks[n])

LEMMA OldestFirst ==
  ASSUME NEW S, NEW age \in [S -> Nat], S # {}
  PROVE  \E t \in S : \A s \in S : ~(age[s] < age[t])
<1> DEFINE A == {age[t] : t \in S}
           R == {ss \in Nat \X Nat : ss[1] < ss[2]}
<1>1. A \subseteq Nat /\ A # {}
  OBVIOUS
<1>2. \A x, y \in Nat : <<x, y>> \in R <=> x < y
  OBVIOUS
<1>3. IsWellFoundedOn(R, Nat)
  BY NatLessThanWellFounded DEF OpToRel
<1> HIDE DEF R
<1>4. \E x \in A : \A y \in A : ~(<<y, x>> \in R)
  <2> HIDE DEF A
  <2> QED
    BY <1>1, <1>3, WFMin
<1> QED
  BY <1>1, <1>2, <1>4

LEMMA TasksListed ==
  ASSUME NEW T, NEW n \in Lab.nodes
  PROVE  /\ \A t : Dated(T, n, t) => t \in Lab.tasks /\ <<"pve", "task", n, t>> \in DOMAIN T
         /\ FailedOn(T, n) # {} => \E t \in Lab.tasks : Dated(T, n, t)
         /\ Cardinality(FailedOn(T, n)) <= TaskLimit => \A t \in FailedOn(T, n) : Dated(T, n, t)
<1> DEFINE S == FailedOn(T, n)
           ages == [t \in S |-> Lab.age[t]]
           Newer(t) == {s \in S : ages[s] < ages[t]}
<1>1. S \subseteq Lab.tasks /\ \A t \in S : <<"pve", "task", n, t>> \in DOMAIN T
  BY DEF FailedOn
<1>2. IsFiniteSet(S) /\ Cardinality(S) \in Nat
  BY <1>1, LabAssumption, FS_Subset, FS_CardinalityType
<1>3. ages \in [S -> Nat]
  BY <1>1, LabAssumption DEF Injection
<1>4. ProxmoxTells(T).tasks[n] = ages
  BY DEF ProxmoxTells
<1>5. \A t : Dated(T, n, t) <=> t \in S /\ Cardinality(Newer(t)) < TaskLimit
  BY <1>4 DEF Dated, Newest
<1> HIDE DEF S, ages
<1>6. ASSUME S # {} PROVE \E t \in S : Dated(T, n, t)
  <2>1. PICK t \in S : \A s \in S : ~(ages[s] < ages[t])
    BY <1>3, <1>6, OldestFirst
  <2>2. Newer(t) = {}
    BY <2>1
  <2>3. Cardinality(Newer(t)) < TaskLimit
    BY <2>2, FS_EmptySet, ListingsAssumption
  <2> QED
    BY <1>5, <2>3
<1>7. ASSUME Cardinality(S) <= TaskLimit, NEW t \in S PROVE Dated(T, n, t)
  <2>1. Newer(t) \in SUBSET S /\ t \notin Newer(t)
    BY <1>3
  <2>2. /\ IsFiniteSet(Newer(t))
        /\ Cardinality(Newer(t)) <= Cardinality(S)
        /\ Cardinality(S) = Cardinality(Newer(t)) => S = Newer(t)
    <3> HIDE DEF Newer
    <3> QED
      BY <1>2, <2>1, FS_Subset
  <2>3. Cardinality(Newer(t)) \in Nat
    BY <2>2, FS_CardinalityType
  <2>4. Cardinality(Newer(t)) < TaskLimit
    <3> HIDE DEF Newer
    <3> QED
      BY <1>2, <1>7, <2>1, <2>2, <2>3, ListingsAssumption
  <2> QED
    BY <1>5, <2>4
<1> QED
  BY <1>1, <1>5, <1>6, <1>7 DEF S

\* How often a notable rule fired is counted apart from which one did.
Noted(T) == Fired(T, {"hot", "noisy", "twins"})

LEMMA RulesCounted ==
  ASSUME NEW T
  PROVE  /\ WazuhTells(T).high \in Nat
         /\ WazuhTells(T).high > 0 <=> Noted(T) # {}
<1> DEFINE A == Fired(T, {"hot", "twins"})
           B == Fired(T, {"noisy", "twins"})
<1>1. IsFiniteSet(A) /\ IsFiniteSet(B)
  BY LabAssumption, FS_Subset DEF Fired
<1>2. /\ Cardinality(A) \in Nat /\ (Cardinality(A) = 0 <=> A = {})
      /\ Cardinality(B) \in Nat /\ (Cardinality(B) = 0 <=> B = {})
  BY <1>1, FS_CardinalityType, FS_EmptySet
<1>3. WazuhTells(T).high = Cardinality(A) + 10 * Cardinality(B)
  BY DEF WazuhTells
<1>4. Noted(T) = A \cup B
  BY DEF Noted, Fired
<1> HIDE DEF A, B
<1>5. A \cup B = {} <=> A = {} /\ B = {}
  OBVIOUS
<1> QED
  BY <1>2, <1>3, <1>4, <1>5

LEMMA DescribedAlike ==
  ASSUME NEW S, IsFiniteSet(S), NEW level, NEW count
  PROVE  IsFiniteSet({Description(x, level, count) : x \in S})
<1> DEFINE f == [x \in S |-> Description(x, level, count)]
           D == {Description(x, level, count) : x \in S}
<1>1. f \in Surjection(S, D)
  BY DEF Surjection
<1> HIDE DEF f, D
<1>2. IsFiniteSet(D)
  BY <1>1, FS_Surjection
<1> QED
  BY <1>2 DEF D

\* What is listed of the rules that fired: none but the notable ones is
\* published, and all of these if the listing has room for what fired.
LEMMA RulesListed ==
  ASSUME NEW T
  PROVE  /\ Cardinality(Descriptions(T)) \in Nat
         /\ \A b \in NotableRules(WazuhTells(T)) : b.rule \in Noted(T)
         /\ Cardinality(Descriptions(T)) <= RuleBuckets =>
              \A x \in Noted(T) : \E b \in NotableRules(WazuhTells(T)) : b.rule = x
<1> DEFINE A == Fired(T, {"hot", "twins"})
           B == Fired(T, {"noisy", "twins"})
           C == Fired(T, {"busy"})
           D == Descriptions(T)
           w == WazuhTells(T)
<1>1. w.rules = D
  BY DEF WazuhTells
<1>2. \A b : b \in D <=> \/ \E x \in A : b = Description(x, 12, 1)
                         \/ \E x \in B : b = Description(x, 10, 10)
                         \/ \E x \in C : b = Description(x, 3, 100)
  BY DEF Descriptions
<1>3. IsFiniteSet(A) /\ IsFiniteSet(B) /\ IsFiniteSet(C)
  BY LabAssumption, FS_Subset DEF Fired
<1>4. A \subseteq Noted(T) /\ B \subseteq Noted(T) /\ Noted(T) \subseteq A \cup B
  BY DEF Noted, Fired
<1>5. A \subseteq Lab.rules /\ B \subseteq Lab.rules /\ C \subseteq Lab.rules
  BY DEF Fired
<1>6. IsFiniteSet(D) /\ Cardinality(D) \in Nat
  <2>1. /\ IsFiniteSet({Description(x, 12, 1) : x \in A})
        /\ IsFiniteSet({Description(x, 10, 10) : x \in B})
        /\ IsFiniteSet({Description(x, 3, 100) : x \in C})
    BY <1>3, DescribedAlike
  <2> QED
    BY <2>1, FS_Union, FS_CardinalityType DEF Descriptions
<1> HIDE DEF A, B, C, D, w
<1>7. \A b : b \in NotableRules(w) <=> b \in TopRules(w) /\ b.level >= NotableLevel
  BY <1>1 DEF NotableRules
<1>8. \A b : b \in TopRules(w) <=> b \in D /\ Cardinality({a \in D : Ahead(a, b)}) < RuleBuckets
  BY <1>1 DEF TopRules
<1>9. ASSUME NEW b \in D PROVE ~Ahead(b, b)
  <2>1. \A x \in Lab.rules : Lab.place[x] \in Nat
    BY LabAssumption DEF Injection
  <2>2. b.count \in Nat /\ b.place \in Nat
    BY <1>2, <1>5, <2>1 DEF Description
  <2> QED
    BY <2>2 DEF Ahead
<1>10. ASSUME NEW b \in NotableRules(w) PROVE b.rule \in Noted(T)
  <2>1. b \in D /\ b.level >= 10
    BY <1>7, <1>8 DEF NotableLevel
  <2> QED
    BY <2>1, <1>2, <1>4 DEF Description
<1>11. ASSUME Cardinality(D) <= RuleBuckets, NEW b \in D PROVE b \in TopRules(w)
  <2> DEFINE E == {a \in D : Ahead(a, b)}
  <2>1. E \in SUBSET D /\ b \notin E
    BY <1>9
  <2>2. /\ IsFiniteSet(E)
        /\ Cardinality(E) <= Cardinality(D)
        /\ Cardinality(D) = Cardinality(E) => D = E
    <3> HIDE DEF E
    <3> QED
      BY <1>6, <2>1, FS_Subset
  <2>3. Cardinality(E) \in Nat
    BY <2>2, FS_CardinalityType
  <2>4. Cardinality(E) < RuleBuckets
    <3> HIDE DEF E
    <3> QED
      BY <1>6, <1>11, <2>1, <2>2, <2>3, ListingsAssumption
  <2> QED
    BY <1>8, <2>4
<1>12. ASSUME Cardinality(D) <= RuleBuckets, NEW x \in Noted(T) PROVE \E b \in NotableRules(w) : b.rule = x
  <2>1. \A level, count : Description(x, level, count).rule = x /\ Description(x, level, count).level = level
    BY DEF Description
  <2>2. Description(x, 12, 1) \in D \/ Description(x, 10, 10) \in D
    BY <1>2, <1>4
  <2>3. PICK b \in D : b.rule = x /\ b.level >= 10
    BY <2>1, <2>2
  <2>4. b \in TopRules(w)
    BY <1>11, <1>12
  <2>5. b \in NotableRules(w)
    BY <1>7, <2>3, <2>4 DEF NotableLevel
  <2> QED
    BY <2>3, <2>5
<1> QED
  BY <1>6, <1>10, <1>12 DEF D, w

-----------------------------------------------------------------------------
\* Collectors whose parts fail one by one.  What they show may be `unknown',
\* and is exact once every part was read.
LEMMA SplunkHonest ==
  ASSUME NEW T, NEW r, Ill(T, SplunkTroubles), ~Splunk(SplunkTells(T), r).error
  PROVE  /\ Typed(Splunk(SplunkTells(T), r))
         /\ Tells(Splunk(SplunkTells(T), r), Faults("splunk", T))
         /\ Notices(Splunk(SplunkTells(T), r), Faults("splunk", T))
         /\ Splunk(SplunkTells(T), r).unread = {} => Exact(Splunk(SplunkTells(T), r), Faults("splunk", T))
<1> DEFINE w == SplunkTells(T)
           p == Splunk(w, r)
           F == Faults("splunk", T)
           server == Read({Check(<<"splunk", "server">>, OK)})
           health == HealthPart(w, r)
           license == LicensePart(w, r)
           index == IndexPart(w, r)
           Health == IF Answers(r.health) THEN HealthColour(w.health) ELSE UNKNOWN
           License == IF Answers(r.pools) THEN AtThresholds(w.quota) ELSE UNKNOWN
           Sev(x) == AtThresholds(w.indexes[x])
           sized == {x \in DOMAIN w.indexes : w.indexes[x] # "none"}
<1>1. /\ w.health = Is(T, <<"splunk", "health">>, "green")
      /\ w.quota = Is(T, <<"splunk", "license">>, "low")
      /\ w.indexes = [x \in Lab.indexes |-> Is(T, <<"splunk", "index", x>>, "low")]
  BY DEF SplunkTells
<1>2. p = Of({server, health, license, index})
  BY DEF Splunk, Failed
<1>3. /\ p.checks = server.checks \cup health.checks \cup license.checks \cup index.checks
      /\ p.unread = server.unread \cup health.unread \cup license.unread \cup index.unread
  <2> HIDE DEF p, server, health, license, index
  <2> QED
    BY <1>2, OfFour
<1>4. server.checks = {Check(<<"splunk", "server">>, OK)} /\ server.unread = {}
  BY DEF Read
<1>5. /\ health.checks = {Check(<<"splunk", "health">>, Health)}
      /\ health.unread = IF Answers(r.health) THEN {} ELSE {<<"splunk", "health">>}
  BY DEF HealthPart, Read, NotRead
<1>6. /\ license.checks = IF Answers(r.pools) /\ w.quota = "none" THEN {}
                          ELSE {Check(<<"splunk", "license">>, License)}
      /\ license.unread = IF Answers(r.pools) THEN {} ELSE {<<"splunk", "license">>}
  BY DEF LicensePart, Read, NotRead
<1>7. /\ index.checks = IF Answers(r.indexes) THEN {Check(<<"splunk", "index", x>>, Sev(x)) : x \in sized}
                        ELSE {Check(<<"splunk", "indexes">>, UNKNOWN)}
      /\ index.unread = IF Answers(r.indexes) THEN {} ELSE {<<"splunk", "index">>}
  BY DEF IndexPart, Read, NotRead
<1>8. \A check : check \in p.checks <=>
        \/ check = Check(<<"splunk", "server">>, OK)
        \/ check = Check(<<"splunk", "health">>, Health)
        \/ ~(Answers(r.pools) /\ w.quota = "none") /\ check = Check(<<"splunk", "license">>, License)
        \/ Answers(r.indexes) /\ \E x \in sized : check = Check(<<"splunk", "index", x>>, Sev(x))
        \/ ~Answers(r.indexes) /\ check = Check(<<"splunk", "indexes">>, UNKNOWN)
  <2> HIDE DEF p, w, server, health, license, index, Health, License, Sev, sized
  <2> QED
    BY <1>3, <1>4, <1>5, <1>6, <1>7
<1>9. \A i : i \in p.unread <=>
        \/ ~Answers(r.health) /\ i = <<"splunk", "health">>
        \/ ~Answers(r.pools) /\ i = <<"splunk", "license">>
        \/ ~Answers(r.indexes) /\ i = <<"splunk", "index">>
  <2> HIDE DEF p, w, server, health, license, index
  <2> QED
    BY <1>3, <1>4, <1>5, <1>6, <1>7
<1>10. ASSUME NEW i \in DOMAIN T
       PROVE  \/ i = <<"splunk", "health">> /\ T[i] \in {"yellow", "red", "grey"}
              \/ i = <<"splunk", "license">> /\ T[i] \in {"warn", "none"}
              \/ \E x \in Lab.indexes : i = <<"splunk", "index", x>> /\ T[i] \in {"warn", "crit", "none"}
  BY DEF Ill, SplunkTroubles
<1>11. F = {i \in DOMAIN T : T[i] # "none"}
  BY DEF Faults, Harmless, Totals
<1>12. /\ Health \in Severities
       /\ Answers(r.health) => (Health \in BAD <=> <<"splunk", "health">> \in F)
       /\ ~Answers(r.health) => Health = UNKNOWN
  BY <1>1, <1>10, <1>11 DEF Is, HealthColour, Severities, BAD, OK, WARNING, CRITICAL, UNKNOWN
<1>13. /\ License \in Severities \/ (Answers(r.pools) /\ w.quota = "none")
       /\ Answers(r.pools) /\ w.quota # "none" => (License \in BAD <=> <<"splunk", "license">> \in F)
       /\ w.quota = "none" => <<"splunk", "license">> \notin F
       /\ ~Answers(r.pools) => License = UNKNOWN
  <2>1. /\ w.quota \in {"low", "warn", "none"}
        /\ w.quota = "warn" <=> <<"splunk", "license">> \in F
    BY <1>1, <1>10, <1>11 DEF Is
  <2>2. CASE Answers(r.pools)
    BY <2>1, <2>2 DEF AtThresholds, Severities, BAD, OK, WARNING, CRITICAL, UNKNOWN
  <2>3. CASE ~Answers(r.pools)
    BY <2>1, <2>3 DEF Severities, UNKNOWN
  <2> QED
    BY <2>2, <2>3
<1>14. ASSUME NEW x \in sized
       PROVE  Sev(x) \in Severities /\ (Sev(x) \in BAD <=> <<"splunk", "index", x>> \in F)
  BY <1>1, <1>10, <1>11 DEF Is, AtThresholds, Severities, BAD, OK, WARNING, CRITICAL, UNKNOWN
<1>15. ASSUME NEW x \in Lab.indexes, <<"splunk", "index", x>> \in F
       PROVE  x \in sized
  BY <1>1, <1>11, <1>15 DEF Is
<1> HIDE DEF w, p, F, Health, License, Sev, sized
<1>16. Typed(p)
  <2>1. ASSUME NEW check \in p.checks
        PROVE  check.severity \in Severities
    BY <1>8, <1>12, <1>13, <1>14 DEF Check, Severities
  <2>2. ASSUME NEW check \in p.checks, NEW u \in p.unread, IsPrefix(u, check.id)
        PROVE  u = check.id
    <3>1. \/ u = <<"splunk", "health">>
          \/ u = <<"splunk", "license">>
          \/ u = <<"splunk", "index">> /\ ~Answers(r.indexes)
      BY <1>9
    <3>2. \/ check.id \in {<<"splunk", "server">>, <<"splunk", "health">>, <<"splunk", "license">>, <<"splunk", "indexes">>}
          \/ Answers(r.indexes) /\ \E x \in sized : check.id = <<"splunk", "index", x>>
      BY <1>8 DEF Check
    <3> QED
      BY <2>2, <3>1, <3>2, Prefix22, Prefix23
  <2>3. ASSUME NEW check \in p.checks, NEW other \in p.checks, check.id = other.id
        PROVE  check = other
    BY <2>3, <1>8 DEF Check
  <2> QED
    BY <2>1, <2>2, <2>3 DEF Typed, Covered
<1>17. ASSUME NEW i \in F
       PROVE  Shown(p, i) \/ (~Answers(r.indexes) /\ Missed(p, i))
  <2>1. CASE i = <<"splunk", "health">>
    BY <2>1, <1>8, <1>12 DEF Shown, BAD, OK, UNKNOWN, WARNING, CRITICAL
  <2>2. CASE i = <<"splunk", "license">>
    BY <2>2, <1>8, <1>13 DEF Shown, BAD, OK, UNKNOWN, WARNING, CRITICAL
  <2>3. CASE \E x \in Lab.indexes : i = <<"splunk", "index", x>>
    <3>1. PICK x \in Lab.indexes : i = <<"splunk", "index", x>>
      BY <2>3
    <3>2. CASE Answers(r.indexes)
      BY <3>1, <3>2, <1>8, <1>14, <1>15 DEF Shown, BAD, OK, WARNING, CRITICAL
    <3>3. CASE ~Answers(r.indexes)
      <4>1. \A check \in p.checks : check.id # i
        BY <3>1, <3>3, <1>8 DEF Check
      <4>2. <<"splunk", "index">> \in p.unread /\ IsPrefix(<<"splunk", "index">>, i)
        BY <3>1, <3>3, <1>9, Prefix23
      <4> QED
        BY <3>3, <4>1, <4>2 DEF Missed, Published, Covered
    <3> QED
      BY <3>2, <3>3
  <2> QED
    BY <1>10, <1>11, <2>1, <2>2, <2>3
<1>18. Tells(p, F)
  BY <1>17, ShownIs DEF Tells
<1>19. Notices(p, F)
  <2>1. ~Answers(r.indexes) => Check(<<"splunk", "indexes">>, UNKNOWN) \in p.checks
    BY <1>8
  <2> QED
    BY <2>1, <1>17 DEF Notices, Shown, Check, OK, UNKNOWN
<1>20. ASSUME p.unread = {} PROVE Exact(p, F)
  <2>1. Answers(r.health) /\ Answers(r.pools) /\ Answers(r.indexes)
    BY <1>9, <1>20
  <2>2. ASSUME NEW check \in p.checks
        PROVE  check.severity \in BAD <=> check.id \in F
    <3>1. CASE check = Check(<<"splunk", "server">>, OK)
      BY <3>1, <1>10, <1>11 DEF Check, BAD, OK, WARNING, CRITICAL
    <3>2. CASE check # Check(<<"splunk", "server">>, OK)
      BY <3>2, <2>1, <1>8, <1>12, <1>13, <1>14 DEF Check
    <3> QED
      BY <3>1, <3>2
  <2>3. ASSUME NEW i \in F PROVE i \in Published(p)
    <3>1. PICK s : Check(i, s) \in p.checks
      BY <2>1, <1>17 DEF Shown
    <3> QED
      BY <3>1 DEF Published, Check
  <2> QED
    BY <2>2, <2>3 DEF Exact
<1> QED
  BY <1>16, <1>18, <1>19, <1>20 DEF p, w, F

\* Outposts are the exception: a listing that fails declares nothing unread.
LEMMA AuthentikHonest ==
  ASSUME NEW T, NEW r, Ill(T, AuthentikTroubles), ~Authentik(AuthentikTells(T), r).error
  PROVE  /\ Typed(Authentik(AuthentikTells(T), r))
         /\ Tells(Authentik(AuthentikTells(T), r),
                  {i \in Faults("authentik", T) : ~IsPrefix(<<"authentik", "outpost">>, i)})
         /\ Notices(Authentik(AuthentikTells(T), r), Faults("authentik", T))
         /\ (Answers(r.tasks_workers) /\ Answers(r.outposts) /\ Answers(r.health))
              => Exact(Authentik(AuthentikTells(T), r), Faults("authentik", T))
<1> DEFINE w == AuthentikTells(T)
           p == Authentik(w, r)
           F == Faults("authentik", T)
           part == OutpostPart(w, r)
           Workers == WorkerCheck(w, r)
           Version == IF w.outdated THEN WARNING ELSE OK
           Sev(o) == OutpostSeverity(w.outposts[o], Answers(r.health) \/ w.embeds)
           A == {Check(<<"authentik", "workers">>, Workers), Check(<<"authentik", "version">>, Version),
                 Check(<<"authentik", "runtime">>, OK)}
           B == IF Answers(r.outposts) THEN {Check(<<"authentik", "outpost", o>>, Sev(o)) : o \in Lab.outposts}
                ELSE {Check(<<"authentik", "outposts">>, UNKNOWN)}
<1>1. /\ w.workers = IF <<"authentik", "workers">> \in DOMAIN T THEN 0 ELSE 2
      /\ w.outdated = (<<"authentik", "version">> \in DOMAIN T)
      /\ w.embeds = FALSE
      /\ DOMAIN w.outposts = Lab.outposts
  BY DEF AuthentikTells
<1>2. ASSUME NEW o \in Lab.outposts
      PROVE  LET state == Is(T, <<"authentik", "outpost", o>>, "recent")
             IN  /\ w.outposts[o].seen = IF state = "mismatch" THEN "recent" ELSE state
                 /\ w.outposts[o].matching = (state # "mismatch")
  BY DEF AuthentikTells
<1>3. p = Of({Read(A), part})
  BY DEF Authentik, Failed
<1>4. part = Read(B)
  BY <1>1 DEF OutpostPart, Read, NotRead
<1>5. p.unread = {} /\ p.checks = A \cup B
  <2> HIDE DEF p, A, B, part
  <2>1. Of({Read(A), Read(B)}) = [error |-> FALSE, checks |-> A \cup B, unread |-> {}]
    BY OfRead2
  <2> QED
    BY <1>3, <1>4, <2>1
<1>6. \A check : check \in p.checks <=>
        \/ check = Check(<<"authentik", "workers">>, Workers)
        \/ check = Check(<<"authentik", "version">>, Version)
        \/ check = Check(<<"authentik", "runtime">>, OK)
        \/ Answers(r.outposts) /\ \E o \in Lab.outposts : check = Check(<<"authentik", "outpost", o>>, Sev(o))
        \/ ~Answers(r.outposts) /\ check = Check(<<"authentik", "outposts">>, UNKNOWN)
  <2> HIDE DEF p, w, Workers, Version, Sev
  <2> QED
    BY <1>5
<1>7. ASSUME NEW i \in DOMAIN T
      PROVE  \/ i = <<"authentik", "workers">>
             \/ i = <<"authentik", "version">>
             \/ \E o \in Lab.outposts : i = <<"authentik", "outpost", o>> /\ T[i] \in {"old", "never", "mismatch"}
  BY DEF Ill, AuthentikTroubles
<1>8. F = DOMAIN T
  BY DEF Faults, Harmless, Totals
<1>9. /\ Workers \in Severities
      /\ <<"authentik", "workers">> \in F => Workers # OK
      /\ Answers(r.tasks_workers) => (Workers \in BAD <=> <<"authentik", "workers">> \in F)
  BY <1>1, <1>8 DEF WorkerCheck, Severities, BAD, OK, WARNING, CRITICAL, UNKNOWN
<1>10. Version \in Severities /\ (Version \in BAD <=> <<"authentik", "version">> \in F)
  BY <1>1, <1>8 DEF Severities, BAD, OK, WARNING, CRITICAL, UNKNOWN
<1>11. ASSUME NEW o \in Lab.outposts
       PROVE  /\ Sev(o) \in Severities
              /\ <<"authentik", "outpost", o>> \in F => Sev(o) # OK
              /\ Answers(r.health) => (Sev(o) \in BAD <=> <<"authentik", "outpost", o>> \in F)
  <2>1. CASE <<"authentik", "outpost", o>> \in DOMAIN T
    <3>1. T[<<"authentik", "outpost", o>>] \in {"old", "never", "mismatch"}
      BY <2>1, <1>7
    <3> QED
      BY <2>1, <3>1, <1>1, <1>2, <1>8 DEF Is, OutpostSeverity, Severities, BAD, OK, WARNING, CRITICAL, UNKNOWN
  <2>2. CASE <<"authentik", "outpost", o>> \notin DOMAIN T
    BY <2>2, <1>1, <1>2, <1>8 DEF Is, OutpostSeverity, Severities, BAD, OK, WARNING, CRITICAL, UNKNOWN
  <2> QED
    BY <2>1, <2>2
<1> HIDE DEF w, p, F, Workers, Version, Sev
<1>12. Typed(p)
  BY <1>5, <1>6, <1>9, <1>10, <1>11 DEF Typed, Check, Severities, Covered, OK, UNKNOWN
<1>13. ASSUME NEW i \in F
       PROVE  Shown(p, i) \/ (~Answers(r.outposts) /\ \E o \in Lab.outposts : i = <<"authentik", "outpost", o>>)
  <2>1. CASE i = <<"authentik", "workers">>
    BY <2>1, <1>6, <1>9 DEF Shown
  <2>2. CASE i = <<"authentik", "version">>
    BY <2>2, <1>6, <1>10 DEF Shown, BAD, OK, WARNING, CRITICAL
  <2>3. CASE \E o \in Lab.outposts : i = <<"authentik", "outpost", o>>
    BY <2>3, <1>6, <1>11 DEF Shown
  <2> QED
    BY <1>7, <1>8, <2>1, <2>2, <2>3
<1>14. Tells(p, {i \in F : ~IsPrefix(<<"authentik", "outpost">>, i)})
  BY <1>13, Prefix23, ShownIs DEF Tells
<1>15. Notices(p, F)
  <2>1. ~Answers(r.outposts) => Check(<<"authentik", "outposts">>, UNKNOWN) \in p.checks
    BY <1>6
  <2> QED
    BY <2>1, <1>13 DEF Notices, Shown, Check, OK, UNKNOWN
<1>16. ASSUME Answers(r.tasks_workers), Answers(r.outposts), Answers(r.health)
       PROVE  Exact(p, F)
  <2>1. ASSUME NEW check \in p.checks
        PROVE  check.severity \in BAD <=> check.id \in F
    <3>1. CASE check = Check(<<"authentik", "runtime">>, OK)
      BY <3>1, <1>7, <1>8 DEF Check, BAD, OK, WARNING, CRITICAL
    <3>2. CASE check # Check(<<"authentik", "runtime">>, OK)
      BY <3>2, <1>16, <1>6, <1>9, <1>10, <1>11 DEF Check
    <3> QED
      BY <3>1, <3>2
  <2>2. ASSUME NEW i \in F PROVE i \in Published(p)
    <3>1. PICK s : Check(i, s) \in p.checks
      BY <1>13, <1>16 DEF Shown
    <3> QED
      BY <3>1 DEF Published, Check
  <2> QED
    BY <2>1, <2>2 DEF Exact
<1> QED
  BY <1>12, <1>14, <1>15, <1>16 DEF p, w, F

\* What is in a panel is in one of its parts.
LEMMA OfParts ==
  ASSUME NEW P
  PROVE  /\ \A x : x \in Of(P).checks <=> \E q \in P : x \in q.checks
         /\ \A x : x \in Of(P).unread <=> \E q \in P : x \in q.unread
BY DEF Of

\* The counts of wazuh.py: of the agents that are connected, of the alerts.
LEMMA AgentsCounted ==
  ASSUME NEW T, Ill(T, WazuhTroubles)
  PROVE  /\ AgentTotals(WazuhTells(T)) \in {OK, WARNING, CRITICAL}
         /\ AgentTotals(WazuhTells(T)) \in BAD <=> <<"wazuh", "agents">> \in Totals("wazuh", T)
<1> DEFINE w == WazuhTells(T)
           active == {a \in Lab.agents : w.agents[a] = "active"}
<1>1. /\ DOMAIN w.agents = Lab.agents
      /\ \A a \in Lab.agents : w.agents[a] = Is(T, <<"wazuh", "agent", a>>, "active")
  BY DEF WazuhTells
<1>2. \A a \in Lab.agents : <<"wazuh", "agent", a>> \in DOMAIN T => T[<<"wazuh", "agent", a>>] \in {"disconnected", "pending"}
  BY DEF Ill, WazuhTroubles
<1>3. IsFiniteSet(active)
  BY LabAssumption, FS_Subset
<1>4. Cardinality(active) \in Nat /\ (Cardinality(active) = 0 <=> active = {})
  BY <1>3, FS_CardinalityType, FS_EmptySet
<1>5. Cardinality(active) < MinActive <=> active = {}
  BY <1>4 DEF MinActive
<1>6. active = {} <=> \A a \in Lab.agents : <<"wazuh", "agent", a>> \in DOMAIN T
  BY <1>1, <1>2 DEF Is
<1>7. (\E a \in Lab.agents : w.agents[a] \in {"disconnected", "never_connected"})
        <=> \E a \in Lab.agents : Is(T, <<"wazuh", "agent", a>>, "active") = "disconnected"
  BY <1>1, <1>2 DEF Is
<1>8. AgentTotals(w) = IF active = {} THEN CRITICAL
                       ELSE IF \E a \in Lab.agents : w.agents[a] \in {"disconnected", "never_connected"} THEN WARNING
                       ELSE OK
  BY <1>1, <1>5 DEF AgentTotals
<1>9. <<"wazuh", "agents">> \in Totals("wazuh", T)
        <=> \/ \E a \in Lab.agents : Is(T, <<"wazuh", "agent", a>>, "active") = "disconnected"
            \/ \A a \in Lab.agents : <<"wazuh", "agent", a>> \in DOMAIN T
  BY DEF Totals
<1> HIDE DEF w, active
<1>10. /\ AgentTotals(w) \in {OK, WARNING, CRITICAL}
       /\ AgentTotals(w) \in BAD <=> <<"wazuh", "agents">> \in Totals("wazuh", T)
  BY <1>6, <1>7, <1>8, <1>9 DEF BAD, OK, WARNING, CRITICAL
<1> QED
  BY <1>10 DEF w

\* A daemon list that comes back empty leaves the manager unknown, not well.
LEMMA WazuhHonest ==
  ASSUME NEW T, NEW r, Ill(T, WazuhTroubles), ~Wazuh(WazuhTells(T), r).error
  PROVE  /\ Typed(Wazuh(WazuhTells(T), r))
         /\ Tells(Wazuh(WazuhTells(T), r), Faults("wazuh", T) \ CutOff("wazuh", T))
         /\ Notices(Wazuh(WazuhTells(T), r), Faults("wazuh", T))
         /\ Wazuh(WazuhTells(T), r).unread = {} =>
              ExactBut(Wazuh(WazuhTells(T), r), Faults("wazuh", T), CutOff("wazuh", T))
<1> DEFINE w == WazuhTells(T)
           p == Wazuh(w, r)
           F == Faults("wazuh", T)
           X == CutOff("wazuh", T)
           totals == Read({Check(<<"wazuh", "agents">>, AgentTotals(w))})
           agents == AgentPart(w, r)
           manager == ManagerPart(w, r)
           indexer == IndexerPart(w, r)
           Total == AgentTotals(w)
           dark == {a \in Lab.agents : <<"wazuh", "agent", a>> \in DOMAIN T}
           fired == {b.rule : b \in NotableRules(w)}
           stopped == {d \in Listed(w) \ OptionalDaemons : ~w.daemons[d]}
           Agent(a) == DarkSeverity(w.agents[a])
           Rule(x) == RuleSeverity(LastOf(w, x).level)
           Alerts == IF w.high >= CritCount THEN CRITICAL ELSE IF w.high >= WarnCount THEN WARNING ELSE OK
           Manager == IF ~Answers(r.manager) \/ Listed(w) = {} THEN UNKNOWN
                      ELSE IF stopped = {} THEN OK ELSE CRITICAL
<1>1. /\ w.agents = [a \in Lab.agents |-> Is(T, <<"wazuh", "agent", a>>, "active")]
      /\ w.daemons = [d \in {"analysisd", "authd"} |-> d = "analysisd" /\ <<"wazuh", "manager">> \notin DOMAIN T]
      /\ w.readable = (Is(T, <<"wazuh", "manager">>, "listed") # "unlisted")
  BY DEF WazuhTells
<1>2. p = Of({totals, agents, manager, indexer})
  BY DEF Wazuh, Failed
<1>3. /\ p.checks = totals.checks \cup agents.checks \cup manager.checks \cup indexer.checks
      /\ p.unread = totals.unread \cup agents.unread \cup manager.unread \cup indexer.unread
  <2> DEFINE P == {totals, agents, manager, indexer}
  <2> HIDE DEF p, totals, agents, manager, indexer
  <2>1. \A q : q \in P <=> q = totals \/ q = agents \/ q = manager \/ q = indexer
    OBVIOUS
  <2> HIDE DEF P
  <2>2. /\ \A x : x \in Of(P).checks <=> \E q \in P : x \in q.checks
        /\ \A x : x \in Of(P).unread <=> \E q \in P : x \in q.unread
    BY OfParts
  <2>3. p = Of(P)
    BY <1>2 DEF P
  <2> QED
    BY <2>1, <2>2, <2>3
<1>4. totals.checks = {Check(<<"wazuh", "agents">>, Total)} /\ totals.unread = {}
  BY DEF Read
<1>5. ASSUME NEW i \in DOMAIN T
      PROVE  \/ \E a \in Lab.agents : i = <<"wazuh", "agent", a>> /\ T[i] \in {"disconnected", "pending"}
             \/ i = <<"wazuh", "manager">> /\ T[i] \in {"stopped", "unlisted"}
             \/ \E x \in Lab.rules : i = <<"wazuh", "rule", x>> /\ T[i] \in {"hot", "noisy", "twins", "busy"}
  BY DEF Ill, WazuhTroubles
<1>6. dark = {a \in DOMAIN w.agents : w.agents[a] # "active"}
  BY <1>1, <1>5 DEF Is
<1>7. /\ \A x \in fired : x \in Noted(T)
      /\ \A x \in Noted(T) : x \notin fired => <<"wazuh", "rule", x>> \in X
  <2>1. \A b \in NotableRules(w) : b.rule \in Noted(T)
    BY RulesListed
  <2>2. ASSUME NEW x \in Noted(T), Cardinality(Descriptions(T)) <= RuleBuckets
        PROVE  x \in fired
    <3>1. PICK b \in NotableRules(w) : b.rule = x
      BY <2>2, RulesListed
    <3> QED
      BY <3>1
  <2>3. ASSUME NEW x \in Noted(T), Cardinality(Descriptions(T)) > RuleBuckets
        PROVE  <<"wazuh", "rule", x>> \in X
    <3>1. x \in Lab.rules
      BY DEF Noted, Fired
    <3> QED
      BY <2>3, <3>1 DEF CutOff
  <2>4. Cardinality(Descriptions(T)) \in Nat /\ RuleBuckets \in Nat
    BY RulesListed, ListingsAssumption
  <2> HIDE DEF w, X
  <2> QED
    BY <2>1, <2>2, <2>3, <2>4
<1>8. /\ agents.checks = IF Answers(r.agents) THEN {Check(<<"wazuh", "agent", a>>, Agent(a)) : a \in dark}
                         ELSE {Check(<<"wazuh", "agent-list">>, UNKNOWN)}
      /\ agents.unread = IF Answers(r.agents) THEN {} ELSE {<<"wazuh", "agent">>}
  <2> HIDE DEF w, dark
  <2> QED
    BY <1>6 DEF AgentPart, Read, NotRead
<1>9. /\ manager.checks = {Check(<<"wazuh", "manager">>, Manager)}
      /\ manager.unread = IF Answers(r.manager) THEN {} ELSE {<<"wazuh", "manager">>}
  <2> HIDE DEF w
  <2> QED
    BY DEF ManagerPart, Read, NotRead
<1>10. /\ indexer.checks = IF Answers(r.indexer)
                           THEN {Check(<<"wazuh", "alerts">>, Alerts)} \cup {Check(<<"wazuh", "rule", x>>, Rule(x)) : x \in fired}
                           ELSE {Check(<<"wazuh", "indexer">>, UNKNOWN)}
       /\ indexer.unread = IF Answers(r.indexer) THEN {} ELSE {<<"wazuh", "alerts">>, <<"wazuh", "rule">>}
  <2> HIDE DEF w
  <2> QED
    BY DEF IndexerPart, Read, NotRead
<1>11. \A check : check \in p.checks <=>
         \/ check = Check(<<"wazuh", "agents">>, Total)
         \/ check = Check(<<"wazuh", "manager">>, Manager)
         \/ Answers(r.agents) /\ \E a \in dark : check = Check(<<"wazuh", "agent", a>>, Agent(a))
         \/ ~Answers(r.agents) /\ check = Check(<<"wazuh", "agent-list">>, UNKNOWN)
         \/ Answers(r.indexer) /\ check = Check(<<"wazuh", "alerts">>, Alerts)
         \/ Answers(r.indexer) /\ \E x \in fired : check = Check(<<"wazuh", "rule", x>>, Rule(x))
         \/ ~Answers(r.indexer) /\ check = Check(<<"wazuh", "indexer">>, UNKNOWN)
  <2> HIDE DEF p, w, totals, agents, manager, indexer, Total, Manager, Agent, Rule, Alerts, dark, fired
  <2> QED
    BY <1>3, <1>4, <1>8, <1>9, <1>10
<1>12. \A i : i \in p.unread <=>
         \/ ~Answers(r.agents) /\ i = <<"wazuh", "agent">>
         \/ ~Answers(r.manager) /\ i = <<"wazuh", "manager">>
         \/ ~Answers(r.indexer) /\ i \in {<<"wazuh", "alerts">>, <<"wazuh", "rule">>}
  <2> HIDE DEF p, w, totals, agents, manager, indexer
  <2> QED
    BY <1>3, <1>4, <1>8, <1>9, <1>10
<1>13. \A i : i \in F <=> \/ i \in DOMAIN T /\ T[i] \notin {"unlisted", "busy"}
                          \/ i = <<"wazuh", "alerts">> /\ Noted(T) # {}
                          \/ i = <<"wazuh", "agents">> /\ i \in Totals("wazuh", T)
  BY DEF Faults, Harmless, Totals, Noted
<1>14. Total \in {OK, WARNING, CRITICAL} /\ (Total \in BAD <=> <<"wazuh", "agents">> \in F)
  <2>1. /\ Total \in {OK, WARNING, CRITICAL}
        /\ Total \in BAD <=> <<"wazuh", "agents">> \in Totals("wazuh", T)
    BY AgentsCounted
  <2>2. <<"wazuh", "agents">> \notin DOMAIN T
    BY <1>5
  <2> HIDE DEF Total, F
  <2> QED
    BY <2>1, <2>2, <1>13
<1>15. Alerts \in {OK, WARNING, CRITICAL} /\ (Alerts \in BAD <=> <<"wazuh", "alerts">> \in F)
  <2>1. w.high \in Nat /\ (w.high > 0 <=> Noted(T) # {})
    BY RulesCounted
  <2>2. <<"wazuh", "alerts">> \notin DOMAIN T
    BY <1>5
  <2> HIDE DEF w, F, fired
  <2>3. <<"wazuh", "alerts">> \in F <=> Noted(T) # {}
    BY <2>2, <1>13
  <2>4. Alerts \in BAD <=> w.high > 0
    BY <2>1 DEF CritCount, WarnCount, BAD, OK, WARNING, CRITICAL
  <2> QED
    BY <2>1, <2>3, <2>4
<1>16. /\ Manager \in {OK, UNKNOWN, CRITICAL}
       /\ <<"wazuh", "manager">> \in F => Manager # OK
       /\ Answers(r.manager) => (Manager \in BAD <=> <<"wazuh", "manager">> \in F)
  <2>1. CASE <<"wazuh", "manager">> \notin DOMAIN T
    <3>1. w.readable /\ Listed(w) = {"analysisd", "authd"}
      BY <2>1, <1>1 DEF Is, Listed
    <3>2. stopped = {}
      BY <2>1, <3>1, <1>1 DEF OptionalDaemons
    <3>3. <<"wazuh", "manager">> \notin F
      BY <2>1, <1>13
    <3> QED
      BY <3>1, <3>2, <3>3 DEF BAD, OK, UNKNOWN, WARNING, CRITICAL
  <2>2. CASE <<"wazuh", "manager">> \in DOMAIN T /\ T[<<"wazuh", "manager">>] = "stopped"
    <3>1. w.readable /\ Listed(w) = {"analysisd", "authd"}
      BY <2>2, <1>1 DEF Is, Listed
    <3>2. "analysisd" \in stopped
      BY <2>2, <3>1, <1>1 DEF OptionalDaemons
    <3>3. <<"wazuh", "manager">> \in F
      BY <2>2, <1>13
    <3>4. Manager = IF Answers(r.manager) THEN CRITICAL ELSE UNKNOWN
      BY <3>1, <3>2
    <3> QED
      BY <3>3, <3>4 DEF BAD, OK, UNKNOWN, WARNING, CRITICAL
  <2>3. CASE <<"wazuh", "manager">> \in DOMAIN T /\ T[<<"wazuh", "manager">>] = "unlisted"
    <3>1. Listed(w) = {}
      BY <2>3, <1>1 DEF Is, Listed
    <3>2. <<"wazuh", "manager">> \notin F
      BY <2>3, <1>13
    <3>3. Manager = UNKNOWN
      BY <3>1
    <3> QED
      BY <3>2, <3>3 DEF BAD, OK, UNKNOWN, WARNING, CRITICAL
  <2> QED
    BY <1>5, <2>1, <2>2, <2>3
<1>17. ASSUME NEW a \in dark
       PROVE  Agent(a) \in BAD /\ <<"wazuh", "agent", a>> \in F
  <2>1. <<"wazuh", "agent", a>> \in DOMAIN T /\ T[<<"wazuh", "agent", a>>] \notin {"unlisted", "busy"}
    BY <1>5
  <2>2. <<"wazuh", "agent", a>> \in F
    BY <2>1, <1>13
  <2>3. Agent(a) \in BAD
    BY DEF DarkSeverity, BAD
  <2> QED
    BY <2>2, <2>3
<1>18. ASSUME NEW x \in fired
       PROVE  Rule(x) \in BAD /\ <<"wazuh", "rule", x>> \in F
  <2>1. <<"wazuh", "rule", x>> \in DOMAIN T /\ T[<<"wazuh", "rule", x>>] \notin {"unlisted", "busy"}
    BY <1>5, <1>7 DEF Noted, Fired, Is
  <2>2. <<"wazuh", "rule", x>> \in F
    BY <2>1, <1>13
  <2>3. Rule(x) \in BAD
    BY DEF RuleSeverity, BAD
  <2> QED
    BY <2>2, <2>3
<1>19. ASSUME NEW i \in F
       PROVE  \/ i = <<"wazuh", "agents">>
              \/ i = <<"wazuh", "manager">>
              \/ i = <<"wazuh", "alerts">>
              \/ \E a \in dark : i = <<"wazuh", "agent", a>>
              \/ \E x \in Noted(T) : i = <<"wazuh", "rule", x>>
  <2>1. ASSUME NEW x \in Lab.rules, i = <<"wazuh", "rule", x>>
        PROVE  x \in Noted(T)
    <3>1. i \in DOMAIN T /\ T[i] \notin {"unlisted", "busy"}
      BY <2>1, <1>13
    <3>2. T[i] \in {"hot", "noisy", "twins"}
      BY <2>1, <3>1, <1>5
    <3> QED
      BY <2>1, <3>1, <3>2 DEF Noted, Fired, Is
  <2> HIDE DEF F
  <2> QED
    BY <2>1, <1>5, <1>13
<1> HIDE DEF w, p, F, X, Total, Manager, Agent, Rule, Alerts, dark, fired
<1>20. Typed(p)
  <2>1. ASSUME NEW check \in p.checks
        PROVE  check.severity \in Severities
    BY <1>11, <1>14, <1>15, <1>16, <1>17, <1>18 DEF Check, Severities, BAD
  <2>2. ASSUME NEW check \in p.checks, NEW u \in p.unread, IsPrefix(u, check.id)
        PROVE  u = check.id
    <3>1. \/ u = <<"wazuh", "agent">> /\ ~Answers(r.agents)
          \/ u = <<"wazuh", "manager">>
          \/ u = <<"wazuh", "alerts">>
          \/ u = <<"wazuh", "rule">> /\ ~Answers(r.indexer)
      BY <1>12
    <3>2. \/ check.id \in {<<"wazuh", "agents">>, <<"wazuh", "manager">>, <<"wazuh", "agent-list">>,
                           <<"wazuh", "alerts">>, <<"wazuh", "indexer">>}
          \/ Answers(r.agents) /\ \E a \in dark : check.id = <<"wazuh", "agent", a>>
          \/ Answers(r.indexer) /\ \E x \in fired : check.id = <<"wazuh", "rule", x>>
      BY <1>11 DEF Check
    <3> QED
      BY <2>2, <3>1, <3>2, Prefix22, Prefix23
  <2>3. ASSUME NEW check \in p.checks, NEW other \in p.checks, check.id = other.id
        PROVE  check = other
    BY <2>3, <1>11 DEF Check
  <2> QED
    BY <2>1, <2>2, <2>3 DEF Typed, Covered
<1>21. ASSUME NEW i \in F
       PROVE  \/ Shown(p, i)
              \/ ~Answers(r.agents) /\ Missed(p, i)
              \/ ~Answers(r.indexer) /\ Missed(p, i)
              \/ i \in X /\ <<"wazuh", "alerts">> \in F
  <2>1. CASE i = <<"wazuh", "agents">>
    BY <2>1, <1>11, <1>14 DEF Shown, BAD, OK, WARNING, CRITICAL
  <2>2. CASE i = <<"wazuh", "manager">>
    BY <2>2, <1>11, <1>16 DEF Shown
  <2>3. CASE i = <<"wazuh", "alerts">>
    <3>1. CASE Answers(r.indexer)
      BY <2>3, <3>1, <1>11, <1>15 DEF Shown, BAD, OK, WARNING, CRITICAL
    <3>2. CASE ~Answers(r.indexer)
      <4>1. \A check \in p.checks : check.id # i
        BY <2>3, <3>2, <1>11 DEF Check
      <4>2. i \in p.unread /\ IsPrefix(i, i)
        BY <2>3, <3>2, <1>12, Prefix22
      <4> QED
        BY <3>2, <4>1, <4>2 DEF Missed, Published, Covered
    <3> QED
      BY <3>1, <3>2
  <2>4. CASE \E a \in dark : i = <<"wazuh", "agent", a>>
    <3>1. PICK a \in dark : i = <<"wazuh", "agent", a>>
      BY <2>4
    <3>2. CASE Answers(r.agents)
      <4>1. Check(i, Agent(a)) \in p.checks
        BY <3>1, <3>2, <1>11
      <4> QED
        BY <4>1, <1>17 DEF Shown, BAD, OK, WARNING, CRITICAL
    <3>3. CASE ~Answers(r.agents)
      <4>1. \A check \in p.checks : check.id # i
        BY <3>1, <3>3, <1>11 DEF Check
      <4>2. <<"wazuh", "agent">> \in p.unread /\ IsPrefix(<<"wazuh", "agent">>, i)
        BY <3>1, <3>3, <1>12, Prefix23
      <4> QED
        BY <3>3, <4>1, <4>2 DEF Missed, Published, Covered
    <3> QED
      BY <3>2, <3>3
  <2>5. CASE \E x \in Noted(T) : i = <<"wazuh", "rule", x>>
    <3>1. PICK x \in Noted(T) : i = <<"wazuh", "rule", x>>
      BY <2>5
    <3>2. CASE x \in fired /\ Answers(r.indexer)
      <4>1. Check(i, Rule(x)) \in p.checks
        BY <3>1, <3>2, <1>11
      <4> QED
        BY <3>2, <4>1, <1>18 DEF Shown, BAD, OK, WARNING, CRITICAL
    <3>3. CASE x \notin fired
      BY <3>1, <3>3, <1>7, <1>13
    <3>4. CASE ~Answers(r.indexer)
      <4>1. \A check \in p.checks : check.id # i
        BY <3>1, <3>4, <1>11 DEF Check
      <4>2. <<"wazuh", "rule">> \in p.unread /\ IsPrefix(<<"wazuh", "rule">>, i)
        BY <3>1, <3>4, <1>12, Prefix23
      <4> QED
        BY <3>4, <4>1, <4>2 DEF Missed, Published, Covered
    <3> QED
      BY <3>2, <3>3, <3>4
  <2> QED
    BY <1>19, <2>1, <2>2, <2>3, <2>4, <2>5
<1>22. Tells(p, F \ X)
  BY <1>21, ShownIs DEF Tells
<1>23. Notices(p, F)
  <2>1. <<"wazuh", "alerts">> \in F => \E check \in p.checks : check.severity # OK
    <3>1. Answers(r.indexer) => Check(<<"wazuh", "alerts">>, Alerts) \in p.checks
      BY <1>11
    <3>2. ~Answers(r.indexer) => Check(<<"wazuh", "indexer">>, UNKNOWN) \in p.checks
      BY <1>11
    <3> QED
      BY <3>1, <3>2, <1>15 DEF Check, BAD, OK, UNKNOWN, WARNING, CRITICAL
  <2>2. ~Answers(r.agents) => Check(<<"wazuh", "agent-list">>, UNKNOWN) \in p.checks
    BY <1>11
  <2>3. ~Answers(r.indexer) => Check(<<"wazuh", "indexer">>, UNKNOWN) \in p.checks
    BY <1>11
  <2> QED
    BY <2>1, <2>2, <2>3, <1>21 DEF Notices, Shown, Check, OK, UNKNOWN
<1>24. ASSUME p.unread = {} PROVE ExactBut(p, F, X)
  <2>1. Answers(r.agents) /\ Answers(r.manager) /\ Answers(r.indexer)
    BY <1>12, <1>24
  <2>2. ASSUME NEW check \in p.checks
        PROVE  check.severity \in BAD <=> check.id \in F
    BY <2>1, <1>11, <1>14, <1>15, <1>16, <1>17, <1>18 DEF Check
  <2>3. ASSUME NEW i \in F \ X PROVE i \in Published(p)
    <3>1. PICK s : Check(i, s) \in p.checks
      BY <2>1, <1>21 DEF Shown
    <3> QED
      BY <3>1 DEF Published, Check
  <2> QED
    BY <2>2, <2>3 DEF ExactBut
<1> QED
  BY <1>20, <1>22, <1>23, <1>24 DEF p, w, F, X

-----------------------------------------------------------------------------
\* Proxmox.  A store that is full or gone is critical.
Graded(T, i) == IF i \in DOMAIN T THEN CRITICAL ELSE OK

\* What is listed of stores: a row for each node, of a shared store too.
StoreRow(T, row) ==
  \/ \E s \in Lab.stores, n \in Lab.nodes :
       row = [label |-> s, node |-> n, shared |-> FALSE, status |-> "available",
              fill |-> Is(T, <<"pve", "store", s, n>>, "low")]
  \/ \E s \in Lab.shared, n \in Lab.nodes :
       row = [label |-> s, node |-> n, shared |-> TRUE, fill |-> "low",
              status |-> Is(T, <<"pve", "store", s>>, "available")]

\* What a row says depends on the store alone.
LEMMA RowsGraded ==
  ASSUME NEW T, Ill(T, ProxmoxTroubles), NEW row, StoreRow(T, row)
  PROVE  StoreSeverity(row) = Graded(T, StoreId(row))
<1>1. CASE \E s \in Lab.stores, n \in Lab.nodes :
             row = [label |-> s, node |-> n, shared |-> FALSE, status |-> "available",
                    fill |-> Is(T, <<"pve", "store", s, n>>, "low")]
  <2>1. PICK s \in Lab.stores, n \in Lab.nodes :
             row = [label |-> s, node |-> n, shared |-> FALSE, status |-> "available",
                    fill |-> Is(T, <<"pve", "store", s, n>>, "low")]
    BY <1>1
  <2>2. <<"pve", "store", s, n>> \in DOMAIN T => T[<<"pve", "store", s, n>>] = "crit"
    BY DEF Ill, ProxmoxTroubles
  <2>3. StoreId(row) = <<"pve", "store", s, n>>
    BY <2>1 DEF StoreId
  <2>4. StoreSeverity(row) = AtThresholds(Is(T, <<"pve", "store", s, n>>, "low"))
    BY <2>1, <2>2 DEF StoreSeverity, Is
  <2> QED
    BY <2>2, <2>3, <2>4 DEF AtThresholds, Is, Graded
<1>2. CASE \E s \in Lab.shared, n \in Lab.nodes :
             row = [label |-> s, node |-> n, shared |-> TRUE, fill |-> "low",
                    status |-> Is(T, <<"pve", "store", s>>, "available")]
  <2>1. PICK s \in Lab.shared, n \in Lab.nodes :
             row = [label |-> s, node |-> n, shared |-> TRUE, fill |-> "low",
                    status |-> Is(T, <<"pve", "store", s>>, "available")]
    BY <1>2
  <2>2. <<"pve", "store", s>> \in DOMAIN T => T[<<"pve", "store", s>>] = "unknown"
    BY DEF Ill, ProxmoxTroubles
  <2>3. StoreId(row) = <<"pve", "store", s>>
    BY <2>1 DEF StoreId
  <2>4. StoreSeverity(row) = IF Is(T, <<"pve", "store", s>>, "available") # "available" THEN CRITICAL ELSE OK
    BY <2>1 DEF StoreSeverity, AtThresholds
  <2> QED
    BY <2>2, <2>3, <2>4 DEF Is, Graded
<1> QED
  BY <1>1, <1>2 DEF StoreRow

\* Which row of a shared store is looked at makes no difference.
LEMMA StoresTold ==
  ASSUME NEW T, Ill(T, ProxmoxTroubles)
  PROVE  \A check : check \in StoreChecks(ProxmoxTells(T)) <=>
           \/ \E s \in Lab.stores, n \in Lab.nodes :
                check = Check(<<"pve", "store", s, n>>, Graded(T, <<"pve", "store", s, n>>))
           \/ \E s \in Lab.shared : check = Check(<<"pve", "store", s>>, Graded(T, <<"pve", "store", s>>))
<1> DEFINE rows == ProxmoxTells(T).stores
           ids == {StoreId(row) : row \in rows}
           Local(s, n) == [label |-> s, node |-> n, shared |-> FALSE, status |-> "available",
                           fill |-> Is(T, <<"pve", "store", s, n>>, "low")]
           Shared(s, n) == [label |-> s, node |-> n, shared |-> TRUE, fill |-> "low",
                            status |-> Is(T, <<"pve", "store", s>>, "available")]
<1>1. rows = {Local(s, n) : s \in Lab.stores, n \in Lab.nodes} \cup {Shared(s, n) : s \in Lab.shared, n \in Lab.nodes}
  BY DEF ProxmoxTells
<1>2. \A row : row \in rows <=> StoreRow(T, row)
  <2> HIDE DEF rows
  <2> QED
    BY <1>1 DEF StoreRow
<1>3. ASSUME NEW i \in ids
      PROVE  Check(i, StoreSeverity(CHOOSE row \in rows : StoreId(row) = i)) = Check(i, Graded(T, i))
  <2> DEFINE row == CHOOSE row \in rows : StoreId(row) = i
  <2>1. \E x \in rows : StoreId(x) = i
    OBVIOUS
  <2>2. row \in rows /\ StoreId(row) = i
    <3> HIDE DEF rows
    <3> QED
      BY <2>1
  <2> HIDE DEF row
  <2>3. StoreSeverity(row) = Graded(T, i)
    BY <1>2, <2>2, RowsGraded
  <2> QED
    BY <2>3 DEF row
<1>4. StoreChecks(ProxmoxTells(T)) = {Check(i, StoreSeverity(CHOOSE row \in rows : StoreId(row) = i)) : i \in ids}
  BY DEF StoreChecks
<1>5. \A check : check \in StoreChecks(ProxmoxTells(T)) <=> \E i \in ids : check = Check(i, Graded(T, i))
  <2> HIDE DEF rows, ids
  <2> QED
    BY <1>3, <1>4
<1>6. \A i : i \in ids <=> \/ \E s \in Lab.stores, n \in Lab.nodes : i = <<"pve", "store", s, n>>
                           \/ \E s \in Lab.shared : i = <<"pve", "store", s>>
  <2>1. \A s, n : StoreId(Local(s, n)) = <<"pve", "store", s, n>>
    BY DEF StoreId
  <2>2. \A s, n : StoreId(Shared(s, n)) = <<"pve", "store", s>>
    BY DEF StoreId
  <2>3. \A i : i \in ids <=> \E row \in rows : i = StoreId(row)
    OBVIOUS
  <2>4. \A row : row \in rows <=> \/ \E s \in Lab.stores, n \in Lab.nodes : row = Local(s, n)
                                  \/ \E s \in Lab.shared, n \in Lab.nodes : row = Shared(s, n)
    <3> HIDE DEF rows, Local, Shared
    <3> QED
      BY <1>1
  <2> HIDE DEF rows, ids, Local, Shared
  <2> QED
    BY <2>1, <2>2, <2>3, <2>4, LabAssumption
<1> HIDE DEF ids, rows
<1>7. ASSUME NEW check, check \in StoreChecks(ProxmoxTells(T))
      PROVE  \/ \E s \in Lab.stores, n \in Lab.nodes :
                  check = Check(<<"pve", "store", s, n>>, Graded(T, <<"pve", "store", s, n>>))
             \/ \E s \in Lab.shared : check = Check(<<"pve", "store", s>>, Graded(T, <<"pve", "store", s>>))
  <2>1. PICK i \in ids : check = Check(i, Graded(T, i))
    BY <1>5, <1>7
  <2> QED
    BY <1>6, <2>1
<1>8. ASSUME NEW s \in Lab.stores, NEW n \in Lab.nodes
      PROVE  Check(<<"pve", "store", s, n>>, Graded(T, <<"pve", "store", s, n>>)) \in StoreChecks(ProxmoxTells(T))
  <2>1. <<"pve", "store", s, n>> \in ids
    BY <1>6
  <2> QED
    BY <1>5, <2>1
<1>9. ASSUME NEW s \in Lab.shared
      PROVE  Check(<<"pve", "store", s>>, Graded(T, <<"pve", "store", s>>)) \in StoreChecks(ProxmoxTells(T))
  <2>1. <<"pve", "store", s>> \in ids
    BY <1>6
  <2> QED
    BY <1>5, <2>1
<1> QED
  BY <1>7, <1>8, <1>9

\* The nodes whose tasks were read, and what their total says.
Traced(T, r, n) == Is(T, <<"pve", "node", n>>, "online") # "offline" /\ Answers(r.tasks[n])

TaskTotal(T, r) ==
  IF \A n \in Lab.nodes : ~Traced(T, r, n) THEN UNKNOWN
  ELSE IF \E n \in Lab.nodes : ~Traced(T, r, n) \/ \E t \in Lab.tasks : Dated(T, n, t) THEN WARNING
  ELSE OK

LEMMA TasksTold ==
  ASSUME NEW T, NEW r
  PROVE  /\ \A check : check \in TaskPart(ProxmoxTells(T), r).checks <=>
              \/ check = Check(<<"pve", "tasks">>, TaskTotal(T, r))
              \/ \E n \in Lab.nodes, t \in Lab.tasks :
                   /\ Traced(T, r, n)
                   /\ Dated(T, n, t)
                   /\ check = Check(<<"pve", "task", n, t>>, WARNING)
         /\ \A u : u \in TaskPart(ProxmoxTells(T), r).unread <=>
              \/ \E n \in Lab.nodes : ~Traced(T, r, n) /\ u = <<"pve", "task", n>>
              \/ (\A n \in Lab.nodes : ~Traced(T, r, n)) /\ u = <<"pve", "tasks">>
<1> DEFINE w == ProxmoxTells(T)
           part == TaskPart(w, r)
           read == {n \in DOMAIN w.nodes : Online(w, n) /\ Answers(r.tasks[n])}
           unread == {<<"pve", "task", n>> : n \in DOMAIN w.nodes \ read}
           failed == UNION {{<<"pve", "task", n, t>> : t \in Newest(w.tasks[n])} : n \in read}
           total == IF failed # {} \/ unread # {} THEN WARNING ELSE OK
<1>1. w.nodes = [n \in Lab.nodes |-> Is(T, <<"pve", "node", n>>, "online")]
  BY DEF ProxmoxTells
<1>2. part = IF unread # {} /\ read = {}
             THEN NotRead(<<"pve", "tasks">>, unread \cup {<<"pve", "tasks">>})
             ELSE [checks |-> {Check(<<"pve", "tasks">>, total)} \cup {Check(i, WARNING) : i \in failed},
                   unread |-> unread]
  BY DEF TaskPart
<1>3. \A n : n \in read <=> n \in Lab.nodes /\ Traced(T, r, n)
  BY <1>1 DEF Online, Traced
<1>4. \A u : u \in unread <=> \E n \in Lab.nodes : ~Traced(T, r, n) /\ u = <<"pve", "task", n>>
  <2>1. DOMAIN w.nodes = Lab.nodes
    BY <1>1
  <2> HIDE DEF w, read
  <2> QED
    BY <1>3, <2>1
<1>5. \A i : i \in failed <=> \E n \in Lab.nodes, t \in Lab.tasks :
                                Traced(T, r, n) /\ Dated(T, n, t) /\ i = <<"pve", "task", n, t>>
  <2>1. \A n \in Lab.nodes : \A t : t \in Newest(w.tasks[n]) <=> t \in Lab.tasks /\ Dated(T, n, t)
    BY TasksListed DEF Dated
  <2>2. \A i : i \in failed <=> \E n \in read : \E t \in Newest(w.tasks[n]) : i = <<"pve", "task", n, t>>
    <3> HIDE DEF w, read
    <3> QED
      OBVIOUS
  <2> HIDE DEF w, read, failed
  <2> QED
    BY <1>3, <2>1, <2>2
<1>6. unread # {} <=> \E n \in Lab.nodes : ~Traced(T, r, n)
  <2> HIDE DEF unread
  <2>1. ASSUME NEW n \in Lab.nodes, ~Traced(T, r, n) PROVE <<"pve", "task", n>> \in unread
    BY <1>4, <2>1
  <2> QED
    BY <1>4, <2>1
<1>7. read = {} <=> \A n \in Lab.nodes : ~Traced(T, r, n)
  <2> HIDE DEF read
  <2> QED
    BY <1>3
<1>8. failed # {} <=> \E n \in Lab.nodes, t \in Lab.tasks : Traced(T, r, n) /\ Dated(T, n, t)
  <2> HIDE DEF failed
  <2>1. ASSUME NEW n \in Lab.nodes, NEW t \in Lab.tasks, Traced(T, r, n), Dated(T, n, t)
        PROVE  <<"pve", "task", n, t>> \in failed
    BY <1>5, <2>1
  <2> QED
    BY <1>5, <2>1
<1> HIDE DEF w, part, read, unread, failed
<1>9. CASE read = {}
  <2>1. \A n \in Lab.nodes : ~Traced(T, r, n)
    BY <1>7, <1>9
  <2>2. unread # {}
    BY <2>1, <1>6, LabAssumption
  <2>3. part = NotRead(<<"pve", "tasks">>, unread \cup {<<"pve", "tasks">>})
    BY <1>2, <1>9, <2>2
  <2>4. TaskTotal(T, r) = UNKNOWN
    BY <2>1 DEF TaskTotal
  <2>5. part.checks = {Check(<<"pve", "tasks">>, UNKNOWN)} /\ part.unread = unread \cup {<<"pve", "tasks">>}
    BY <2>3 DEF NotRead
  <2>6. \A check : check \in part.checks <=> check = Check(<<"pve", "tasks">>, UNKNOWN)
    BY <2>5
  <2>7. \A u : u \in part.unread <=> u \in unread \/ u = <<"pve", "tasks">>
    BY <2>5
  <2> QED
    BY <2>1, <2>4, <2>6, <2>7, <1>4 DEF w, part
<1>10. CASE read # {}
  <2>1. ~\A n \in Lab.nodes : ~Traced(T, r, n)
    BY <1>7, <1>10
  <2>2. TaskTotal(T, r) = total
    <3>1. total = WARNING <=> failed # {} \/ unread # {}
      BY DEF WARNING, OK
    <3>2. TaskTotal(T, r) = IF failed # {} \/ unread # {} THEN WARNING ELSE OK
      BY <2>1, <1>6, <1>8 DEF TaskTotal
    <3> QED
      BY <3>2
  <2> HIDE DEF total
  <2>3. part.checks = {Check(<<"pve", "tasks">>, total)} \cup {Check(i, WARNING) : i \in failed} /\ part.unread = unread
    BY <1>2, <1>10
  <2>4. \A check : check \in part.checks <=> \/ check = Check(<<"pve", "tasks">>, total)
                                             \/ \E i \in failed : check = Check(i, WARNING)
    BY <2>3
  <2>5. \A check : (\E i \in failed : check = Check(i, WARNING)) <=>
          \E n \in Lab.nodes, t \in Lab.tasks :
                   /\ Traced(T, r, n)
                   /\ Dated(T, n, t)
                   /\ check = Check(<<"pve", "task", n, t>>, WARNING)
    <3>1. ASSUME NEW check, NEW i \in failed, check = Check(i, WARNING)
          PROVE  \E n \in Lab.nodes, t \in Lab.tasks :
                   /\ Traced(T, r, n)
                   /\ Dated(T, n, t)
                   /\ check = Check(<<"pve", "task", n, t>>, WARNING)
      <4>1. PICK n \in Lab.nodes, t \in Lab.tasks :
              Traced(T, r, n) /\ Dated(T, n, t) /\ i = <<"pve", "task", n, t>>
        BY <1>5
      <4> QED
        BY <3>1, <4>1
    <3>2. ASSUME NEW n \in Lab.nodes, NEW t \in Lab.tasks, Traced(T, r, n), Dated(T, n, t)
          PROVE  <<"pve", "task", n, t>> \in failed
      BY <1>5, <3>2
    <3> QED
      BY <3>1, <3>2
  <2>6. \A check : check \in part.checks <=>
          \/ check = Check(<<"pve", "tasks">>, TaskTotal(T, r))
          \/ \E n \in Lab.nodes, t \in Lab.tasks :
               /\ Traced(T, r, n)
               /\ Dated(T, n, t)
               /\ check = Check(<<"pve", "task", n, t>>, WARNING)
    <3> SUFFICES ASSUME NEW check
                 PROVE  check \in part.checks <=>
                          \/ check = Check(<<"pve", "tasks">>, TaskTotal(T, r))
                          \/ \E n \in Lab.nodes, t \in Lab.tasks :
                               /\ Traced(T, r, n)
                               /\ Dated(T, n, t)
                               /\ check = Check(<<"pve", "task", n, t>>, WARNING)
      OBVIOUS
    <3>1. check \in part.checks <=> \/ check = Check(<<"pve", "tasks">>, TaskTotal(T, r))
                                    \/ \E i \in failed : check = Check(i, WARNING)
      BY <2>2, <2>4
    <3> QED
      BY <3>1, <2>5
  <2>7. \A u : u \in part.unread <=>
          \/ \E n \in Lab.nodes : ~Traced(T, r, n) /\ u = <<"pve", "task", n>>
          \/ (\A n \in Lab.nodes : ~Traced(T, r, n)) /\ u = <<"pve", "tasks">>
    BY <2>1, <2>3, <1>4
  <2> QED
    BY <2>6, <2>7 DEF w, part
<1> QED
  BY <1>9, <1>10

\* The nodes whose disks were read, and those that were asked in vain.
Probed(T, r, n) == Is(T, <<"pve", "node", n>>, "online") # "offline" /\ Answers(r.disks[n])
Silent(T, r, n) == Is(T, <<"pve", "node", n>>, "online") # "offline" /\ ~Answers(r.disks[n])

LEMMA DisksTold ==
  ASSUME NEW T, NEW r, NEW n \in Lab.nodes
  PROVE  /\ \A check : check \in DiskPart(ProxmoxTells(T), r, n).checks <=>
              \/ Probed(T, r, n) /\ \E d \in Lab.disks :
                   check = Check(<<"pve", "disk", n, d>>, DiskSeverity(Is(T, <<"pve", "disk", n, d>>, "passed")))
              \/ Silent(T, r, n) /\ check = Check(<<"pve", "disks", n>>, UNKNOWN)
         /\ \A u : u \in DiskPart(ProxmoxTells(T), r, n).unread <=> ~Probed(T, r, n) /\ u = <<"pve", "disk", n>>
<1> DEFINE w == ProxmoxTells(T)
           part == DiskPart(w, r, n)
           Sev(d) == DiskSeverity(Is(T, <<"pve", "disk", n, d>>, "passed"))
<1>1. /\ w.nodes[n] = Is(T, <<"pve", "node", n>>, "online")
      /\ w.disks[n] = [d \in Lab.disks |-> Is(T, <<"pve", "disk", n, d>>, "passed")]
  BY DEF ProxmoxTells
<1>2. {Check(<<"pve", "disk", n, d>>, DiskSeverity(w.disks[n][d])) : d \in DOMAIN w.disks[n]}
        = {Check(<<"pve", "disk", n, d>>, Sev(d)) : d \in Lab.disks}
  <2>1. DOMAIN w.disks[n] = Lab.disks
    BY <1>1
  <2>2. \A d \in Lab.disks : w.disks[n][d] = Is(T, <<"pve", "disk", n, d>>, "passed")
    BY <1>1
  <2> HIDE DEF w
  <2> QED
    BY <2>1, <2>2
<1> HIDE DEF w, Sev
<1>3. CASE Probed(T, r, n)
  <2>1. part = Read({Check(<<"pve", "disk", n, d>>, Sev(d)) : d \in Lab.disks})
    BY <1>1, <1>2, <1>3 DEF DiskPart, Online, Probed
  <2>2. /\ part.checks = {Check(<<"pve", "disk", n, d>>, Sev(d)) : d \in Lab.disks}
        /\ part.unread = {}
    BY <2>1 DEF Read
  <2>3. ~Silent(T, r, n)
    BY <1>3 DEF Probed, Silent
  <2>4. \A check : check \in part.checks <=> \E d \in Lab.disks : check = Check(<<"pve", "disk", n, d>>, Sev(d))
    BY <2>2
  <2> QED
    BY <2>2, <2>3, <2>4, <1>3 DEF w, Sev
<1>4. CASE Silent(T, r, n)
  <2>1. part = NotRead(<<"pve", "disks", n>>, {<<"pve", "disk", n>>})
    BY <1>1, <1>4 DEF DiskPart, Online, Silent
  <2>2. part.checks = {Check(<<"pve", "disks", n>>, UNKNOWN)} /\ part.unread = {<<"pve", "disk", n>>}
    BY <2>1 DEF NotRead
  <2>3. ~Probed(T, r, n)
    BY <1>4 DEF Probed, Silent
  <2>4. /\ \A check : check \in part.checks <=> check = Check(<<"pve", "disks", n>>, UNKNOWN)
        /\ \A u : u \in part.unread <=> u = <<"pve", "disk", n>>
    BY <2>2
  <2> QED
    BY <2>3, <2>4, <1>4 DEF w
<1>5. CASE ~Probed(T, r, n) /\ ~Silent(T, r, n)
  <2>1. part = Skipped({<<"pve", "disk", n>>})
    BY <1>1, <1>5 DEF DiskPart, Online, Probed, Silent
  <2>2. part.checks = {} /\ part.unread = {<<"pve", "disk", n>>}
    BY <2>1 DEF Skipped
  <2>3. \A u : u \in part.unread <=> u = <<"pve", "disk", n>>
    BY <2>2
  <2> QED
    BY <2>2, <2>3, <1>5 DEF w
<1> QED
  BY <1>3, <1>4, <1>5

\* What the panel of Proxmox says, kind by kind.
GuestGrade(T, g) ==
  IF g \in Lab.templates \/ Is(T, <<"pve", "guest", g>>, "running") = "running" THEN OK
  ELSE IF g \in Lab.critical THEN CRITICAL ELSE WARNING

NodeGrade(T, n) ==
  CASE Is(T, <<"pve", "node", n>>, "online") = "offline" -> CRITICAL
    [] Is(T, <<"pve", "node", n>>, "online") = "pressed" -> WARNING
    [] OTHER -> OK

DiskGrade(T, n, d) == DiskSeverity(Is(T, <<"pve", "disk", n, d>>, "passed"))

NodeCheck(T, check) == \E n \in Lab.nodes : check = Check(<<"pve", "node", n>>, NodeGrade(T, n))
GuestCheck(T, check) == \E g \in Lab.guests \cup Lab.templates : check = Check(<<"pve", "guest", g>>, GuestGrade(T, g))
LocalCheck(T, check) == \E s \in Lab.stores, n \in Lab.nodes :
                          check = Check(<<"pve", "store", s, n>>, Graded(T, <<"pve", "store", s, n>>))
SharedCheck(T, check) == \E s \in Lab.shared : check = Check(<<"pve", "store", s>>, Graded(T, <<"pve", "store", s>>))
TotalCheck(T, r, check) == check = Check(<<"pve", "tasks">>, TaskTotal(T, r))
TaskCheck(T, r, check) == \E n \in Lab.nodes, t \in Lab.tasks :
                            /\ Traced(T, r, n)
                            /\ Dated(T, n, t)
                            /\ check = Check(<<"pve", "task", n, t>>, WARNING)
DiskCheck(T, r, check) == \E n \in Lab.nodes, d \in Lab.disks :
                            Probed(T, r, n) /\ check = Check(<<"pve", "disk", n, d>>, DiskGrade(T, n, d))
SilentCheck(T, r, check) == \E n \in Lab.nodes : Silent(T, r, n) /\ check = Check(<<"pve", "disks", n>>, UNKNOWN)

\* Part by part, the collector publishes checks of just these kinds.
LEMMA NodesTold ==
  ASSUME NEW T
  PROVE  \A check : check \in {Check(<<"pve", "node", n>>, NodeSeverity(ProxmoxTells(T), n)) : n \in DOMAIN ProxmoxTells(T).nodes}
                      <=> NodeCheck(T, check)
<1> DEFINE w == ProxmoxTells(T)
<1>1. w.nodes = [n \in Lab.nodes |-> Is(T, <<"pve", "node", n>>, "online")]
  BY DEF ProxmoxTells
<1>2. DOMAIN w.nodes = Lab.nodes
  BY <1>1
<1>3. ASSUME NEW n \in Lab.nodes
      PROVE  Check(<<"pve", "node", n>>, NodeSeverity(w, n)) = Check(<<"pve", "node", n>>, NodeGrade(T, n))
  <2>1. w.nodes[n] = Is(T, <<"pve", "node", n>>, "online")
    BY <1>1
  <2>2. NodeSeverity(w, n) = NodeGrade(T, n)
    BY <2>1 DEF NodeSeverity, NodeGrade
  <2> QED
    BY <2>2
<1> HIDE DEF w
<1>4. \A check : check \in {Check(<<"pve", "node", n>>, NodeSeverity(w, n)) : n \in DOMAIN w.nodes}
                   <=> NodeCheck(T, check)
  BY <1>2, <1>3 DEF NodeCheck
<1> QED
  BY <1>4 DEF w

LEMMA GuestsTold ==
  ASSUME NEW T
  PROVE  \A check : check \in {Check(<<"pve", "guest", g>>, GuestSeverity(ProxmoxTells(T), g)) : g \in DOMAIN ProxmoxTells(T).guests}
                      <=> GuestCheck(T, check)
<1> DEFINE w == ProxmoxTells(T)
<1>1. DOMAIN w.guests = Lab.guests \cup Lab.templates
  BY DEF ProxmoxTells
<1>2. ASSUME NEW g \in Lab.guests \cup Lab.templates
      PROVE  Check(<<"pve", "guest", g>>, GuestSeverity(w, g)) = Check(<<"pve", "guest", g>>, GuestGrade(T, g))
  <2>1. /\ w.guests[g].status = IF g \in Lab.guests THEN Is(T, <<"pve", "guest", g>>, "running") ELSE "stopped"
        /\ w.guests[g].template = (g \in Lab.templates)
        /\ w.guests[g].critical = (g \in Lab.critical)
    BY DEF ProxmoxTells
  <2>2. g \in Lab.guests => g \notin Lab.templates
    BY LabAssumption
  <2>3. GuestSeverity(w, g) = GuestGrade(T, g)
    BY <2>1, <2>2 DEF GuestSeverity, GuestGrade
  <2> QED
    BY <2>3
<1> HIDE DEF w
<1>3. \A check : check \in {Check(<<"pve", "guest", g>>, GuestSeverity(w, g)) : g \in DOMAIN w.guests}
                   <=> GuestCheck(T, check)
  BY <1>1, <1>2 DEF GuestCheck
<1> QED
  BY <1>3 DEF w

\* All of the panel.
LEMMA ProxmoxTold ==
  ASSUME NEW T, NEW r, Ill(T, ProxmoxTroubles), ~Proxmox(ProxmoxTells(T), r).error
  PROVE  /\ \A check : check \in Proxmox(ProxmoxTells(T), r).checks <=>
              \/ NodeCheck(T, check)
              \/ GuestCheck(T, check)
              \/ LocalCheck(T, check)
              \/ SharedCheck(T, check)
              \/ TotalCheck(T, r, check)
              \/ TaskCheck(T, r, check)
              \/ DiskCheck(T, r, check)
              \/ SilentCheck(T, r, check)
         /\ \A u : u \in Proxmox(ProxmoxTells(T), r).unread <=>
              \/ \E n \in Lab.nodes : ~Traced(T, r, n) /\ u = <<"pve", "task", n>>
              \/ (\A n \in Lab.nodes : ~Traced(T, r, n)) /\ u = <<"pve", "tasks">>
              \/ \E n \in Lab.nodes : ~Probed(T, r, n) /\ u = <<"pve", "disk", n>>
<1> DEFINE w == ProxmoxTells(T)
           p == Proxmox(w, r)
           A == {Check(<<"pve", "node", n>>, NodeSeverity(w, n)) : n \in DOMAIN w.nodes}
           B == {Check(<<"pve", "guest", g>>, GuestSeverity(w, g)) : g \in DOMAIN w.guests}
           C == StoreChecks(w)
           tasks == TaskPart(w, r)
           Disks(n) == DiskPart(w, r, n)
           P == {Read(A), Read(B), Read(C), tasks} \cup {Disks(n) : n \in DOMAIN w.nodes}
<1>1. p = Of(P)
  BY DEF Proxmox, Failed
<1>2. DOMAIN w.nodes = Lab.nodes
  BY DEF ProxmoxTells
<1>3. \A q : q \in P <=> \/ q = Read(A) \/ q = Read(B) \/ q = Read(C) \/ q = tasks
                         \/ \E n \in Lab.nodes : q = Disks(n)
  <2> HIDE DEF w, A, B, C, tasks, Disks
  <2> QED
    BY <1>2
<1>4. \A S : Read(S).checks = S /\ Read(S).unread = {}
  BY DEF Read
<1> HIDE DEF P
<1>5. /\ \A x : x \in p.checks <=> \E q \in P : x \in q.checks
      /\ \A x : x \in p.unread <=> \E q \in P : x \in q.unread
  <2>1. /\ \A x : x \in Of(P).checks <=> \E q \in P : x \in q.checks
        /\ \A x : x \in Of(P).unread <=> \E q \in P : x \in q.unread
    BY OfParts
  <2> QED
    BY <1>1, <2>1
<1>6. /\ \A check : check \in p.checks <=> \/ check \in A
                                           \/ check \in B
                                           \/ check \in C
                                           \/ check \in tasks.checks
                                           \/ \E n \in Lab.nodes : check \in Disks(n).checks
      /\ \A u : u \in p.unread <=> u \in tasks.unread \/ \E n \in Lab.nodes : u \in Disks(n).unread
  <2> HIDE DEF w, p, A, B, C, tasks, Disks
  <2> QED
    BY <1>3, <1>4, <1>5
<1>7. /\ \A check : check \in A <=> NodeCheck(T, check)
      /\ \A check : check \in B <=> GuestCheck(T, check)
  BY NodesTold, GuestsTold
<1>8. \A check : check \in C <=> LocalCheck(T, check) \/ SharedCheck(T, check)
  BY StoresTold DEF LocalCheck, SharedCheck
<1>9. /\ \A check : check \in tasks.checks <=> TotalCheck(T, r, check) \/ TaskCheck(T, r, check)
      /\ \A u : u \in tasks.unread <=>
           \/ \E n \in Lab.nodes : ~Traced(T, r, n) /\ u = <<"pve", "task", n>>
           \/ (\A n \in Lab.nodes : ~Traced(T, r, n)) /\ u = <<"pve", "tasks">>
  BY TasksTold DEF TotalCheck, TaskCheck
<1>10. ASSUME NEW n \in Lab.nodes
       PROVE  /\ \A check : check \in Disks(n).checks <=>
                   \/ Probed(T, r, n) /\ \E d \in Lab.disks : check = Check(<<"pve", "disk", n, d>>, DiskGrade(T, n, d))
                   \/ Silent(T, r, n) /\ check = Check(<<"pve", "disks", n>>, UNKNOWN)
              /\ \A u : u \in Disks(n).unread <=> ~Probed(T, r, n) /\ u = <<"pve", "disk", n>>
  BY DisksTold DEF DiskGrade
<1> HIDE DEF w, p, A, B, C, tasks, Disks
<1>11. \A check : (\E n \in Lab.nodes : check \in Disks(n).checks) <=> DiskCheck(T, r, check) \/ SilentCheck(T, r, check)
  BY <1>10 DEF DiskCheck, SilentCheck
<1>12. \A u : (\E n \in Lab.nodes : u \in Disks(n).unread)
                <=> \E n \in Lab.nodes : ~Probed(T, r, n) /\ u = <<"pve", "disk", n>>
  BY <1>10
<1>13. \A check : check \in p.checks <=>
              \/ NodeCheck(T, check)
              \/ GuestCheck(T, check)
              \/ LocalCheck(T, check)
              \/ SharedCheck(T, check)
              \/ TotalCheck(T, r, check)
              \/ TaskCheck(T, r, check)
              \/ DiskCheck(T, r, check)
              \/ SilentCheck(T, r, check)
  BY <1>6, <1>7, <1>8, <1>9, <1>11
<1>14. \A u : u \in p.unread <=>
              \/ \E n \in Lab.nodes : ~Traced(T, r, n) /\ u = <<"pve", "task", n>>
              \/ (\A n \in Lab.nodes : ~Traced(T, r, n)) /\ u = <<"pve", "tasks">>
              \/ \E n \in Lab.nodes : ~Probed(T, r, n) /\ u = <<"pve", "disk", n>>
  BY <1>6, <1>9, <1>12
<1> QED
  BY <1>13, <1>14 DEF w, p

LEMMA CheckParts == \A i, s : Check(i, s).id = i /\ Check(i, s).severity = s
BY DEF Check

\* The kinds of checks have ids of different forms, and no id of a kind occurs twice.
LEMMA ProxmoxKinds ==
  ASSUME NEW T, NEW r, NEW check
  PROVE  /\ NodeCheck(T, check) => \E n \in Lab.nodes : check.id = <<"pve", "node", n>> /\ check.severity = NodeGrade(T, n)
         /\ GuestCheck(T, check) => \E g \in Lab.guests \cup Lab.templates :
                                      check.id = <<"pve", "guest", g>> /\ check.severity = GuestGrade(T, g)
         /\ LocalCheck(T, check) => \E s \in Lab.stores, n \in Lab.nodes :
                                      check.id = <<"pve", "store", s, n>> /\ check.severity = Graded(T, check.id)
         /\ SharedCheck(T, check) => \E s \in Lab.shared :
                                       check.id = <<"pve", "store", s>> /\ check.severity = Graded(T, check.id)
         /\ TotalCheck(T, r, check) => check.id = <<"pve", "tasks">> /\ check.severity = TaskTotal(T, r)
         /\ TaskCheck(T, r, check) => /\ check.severity = WARNING
                                      /\ check.id \in DOMAIN T
                                      /\ \E n \in Lab.nodes, t \in Lab.tasks :
                                           Traced(T, r, n) /\ check.id = <<"pve", "task", n, t>>
         /\ DiskCheck(T, r, check) => \E n \in Lab.nodes, d \in Lab.disks :
                                        /\ Probed(T, r, n)
                                        /\ check.id = <<"pve", "disk", n, d>>
                                        /\ check.severity = DiskGrade(T, n, d)
         /\ SilentCheck(T, r, check) => /\ check.severity = UNKNOWN
                                        /\ \E n \in Lab.nodes : Silent(T, r, n) /\ check.id = <<"pve", "disks", n>>
<1>1. ASSUME NodeCheck(T, check)
      PROVE  \E n \in Lab.nodes : check.id = <<"pve", "node", n>> /\ check.severity = NodeGrade(T, n)
  BY <1>1, CheckParts DEF NodeCheck
<1>2. ASSUME GuestCheck(T, check)
      PROVE  \E g \in Lab.guests \cup Lab.templates : check.id = <<"pve", "guest", g>> /\ check.severity = GuestGrade(T, g)
  BY <1>2, CheckParts DEF GuestCheck
<1>3. ASSUME LocalCheck(T, check)
      PROVE  \E s \in Lab.stores, n \in Lab.nodes :
               check.id = <<"pve", "store", s, n>> /\ check.severity = Graded(T, check.id)
  BY <1>3, CheckParts DEF LocalCheck
<1>4. ASSUME SharedCheck(T, check)
      PROVE  \E s \in Lab.shared : check.id = <<"pve", "store", s>> /\ check.severity = Graded(T, check.id)
  BY <1>4, CheckParts DEF SharedCheck
<1>5. ASSUME TotalCheck(T, r, check)
      PROVE  check.id = <<"pve", "tasks">> /\ check.severity = TaskTotal(T, r)
  BY <1>5, CheckParts DEF TotalCheck
<1>6. ASSUME TaskCheck(T, r, check)
      PROVE  /\ check.severity = WARNING
             /\ check.id \in DOMAIN T
             /\ \E n \in Lab.nodes, t \in Lab.tasks : Traced(T, r, n) /\ check.id = <<"pve", "task", n, t>>
  BY <1>6, CheckParts, TasksListed DEF TaskCheck
<1>7. ASSUME DiskCheck(T, r, check)
      PROVE  \E n \in Lab.nodes, d \in Lab.disks :
               Probed(T, r, n) /\ check.id = <<"pve", "disk", n, d>> /\ check.severity = DiskGrade(T, n, d)
  BY <1>7, CheckParts DEF DiskCheck
<1>8. ASSUME SilentCheck(T, r, check)
      PROVE  /\ check.severity = UNKNOWN
             /\ \E n \in Lab.nodes : Silent(T, r, n) /\ check.id = <<"pve", "disks", n>>
  BY <1>8, CheckParts DEF SilentCheck
<1> QED
  BY <1>1, <1>2, <1>3, <1>4, <1>5, <1>6, <1>7, <1>8

\* Two checks of one id are of one kind.
Kind(id) == <<id[2], Len(id)>>

LEMMA Kinds ==
  /\ \A a, b : Kind(<<a, b>>) = <<b, 2>>
  /\ \A a, b, c : Kind(<<a, b, c>>) = <<b, 3>>
  /\ \A a, b, c, d : Kind(<<a, b, c, d>>) = <<b, 4>>
BY DEF Kind

LEMMA ProxmoxForms ==
  ASSUME NEW T, NEW r, NEW check
  PROVE  /\ NodeCheck(T, check) => Kind(check.id) = <<"node", 3>>
         /\ GuestCheck(T, check) => Kind(check.id) = <<"guest", 3>>
         /\ LocalCheck(T, check) => Kind(check.id) = <<"store", 4>>
         /\ SharedCheck(T, check) => Kind(check.id) = <<"store", 3>>
         /\ TotalCheck(T, r, check) => Kind(check.id) = <<"tasks", 2>>
         /\ TaskCheck(T, r, check) => Kind(check.id) = <<"task", 4>>
         /\ DiskCheck(T, r, check) => Kind(check.id) = <<"disk", 4>>
         /\ SilentCheck(T, r, check) => Kind(check.id) = <<"disks", 3>>
<1>1. NodeCheck(T, check) => Kind(check.id) = <<"node", 3>>
  <2> SUFFICES ASSUME NodeCheck(T, check) PROVE Kind(check.id) = <<"node", 3>>
    OBVIOUS
  <2>1. PICK n \in Lab.nodes : check.id = <<"pve", "node", n>>
    BY ProxmoxKinds
  <2> QED
    BY <2>1, Kinds
<1>2. GuestCheck(T, check) => Kind(check.id) = <<"guest", 3>>
  <2> SUFFICES ASSUME GuestCheck(T, check) PROVE Kind(check.id) = <<"guest", 3>>
    OBVIOUS
  <2>1. PICK g \in Lab.guests \cup Lab.templates : check.id = <<"pve", "guest", g>>
    BY ProxmoxKinds
  <2> QED
    BY <2>1, Kinds
<1>3. LocalCheck(T, check) => Kind(check.id) = <<"store", 4>>
  <2> SUFFICES ASSUME LocalCheck(T, check) PROVE Kind(check.id) = <<"store", 4>>
    OBVIOUS
  <2>1. PICK s \in Lab.stores, n \in Lab.nodes : check.id = <<"pve", "store", s, n>>
    BY CheckParts DEF LocalCheck
  <2> QED
    BY <2>1, Kinds
<1>4. SharedCheck(T, check) => Kind(check.id) = <<"store", 3>>
  <2> SUFFICES ASSUME SharedCheck(T, check) PROVE Kind(check.id) = <<"store", 3>>
    OBVIOUS
  <2>1. PICK s \in Lab.shared : check.id = <<"pve", "store", s>>
    BY ProxmoxKinds
  <2> QED
    BY <2>1, Kinds
<1>5. TotalCheck(T, r, check) => Kind(check.id) = <<"tasks", 2>>
  BY ProxmoxKinds, Kinds
<1>6. TaskCheck(T, r, check) => Kind(check.id) = <<"task", 4>>
  BY ProxmoxKinds, Kinds
<1>7. DiskCheck(T, r, check) => Kind(check.id) = <<"disk", 4>>
  BY ProxmoxKinds, Kinds
<1>8. SilentCheck(T, r, check) => Kind(check.id) = <<"disks", 3>>
  BY ProxmoxKinds, Kinds
<1> QED
  BY <1>1, <1>2, <1>3, <1>4, <1>5, <1>6, <1>7, <1>8

LEMMA ProxmoxOnce ==
  ASSUME NEW T, NEW r, NEW check, NEW other, check.id = other.id
  PROVE  /\ NodeCheck(T, check) /\ NodeCheck(T, other) => check = other
         /\ GuestCheck(T, check) /\ GuestCheck(T, other) => check = other
         /\ LocalCheck(T, check) /\ LocalCheck(T, other) => check = other
         /\ SharedCheck(T, check) /\ SharedCheck(T, other) => check = other
         /\ TotalCheck(T, r, check) /\ TotalCheck(T, r, other) => check = other
         /\ TaskCheck(T, r, check) /\ TaskCheck(T, r, other) => check = other
         /\ DiskCheck(T, r, check) /\ DiskCheck(T, r, other) => check = other
         /\ SilentCheck(T, r, check) /\ SilentCheck(T, r, other) => check = other
<1>1. NodeCheck(T, check) /\ NodeCheck(T, other) => check = other
  BY CheckParts DEF NodeCheck
<1>2. GuestCheck(T, check) /\ GuestCheck(T, other) => check = other
  BY CheckParts DEF GuestCheck
<1>3. LocalCheck(T, check) /\ LocalCheck(T, other) => check = other
  BY CheckParts DEF LocalCheck
<1>4. SharedCheck(T, check) /\ SharedCheck(T, other) => check = other
  BY CheckParts DEF SharedCheck
<1>5. TotalCheck(T, r, check) /\ TotalCheck(T, r, other) => check = other
  BY DEF TotalCheck
<1>6. TaskCheck(T, r, check) /\ TaskCheck(T, r, other) => check = other
  BY CheckParts DEF TaskCheck
<1>7. DiskCheck(T, r, check) /\ DiskCheck(T, r, other) => check = other
  BY CheckParts DEF DiskCheck
<1>8. SilentCheck(T, r, check) /\ SilentCheck(T, r, other) => check = other
  BY CheckParts DEF SilentCheck
<1> QED
  BY <1>1, <1>2, <1>3, <1>4, <1>5, <1>6, <1>7, <1>8

LEMMA ProxmoxHonest ==
  ASSUME NEW T, NEW r, Ill(T, ProxmoxTroubles), ~Proxmox(ProxmoxTells(T), r).error
  PROVE  /\ Typed(Proxmox(ProxmoxTells(T), r))
         /\ Tells(Proxmox(ProxmoxTells(T), r), Faults("proxmox", T) \ CutOff("proxmox", T))
         /\ Notices(Proxmox(ProxmoxTells(T), r), Faults("proxmox", T))
         /\ Proxmox(ProxmoxTells(T), r).unread = {} =>
              ExactBut(Proxmox(ProxmoxTells(T), r), Faults("proxmox", T), CutOff("proxmox", T))
<1> DEFINE p == Proxmox(ProxmoxTells(T), r)
           F == Faults("proxmox", T)
           X == CutOff("proxmox", T)
           Failing == \E n \in Lab.nodes : FailedOn(T, n) # {}
           Untraced == \A n \in Lab.nodes : ~Traced(T, r, n)
<1>1. \A check : check \in p.checks <=>
              \/ NodeCheck(T, check)
              \/ GuestCheck(T, check)
              \/ LocalCheck(T, check)
              \/ SharedCheck(T, check)
              \/ TotalCheck(T, r, check)
              \/ TaskCheck(T, r, check)
              \/ DiskCheck(T, r, check)
              \/ SilentCheck(T, r, check)
  BY ProxmoxTold
<1>2. \A u : u \in p.unread <=>
              \/ \E n \in Lab.nodes : ~Traced(T, r, n) /\ u = <<"pve", "task", n>>
              \/ Untraced /\ u = <<"pve", "tasks">>
              \/ \E n \in Lab.nodes : ~Probed(T, r, n) /\ u = <<"pve", "disk", n>>
  BY ProxmoxTold
<1>3. ASSUME NEW i \in DOMAIN T
      PROVE  \/ \E n \in Lab.nodes : i = <<"pve", "node", n>> /\ T[i] \in {"offline", "pressed"}
             \/ \E g \in Lab.guests : i = <<"pve", "guest", g>> /\ T[i] = "stopped"
             \/ \E s \in Lab.stores, n \in Lab.nodes : i = <<"pve", "store", s, n>>
             \/ \E s \in Lab.shared : i = <<"pve", "store", s>>
             \/ \E n \in Lab.nodes, d \in Lab.disks : i = <<"pve", "disk", n, d>> /\ T[i] \in {"worn", "failed"}
             \/ \E n \in Lab.nodes, t \in Lab.tasks : i = <<"pve", "task", n, t>>
  BY DEF Ill, ProxmoxTroubles
<1>4. \A i : i \in F <=> i \in DOMAIN T \/ (i = <<"pve", "tasks">> /\ Failing)
  BY DEF Faults, Harmless, Totals
<1>limit. ASSUME NEW n \in Lab.nodes, NEW t \in Lab.tasks, <<"pve", "task", n, t>> \in DOMAIN T, ~Dated(T, n, t)
       PROVE  <<"pve", "task", n, t>> \in X /\ Failing
  <2>1. t \in FailedOn(T, n)
    BY <1>limit DEF FailedOn
  <2>2. IsFiniteSet(FailedOn(T, n)) /\ Cardinality(FailedOn(T, n)) \in Nat
    BY LabAssumption, FS_Subset, FS_CardinalityType DEF FailedOn
  <2>3. Cardinality(FailedOn(T, n)) > TaskLimit
    BY <1>limit, <2>1, <2>2, TasksListed, ListingsAssumption
  <2> QED
    BY <2>1, <2>3 DEF CutOff
<1> HIDE DEF p, F, X
<1>5. \A n \in Lab.nodes : NodeGrade(T, n) \in {OK, WARNING, CRITICAL}
                           /\ (NodeGrade(T, n) # OK <=> <<"pve", "node", n>> \in F)
  BY <1>3, <1>4 DEF NodeGrade, Is, OK, WARNING, CRITICAL
<1>6. \A g \in Lab.guests \cup Lab.templates :
        GuestGrade(T, g) \in {OK, WARNING, CRITICAL} /\ (GuestGrade(T, g) # OK <=> <<"pve", "guest", g>> \in F)
  BY <1>3, <1>4, LabAssumption DEF GuestGrade, Is, OK, WARNING, CRITICAL
<1>7. \A i : Graded(T, i) \in {OK, CRITICAL} /\ (Graded(T, i) # OK <=> i \in DOMAIN T)
  BY DEF Graded, OK, CRITICAL
<1>8. \A n \in Lab.nodes, d \in Lab.disks :
        DiskGrade(T, n, d) \in {OK, WARNING, CRITICAL} /\ (DiskGrade(T, n, d) # OK <=> <<"pve", "disk", n, d>> \in F)
  BY <1>3, <1>4 DEF DiskGrade, DiskSeverity, Is, OK, WARNING, CRITICAL
<1>9. /\ TaskTotal(T, r) \in {OK, WARNING, UNKNOWN}
      /\ Failing => TaskTotal(T, r) # OK
      /\ (\E n \in Lab.nodes : ~Traced(T, r, n)) => TaskTotal(T, r) # OK
      /\ (\A n \in Lab.nodes : Traced(T, r, n)) => (TaskTotal(T, r) = IF Failing THEN WARNING ELSE OK)
  <2>1. \A n \in Lab.nodes : FailedOn(T, n) # {} <=> \E t \in Lab.tasks : Dated(T, n, t)
    BY TasksListed DEF FailedOn
  <2> QED
    BY <2>1, LabAssumption DEF TaskTotal, OK, WARNING, UNKNOWN
<1>10. ASSUME NEW check \in p.checks
       PROVE  \/ \E n \in Lab.nodes : check.id = <<"pve", "node", n>>
              \/ \E g \in Lab.guests \cup Lab.templates : check.id = <<"pve", "guest", g>>
              \/ \E s \in Lab.stores, n \in Lab.nodes : check.id = <<"pve", "store", s, n>>
              \/ \E s \in Lab.shared : check.id = <<"pve", "store", s>>
              \/ check.id = <<"pve", "tasks">>
              \/ \E n \in Lab.nodes, t \in Lab.tasks : Traced(T, r, n) /\ check.id = <<"pve", "task", n, t>>
              \/ \E n \in Lab.nodes, d \in Lab.disks : Probed(T, r, n) /\ check.id = <<"pve", "disk", n, d>>
              \/ \E n \in Lab.nodes : check.id = <<"pve", "disks", n>>
  BY <1>1, ProxmoxKinds
<1> HIDE DEF Failing, Untraced
<1>11. Typed(p)
  <2>1. ASSUME NEW check \in p.checks
        PROVE  check.severity \in Severities
    <3>1. CASE NodeCheck(T, check)
      <4>1. PICK n \in Lab.nodes : check.id = <<"pve", "node", n>> /\ check.severity = NodeGrade(T, n)
        BY <3>1, ProxmoxKinds
      <4> QED
        BY <4>1, <1>5 DEF Severities
    <3>2. CASE GuestCheck(T, check)
      <4>1. PICK g \in Lab.guests \cup Lab.templates :
              check.id = <<"pve", "guest", g>> /\ check.severity = GuestGrade(T, g)
        BY <3>2, ProxmoxKinds
      <4> QED
        BY <4>1, <1>6 DEF Severities
    <3>3. CASE LocalCheck(T, check) \/ SharedCheck(T, check)
      <4>1. check.severity = Graded(T, check.id)
        BY <3>3, ProxmoxKinds
      <4>2. check.id # <<"pve", "tasks">>
        BY <3>3, ProxmoxForms, Kinds
      <4> QED
        BY <4>1, <4>2, <1>4, <1>7 DEF Severities
    <3>4. CASE TotalCheck(T, r, check) \/ TaskCheck(T, r, check) \/ SilentCheck(T, r, check)
      BY <3>4, <1>9, ProxmoxKinds DEF Severities
    <3>5. CASE DiskCheck(T, r, check)
      BY <3>5, <1>8, ProxmoxKinds DEF Severities
    <3> QED
      BY <1>1, <3>1, <3>2, <3>3, <3>4, <3>5
  <2>2. ASSUME NEW check \in p.checks, NEW u \in p.unread, IsPrefix(u, check.id)
        PROVE  u = check.id
    <3>1. CASE u = <<"pve", "tasks">>
      BY <2>2, <3>1, <1>10, Prefix22, Prefix23, Prefix24
    <3>2. CASE \E n \in Lab.nodes : ~Traced(T, r, n) /\ u = <<"pve", "task", n>>
      BY <2>2, <3>2, <1>10, Prefix32, Prefix33, Prefix34
    <3>3. CASE \E n \in Lab.nodes : ~Probed(T, r, n) /\ u = <<"pve", "disk", n>>
      BY <2>2, <3>3, <1>10, Prefix32, Prefix33, Prefix34
    <3> QED
      BY <1>2, <3>1, <3>2, <3>3
  <2>3. ASSUME NEW check \in p.checks, NEW other \in p.checks, check.id = other.id
        PROVE  check = other
    <3>1. Kind(check.id) = Kind(other.id)
      BY <2>3
    <3> QED
      BY <2>3, <3>1, <1>1, ProxmoxForms, ProxmoxOnce
  <2> QED
    BY <2>1, <2>2, <2>3 DEF Typed, Covered
<1>12. ASSUME NEW i \in F
       PROVE  \/ Shown(p, i)
              \/ Missed(p, i) /\ \E n \in Lab.nodes : ~Probed(T, r, n) \/ ~Traced(T, r, n)
              \/ i \in X /\ Failing
  <2>1. CASE \E n \in Lab.nodes : i = <<"pve", "node", n>>
    BY <2>1, <1>1, <1>5 DEF NodeCheck, Shown
  <2>2. CASE \E g \in Lab.guests : i = <<"pve", "guest", g>>
    BY <2>2, <1>1, <1>6 DEF GuestCheck, Shown
  <2>3. CASE \E s \in Lab.stores, n \in Lab.nodes : i = <<"pve", "store", s, n>>
    BY <2>3, <1>1, <1>4, <1>7 DEF LocalCheck, Shown
  <2>4. CASE \E s \in Lab.shared : i = <<"pve", "store", s>>
    BY <2>4, <1>1, <1>4, <1>7 DEF SharedCheck, Shown
  <2>5. CASE \E n \in Lab.nodes, d \in Lab.disks : i = <<"pve", "disk", n, d>>
    <3>1. PICK n \in Lab.nodes, d \in Lab.disks : i = <<"pve", "disk", n, d>>
      BY <2>5
    <3>2. CASE Probed(T, r, n)
      BY <3>1, <3>2, <1>1, <1>8 DEF DiskCheck, Shown
    <3>3. CASE ~Probed(T, r, n)
      <4>1. \A check \in p.checks : check.id # i
        BY <3>1, <3>3, <1>10
      <4>2. <<"pve", "disk", n>> \in p.unread /\ IsPrefix(<<"pve", "disk", n>>, i)
        BY <3>1, <3>3, <1>2, Prefix34
      <4> QED
        BY <3>3, <4>1, <4>2 DEF Missed, Published, Covered
    <3> QED
      BY <3>2, <3>3
  <2>6. CASE \E n \in Lab.nodes, t \in Lab.tasks : i = <<"pve", "task", n, t>>
    <3>1. PICK n \in Lab.nodes, t \in Lab.tasks : i = <<"pve", "task", n, t>>
      BY <2>6
    <3>2. CASE Traced(T, r, n) /\ Dated(T, n, t)
      <4>1. TaskCheck(T, r, Check(i, WARNING))
        BY <3>1, <3>2 DEF TaskCheck
      <4> QED
        BY <4>1, <1>1 DEF Shown, WARNING, OK
    <3>3. CASE ~Dated(T, n, t)
      <4>1. i \in DOMAIN T
        BY <3>1, <1>4
      <4> QED
        BY <3>1, <3>3, <4>1, <1>limit
    <3>4. CASE ~Traced(T, r, n)
      <4>1. \A check \in p.checks : check.id # i
        BY <3>1, <3>4, <1>10
      <4>2. <<"pve", "task", n>> \in p.unread /\ IsPrefix(<<"pve", "task", n>>, i)
        BY <3>1, <3>4, <1>2, Prefix34
      <4> QED
        BY <3>4, <4>1, <4>2 DEF Missed, Published, Covered
    <3> QED
      BY <3>2, <3>3, <3>4
  <2>7. CASE i = <<"pve", "tasks">>
    <3>1. Failing
      BY <2>7, <1>3, <1>4
    <3>2. TotalCheck(T, r, Check(i, TaskTotal(T, r)))
      BY <2>7 DEF TotalCheck
    <3> QED
      BY <3>1, <3>2, <1>1, <1>9 DEF Shown
  <2> QED
    BY <1>3, <1>4, <2>1, <2>2, <2>3, <2>4, <2>5, <2>6, <2>7
<1>13. Tells(p, F \ X)
  BY <1>12, ShownIs DEF Tells
<1>14. Notices(p, F)
  <2>1. ASSUME Failing
        PROVE  \E check \in p.checks : check.severity # OK
    <3>1. Check(<<"pve", "tasks">>, TaskTotal(T, r)) \in p.checks
      BY <1>1 DEF TotalCheck
    <3> QED
      BY <2>1, <3>1, <1>9 DEF Check
  <2>2. ASSUME NEW n \in Lab.nodes, ~Traced(T, r, n)
        PROVE  \E check \in p.checks : check.severity # OK
    <3>1. Check(<<"pve", "tasks">>, TaskTotal(T, r)) \in p.checks
      BY <1>1 DEF TotalCheck
    <3> QED
      BY <2>2, <3>1, <1>9 DEF Check
  <2>3. ASSUME NEW n \in Lab.nodes, ~Probed(T, r, n)
        PROVE  \E check \in p.checks : check.severity # OK
    <3>1. CASE Silent(T, r, n)
      <4>1. Check(<<"pve", "disks", n>>, UNKNOWN) \in p.checks
        BY <3>1, <1>1 DEF SilentCheck
      <4> QED
        BY <4>1 DEF Check, UNKNOWN, OK
    <3>2. CASE ~Silent(T, r, n)
      <4>1. Is(T, <<"pve", "node", n>>, "online") = "offline"
        BY <2>3, <3>2 DEF Probed, Silent
      <4>2. Check(<<"pve", "node", n>>, NodeGrade(T, n)) \in p.checks
        BY <1>1 DEF NodeCheck
      <4> QED
        BY <4>1, <4>2 DEF NodeGrade, Check, CRITICAL, OK
    <3> QED
      BY <3>1, <3>2
  <2> QED
    BY <2>1, <2>2, <2>3, <1>12 DEF Notices, Shown, Check
<1>15. ASSUME p.unread = {} PROVE ExactBut(p, F, X)
  <2>1. \A n \in Lab.nodes : Traced(T, r, n) /\ Probed(T, r, n)
    BY <1>2, <1>15
  <2>2. ASSUME NEW check \in p.checks
        PROVE  check.severity \in BAD <=> check.id \in F
    <3>1. CASE NodeCheck(T, check)
      <4>1. PICK n \in Lab.nodes : check.id = <<"pve", "node", n>> /\ check.severity = NodeGrade(T, n)
        BY <3>1, ProxmoxKinds
      <4> QED
        BY <4>1, <1>5 DEF BAD, OK, WARNING, CRITICAL
    <3>2. CASE GuestCheck(T, check)
      <4>1. PICK g \in Lab.guests \cup Lab.templates :
              check.id = <<"pve", "guest", g>> /\ check.severity = GuestGrade(T, g)
        BY <3>2, ProxmoxKinds
      <4> QED
        BY <4>1, <1>6 DEF BAD, OK, WARNING, CRITICAL
    <3>3. CASE LocalCheck(T, check) \/ SharedCheck(T, check)
      <4>1. check.severity = Graded(T, check.id)
        BY <3>3, ProxmoxKinds
      <4>2. check.id # <<"pve", "tasks">>
        BY <3>3, ProxmoxForms, Kinds
      <4> QED
        BY <4>1, <4>2, <1>4, <1>7 DEF BAD, OK, WARNING, CRITICAL
    <3>4. CASE TotalCheck(T, r, check)
      <4>1. check = Check(<<"pve", "tasks">>, IF Failing THEN WARNING ELSE OK)
        BY <3>4, <2>1, <1>9 DEF TotalCheck
      <4>2. <<"pve", "tasks">> \in F <=> Failing
        BY <1>3, <1>4
      <4> QED
        BY <4>1, <4>2 DEF Check, BAD, OK, WARNING, CRITICAL
    <3>5. CASE TaskCheck(T, r, check)
      BY <3>5, <1>4, ProxmoxKinds DEF BAD
    <3>6. CASE DiskCheck(T, r, check)
      BY <3>6, <1>8, ProxmoxKinds DEF BAD, OK, WARNING, CRITICAL
    <3>7. CASE SilentCheck(T, r, check)
      BY <3>7, <2>1 DEF SilentCheck, Silent, Probed
    <3> QED
      BY <1>1, <3>1, <3>2, <3>3, <3>4, <3>5, <3>6, <3>7
  <2>3. ASSUME NEW i \in F \ X PROVE i \in Published(p)
    <3>1. PICK s : Check(i, s) \in p.checks
      BY <2>1, <1>12 DEF Shown
    <3> QED
      BY <3>1 DEF Published, Check
  <2> QED
    BY <2>2, <2>3 DEF ExactBut
<1> QED
  BY <1>11, <1>13, <1>14, <1>15 DEF p, F, X

-----------------------------------------------------------------------------
\* Any collector.  What Undeclared says of the state, for a collector of choice.
Excused(c, i) == IsPrefix(<<"authentik", "outpost">>, i) \/ c = "ups"

\* What one poll of a collector owes: a panel that is well formed, that tells
\* of every failure it does not declare unread and that is within the limits of
\* its listings, that is not green while there is any, and that is exact, but
\* for those limits, when it read everything.
Honest(c, T, r, p) ==
  /\ Typed(p)
  /\ Tells(p, {i \in Faults(c, T) \ CutOff(c, T) : ~Excused(c, i)})
  /\ Notices(p, Faults(c, T))
  /\ (AllAnswered(c, r) /\ p.unread = {}) => ExactBut(p, Faults(c, T), CutOff(c, T))

LEMMA ExactIsNoLess ==
  ASSUME NEW p, NEW F, NEW X, Exact(p, F)
  PROVE  ExactBut(p, F, X)
BY DEF Exact, ExactBut

\* A whole panel tells of everything.
LEMMA WholeTells ==
  ASSUME NEW p, NEW F, Whole(p, F)
  PROVE  Typed(p) /\ Tells(p, F) /\ Notices(p, F) /\ Exact(p, F)
<1>1. Typed(p) /\ Exact(p, F)
  BY DEF Whole
<1>2. ASSUME NEW i \in F PROVE Shows(p, i)
  <2>1. PICK check \in p.checks : check.id = i
    BY <1>1 DEF Exact, Published
  <2>2. check.severity \in BAD
    BY <1>1, <2>1 DEF Exact
  <2> QED
    BY <2>1, <2>2 DEF Shows, BAD, OK, WARNING, CRITICAL
<1>3. Notices(p, F)
  BY <1>2 DEF Notices, Shows
<1> QED
  BY <1>1, <1>2, <1>3 DEF Tells

LEMMA WholeHonest ==
  ASSUME NEW c, NEW T, NEW r, NEW p, Whole(p, Faults(c, T))
  PROVE  Honest(c, T, r, p)
<1>1. Typed(p) /\ Tells(p, Faults(c, T)) /\ Notices(p, Faults(c, T)) /\ Exact(p, Faults(c, T))
  BY WholeTells
<1>2. Tells(p, {i \in Faults(c, T) \ CutOff(c, T) : ~Excused(c, i)})
  BY <1>1 DEF Tells
<1>3. ExactBut(p, Faults(c, T), CutOff(c, T))
  BY <1>1, ExactIsNoLess
<1> QED
  BY <1>1, <1>2, <1>3 DEF Honest

LEMMA AllTold ==
  ASSUME NEW c, NEW T, NEW r, NEW p,
         Typed(p), Tells(p, Faults(c, T) \ CutOff(c, T)), Notices(p, Faults(c, T)),
         p.unread = {} => ExactBut(p, Faults(c, T), CutOff(c, T))
  PROVE  Honest(c, T, r, p)
<1>1. Tells(p, {i \in Faults(c, T) \ CutOff(c, T) : ~Excused(c, i)})
  BY DEF Tells
<1> QED
  BY <1>1 DEF Honest

\* One poll of each of the registered collectors.
LEMMA Collected ==
  ASSUME NEW c \in Registered, NEW T \in States(c), NEW r \in Replies(c),
         ~Collect(c, Product(c, T), r).error
  PROVE  Honest(c, T, r, Collect(c, Product(c, T), r))
<1>0. Ill(T, Possible(c))
  BY Matters
<1>1. CASE c = "proxmox"
  <2>1. Collect(c, Product(c, T), r) = Proxmox(ProxmoxTells(T), r) /\ Possible(c) = ProxmoxTroubles
    BY <1>1 DEF Collect, Product, Possible
  <2> QED
    BY <1>0, <1>1, <2>1, ProxmoxHonest, AllTold
<1>2. CASE c = "wazuh"
  <2>1. Collect(c, Product(c, T), r) = Wazuh(WazuhTells(T), r) /\ Possible(c) = WazuhTroubles
    BY <1>2 DEF Collect, Product, Possible
  <2> QED
    BY <1>0, <1>2, <2>1, WazuhHonest, AllTold
<1>3. CASE c = "splunk"
  <2>1. Collect(c, Product(c, T), r) = Splunk(SplunkTells(T), r) /\ Possible(c) = SplunkTroubles
    BY <1>3 DEF Collect, Product, Possible
  <2> DEFINE p == Splunk(SplunkTells(T), r)
             F == Faults("splunk", T)
             X == CutOff("splunk", T)
  <2>2. Typed(p) /\ Tells(p, F) /\ Notices(p, F) /\ (p.unread = {} => Exact(p, F))
    BY <1>0, <1>3, <2>1, SplunkHonest
  <2>3. Tells(p, F \ X) /\ (p.unread = {} => ExactBut(p, F, X))
    <3> HIDE DEF p, F, X
    <3> QED
      BY <2>2, ExactIsNoLess DEF Tells
  <2> HIDE DEF p
  <2> QED
    BY <1>3, <2>1, <2>2, <2>3, AllTold DEF p
<1>4. CASE c = "authentik"
  <2>1. Collect(c, Product(c, T), r) = Authentik(AuthentikTells(T), r) /\ Possible(c) = AuthentikTroubles
    BY <1>4 DEF Collect, Product, Possible
  <2> DEFINE p == Authentik(AuthentikTells(T), r)
  <2>2. /\ Typed(p)
        /\ Tells(p, {i \in Faults("authentik", T) : ~IsPrefix(<<"authentik", "outpost">>, i)})
        /\ Notices(p, Faults("authentik", T))
        /\ (Answers(r.tasks_workers) /\ Answers(r.outposts) /\ Answers(r.health)) => Exact(p, Faults("authentik", T))
    BY <1>0, <2>1, AuthentikHonest
  <2>3. DOMAIN r = {"system", "tasks_workers", "admin_workers", "version", "outposts", "health"}
    BY <1>4 DEF Replies
  <2>4. AllAnswered(c, r) => Answers(r.tasks_workers) /\ Answers(r.outposts) /\ Answers(r.health)
    BY <1>4, <2>3 DEF AllAnswered, Answers
  <2>5. \A i : Excused(c, i) <=> IsPrefix(<<"authentik", "outpost">>, i)
    BY <1>4 DEF Excused
  <2> DEFINE F == Faults("authentik", T)
             X == CutOff("authentik", T)
  <2> HIDE DEF p, F, X
  <2>6. Tells(p, {i \in F \ X : ~Excused(c, i)})
    BY <2>2, <2>5 DEF Tells, F
  <2>7. AllAnswered(c, r) => ExactBut(p, F, X)
    BY <2>2, <2>4, ExactIsNoLess DEF F
  <2> QED
    BY <1>4, <2>1, <2>2, <2>6, <2>7 DEF Honest, p, F, X
<1>5. CASE c = "unifi"
  <2>1. Collect(c, Product(c, T), r) = Unifi(UnifiTells(T), r) /\ Possible(c) = UnifiTroubles
    BY <1>5 DEF Collect, Product, Possible
  <2> QED
    BY <1>0, <1>5, <2>1, UnifiWhole, WholeHonest
<1>6. CASE c = "pihole"
  <2>1. Collect(c, Product(c, T), r) = Pihole(PiholeTells(T), r) /\ Possible(c) = PiholeTroubles
    BY <1>6 DEF Collect, Product, Possible
  <2> QED
    BY <1>0, <1>6, <2>1, PiholeWhole, WholeHonest
<1>7. CASE c = "ups"
  <2>1. Collect(c, Product(c, T), r) = Ups(UpsTells(T), r) /\ Possible(c) = UpsTroubles
    BY <1>7 DEF Collect, Product, Possible
  <2> DEFINE p == Ups(UpsTells(T), r)
             F == Faults("ups", T)
             X == CutOff("ups", T)
  <2>2. /\ Typed(p)
        /\ Answers(r.list) => Whole(p, F)
        /\ ~Answers(r.list) => \E check \in p.checks : check.severity # OK
    BY <1>0, <2>1, UpsWhole
  <2>3. DOMAIN r = {"list"}
    BY <1>7 DEF Replies
  <2>4. AllAnswered(c, r) => Answers(r.list)
    BY <1>7, <2>3 DEF AllAnswered, Answers
  <2>5. {i \in F \ X : ~Excused(c, i)} = {}
    BY <1>7 DEF Excused
  <2> HIDE DEF p, F, X
  <2>6. Notices(p, F) /\ (Answers(r.list) => ExactBut(p, F, X))
    BY <2>2, WholeTells, ExactIsNoLess DEF Notices
  <2>7. Tells(p, {i \in F \ X : ~Excused(c, i)})
    BY <2>5 DEF Tells
  <2> QED
    BY <1>7, <2>1, <2>2, <2>4, <2>6, <2>7 DEF Honest, p, F, X
<1>8. CASE c = "backups"
  <2>1. Collect(c, Product(c, T), r) = Backups(BackupsTells(T), r) /\ Possible(c) = BackupsTroubles
    BY <1>8 DEF Collect, Product, Possible
  <2> QED
    BY <1>0, <1>8, <2>1, BackupsWhole, WholeHonest
<1>9. CASE c = "cloudflare"
  <2>1. Collect(c, Product(c, T), r) = Cloudflare(CloudflareTells(T), r) /\ Possible(c) = CloudflareTroubles
    BY <1>9 DEF Collect, Product, Possible
  <2> QED
    BY <1>0, <1>9, <2>1, CloudflareWhole, WholeHonest
<1>10. CASE c = "wan"
  <2>1. Collect(c, Product(c, T), r) = Wan(WanTells(T), r) /\ Possible(c) = WanTroubles
    BY <1>10 DEF Collect, Product, Possible
  <2> QED
    BY <1>0, <1>10, <2>1, WanWhole, WholeHonest
<1>11. CASE c = "jellyfin"
  <2>1. Collect(c, Product(c, T), r) = Jellyfin(JellyfinTells(T), r) /\ Possible(c) = JellyfinTroubles
    BY <1>11 DEF Collect, Product, Possible
  <2> QED
    BY <1>0, <1>11, <2>1, JellyfinWhole, WholeHonest
<1>12. CASE c = "host_metrics"
  <2>1. Collect(c, Product(c, T), r) = HostMetrics(HostTells(T)) /\ Possible(c) = HostTroubles
    BY <1>12 DEF Collect, Product, Possible
  <2> QED
    BY <1>0, <1>12, <2>1, HostWhole, WholeHonest
<1>13. CASE c = "services"
  <2>1. Collect(c, Product(c, T), r) = Services(ServiceTells(T)) /\ Possible(c) = ServiceTroubles
    BY <1>13 DEF Collect, Product, Possible
  <2> QED
    BY <1>0, <1>13, <2>1, ServicesWhole, WholeHonest
<1>14. CASE c = "fleet"
  <2>1. Collect(c, Product(c, T), r) = Fleet(FleetTells(T), r) /\ Possible(c) = FleetTroubles
    BY <1>14 DEF Collect, Product, Possible
  <2> QED
    BY <1>0, <1>14, <2>1, FleetWhole, WholeHonest
<1>15. CASE c = "dns"
  <2>1. Collect(c, Product(c, T), r) = Dns(DnsTells(T)) /\ Possible(c) = DnsTroubles
    BY <1>15 DEF Collect, Product, Possible
  <2> QED
    BY <1>0, <1>15, <2>1, DnsWhole, WholeHonest
<1>16. CASE c = "certificates"
  <2>1. Collect(c, Product(c, T), r) = Certificates(CertificateTells(T)) /\ Possible(c) = CertificateTroubles
    BY <1>16 DEF Collect, Product, Possible
  <2> QED
    BY <1>0, <1>16, <2>1, CertificatesWhole, WholeHonest
<1> QED
  BY <1>1, <1>2, <1>3, <1>4, <1>5, <1>6, <1>7, <1>8, <1>9, <1>10, <1>11, <1>12, <1>13, <1>14, <1>15, <1>16 DEF Registered

\* The inductive invariant: the type, and what the properties say of the last poll.
PollingInv == TypeOK /\ CompletePollIsExact /\ GreenMeansWell /\ SessionsRenew

\* It is possible that nothing is the matter.
LEMMA NothingIsWrong ==
  ASSUME NEW c \in Keys
  PROVE  [i \in {} |-> None] \in States(c)
<1> DEFINE P == Possible(c)
           At(D) == {T \in [D -> {p[2] : p \in P}] : \A i \in D : <<i, T[i]>> \in P}
<1>1. {} \in Together[c]
  BY KeysAssumption
<1>2. [i \in {} |-> None] \in At({})
  OBVIOUS
<1>3. States(c) = UNION {At(D) : D \in Together[c]}
  BY DEF States
<1> HIDE DEF P, At
<1> QED
  BY <1>1, <1>2, <1>3

LEMMA PartsAreNoError == \A P : Of(P).error = FALSE
BY DEF Of

\* A collector returns parts, or raises: never half of each.
LEMMA FailedOrRead ==
  ASSUME NEW c \in Registered, NEW w, NEW r
  PROVE  Collect(c, w, r) = Failed \/ Collect(c, w, r).error = FALSE
<1>2. CASE c = "proxmox"
  BY <1>2, PartsAreNoError DEF Collect, Proxmox
<1>3. CASE c = "wazuh"
  BY <1>3, PartsAreNoError DEF Collect, Wazuh
<1>4. CASE c = "authentik"
  BY <1>4, PartsAreNoError DEF Collect, Authentik
<1>5. CASE c = "splunk"
  BY <1>5, PartsAreNoError DEF Collect, Splunk
<1>6. CASE c = "unifi"
  BY <1>6, PartsAreNoError DEF Collect, Unifi
<1>7. CASE c = "pihole"
  BY <1>7, PartsAreNoError DEF Collect, Pihole
<1>8. CASE c = "ups"
  BY <1>8, PartsAreNoError DEF Collect, Ups
<1>9. CASE c = "backups"
  BY <1>9, PartsAreNoError DEF Collect, Backups
<1>10. CASE c = "cloudflare"
  BY <1>10, PartsAreNoError DEF Collect, Cloudflare
<1>11. CASE c = "wan"
  BY <1>11, PartsAreNoError DEF Collect, Wan
<1>12. CASE c = "jellyfin"
  BY <1>12, PartsAreNoError DEF Collect, Jellyfin
<1>13. CASE c = "host_metrics"
  BY <1>13, PartsAreNoError DEF Collect, HostMetrics
<1>14. CASE c = "services"
  BY <1>14, PartsAreNoError DEF Collect, Services
<1>15. CASE c = "fleet"
  BY <1>15, PartsAreNoError DEF Collect, Fleet, EntryChecks
<1>16. CASE c = "dns"
  BY <1>16, PartsAreNoError DEF Collect, Dns, EntryChecks
<1>17. CASE c = "certificates"
  BY <1>17, PartsAreNoError DEF Collect, Certificates, EntryChecks
<1> QED
  BY <1>2, <1>3, <1>4, <1>5, <1>6, <1>7, <1>8, <1>9, <1>10, <1>11, <1>12, <1>13, <1>14, <1>15, <1>16, <1>17 DEF Registered

\* A product that answers everything is read, once the session is good.
LEMMA AnsweredIsRead ==
  ASSUME NEW c \in Renewing, NEW w, NEW r \in Replies(c), AllAnswered(c, r)
  PROVE  Answers(r.auth) /\ ~Collect(c, w, r).error
<1>1. CASE c = "wazuh"
  <2>1. DOMAIN r = {"auth", "summary", "agents", "manager", "indexer"}
    BY <1>1 DEF Replies
  <2>2. r.auth = "answers" /\ r.summary = "answers" /\ r.agents = "answers" /\ r.manager = "answers"
    BY <1>1, <2>1 DEF AllAnswered
  <2> QED
    BY <1>1, <2>2, PartsAreNoError DEF Collect, Wazuh, Answers
<1>2. CASE c = "pihole"
  <2>1. DOMAIN r = {"auth", "summary", "blocking"}
    BY <1>2 DEF Replies
  <2>2. r.auth = "answers" /\ r.summary = "answers" /\ r.blocking = "answers"
    BY <1>2, <2>1 DEF AllAnswered
  <2> QED
    BY <1>2, <2>2, PartsAreNoError DEF Collect, Pihole, Answers
<1>3. CASE c = "unifi"
  <2>1. DOMAIN r = {"auth", "health", "device", "sta"}
    BY <1>3 DEF Replies
  <2>2. r.auth = "answers" /\ r.health = "answers" /\ r.device = "answers" /\ r.sta = "answers"
    BY <1>3, <2>1 DEF AllAnswered
  <2> QED
    BY <1>3, <2>2, PartsAreNoError DEF Collect, Unifi, Answers
<1> QED
  BY <1>1, <1>2, <1>3 DEF Renewing, Sessions

\* What the engine reads off a well-formed panel.
LEMMA ReportedIs ==
  ASSUME NEW p, Typed(p), NEW check \in p.checks
  PROVE  Reported(p, check.id) = check.severity
<1>1. \A other \in p.checks : other.id = check.id => other = check
  BY DEF Typed
<1>2. (CHOOSE other \in p.checks : other.id = check.id) = check
  BY <1>1
<1> QED
  BY <1>2 DEF Reported

\* What the engine holds after it took in a panel that is no error.
LEMMA KnownAfter ==
  ASSUME NEW p, Typed(p), ~p.error, NEW f, \A i \in DOMAIN f : f[i] \in Severities
  PROVE  /\ \A i : i \in DOMAIN Ingested(f, p) <=>
                     i \in Published(p) \/ (i \in DOMAIN f /\ Covered(i, p.unread))
         /\ \A check \in p.checks : Ingested(f, p)[check.id] = check.severity
         /\ \A i \in DOMAIN Ingested(f, p) : i \notin Published(p) => Ingested(f, p)[i] = f[i]
         /\ \A i \in DOMAIN Ingested(f, p) : Ingested(f, p)[i] \in Severities
<1> DEFINE retained == {i \in DOMAIN f \ Published(p) : Covered(i, p.unread)}
           S == Published(p) \cup retained
           g == [i \in S |-> IF i \in Published(p) THEN Reported(p, i) ELSE f[i]]
<1>1. Ingested(f, p) = g
  BY DEF Ingested
<1>2. \A i : i \in S <=> i \in Published(p) \/ (i \in DOMAIN f /\ Covered(i, p.unread))
  OBVIOUS
<1>3. \A i \in retained : i \in DOMAIN f /\ i \notin Published(p)
  OBVIOUS
<1> HIDE DEF retained
<1>4. DOMAIN g = S
  OBVIOUS
<1>5. ASSUME NEW check \in p.checks
      PROVE  g[check.id] = check.severity
  <2>1. check.id \in Published(p)
    BY DEF Published
  <2>2. g[check.id] = Reported(p, check.id)
    BY <2>1
  <2> QED
    BY <2>2, ReportedIs
<1>6. ASSUME NEW i \in S, i \notin Published(p)
      PROVE  g[i] = f[i]
  BY <1>6
<1> HIDE DEF g
<1>7. ASSUME NEW i \in S
      PROVE  g[i] \in Severities
  <2>1. CASE i \in Published(p)
    <3>1. PICK check \in p.checks : check.id = i
      BY <2>1 DEF Published
    <3> QED
      BY <3>1, <1>5 DEF Typed
  <2>2. CASE i \notin Published(p)
    BY <2>2, <1>3, <1>6
  <2> QED
    BY <2>1, <2>2
<1> HIDE DEF S
<1> QED
  BY <1>1, <1>2, <1>4, <1>5, <1>6, <1>7

\* A panel that resolves to ok has nothing to notice.
LEMMA GreenIsHonest ==
  ASSUME NEW p, NEW F, Typed(p), Notices(p, F), Resolved(p) = OK
  PROVE  F = {}
<1> DEFINE S == {check.severity : check \in p.checks}
<1>1. S \subseteq Severities
  BY DEF Typed
<1>2. worst(S) = OK
  BY DEF Resolved, OK, UNKNOWN
<1>3. \A s \in S : s = OK
  <2> HIDE DEF S
  <2> QED
    BY <1>1, <1>2, WorstKnown
<1>4. \A check \in p.checks : check.severity = OK
  BY <1>3
<1> QED
  BY <1>4 DEF Notices

\* After an exact panel the engine holds the failures there are, whatever it
\* held before.
LEMMA ExactIsKnown ==
  ASSUME NEW p, NEW F, NEW X, Typed(p), ExactBut(p, F, X), ~p.error, p.unread = {},
         NEW f, \A i \in DOMAIN f : f[i] \in Severities
  PROVE  LET bad == {i \in DOMAIN Ingested(f, p) : Ingested(f, p)[i] \in BAD}
         IN  bad \subseteq F /\ F \ bad \subseteq X
<1> DEFINE g == Ingested(f, p)
<1>1. \A i : i \in DOMAIN g <=> i \in Published(p) \/ (i \in DOMAIN f /\ Covered(i, p.unread))
  BY KnownAfter
<1>2. \A check \in p.checks : g[check.id] = check.severity
  BY KnownAfter
<1> HIDE DEF g
<1>3. \A i : i \in DOMAIN g <=> i \in Published(p)
  BY <1>1 DEF Covered
<1>4. ASSUME NEW i \in DOMAIN g
      PROVE  g[i] \in BAD <=> i \in F
  <2>1. PICK check \in p.checks : check.id = i
    BY <1>3 DEF Published
  <2> QED
    BY <1>2, <2>1 DEF ExactBut
<1>5. \A i \in F \ X : i \in DOMAIN g
  BY <1>3 DEF ExactBut
<1>6. \A i : i \in {j \in DOMAIN g : g[j] \in BAD} <=> i \in DOMAIN g /\ i \in F
  BY <1>4
<1> QED
  BY <1>5, <1>6 DEF g

\* A failure that was known, and is still there, is still known, and not as well.
LEMMA ToldIsKnown ==
  ASSUME NEW p, NEW F, Typed(p), Tells(p, F), ~p.error,
         NEW f, \A i \in DOMAIN f : f[i] \in Severities,
         NEW i \in DOMAIN f, f[i] \in BAD, i \in F
  PROVE  i \in DOMAIN Ingested(f, p) /\ Ingested(f, p)[i] # OK
<1> DEFINE g == Ingested(f, p)
<1>1. \A j : j \in DOMAIN g <=> j \in Published(p) \/ (j \in DOMAIN f /\ Covered(j, p.unread))
  BY KnownAfter
<1>2. \A check \in p.checks : g[check.id] = check.severity
  BY KnownAfter
<1>3. \A j \in DOMAIN g : j \notin Published(p) => g[j] = f[j]
  BY KnownAfter
<1> HIDE DEF g
<1>4. CASE Shows(p, i)
  <2>1. PICK check \in p.checks : check.id = i /\ check.severity # OK
    BY <1>4 DEF Shows
  <2>2. i \in DOMAIN g /\ g[i] # OK
    BY <1>1, <1>2, <2>1 DEF Published
  <2> QED
    BY <2>2 DEF g
<1>5. CASE Missed(p, i)
  <2>1. i \in DOMAIN g /\ g[i] = f[i]
    BY <1>1, <1>3, <1>5 DEF Missed
  <2>2. f[i] # OK
    BY DEF BAD, OK, WARNING, CRITICAL
  <2> QED
    BY <2>1, <2>2 DEF g
<1> QED
  BY <1>4, <1>5 DEF Tells

\* A collector that renews its session has a good one if it may sign in.
LEMMA Signed ==
  ASSUME login \in {"none", "good", "dead"}, NEW c, NEW r
  PROVE  /\ SignedIn(c, r) \in {"none", "good", "dead"}
         /\ c \in Renewing /\ Answers(r.auth) => SignedIn(c, r) = "good"
BY DEF SignedIn

\* One poll, from any state of the right type.
LEMMA PollTells ==
  ASSUME TypeOK, Poll
  PROVE  /\ PollingInv'
         /\ \A i \in DOMAIN known :
              (known[i] \in BAD /\ ~Undeclared(i) /\ (i \notin DOMAIN known' \/ known'[i] = OK))
                => i \notin Faults(key, troubles') \ CutOff(key, troubles')
<1>1. PICK T \in States(key), r \in Replies(key) :
        /\ answered' = AllAnswered(key, r)
        /\ login' = IF key \in Sessions THEN SignedIn(key, r) ELSE login
        /\ panel' = IF key \in Sessions /\ login' # "good" THEN Failed ELSE Collect(key, Product(key, T), r)
        /\ troubles' = IF panel'.error THEN [i \in {} |-> None] ELSE T
        /\ known' = Ingested(known, panel')
        /\ key' = key
  BY DEF Poll
<1>2. /\ key \in Keys /\ key \in Registered
      /\ login \in {"none", "good", "dead"}
      /\ \A i \in DOMAIN known : known[i] \in Severities
  BY KeysAssumption DEF TypeOK
<1>3. login' \in {"none", "good", "dead"}
  BY <1>1, <1>2, Signed
<1>4. answered' \in BOOLEAN
  BY <1>1 DEF AllAnswered
<1>5. SessionsRenew'
  <2> SUFFICES ASSUME answered', key \in Renewing
               PROVE  ~panel'.error
    BY <1>1 DEF SessionsRenew
  <2>1. /\ Answers(r.auth)
        /\ ~Collect(key, Product(key, T), r).error
    <3>1. AllAnswered(key, r)
      BY <1>1
    <3> QED
      BY <3>1, AnsweredIsRead
  <2>2. login' = "good"
    <3>1. key \in Sessions
      BY DEF Renewing
    <3> QED
      BY <1>1, <1>2, <2>1, <3>1, Signed
  <2> QED
    BY <1>1, <2>1, <2>2
<1>6. CASE panel'.error
  <2>1. panel' = Failed
    BY <1>1, <1>2, <1>6, FailedOrRead
  <2>2. troubles' = [i \in {} |-> None] /\ known' = known
    BY <1>1, <1>6 DEF Ingested
  <2>3. TypeOK'
    <3>1. troubles' \in States(key')
      BY <1>1, <1>2, <2>2, NothingIsWrong
    <3>2. panel'.error = TRUE /\ panel'.checks = {}
      BY <2>1 DEF Failed
    <3> QED
      BY <1>1, <1>2, <1>3, <1>4, <2>2, <3>1, <3>2 DEF TypeOK
  <2>4. CompletePollIsExact'
    BY <1>6 DEF CompletePollIsExact
  <2>5. GreenMeansWell'
    BY <1>6 DEF GreenMeansWell, Resolved, OK, UNKNOWN
  <2>6. \A i \in DOMAIN known :
          ~(known[i] \in BAD /\ (i \notin DOMAIN known' \/ known'[i] = OK))
    BY <2>2 DEF BAD, OK, WARNING, CRITICAL
  <2> QED
    BY <1>5, <2>3, <2>4, <2>5, <2>6 DEF PollingInv
<1>7. CASE ~panel'.error
  <2> DEFINE F == Faults(key, T)
             X == CutOff(key, T)
  <2>1. panel' = Collect(key, Product(key, T), r) /\ troubles' = T
    BY <1>1, <1>7 DEF Failed
  <2>2. Honest(key, T, r, panel')
    BY <1>2, <1>7, <2>1, Collected
  <2>3. /\ Typed(panel')
        /\ Tells(panel', {i \in F \ X : ~Excused(key, i)})
        /\ Notices(panel', F)
        /\ (answered' /\ panel'.unread = {}) => ExactBut(panel', F, X)
    BY <1>1, <2>2 DEF Honest
  <2>4. \A i \in DOMAIN known' : known'[i] \in Severities
    BY <1>1, <1>2, <1>7, <2>3, KnownAfter
  <2>5. TypeOK'
    <3>1. panel'.error \in BOOLEAN
      <4>1. Failed.error = TRUE
        BY DEF Failed
      <4> QED
        BY <1>2, <1>7, <2>1, <4>1, FailedOrRead
    <3>2. /\ \A check \in panel'.checks : check.severity \in Severities /\ ~Covered(check.id, panel'.unread \ {check.id})
          /\ \A check, other \in panel'.checks : check.id = other.id => check = other
      BY <2>3 DEF Typed
    <3> QED
      BY <1>1, <1>2, <1>3, <1>4, <2>1, <2>4, <3>1, <3>2 DEF TypeOK
  <2>6. CompletePollIsExact'
    <3> SUFFICES ASSUME answered', panel'.unread = {}
                 PROVE  LET bad == {i \in DOMAIN known' : known'[i] \in BAD}
                        IN  /\ bad \subseteq Faults(key', troubles')
                            /\ Faults(key', troubles') \ bad \subseteq CutOff(key', troubles')
      BY DEF CompletePollIsExact
    <3> HIDE DEF F, X
    <3>1. LET bad == {i \in DOMAIN Ingested(known, panel') : Ingested(known, panel')[i] \in BAD}
          IN  bad \subseteq F /\ F \ bad \subseteq X
      BY <1>2, <1>7, <2>3, ExactIsKnown
    <3> QED
      BY <1>1, <2>1, <3>1 DEF F, X
  <2>7. GreenMeansWell'
    <3> SUFFICES ASSUME Resolved(panel') = OK
                 PROVE  Faults(key', troubles') = {}
      BY DEF GreenMeansWell
    <3> HIDE DEF F
    <3>1. F = {}
      BY <2>3, GreenIsHonest
    <3> QED
      BY <1>1, <2>1, <3>1 DEF F
  <2>8. ASSUME NEW i \in DOMAIN known, known[i] \in BAD, ~Undeclared(i),
               i \in Faults(key, troubles') \ CutOff(key, troubles')
        PROVE  i \in DOMAIN known' /\ known'[i] # OK
    <3> DEFINE G == {j \in F \ X : ~Excused(key, j)}
    <3>1. i \in G
      BY <2>1, <2>8 DEF Undeclared, Excused
    <3> HIDE DEF G, F, X
    <3>2. Tells(panel', G)
      BY <2>3 DEF G
    <3>3. i \in DOMAIN Ingested(known, panel') /\ Ingested(known, panel')[i] # OK
      BY <1>2, <1>7, <2>3, <2>8, <3>1, <3>2, ToldIsKnown
    <3> QED
      BY <1>1, <3>3
  <2> QED
    BY <1>5, <2>5, <2>6, <2>7, <2>8 DEF PollingInv
<1> QED
  BY <1>6, <1>7

\* Revoke and Outdate touch the session alone.
LEMMA OnlyLogin ==
  ASSUME PollingInv, UNCHANGED <<key, troubles, answered, panel, known>>, login' \in {"none", "good", "dead"}
  PROVE  /\ PollingInv'
         /\ \A i \in DOMAIN known : known[i] \in BAD => i \in DOMAIN known' /\ known'[i] # OK
<1>1. key' = key /\ troubles' = troubles /\ answered' = answered /\ panel' = panel /\ known' = known
  OBVIOUS
<1>2. TypeOK'
  BY <1>1 DEF PollingInv, TypeOK
<1>3. CompletePollIsExact' /\ GreenMeansWell' /\ SessionsRenew'
  BY <1>1 DEF PollingInv, CompletePollIsExact, GreenMeansWell, SessionsRenew
<1>4. \A i \in DOMAIN known : known[i] \in BAD => i \in DOMAIN known' /\ known'[i] # OK
  BY <1>1 DEF BAD, OK, WARNING, CRITICAL
<1> QED
  BY <1>2, <1>3, <1>4 DEF PollingInv

\* Before the first poll.
LEMMA PollingStarts ==
  ASSUME Init
  PROVE  PollingInv
<1>1. key \in Keys /\ troubles = [i \in {} |-> None] /\ answered = FALSE /\ panel = Failed
      /\ known = [i \in {} |-> None] /\ login = "none"
  BY DEF Init
<1>2. panel.error = TRUE /\ panel.checks = {}
  BY <1>1 DEF Failed
<1>3. troubles \in States(key)
  BY <1>1, NothingIsWrong
<1>4. TypeOK
  BY <1>1, <1>2, <1>3 DEF TypeOK
<1>5. CompletePollIsExact /\ SessionsRenew
  BY <1>1 DEF CompletePollIsExact, SessionsRenew
<1>6. GreenMeansWell
  BY <1>2 DEF GreenMeansWell, Resolved, OK, UNKNOWN
<1> QED
  BY <1>4, <1>5, <1>6 DEF PollingInv

\* And with every step.
LEMMA PollingSteps ==
  ASSUME PollingInv, [Next]_vars
  PROVE  PollingInv'
<1>1. login \in {"none", "good", "dead"}
  BY DEF PollingInv, TypeOK
<1>2. CASE Poll
  BY <1>2, PollTells DEF PollingInv
<1>3. CASE Revoke
  BY <1>3, OnlyLogin DEF Revoke
<1>4. CASE Outdate
  BY <1>4, OnlyLogin DEF Outdate
<1>5. CASE UNCHANGED vars
  BY <1>1, <1>5, OnlyLogin DEF vars
<1> QED
  BY <1>2, <1>3, <1>4, <1>5 DEF Next

\* Whatever is wrong with whichever product, however many things at once, and
\* however its requests end: the type and the properties of the last poll
\* together are an invariant, and one that is inductive.
THEOREM PollingInductive == Spec => []PollingInv
<1>1. Init => PollingInv
  BY PollingStarts
<1>2. PollingInv /\ [Next]_vars => PollingInv'
  BY PollingSteps
<1> QED
  BY <1>1, <1>2, PTL DEF Spec

\* Whatever is wrong with which product, and whichever requests fail: every
\* panel is well formed, no two of its checks share an id, none is published
\* and declared unread at once.
THEOREM PollingTyping == Spec => []TypeOK
<1>1. PollingInv => TypeOK
  BY DEF PollingInv
<1> QED
  BY <1>1, PollingInductive, PTL

\* After a poll that read everything, the engine holds as bad what is wrong with
\* the product and nothing else, but for tasks and rules past the limits of the
\* requests of proxmox.py and wazuh.py: no store, task or agent hides another of
\* the same name, and nothing is left over from an earlier poll.
THEOREM CompletePollsAreExact == Spec => []CompletePollIsExact
<1>1. PollingInv => CompletePollIsExact
  BY DEF PollingInv
<1> QED
  BY <1>1, PollingInductive, PTL

\* Collector.run and Panel.resolve never make a green panel of a product that
\* fails, whichever part of it could not be read.
THEOREM GreenPanelsMeanWell == Spec => []GreenMeansWell
<1>1. PollingInv => GreenMeansWell
  BY DEF PollingInv
<1> QED
  BY <1>1, PollingInductive, PTL

\* A collector that renews its session succeeds whenever the product answers
\* everything, however the session it kept was lost.
THEOREM SessionsAreRenewed == Spec => []SessionsRenew
<1>1. PollingInv => SessionsRenew
  BY DEF PollingInv
<1> QED
  BY <1>1, PollingInductive, PTL

\* _ingest takes a failure for over only when it is, at every poll of every
\* collector, but for outposts and a UPS, whose unread parts are not declared,
\* and for what is past the limit of a listing.
THEOREM WhatIsResolvedIsOver == Spec => ResolvedIsOver
<1>1. PollingInv /\ [Next]_vars =>
        [\A i \in DOMAIN known :
           (known[i] \in BAD /\ ~Undeclared(i) /\ (i \notin DOMAIN known' \/ known'[i] = OK))
             => i \notin Faults(key, troubles') \ CutOff(key, troubles')]_vars
  <2> SUFFICES ASSUME PollingInv, Next
               PROVE  \A i \in DOMAIN known :
                        (known[i] \in BAD /\ ~Undeclared(i) /\ (i \notin DOMAIN known' \/ known'[i] = OK))
                          => i \notin Faults(key, troubles') \ CutOff(key, troubles')
    OBVIOUS
  <2>1. CASE Poll
    BY <2>1, PollTells DEF PollingInv
  <2>2. CASE Revoke
    BY <2>2, OnlyLogin DEF Revoke
  <2>3. CASE Outdate
    BY <2>3, OnlyLogin DEF Outdate
  <2> QED
    BY <2>1, <2>2, <2>3 DEF Next
<1> QED
  BY <1>1, PollingInductive, PTL DEF Spec, ResolvedIsOver
=============================================================================
