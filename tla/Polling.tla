------------------------------ MODULE Polling -------------------------------
(***************************************************************************)
(* One collector polls its product again and again: what the panel says,   *)
(* what the engine holds of it from poll to poll, and the session with the *)
(* product that a collector keeps between polls.                           *)
(***************************************************************************)
EXTENDS Products

VARIABLES
  key,       \* the collector that this behaviour is about
  troubles,  \* what was the matter with the product at the last poll, if that read anything
  answered,  \* every request of the last poll was answered
  panel,     \* the last panel
  known,     \* id -> severity, as the engine holds it after the last poll
  login      \* "none", "good", or "dead": kept here, but refused by the product

vars == <<key, troubles, answered, panel, known, login>>

Collect(c, w, r) ==
  CASE c = "proxmox"      -> Proxmox(w, r)
    [] c = "wazuh"        -> Wazuh(w, r)
    [] c = "authentik"    -> Authentik(w, r)
    [] c = "splunk"       -> Splunk(w, r)
    [] c = "unifi"        -> Unifi(w, r)
    [] c = "pihole"       -> Pihole(w, r)
    [] c = "ups"          -> Ups(w, r)
    [] c = "backups"      -> Backups(w, r)
    [] c = "cloudflare"   -> Cloudflare(w, r)
    [] c = "wan"          -> Wan(w, r)
    [] c = "jellyfin"     -> Jellyfin(w, r)
    [] c = "host_metrics" -> HostMetrics(w)
    [] c = "services"     -> Services(w)
    [] c = "fleet"        -> Fleet(w, r)
    [] c = "dns"          -> Dns(w)
    [] c = "certificates" -> Certificates(w)

\* Collectors that keep a token, a session id, cookies or an authorisation.
\* All but backups drop what is refused, and sign in once more.
Sessions  == {"wazuh", "pihole", "unifi", "backups"}
Renewing  == Sessions \ {"backups"}

SignedIn_Once(c, r) ==  \* faulty: a refusal is final
  IF login = "none" /\ Answers(r.auth) THEN "good" ELSE login

\* The session that the requests of a poll end up with.
SignedIn(c, r) ==
  CASE login = "good" -> "good"
    [] login = "dead" /\ c \notin Renewing -> "dead"
    [] OTHER -> IF Answers(r.auth) THEN "good" ELSE "none"

TypeOK ==
  /\ key \in Keys
  /\ troubles \in States(key)
  /\ answered \in BOOLEAN
  /\ panel.error \in BOOLEAN
  /\ \A check \in panel.checks : check.severity \in Severities /\ ~Covered(check.id, panel.unread \ {check.id})
  /\ \A check, other \in panel.checks : check.id = other.id => check = other
  /\ \A i \in DOMAIN known : known[i] \in Severities
  /\ login \in {"none", "good", "dead"}

Init ==
  /\ key \in Keys
  /\ troubles = [i \in {} |-> None]
  /\ answered = FALSE
  /\ panel = Failed
  /\ known = [i \in {} |-> None]
  /\ login = "none"

\* Collector.run, and what _ingest makes of it.
Poll ==
  \E T \in States(key), r \in Replies(key) :
    /\ answered' = AllAnswered(key, r)
    /\ login' = IF key \in Sessions THEN SignedIn(key, r) ELSE login
    /\ panel' = IF key \in Sessions /\ login' # "good" THEN Failed ELSE Collect(key, Product(key, T), r)
    /\ troubles' = IF panel'.error THEN [i \in {} |-> None] ELSE T
    /\ known' = Ingested(known, panel')
    /\ UNCHANGED key

\* The product restarts, or gives the session's place to another client.
Revoke ==
  /\ login = "good"
  /\ login' = "dead"
  /\ UNCHANGED <<key, troubles, answered, panel, known>>

\* What the collector keeps has become older than it trusts it to be.
Outdate ==
  /\ login # "none"
  /\ key # "unifi"
  /\ login' = "none"
  /\ UNCHANGED <<key, troubles, answered, panel, known>>

Next == Poll \/ Revoke \/ Outdate
Spec == Init /\ [][Next]_vars

-----------------------------------------------------------------------------
\* Parts whose failure to be read the code does not declare.
Undeclared(i) == IsPrefix(<<"authentik", "outpost">>, i) \/ key = "ups"

\* A failure that the engine takes for over is over, or the product has more to
\* list than was asked of it: whatever part of a poll fails, and however often,
\* absence of a check is never read as recovery for any other reason.
ResolvedIsOver ==
  [][\A i \in DOMAIN known :
       (known[i] \in BAD /\ ~Undeclared(i) /\ (i \notin DOMAIN known' \/ known'[i] = OK))
         => i \notin Faults(key, troubles') \ CutOff(key, troubles')]_vars

\* The same of every part that could not be read: it is declared, and nothing
\* is inferred from its absence.
UnreadInfersNothing ==
  [][\A i \in DOMAIN known :
       (known[i] \in BAD /\ (i \notin DOMAIN known' \/ known'[i] = OK))
         => i \notin Faults(key, troubles') \ CutOff(key, troubles')]_vars

\* After a poll that read everything, the engine holds as bad nothing but the
\* failures there are, none left over from before; and all of them, none hidden
\* behind another, but for what exceeds the limit of a listing.
CompletePollIsExact ==
  (answered /\ ~panel.error /\ panel.unread = {})
    => LET bad == {i \in DOMAIN known : known[i] \in BAD}
       IN  bad \subseteq Faults(key, troubles) /\ Faults(key, troubles) \ bad \subseteq CutOff(key, troubles)

\* A panel is healthy only if nothing is wrong with the product: not when the
\* part that would have said so failed, or answered with nothing.
GreenMeansWell == Resolved(panel) = OK => Faults(key, troubles) = {}

\* A session that the product has forgotten costs nothing: if it answers every
\* request and the credentials, the poll succeeds.
SessionsRenew == (answered /\ key \in Renewing) => ~panel.error
=============================================================================
