----------------------------- MODULE AlertEngine -----------------------------
(***************************************************************************)
(* The alert lifecycle of app/scheduler.py: what each collector poll does  *)
(* to the engine's state of every check, what of it reaches the severity   *)
(* cache in SQLite, and how the alert worker settles, in batches sent to   *)
(* one webhook, the debts that state implies.                              *)
(*                                                                         *)
(* The engine is one asyncio event loop.  `_ingest', `_mark_notified' and  *)
(* the part of a drain before `_deliver' contain no await, so each is one  *)
(* step; the only place another handler can run in the middle of an alert  *)
(* drain is the HTTP request, hence the separate steps that start and end  *)
(* a delivery.  The process may stop in an orderly way, may be killed at   *)
(* any point, and is started again from what the database holds.           *)
(*                                                                         *)
(* An id is a check's id or, for the engine's own check `panel.<key>' on a *)
(* collector's reachability, the panel itself.                             *)
(***************************************************************************)
EXTENDS Severity, FiniteSets

CONSTANTS
  Checks,       \* ids that collectors publish
  Panels,       \* collector keys
  PanelOf,      \* the collector that publishes a check
  Ephemeral,    \* checks that stand for an event (Check.ephemeral)
  Steady,       \* checks every successful poll reports or declares unread
  Mutable,      \* ids the operator may mute
  Reported,     \* severities the collectors emit
  Configs,      \* configurations a start may find in config.yaml
  Disturbances  \* what the environment may do, see below

Ids == Checks \cup Panels
Owner(i) == IF i \in Panels THEN i ELSE PanelOf[i]
ChecksOf(p) == {c \in Checks : PanelOf[c] = p}

(***************************************************************************)
(* The environment.  "crash": the process is killed.  "stop": it is        *)
(* stopped in order.  "refuse": a delivery fails and the webhook did not   *)
(* get it.  "ambiguous": a delivery the webhook did get ends without the   *)
(* engine learning so (the answer is lost, the process dies or is stopped  *)
(* meanwhile).  "db": a best-effort write to the severity cache fails.     *)
(* "event": appending to the event log raises in the middle of a poll.     *)
(***************************************************************************)
AllDisturbances == {"crash", "stop", "refuse", "ambiguous", "db", "event"}

Config == [enabled : SUBSET Panels, configured : BOOLEAN, floor : Severities]

ASSUME IdsAssumption == /\ Checks \cap Panels = {}
                        /\ PanelOf \in [Checks -> Panels]
ASSUME KindsAssumption == /\ Ephemeral \subseteq Checks
                          /\ Steady \subseteq Checks
                          /\ Mutable \subseteq Ids
ASSUME InputsAssumption == /\ Reported \subseteq Severities
                           /\ Configs \subseteq Config
                           /\ Disturbances \subseteq AllDisturbances

VARIABLES
  phase,     \* "down", "up", "stopping" (tasks cancelled), "closing" (final drain made)
  conf,      \* the configuration of the running engine
  grace,     \* startup grace has not elapsed
  state,     \* Engine._state
  baseline,  \* Engine._panel_checks
  polled,    \* the panels that have an entry in _panel_checks
  batch,     \* the transitions of the request in flight: id -> new severity
  waiting,   \* time.time() < _alert_next
  db,        \* the check_severity table
  mutes,     \* the mutes that are active now
  heard      \* per id, the last word the webhook's receiver was given

engineVars == <<phase, conf, grace, state, baseline, polled, batch, waiting>>
vars == <<phase, conf, grace, state, baseline, polled, batch, waiting, db, mutes, heard>>
-----------------------------------------------------------------------------
(* Entries of _state and rows of check_severity.  `absent' stands for an   *)
(* id that has none.                                                       *)

Observed == Severities \cup {"absent"}
Notified == Severities \cup {None}

Entry == [severity : Observed, notified : Notified, gone : BOOLEAN, delivered : BOOLEAN]
Row   == [severity : Observed, notified : Notified]

NoEntry == [severity |-> "absent", notified |-> None, gone |-> FALSE, delivered |-> FALSE]
NoRow   == [severity |-> "absent", notified |-> None]

Absent(e) == e.severity = "absent"
Known(st) == {i \in Ids : ~Absent(st[i])}

NoBatch == [i \in Ids |-> None]
Delivering == batch # NoBatch

Sighted_OwesNew(e, s) ==  \* faulty: the label for `no previous state' is stored
  IF Absent(e)
  THEN [NoEntry EXCEPT !.severity = s, !.notified = IF s \in BAD THEN "new" ELSE s]
  ELSE [e EXCEPT !.severity = s, !.gone = FALSE]

\* A check is seen at severity s.  First sight of a failure owes its
\* notification; first sight of anything else is not news.
Sighted(e, s) ==
  IF Absent(e)
  THEN [NoEntry EXCEPT !.severity = s, !.notified = IF s \in BAD THEN None ELSE s]
  ELSE [e EXCEPT !.severity = s, !.gone = FALSE]

\* A check whose absence says it resolved: observed OK until that is told.
Tombstone(e) == [e EXCEPT !.severity = OK, !.gone = TRUE]

Lapses_OnlyEvents(c, e) ==  \* faulty: a failure nobody was told of leaves a tombstone
  IF e.gone THEN e.severity = e.notified ELSE c \in Ephemeral
Lapses_Always(c, e) ==  \* faulty: vanishing is forgetting
  TRUE

\* An absent check that owes nothing more, or was only an event.
Lapses(c, e) == IF e.gone THEN e.severity = e.notified
                ELSE c \in Ephemeral \/ e.notified \notin BAD

(***************************************************************************)
(* Writes to the severity cache.  save_severities keeps the stored         *)
(* `notified' where the row to save has none; it and forget_severities are *)
(* best effort: their errors are logged and swallowed.                     *)
(***************************************************************************)
WriteOutcome == IF "db" \in Disturbances THEN [save : BOOLEAN, forget : BOOLEAN]
                ELSE {[save |-> TRUE, forget |-> TRUE]}

SavedRow_KeepsStored(e, row) ==  \* faulty: the arguments of COALESCE swapped
  [severity |-> e.severity,
   notified |-> IF row.notified = None THEN e.notified ELSE row.notified]

SavedRow(e, row) ==
  [severity |-> e.severity,
   notified |-> IF e.notified = None THEN row.notified ELSE e.notified]

Written(table, st, rows, gone, o) ==
  [i \in Ids |-> CASE i \in rows /\ o.save   -> SavedRow(st[i], table[i])
                   [] i \in gone /\ o.forget -> NoRow
                   [] OTHER                  -> table[i]]
-----------------------------------------------------------------------------
(***************************************************************************)
(* One poll.  A successful one reports a severity for each check it        *)
(* publishes and names the absent checks it could not read; a failed one   *)
(* has no checks at all.                                                   *)
(***************************************************************************)
Reports(p) ==
  {r \in [Checks -> Reported \cup {None}] : \A c \in Checks : PanelOf[c] # p => r[c] = None}

Published(r) == {c \in Checks : r[c] # None}

Unread(p, r) ==
  {u \in SUBSET (ChecksOf(p) \ Published(r)) : Steady \cap ChecksOf(p) \subseteq Published(r) \cup u}

\* What the panel published before; on its first success since startup,
\* what the restored state says it published.
Before(p, st) == IF p \in polled THEN baseline[p] ELSE ChecksOf(p) \cap Known(st)

\* Absent this time: not published, though known and published before.
Missing(p, r) == {c \in Before(p, state) \ Published(r) : ~Absent(state[c])}

\* Of those, the ones the poll says something about, and what it says.
Vanished(p, r, u) == Missing(p, r) \ u
Lapsed(p, r, u)   == {c \in Vanished(p, r, u) : Lapses(c, state[c])}
Entombed(p, r, u) == {c \in Vanished(p, r, u) \ Lapsed(p, r, u) : ~state[c].gone}

AfterChecks(p, r, u) ==
  [i \in Ids |-> CASE i \in Published(r)       -> Sighted(state[i], r[i])
                   [] i \in Lapsed(p, r, u)    -> NoEntry
                   [] i \in Entombed(p, r, u)  -> Tombstone(state[i])
                   [] OTHER                    -> state[i]]

\* _ingest of a panel without an error, _panel_transitions included.
IngestSuccess(p, r, u, o) ==
  LET after == [AfterChecks(p, r, u) EXCEPT ![p] = Sighted(@, OK)] IN
  /\ state' = after
  /\ baseline' = [baseline EXCEPT ![p] = Published(r) \cup (Missing(p, r) \ Lapsed(p, r, u))]
  /\ polled' = polled \cup {p}
  /\ db' = Written(db, after, Published(r) \cup Entombed(p, r, u) \cup {p}, Lapsed(p, r, u), o)

\* _ingest of an error panel: only the collector's own reachability moves.
IngestFailure(p, o) ==
  /\ state' = [state EXCEPT ![p] = Sighted(@, CRITICAL)]
  /\ db' = Written(db, state', {p}, {}, o)
  /\ UNCHANGED <<baseline, polled>>

PollSucceeds(p) ==
  /\ phase = "up"
  /\ p \in conf.enabled
  /\ \E r \in Reports(p) : \E u \in Unread(p, r), o \in WriteOutcome : IngestSuccess(p, r, u, o)
  /\ UNCHANGED <<phase, conf, grace, batch, waiting, mutes, heard>>

PollFails(p) ==
  /\ phase = "up"
  /\ p \in conf.enabled
  /\ \E o \in WriteOutcome : IngestFailure(p, o)
  /\ UNCHANGED <<phase, conf, grace, batch, waiting, mutes, heard>>

(***************************************************************************)
(* record_event is not best effort: where it raises, the poll ends there   *)
(* and the collector's loop logs the error.  What _ingest had changed in   *)
(* memory stays changed; what it had not yet written is not written.  The  *)
(* checks are handled one at a time, and here `done' came before x.        *)
(***************************************************************************)
NeedsEvent(e, s) == IF Absent(e) THEN s \in BAD ELSE e.gone \/ e.severity # s

HalfSighted(e, s) == IF Absent(e) THEN Sighted(e, s) ELSE [e EXCEPT !.gone = FALSE]

AbortsAtCheck(p) ==
  /\ \E r \in Reports(p) : \E x \in Published(r) : \E done \in SUBSET (Published(r) \ {x}) :
       /\ NeedsEvent(state[x], r[x])
       /\ state' = [i \in Ids |-> CASE i \in done -> Sighted(state[i], r[i])
                                    [] i = x     -> HalfSighted(state[i], r[i])
                                    [] OTHER     -> state[i]]
  /\ UNCHANGED <<baseline, polled, db>>

AbortsAtVanished(p) ==
  /\ \E r \in Reports(p) : \E u \in Unread(p, r) : \E x \in Vanished(p, r, u) :
       /\ ~state[x].gone /\ state[x].severity # OK
       /\ \E done \in SUBSET (Vanished(p, r, u) \ {x}) :
            state' = [i \in Ids |->
                        CASE i \in Published(r)                              -> Sighted(state[i], r[i])
                          [] i \in done \ Ephemeral /\ ~state[i].gone       -> Tombstone(state[i])
                          [] OTHER                                           -> state[i]]
  /\ UNCHANGED <<baseline, polled, db>>

\* The checks are done; the collector's own reachability has changed in memory
\* before its event is recorded, and no row is written.
AbortsAtPanel(p) ==
  \/ \E r \in Reports(p) : \E u \in Unread(p, r), o \in WriteOutcome :
       /\ ~Absent(state[p]) /\ state[p].severity # OK
       /\ state' = [AfterChecks(p, r, u) EXCEPT ![p] = Sighted(@, OK)]
       /\ baseline' = [baseline EXCEPT ![p] = Published(r) \cup (Missing(p, r) \ Lapsed(p, r, u))]
       /\ polled' = polled \cup {p}
       /\ db' = Written(db, state', {}, Lapsed(p, r, u), o)
  \/ /\ state[p].severity # CRITICAL
     /\ state' = [state EXCEPT ![p] = Sighted(@, CRITICAL)]
     /\ UNCHANGED <<baseline, polled, db>>

PollAborts(p) ==
  /\ "event" \in Disturbances
  /\ phase = "up"
  /\ p \in conf.enabled
  /\ AbortsAtCheck(p) \/ AbortsAtVanished(p) \/ AbortsAtPanel(p)
  /\ UNCHANGED <<phase, conf, grace, batch, waiting, mutes, heard>>
-----------------------------------------------------------------------------
(***************************************************************************)
(* Debts.  A check owes a notification while what was last notified is not *)
(* what is observed now; `unknown' is no claim and owes nothing.           *)
(***************************************************************************)
OwesIn(st) == {i \in Known(st) : st[i].severity \notin {st[i].notified, UNKNOWN}}
Owes == OwesIn(state)

\* _owed() as the worker sees it: nothing during grace, no muted checks.
Owed == IF grace THEN {} ELSE Owes \ mutes

\* The receiver was told of the failure that is now over or changed.
ReceiverKnowsOld(e) ==
  e.notified \in BAD /\ (rank(e.notified) >= rank(conf.floor) \/ e.delivered)

Notable(e) == rank(e.severity) >= rank(conf.floor) \/ ReceiverKnowsOld(e)

(***************************************************************************)
(* _mark_notified for the transitions `told' (id -> new severity, or None  *)
(* for an id not among them).  A tombstone whose debt is paid is dropped.  *)
(* Its two writes share one `suppress': the second is only reached when    *)
(* the first did not raise.                                                *)
(***************************************************************************)
Marked(st, told, sent) ==
  [i \in Ids |->
     IF told[i] = None \/ Absent(st[i]) THEN st[i]
     ELSE IF st[i].gone /\ st[i].severity = told[i] THEN NoEntry
     ELSE [st[i] EXCEPT !.notified = told[i], !.delivered = sent]]

Paid(st, told) ==
  {i \in Known(st) : told[i] # None /\ st[i].gone /\ st[i].severity = told[i]}

Rows(st, told) == {i \in Known(st) : told[i] # None} \ Paid(st, told)

MarkedRows(table, st, told, o) ==
  Written(table, Marked(st, told, FALSE), Rows(st, told), Paid(st, told),
          [o EXCEPT !.forget = @ /\ (o.save \/ Rows(st, told) = {})])

Without_Nothing(checks) ==  \* faulty: a settled tombstone stays in the baseline
  baseline

Without(checks) == [p \in Panels |-> baseline[p] \ checks]

\* What the engine would say now about the ids in S.
News(S) == [i \in Ids |-> IF i \in S THEN state[i].severity ELSE None]
-----------------------------------------------------------------------------
MutedRecoveries_AnyDebt ==  \* faulty: a mute settles failures too
  Owes \cap mutes

(***************************************************************************)
(* _drain_alerts_once up to the request.  Muted recoveries are settled     *)
(* without a word; so is everything when no webhook is configured, and     *)
(* what is not notable.  The rest goes out in one batch, unless the        *)
(* backoff is running and the drain is not the last one of a shutdown.     *)
(***************************************************************************)
MutedRecoveries == {i \in Owes \cap mutes : state[i].severity = OK}

ToSend == IF conf.configured THEN {i \in Owed : Notable(state[i])} ELSE {}

Drain(force) ==
  LET silent == Owed \ ToSend IN
  \E o1, o2 \in WriteOutcome :
    /\ state' = Marked(state, News(MutedRecoveries \cup silent), FALSE)
    /\ db' = MarkedRows(MarkedRows(db, state, News(MutedRecoveries), o1), state, News(silent), o2)
    /\ baseline' = Without(Paid(state, News(MutedRecoveries \cup silent)))
    /\ batch' = IF ToSend # {} /\ (force \/ ~waiting) THEN News(ToSend) ELSE NoBatch

WorkerDrains ==
  /\ phase = "up"
  /\ ~grace
  /\ ~Delivering
  /\ Drain(FALSE)
  /\ UNCHANGED <<phase, conf, grace, polled, waiting, mutes, heard>>

\* The receiver gets the request.
HeardAfter(got) == [i \in Ids |-> IF got /\ batch[i] # None THEN batch[i] ELSE heard[i]]

DeliveryAccepted_MarksCurrent ==  \* faulty: marks what is observed when the answer comes
  /\ Delivering
  /\ heard' = HeardAfter(TRUE)
  /\ LET now == [i \in Ids |-> IF batch[i] = None THEN None ELSE state[i].severity] IN
       /\ state' = Marked(state, now, TRUE)
       /\ \E o \in WriteOutcome : db' = MarkedRows(db, state, now, o)
       /\ baseline' = Without(Paid(state, now))
  /\ batch' = NoBatch
  /\ waiting' = FALSE
  /\ UNCHANGED <<phase, conf, grace, polled, mutes>>

\* A 2xx: every transition of the batch is marked with what was sent,
\* whatever the entry has become meanwhile.
DeliveryAccepted ==
  /\ Delivering
  /\ heard' = HeardAfter(TRUE)
  /\ state' = Marked(state, batch, TRUE)
  /\ \E o \in WriteOutcome : db' = MarkedRows(db, state, batch, o)
  /\ baseline' = Without(Paid(state, batch))
  /\ batch' = NoBatch
  /\ waiting' = FALSE
  /\ UNCHANGED <<phase, conf, grace, polled, mutes>>

Receipt == {got \in BOOLEAN : got => "ambiguous" \in Disturbances}

DeliveryFails_GivesUp ==  \* faulty: a refused batch is settled
  /\ Delivering
  /\ Disturbances \cap {"refuse", "ambiguous"} # {}
  /\ \E got \in Receipt : (~got => "refuse" \in Disturbances) /\ heard' = HeardAfter(got)
  /\ state' = Marked(state, batch, FALSE)
  /\ \E o \in WriteOutcome : db' = MarkedRows(db, state, batch, o)
  /\ batch' = NoBatch
  /\ waiting' = TRUE
  /\ UNCHANGED <<phase, conf, grace, baseline, polled, mutes>>

\* Anything else: nothing is settled, and the next attempt has to wait.
DeliveryFails ==
  /\ Delivering
  /\ Disturbances \cap {"refuse", "ambiguous"} # {}
  /\ \E got \in Receipt : (~got => "refuse" \in Disturbances) /\ heard' = HeardAfter(got)
  /\ batch' = NoBatch
  /\ waiting' = TRUE
  /\ UNCHANGED <<phase, conf, grace, state, baseline, polled, db, mutes>>

\* Time passes: the backoff is over, startup grace is over.
RetryDue ==
  /\ phase = "up" /\ waiting
  /\ waiting' = FALSE
  /\ UNCHANGED <<phase, conf, grace, state, baseline, polled, batch, db, mutes, heard>>

GraceEnds ==
  /\ phase = "up" /\ grace
  /\ grace' = FALSE
  /\ UNCHANGED <<phase, conf, state, baseline, polled, batch, waiting, db, mutes, heard>>
-----------------------------------------------------------------------------
(* Mutes live in the database; a timed one ends whether or not the engine  *)
(* is running.                                                             *)
Mute(i) ==
  /\ phase = "up" /\ i \notin mutes
  /\ mutes' = mutes \cup {i}
  /\ UNCHANGED <<engineVars, db, heard>>

MuteEnds(i) ==
  /\ i \in mutes
  /\ mutes' = mutes \ {i}
  /\ UNCHANGED <<engineVars, db, heard>>
-----------------------------------------------------------------------------
(* Starting and stopping.  What is not in the database is lost.            *)
MemoryLost ==
  /\ phase' = "down"
  /\ grace' = FALSE
  /\ state' = [i \in Ids |-> NoEntry]
  /\ baseline' = [p \in Panels |-> {}]
  /\ polled' = {}
  /\ batch' = NoBatch
  /\ waiting' = FALSE
  /\ UNCHANGED conf

Restored_Unnotified(row) ==  \* faulty: only the severity is restored
  [NoEntry EXCEPT !.severity = row.severity]
Restored_NullIsSeverity(row) ==  \* faulty: a NULL is read as `notified at this severity'
  [NoEntry EXCEPT !.severity = row.severity,
                  !.notified = IF row.notified = None /\ row.severity # "absent" THEN row.severity
                               ELSE row.notified]

Restored(row) ==
  [NoEntry EXCEPT !.severity = row.severity, !.notified = row.notified]

Retired_None(cf) ==  \* faulty: everything is restored
  {}

Retired(cf) == {i \in Ids : Owner(i) \notin cf.enabled}

Start_KeepsRows ==  \* faulty: retired entries leave memory but not the table
  /\ phase = "down"
  /\ phase' = "up"
  /\ grace' = TRUE
  /\ conf' \in Configs
  /\ state' = [i \in Ids |-> IF i \in Retired(conf') THEN NoEntry ELSE Restored(db[i])]
  /\ UNCHANGED <<baseline, polled, batch, waiting, db, mutes, heard>>

\* Rows of collectors that are no longer enabled are dropped.  A table that
\* cannot be read leaves the engine with an empty cache.
Start ==
  /\ phase = "down"
  /\ phase' = "up"
  /\ grace' = TRUE
  /\ conf' \in Configs
  /\ \/ /\ state' = [i \in Ids |-> IF i \in Retired(conf') THEN NoEntry ELSE Restored(db[i])]
        /\ \E o \in WriteOutcome : db' = Written(db, state', {}, Retired(conf'), o)
     \/ /\ "db" \in Disturbances
        /\ state' = [i \in Ids |-> NoEntry]
        /\ UNCHANGED db
  /\ UNCHANGED <<baseline, polled, batch, waiting, mutes, heard>>

\* stop(): the tasks are cancelled, a delivery in flight with them.
Stop ==
  /\ "stop" \in Disturbances
  /\ phase = "up"
  /\ phase' = "stopping"
  /\ \E got \in Receipt : heard' = HeardAfter(got)
  /\ batch' = NoBatch
  /\ UNCHANGED <<conf, grace, state, baseline, polled, waiting, db, mutes>>

\* One more chance for what is owed, whatever the backoff says ...
FinalDrain ==
  /\ phase = "stopping"
  /\ Owed # {}
  /\ Drain(TRUE)
  /\ phase' = "closing"
  /\ UNCHANGED <<conf, grace, polled, waiting, mutes, heard>>

\* ... and no more than five seconds of it.
FinalTimeout ==
  /\ phase = "closing" /\ Delivering
  /\ \E got \in Receipt : heard' = HeardAfter(got)
  /\ batch' = NoBatch
  /\ UNCHANGED <<phase, conf, grace, state, baseline, polled, waiting, db, mutes>>

Halt_WhenPaid ==  \* faulty: waits until everything owed is settled
  /\ phase \in {"stopping", "closing"} /\ ~Delivering
  /\ Owed = {}
  /\ MemoryLost
  /\ UNCHANGED <<db, mutes, heard>>

Halt ==
  /\ \/ phase = "stopping" /\ Owed = {}
     \/ phase = "closing" /\ ~Delivering
  /\ MemoryLost
  /\ UNCHANGED <<db, mutes, heard>>

Crash ==
  /\ "crash" \in Disturbances
  /\ phase # "down"
  /\ \E got \in Receipt : heard' = HeardAfter(got)
  /\ MemoryLost
  /\ UNCHANGED <<db, mutes>>
-----------------------------------------------------------------------------
Init ==
  /\ phase = "down"
  /\ conf \in Configs
  /\ grace = FALSE
  /\ state = [i \in Ids |-> NoEntry]
  /\ baseline = [p \in Panels |-> {}]
  /\ polled = {}
  /\ batch = NoBatch
  /\ waiting = FALSE
  /\ db = [i \in Ids |-> NoRow]
  /\ mutes = {}
  /\ heard = [i \in Ids |-> None]

Next ==
  \/ \E p \in Panels : PollSucceeds(p) \/ PollFails(p) \/ PollAborts(p)
  \/ WorkerDrains \/ DeliveryAccepted \/ DeliveryFails \/ RetryDue \/ GraceEnds
  \/ \E i \in Mutable : Mute(i) \/ MuteEnds(i)
  \/ Start \/ Stop \/ FinalDrain \/ FinalTimeout \/ Halt \/ Crash

Spec == Init /\ [][Next]_vars

(***************************************************************************)
(* Fairness.  The alert worker wakes every two seconds, a request ends     *)
(* within the client's ten, a shutdown's final drain within five; the      *)
(* clock ends backoff and grace.  A webhook that is asked again and again  *)
(* answers 2xx at last.  Nothing is assumed of the polls.                  *)
(***************************************************************************)
Fairness ==
  /\ WF_vars(WorkerDrains)
  /\ WF_vars(DeliveryAccepted \/ DeliveryFails)
  /\ SF_vars(DeliveryAccepted)
  /\ WF_vars(RetryDue) /\ WF_vars(GraceEnds)
  /\ WF_vars(FinalDrain) /\ WF_vars(FinalTimeout) /\ WF_vars(Halt)

FairSpec == Spec /\ Fairness
-----------------------------------------------------------------------------
TypeOK ==
  /\ phase \in {"down", "up", "stopping", "closing"}
  /\ conf \in Config
  /\ grace \in BOOLEAN
  /\ state \in [Ids -> Entry]
  /\ baseline \in [Panels -> SUBSET Checks]
  /\ polled \in SUBSET Panels
  /\ batch \in [Ids -> Severities \cup {None}]
  /\ waiting \in BOOLEAN
  /\ db \in [Ids -> Row]
  /\ mutes \in SUBSET Mutable
  /\ heard \in [Ids -> Severities \cup {None}]

(***************************************************************************)
(* Safety.                                                                 *)
(***************************************************************************)

\* Whatever a kill finds in memory about any check, the database holds too:
\* `Debts survive restarts because both sides live in the database'.  Every
\* handler that touches _state has to save or forget exactly what it touched,
\* and the NULL that save_severities reads as `leave what is stored' must
\* never meet a stored value.
DurableDebts ==
  phase # "down" =>
    \A i \in Ids : db[i] = [severity |-> state[i].severity, notified |-> state[i].notified]

\* A check that vanished stays in memory only as a tombstone that is observed
\* OK and owes the recovery of a failure that was notified; and the panel's
\* baseline still holds it, so the next polls and the settlement find it.
TombstonesOwe ==
  \A i \in Ids : state[i].gone =>
    /\ state[i].severity = OK
    /\ state[i].notified \in BAD
    /\ Owner(i) \in polled /\ i \in baseline[Owner(i)]

\* Once a panel has been polled, its baseline is exactly the checks the
\* engine knows of it: one that is missing from the baseline could vanish
\* unnoticed, one that is only in the baseline would be resolved twice.
BaselineComplete ==
  \A p \in polled : baseline[p] = ChecksOf(p) \cap Known(state)

\* Ids whose last word can be held against the engine: a mute settles a
\* recovery without telling, an event ages out, and what vanished or was
\* disabled starts from nothing when it comes back.
Lasting == {i \in (Steady \cup Panels) \ Mutable : \A cf \in Configs : Owner(i) \in cf.enabled}

\* The receiver's last word about a check is what the engine has it notified
\* at, or it never was of a failure and the state is one below the floor.
\* Nothing the polls do between the start and the end of a delivery, and no
\* restart, may make the two differ.
LastWordTrue ==
  phase = "up" /\ conf.configured =>
    \A i \in Lasting :
      \/ heard[i] = state[i].notified
      \/ /\ heard[i] \notin BAD
         /\ state[i].notified = None \/ rank(state[i].notified) < rank(conf.floor)

\* A request never carries what the receiver's last word already was: `once
\* when something breaks, once when it recovers, no repeat spam'.
EveryMessageIsNews ==
  \A i \in Lasting : batch[i] # None => batch[i] # heard[i]

\* After a start, nothing is known of a collector that is not enabled, so
\* nothing is owed for it.
OnlyEnabledKnown == \A i \in Known(state) : Owner(i) \in conf.enabled

(***************************************************************************)
(* What a step may never do.                                               *)
(***************************************************************************)

\* Nobody is told that something recovered who was not told it had failed.
\* It takes every settlement that sends nothing (muted, below the floor,
\* restored, restarted half way) to keep `notified' from claiming a failure
\* the receiver never heard of.
FirstWordIsFailure == [][\A i \in Ids : heard[i] = None => heard'[i] # OK]_heard

\* A muted failure keeps its debt: while a check is muted it becomes notified
\* of a failure only by a request that was in flight when the mute was set.
MutedFailureStaysOwed ==
  [][phase = "up" =>
       \A i \in mutes : state'[i].notified \in BAD \ {state[i].notified} => batch[i] = state'[i].notified]_vars

\* A check that is no event, and whose failure was notified at or above the
\* floor, is forgotten only in the step that tells its recovery, or while it
\* is muted.
ForgottenOnlyWhenTold ==
  [][\A i \in Ids \ Ephemeral :
       /\ phase = "up" /\ phase' = "up" /\ conf.configured
       /\ state[i].notified \in BAD /\ rank(state[i].notified) >= rank(conf.floor)
       /\ Absent(state'[i])
       => heard'[i] = OK \/ i \in mutes]_vars

(***************************************************************************)
(* Liveness, under FairSpec.                                               *)
(***************************************************************************)

\* A check that stays at one severity in a running engine ends up notified
\* at it, and at or above the floor the receiver has heard it, through any
\* finite number of failed deliveries, backoffs, mutes that end, and grace.
Converges ==
  \A i \in Ids, s \in {OK, WARNING, CRITICAL} :
    <>[](phase = "up" /\ i \notin mutes /\ state[i].severity = s) =>
    <>[](/\ state[i].notified = s
         /\ conf.configured /\ rank(s) >= rank(conf.floor) => heard[i] = s)

\* Stopping ends, with a webhook that never answers and debts that remain.
StopEnds == phase = "stopping" ~> phase = "down"
=============================================================================
