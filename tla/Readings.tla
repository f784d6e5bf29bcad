------------------------------ MODULE Readings ------------------------------
(***************************************************************************)
(* What the panel makes of its readings over time: the board of the last   *)
(* polls (Engine.snapshot), and the availability of one check, told from   *)
(* the log of its transitions and of the polls (Store.availability).       *)
(*                                                                         *)
(* Time passes in ticks, of which a poll interval has `Interval'; what     *)
(* happens within one carries the same time stamp.  Whether a check that   *)
(* vanished still owes a message, module AlertEngine tells; here it may.   *)
(***************************************************************************)
EXTENDS Integers, Sequences, FiniteSets, Severity

CONSTANTS
  PanelOf,    \* check -> the collector that publishes it
  Gap,        \* the placeholder check of a section that was not read
  Reports,    \* check -> the severities it may be published with
  Interval,   \* ticks between the polls of a collector
  Retention,  \* ticks that poll.history_retention_days stands for
  MuteTicks,  \* how long a mute that ends may last
  Instances   \* what the configuration, its operator and the bounds may be

STALE_FACTOR == 3

\* The last poll is vouched for this long.
Reach == STALE_FACTOR * Interval

\* [enabled: collectors, followed: the check whose availability is asked for,
\* mutable: checks that are muted at times, until: bound on the clock]
ASSUME InstanceAssumption ==
  /\ Interval \in Nat \ {0}
  /\ Retention \in Nat /\ 2 * Retention > Reach
  /\ \A i \in Instances : i.until \in Nat /\ IsFiniteSet(i.enabled)

ASSUME ChecksAssumption == IsFiniteSet(DOMAIN PanelOf) /\ Gap \notin DOMAIN PanelOf

VARIABLES
  instance,  \* the member of Instances that this behaviour is about
  now,
  panels,    \* collector -> its last panel; not in memory before its first poll
  mutes,     \* muted check -> when that ends, or Forever
  known,     \* the engine's entry for the followed check, or Unheard
  row,       \* first_seen of its row in check_severity, or Unheard
  events,    \* its transitions in the event log
  obs,       \* when its collector was polled with success
  said,      \* ghost: what the collector last said of it
  heard,     \* ghost: when that was
  truth,     \* ghost: what could be said of it in every tick that passed
  unlogged   \* ghost: the severities between which its log missed a transition

vars == <<instance, now, panels, mutes, known, row, events, obs, said, heard, truth, unlogged>>
log == <<known, row, events, obs, said, heard, unlogged>>

Forever == -1  \* until NULL
Unheard == [heard |-> FALSE]
Nothing == "nothing"  \* no reading, or none of the check
STATE_NEW  == "new"
STATE_GONE == "gone"

Enabled  == instance.enabled
Followed == instance.followed
ChecksOf(c) == {x \in DOMAIN PanelOf : PanelOf[x] = c}

With(f, x, value) == [y \in DOMAIN f \cup {x} |-> IF y = x THEN value ELSE f[y]]

\* The transition a query for one row, by descending or by ascending time,
\* returns; no two of one check have the same time.
Latest(S)   == CHOOSE e \in S : \A f \in S : f.ts <= e.ts
Earliest(S) == CHOOSE e \in S : \A f \in S : e.ts <= f.ts

-----------------------------------------------------------------------------
\* The board: Engine.snapshot.

Muted(x) == x \in DOMAIN mutes /\ (mutes[x] = Forever \/ mutes[x] >= now)

Pending(c) == c \notin DOMAIN panels
Polled     == {c \in Enabled : ~Pending(c)}
Broken(c)  == panels[c].error

Stale_OneMore(c) ==  \* faulty: a reading is trusted for one interval more
  now - panels[c].ts > (STALE_FACTOR + 1) * Interval
Stale(c) == now - panels[c].ts > STALE_FACTOR * Interval

Published(c) == DOMAIN panels[c].checks
Live(c)      == {x \in Published(c) : ~Muted(x)}

\* What a reading can stand behind once it is stale.
Degraded(c, sev) == IF Stale(c) /\ sev = OK THEN UNKNOWN ELSE sev

PanelSeverity_Stale(c) ==  \* faulty: nothing is known of a panel that is stale
  IF Pending(c) \/ Broken(c) \/ Published(c) = {} \/ Stale(c) THEN UNKNOWN
  ELSE IF Live(c) = {} THEN OK
  ELSE worst({panels[c].checks[x] : x \in Live(c)})

PanelSeverity(c) ==
  IF Pending(c) \/ Broken(c) \/ Published(c) = {} THEN UNKNOWN
  ELSE IF Live(c) = {} THEN Degraded(c, OK)  \* all of it is silenced on purpose
  ELSE Degraded(c, worst({panels[c].checks[x] : x \in Live(c)}))

CheckSeverity(c, x) == Degraded(c, panels[c].checks[x])

\* How many checks that are not muted show a severity.
Count(sev) ==
  Cardinality({p \in Polled \X (DOMAIN PanelOf \cup {Gap}) :
                 p[2] \in Live(p[1]) /\ CheckSeverity(p[1], p[2]) = sev})

Overall == worst({PanelSeverity(c) : c \in Enabled})

\* The sentence at the top of the board, by what it says.
Headline ==
  IF Overall = CRITICAL THEN "critical issues need attention"
  ELSE IF Overall = WARNING THEN "things to look at"
  ELSE IF \E c \in Polled : Broken(c) THEN "can't reach"
  ELSE IF \E c \in Polled : Stale(c) THEN "no fresh reading"
  ELSE IF Polled # Enabled THEN "waiting for the first poll"
  ELSE IF \E c \in Polled : Published(c) = {} THEN "no readings"
  ELSE IF Count(UNKNOWN) > 0 THEN IF Count(OK) = 0 THEN "nothing usable yet" ELSE "could not be read"
  ELSE IF Count(OK) = 0 THEN "no checks are reporting"
  ELSE "everything is healthy"

-----------------------------------------------------------------------------
\* Availability: Store.availability, of the `window' ticks up to now.

Later(a, b) == IF a > b THEN a ELSE b

Start(window) == IF row = Unheard THEN now - window ELSE Later(now - window, row.first_seen)

Normalised(state) == IF state \in {STATE_NEW, STATE_GONE} THEN Nothing ELSE state

Before(window) == {e \in events : e.ts < Start(window)}
Within(window) == {e \in events : e.ts >= Start(window)}

\* What the endpoint takes for the severity of the check just now.
Current ==
  IF \E c \in Polled : Followed \in Published(c) THEN panels[PanelOf[Followed]].checks[Followed] ELSE UNKNOWN

\* No transition says what the check was when the window began.
Guessed(window) == Before(window) = {} /\ Within(window) = {} /\ row # Unheard

Entering(window) ==
  IF Before(window) # {} THEN Normalised(Latest(Before(window)).new)
  ELSE IF row = Unheard THEN Nothing
  ELSE IF Within(window) # {} THEN Normalised(Earliest(Within(window)).old)
  ELSE Current

StateAt(t, window) ==
  LET past == {e \in Within(window) : e.ts <= t}
  IN  IF past = {} THEN Entering(window) ELSE Normalised(Latest(past).new)

\* observed_spans: what a poll vouches for ends with its reach.
Looked_SinceFirst(t) ==  \* faulty: between two polls somebody is always looking
  \E o \in obs : o <= t
Looked(t) == \E o \in obs : o <= t /\ t < o + Reach

\* Without a row there is no collector whose polls could be asked for.
HasLog == row # Unheard /\ obs # {}

Spent(sev, window) ==
  Cardinality({t \in Start(window)..(now - 1) :
                 (HasLog => Looked(t)) /\ StateAt(t, window) = sev})

-----------------------------------------------------------------------------
Init ==
  /\ instance \in Instances
  /\ now = 0
  /\ panels = <<>>
  /\ mutes = <<>>
  /\ known = Unheard
  /\ row = Unheard
  /\ events = {}
  /\ obs = {}
  /\ said = Nothing
  /\ heard = 0
  /\ truth = <<>>
  /\ unlogged = {}

Logged(old, new) == events \cup {[ts |-> now, old |-> old, new |-> new]}

Sighted(sev) ==
  LET first == known = Unheard
      old   == IF first THEN STATE_NEW ELSE IF known.gone THEN STATE_GONE ELSE known.severity
  IN  /\ known' = [heard |-> TRUE, severity |-> sev, gone |-> FALSE]
      /\ row' = IF first THEN [heard |-> TRUE, first_seen |-> now] ELSE row
      /\ events' = IF old # sev /\ (first => sev \in BAD) THEN Logged(old, sev) ELSE events
      /\ unlogged' = IF first /\ sev = UNKNOWN /\ events # {} /\ Latest(events).new = OK
                     THEN unlogged \cup {OK, UNKNOWN} ELSE unlogged

\* It owes a recovery and stays as a tombstone, or it is forgotten.
Vanished ==
  /\ events' = IF known.severity # OK THEN Logged(known.severity, STATE_GONE) ELSE events
  /\ \/ /\ known' = [known EXCEPT !.severity = OK, !.gone = TRUE]
        /\ unlogged' = IF known.severity = OK THEN unlogged \cup {OK} ELSE unlogged
        /\ UNCHANGED row
     \/ /\ known' = Unheard
        /\ row' = Unheard
        /\ UNCHANGED unlogged

\* _ingest, as far as the followed check is concerned.
Ingest(c, panel) ==
  LET listed == Followed \in DOMAIN panel.checks
  IN  IF panel.error \/ Followed \notin ChecksOf(c)
      THEN UNCHANGED log
      ELSE /\ obs' = obs \cup {now}
           /\ heard' = now
           /\ said' = IF listed THEN panel.checks[Followed] ELSE IF panel.unread THEN said ELSE Nothing
           /\ CASE listed -> Sighted(panel.checks[Followed])
                [] ~listed /\ ~panel.unread /\ known # Unheard /\ ~known.gone -> Vanished
                [] OTHER -> UNCHANGED <<known, row, events, unlogged>>

\* What a collector may publish: all of its checks, some, or a part with a gap.
Outcomes(c) ==
  LET Some(S) == {f \in [S -> Severities] : \A x \in S : f[x] \in Reports[x]}
  IN  {[checks |-> <<>>, unread |-> FALSE, error |-> TRUE]}
      \cup {[checks |-> f, unread |-> FALSE, error |-> FALSE] : f \in UNION {Some(S) : S \in SUBSET ChecksOf(c)}}
      \cup {[checks |-> With(f, Gap, UNKNOWN), unread |-> TRUE, error |-> FALSE] :
              f \in UNION {Some(S) : S \in SUBSET (ChecksOf(c) \ {Followed})}}

\* A poll by the loop or by a refresh; they exclude each other.
Poll(c) ==
  /\ ~Pending(c) => panels[c].ts < now
  /\ \E panel \in Outcomes(c) :
       /\ panels' = With(panels, c, [ts |-> now, checks |-> panel.checks, error |-> panel.error])
       /\ Ingest(c, panel)
  /\ UNCHANGED <<instance, now, mutes, truth>>

Settle_KeepsRow ==  \* faulty: the row outlives the entry
  /\ known # Unheard /\ known.gone
  /\ known' = Unheard
  /\ UNCHANGED <<instance, now, panels, mutes, row, events, obs, said, heard, unlogged, truth>>

\* The recovery of a vanished check was delivered: it is forgotten.
Settle ==
  /\ known # Unheard /\ known.gone
  /\ known' = Unheard
  /\ row' = Unheard
  /\ UNCHANGED <<instance, now, panels, mutes, events, obs, said, heard, unlogged, truth>>

SetMute(x) ==
  /\ \E until \in {now + MuteTicks, Forever} : mutes' = With(mutes, x, until)
  /\ UNCHANGED <<instance, now, panels, log, truth>>

ClearMute(x) ==
  /\ x \in DOMAIN mutes
  /\ mutes' = [y \in DOMAIN mutes \ {x} |-> mutes[y]]
  /\ UNCHANGED <<instance, now, panels, log, truth>>

\* _maintenance: mutes that ended are deleted, and the logs are pruned.
Maintain ==
  LET ended == {x \in DOMAIN mutes : mutes[x] # Forever /\ mutes[x] < now}
      kept(ts) == ts >= now - 2 * Retention
  IN  /\ mutes' = [x \in DOMAIN mutes \ ended |-> mutes[x]]
      /\ events' = {e \in events : kept(e.ts)}
      /\ obs' = {o \in obs : kept(o)}
      /\ UNCHANGED <<instance, now, panels, known, row, said, heard, unlogged, truth>>

Passes ==
  /\ now < instance.until
  /\ now' = now + 1
  /\ truth' = Append(truth, IF said # Nothing /\ now < heard + Reach THEN said ELSE Nothing)

Tick ==
  /\ Passes
  /\ UNCHANGED <<instance, panels, mutes, log>>

\* The process is replaced, which takes a tick.  The entry comes back from its
\* row, which does not say that the check is gone.
Restart ==
  /\ Passes
  /\ panels' = <<>>
  /\ known' = IF known = Unheard THEN Unheard ELSE [known EXCEPT !.gone = FALSE]
  /\ unlogged' = IF known # Unheard /\ known.gone THEN unlogged \cup {OK} ELSE unlogged
  /\ UNCHANGED <<instance, mutes, row, events, obs, said, heard>>

Next ==
  \/ \E c \in Enabled : Poll(c)
  \/ Settle
  \/ \E x \in instance.mutable : SetMute(x) \/ ClearMute(x)
  \/ Maintain
  \/ Tick
  \/ Restart

Spec == Init /\ [][Next]_vars

-----------------------------------------------------------------------------
TypeOK ==
  /\ instance \in Instances
  /\ now \in 0..instance.until
  /\ DOMAIN panels \subseteq Enabled
  /\ \A c \in DOMAIN panels :
       /\ panels[c].ts \in 0..now
       /\ panels[c].error => panels[c].checks = <<>>
       /\ \A x \in DOMAIN panels[c].checks : x = Gap \/ PanelOf[x] = c
  /\ DOMAIN mutes \subseteq instance.mutable
  /\ known = Unheard <=> row = Unheard
  /\ known # Unheard => known.severity \in Severities /\ row.first_seen \in 0..now
  /\ obs \subseteq 0..now
  /\ \A e, f \in events : e.ts \in 0..now /\ (e.ts = f.ts => e = f)
  /\ Len(truth) = now

\* The board says "Everything is healthy" only if every collector was polled
\* lately, could be reached and published checks, and all those that are not
\* muted, one at least, were fine.
GreenIsEarned ==
  Headline = "everything is healthy" =>
    /\ \A c \in Enabled :
         /\ c \in DOMAIN panels
         /\ ~panels[c].error
         /\ now <= panels[c].ts + Reach
         /\ panels[c].checks # <<>>
         /\ \A x \in DOMAIN panels[c].checks : panels[c].checks[x] # OK => Muted(x)
    /\ \E c \in Enabled : \E x \in DOMAIN panels[c].checks : ~Muted(x)

\* A failure on the board that nobody silenced, or whose mute has ended, is
\* never outweighed: the board is at least as bad, however old the reading and
\* whatever else is wrong; and a bad board counts a check that made it so.
BadIsShown ==
  /\ \A c \in DOMAIN panels : \A x \in DOMAIN panels[c].checks :
       panels[c].checks[x] \in BAD /\ (x \notin DOMAIN mutes \/ mutes[x] \in 0..(now - 1))
         => rank(Overall) >= rank(panels[c].checks[x])
  /\ Overall \in BAD => Count(Overall) > 0

\* How many of the ticks since Start were the check's, of those somebody looked.
Seen(sev, window) == Cardinality({t \in Start(window)..(now - 1) : truth[t + 1] = sev})

Complete == \A e \in events : e.new # STATE_GONE

OnBoard == \E c \in DOMAIN panels : Followed \in DOMAIN panels[c].checks

\* The oldest tick that no log was pruned of.
Kept == Later(0, now - 2 * Retention + Reach)

\* Availability counts a tick under a severity only if the collector vouched for
\* that severity then, and misses none after restarts, failed polls, gaps and
\* pruning.  Exceptions: a window without transitions of a check that is not
\* on the board, whose severity is guessed; a check without a row; and the
\* severities between which the log missed a transition: a check that comes
\* back well, or vanishes while it is well and owes a message, and one that was
\* forgotten while it was well and comes back unread, which reads as well.
AvailabilityIsSeen ==
  \A window \in 1..now, sev \in Severities :
    (HasLog /\ (Guessed(window) => OnBoard) /\ sev \notin unlogged) =>
      /\ Spent(sev, window) <= Seen(sev, window)
      /\ (Complete /\ Start(window) >= Kept) => Spent(sev, window) = Seen(sev, window)

\* The same without the first exception.
OnlySeenIsCounted ==
  \A window \in 1..now, sev \in Severities : HasLog => Spent(sev, window) <= Seen(sev, window)
=============================================================================
