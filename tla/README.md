# homelab-panel: a verification project

Homelab-panel polls a homelab's services from one asyncio process, keeps the
severity of every check, pushes snapshots to browsers and tells one webhook what
broke and what recovered. This directory holds TLA+ modules that model that
program, the TLC configurations that check them, and proofs checked by TLAPS.
Paths below are relative to the repository (`src/` in PROJECT.json).

## 1. The system

| Part | State it keeps | Operations | Talks to |
|---|---|---|---|
| Alert engine (`app/scheduler.py`) | `_state` (per check: observed and notified severity, `gone`, `delivered`), `_panel_checks`, backoff, grace | `_ingest`, `_panel_transitions`, `_drain_alerts_once`, `_mark_notified`, `_deliver`, `start`, `stop` | collectors, store, webhook |
| Store (`app/db.py`) | SQLite tables `check_severity`, `mutes`, `events`, `metrics`, `observations`, `sessions` | one short transaction per method, under one lock | engine, API |
| Collector loops (`scheduler._loop`, `collectors/base.py`) | failure count, refresh lock | `run`, `refresh`, exponential backoff | products' APIs, engine |
| Snapshot (`scheduler.snapshot`, `_headline`) | none of its own | a function of panels, mutes and the clock | push, API |
| History (`store.availability`) | the tables `events` and `observations` | log, prune, add up the time per severity | engine, API |
| Push (`_broadcast`, `/api/stream`) | per stream a queue of 4 | subscribe, broadcast, drop oldest, heartbeat frames | browsers |
| Browser (`web/app.js`) | the snapshot shown, watchdog timer, stream or polling | accept or refuse a snapshot, reconnect, mute, refresh | API, stream |
| HTTP API (`app/main.py`) | sessions (in the store) | token and cookie checks, mutes, availability | browser, engine, store |
| Migrations (`app/migrations.py`) | `user_version` and schema | one transaction per migration at start | store, deploy |
| Deploy (`install.sh`, `update.sh`, `deploy/`) | release directories, `current` link, backups, lock | install, update, automatic and manual rollback | systemd, git, database file |
| Collectors (`app/collectors/`) | sessions with their products | one poll | products, engine |
| Config, validation, models, heartbeat, maintenance | little or none | pure functions, timers | all |

What is hard here: a webhook request is the one await inside a drain, so polls
run between the moment a batch is built and the moment its answer is applied;
requests fail, time out or succeed without the engine learning it; the process
is killed and started again from what the database holds; a NULL in that
database means two things; checks appear, vanish, are unread, reappear; mutes
come and go; configurations change between runs; best-effort writes are
swallowed. On the way to the browser: bounded queues that drop snapshots,
streams, polls and fetches that race, connections that end without either side
learning it. In a deployment: kills, reboots and failing commands between any
two steps, a service that systemd starts on its own, a database that only moves
forward by itself. Towards the products: endpoints of which some answer and some
do not, sessions that lapse, answers that are empty or cut short. And time:
readings that go stale, windows whose edges meet polls, transitions and pruned
logs, cookies that outlive a token.

What makes each part correct:

- alert engine: nothing owed is lost and nothing is told twice, the receiver's
  last word stays true, only what somebody heard of is reported as recovered,
  settlement ends, a shutdown ends;
- store: the severity table equals the engine's memory at every point where the
  process can die;
- collectors: absence is read as recovery only when a part was read, the parts
  that could not be read are declared, nothing is green for want of an answer;
- snapshot: nothing stale, failed or unread is presented as healthy, and no
  failure is outweighed;
- history: a severity is charged only for time somebody looked;
- push and browser: a newer snapshot is never replaced by an older one, the
  newest is not lost on a slow subscriber, a board without a stream polls and
  gets its stream back, what is shown catches up;
- sessions: no session outlives its token or its time, none ends early, and the
  right token lets in;
- migrations: any kill leaves a database the next start completes;
- deploy: code and database always belong together or the operator is told,
  nothing is restored under a running service, a rollback can be undone.

## 2. Modules

| Module | What it is |
|---|---|
| `Severity` | the severities of `app/models.py`, their order, `BAD` |
| `Panels` | the output of a collector, and what the engine infers of it |
| `Collectors`, `Probes` | one poll of each collector, as a function |
| `Products` | the products they poll: what may be the matter, how requests end |
| `Polling` | a collector, its session and the engine's knowledge from poll to poll |
| `PollingProofs` | theorems about it, for any lab, any troubles at once and any limits of listings |
| `AlertEngine` | the alert lifecycle, polls, worker, webhook, mutes, stop, kill and start |
| `AlertContract` | what that lifecycle promises, without memory, database, grace or process |
| `AlertRefinement` | the mapping from the first to the second |
| `AlertEngineProofs` | theorems about `AlertEngine` for all values of its constants |
| `AlertRefinementProofs` | the step-by-step proof that the engine implements the contract |
| `Streams` | the server's side of live updates: broadcast, queues, `/api/stream` and its cap |
| `Display` | what a live board promises |
| `LiveView` | one board of `web/app.js` composed with `Streams` |
| `StreamsProofs`, `LiveViewProofs` | theorems about the two, and that a board implements `Display` |
| `Readings` | the board over time, and the availability of a check |
| `ReadingsProofs` | theorems about the board and about availability |
| `Access` | token, sessions, and the pages of a browser that share a cookie |
| `AccessProofs` | theorems about the sessions |
| `Deploy` | install, update, rollback as one job beside the service under systemd, with the schema of the database |
| `DeployProofs` | theorems about it |
| `MCAlertEngine`, `MCLiveView`, `MCPolling`, `MCReadings`, `MCAccess`, `MCDeploy` | instances for TLC |

`LiveView` extends `Streams`, `Products` extends the collectors, and the
contract and `Display` are instances in what implements them. The rest is kept
apart because what passes between the parts is narrow, and stated on both sides:
`AlertEngine` takes any report `Polling` could produce, `Readings` any panel,
`Streams` only the order of snapshots.

### AlertEngine and the code

`state` is `_state`, `baseline` is `_panel_checks` and `polled` the panels that
have an entry there (the code tells an absent entry from an empty one), `db` is
the table `check_severity`, `batch` the list `send` while `_deliver` is awaited,
`waiting` is `time.time() < _alert_next`, `mutes` the result of
`active_mutes()`, `heard` is what the other end of the webhook was last told
about each id. An entry is the four fields that decide anything.

The engine is one event loop. A handler without an await is one action:

- `PollSucceeds(p)`, `PollFails(p)`: `_ingest` of a panel and what it calls,
  including the saves and forgets and their possible failure. The report is any
  function from the panel's checks to `Reported`, with any choice of what is
  unread among the rest.
- `PollAborts(p)`: `record_event` raised at any of the places where `_ingest`
  calls it, with any of the other checks already handled.
- `WorkerDrains`: `_drain_alerts_once` up to the request: muted recoveries and
  what is not notable settled, the batch built unless the backoff runs.
- `DeliveryAccepted`, `DeliveryFails`: the request ends, and the answer is
  applied to whatever `_state` is then.
- `Stop`, `FinalDrain`, `FinalTimeout`, `Halt`: `stop()` and its await.
- `Crash` at any moment; `Start` reads the table and drops retired collectors.
- `RetryDue`, `GraceEnds`, `Mute`, `MuteEnds`: time and the operator.

Abstracted: the event log and the metrics (a raise of `record_metrics` comes
before anything changed and is a step that does nothing); the lengths of backoff
and grace (they end at any time, under fairness eventually) and with them the
attempt counter, which only picks a length; names, values, texts and health
counters; the panel key stored in a row (an id's owner never changes). Receipt
by the webhook is placed at the step that ends the request, which is when the
engine could first know; a request whose connection broke and that is processed
later still, after a newer one, is not modelled. A poll result is ingested when
it arrives: the per-collector lock and the absence of an await between its
release and `_ingest` keep results in order.

`Steady` checks are those which every successful poll publishes or declares
unread; the others exist only while there is something to report. `Lasting` ids
are steady checks and panels that are never muted and whose collector no
configuration disables: for them the receiver's last word can be held against
the engine at all times. For the others the action properties say when they may
be forgotten or settled.

`Disturbances` names what the environment may do in an instance: `crash`,
`stop`, `refuse` (a failed request the webhook did not get), `ambiguous` (one it
did get), `db` (a best-effort write fails), `event` (the event log raises).

### The contract

`AlertContract` knows a durable book (observed and notified per id), an outbox
of one request, the receiver's last word and a policy. A line of the book
changes only by first sight, observation, being told, one of three named reasons
for silence, or by being forgotten when nothing is owed. Stop, kill and start do
not exist in it: `AlertRefinement` maps the book to memory while the engine runs
and to the table while it does not, so a kill that lost or invented a debt would
be a step the contract does not have.

### Streams, LiveView and the code

A snapshot is reduced to the version of what it shows; `version` is that of a
snapshot taken now. The stamp `generated` orders snapshots as versions do. (A
clock that is set back makes the browser refuse newer snapshots until it has
caught up; wall clocks are not in the model.) `Poll` is one turn of `_loop`:
`_ingest` and `_broadcast` without a suspension between them. `Drift` is a mute
or the passing of time: what a snapshot shows changes and nothing is broadcast.

A request for `/api/stream` is admitted by the handler (`Admit`), subscribed by
the generator when the response is first pulled (`Subscribe`), and left by the
client before the generator learns it (`Leave`, `End`). `queue` is the
`asyncio.Queue` of a subscriber, `wire` what was yielded and not yet received.
Heartbeat frames carry no state and are left out; what they do for the server is
that a generator looks for its client again at least every twenty seconds
(`main.py:522-536`), and that is the fairness of `End`.

On the board `ready` and `link` are the `EventSource`: closed for good (`source`
is null, the reconnect timer runs), connecting, or open on a request. `Refused`
and `Dropped` are the two branches of `onerror`, `Opened` is `onopen`,
`Received` is `onmessage`. `polling` is `pollTimer`, a slot of `fetch` one call
of `/api/status` in flight, `feed` the connection's label, `shown` what
`acceptSnapshot` last let through. `Connect` covers the timer and the return of
the tab; the length of `reconnectDelay` is abstracted. The browser itself is
external: it delivers frames in order, retries what dropped, does not retry what
was refused. An expired session is a failed fetch or a refused stream here.

`Display` is what all this is for: some version of the state is shown, and only
ever exchanged for a later one that is already true.

### Collectors, Polling and the code

`Collectors` and `Probes` have one operator per file of `app/collectors/`: from
`w`, what the product would tell, and `r`, how each request ended, to the panel.
A request answers, fails (`httpx.HTTPError`), is missing (404), or brings junk,
a body whose handling raises something else: the code treats the four
differently, part by part. The id of a check is the tuple of its parts, so a
prefix in `panel.unread` is a prefix of a tuple. `Of` joins parts, `Skipped` and
`NotRead` are the two ways in which the code declares a part unread, `Failed` is
what `Collector.run` makes of any exception, `Ingested` what `_ingest` keeps.

`Products` is external: it says what may be the matter with each product
(`ProxmoxTroubles` and its like, over the names in the constant `Lab`), derives
`w` from it (`ProxmoxTells`), and `Faults`, the checks that ought to be bad, from
the troubles alone. `Poll` picks troubles and replies anew each time, so a trouble
may begin, end or become unreadable between any two polls. `login` is the token
or cookie a collector keeps; `Revoke` is a product that forgot it, `Outdate` the
collector's own expiry. `SignedIn` is the one repetition after a refusal.

Two listings have a limit. A node of Proxmox lists its `TaskLimit` newest failed
tasks (200, `proxmox.py:257`; `Newest`), and the indexer of Wazuh the
`RuleBuckets` most frequent descriptions of any level (25, `wazuh.py:243`;
`TopRules`, in the order `Ahead`), of which the notable ones are published
(`NotableRules`), under an id of their first 70 characters (`wazuh.py:285`).
What is past a limit is neither published nor declared unread. A rule in the
model is such an id; `Descriptions` says that it may have fired rarely at a high
level, often at a notable one, as two descriptions of one id that do one each,
or very often at a level that is not notable; of two under one id the engine is
left with what the rarer says (`LastOf`). `CutOff` is what may be missing from an
answer for its limit.

Abstracted: a percentage is the side of its threshold it is on; a part is read
wholly or not at all (paging within a part is not split); a 401 in the middle of
a poll is one at its beginning; Pi-hole is version 6. Names, links and texts are
left out.

### Readings and the code

`panels` is `Engine.panels`, and `PanelSeverity`, `Count`, `Overall` and
`Headline` are what `snapshot` and `_headline` compute of it; the sentence is
reduced to what it says. One check is followed through the log: `known` and
`row` are its entry and its `first_seen`, `events` its transitions (a table, of
which `Latest` and `Earliest` are what a query for one row returns), `obs` the
polls of its collector. `Spent` is `Store.availability` for a window that ends
now, tick by tick: `Entering` is the severity before the first transition in the
window (`db.py:448-458`), `Looked` is `observed_spans`. `Poll` is `_ingest`,
`Maintain` the pruning of `_maintenance`, `Restart` a new process: nothing on
the board, entries back from their rows.

Ghosts say what was really reported: `said` and `heard` the last answer of the
collector about the check, `truth` what could be said of it in every tick that
passed. `Seen` counts that, and `AvailabilityIsSeen` compares. `unlogged` are
the severities between which the check moved without a transition in the log. The metrics
table, whose samples nothing decides on, is left out.

### Access and the code

`Granted` is `require_token`, `Serve` with kind `session` is `open_session`,
`Expire` is `expire_sessions`, `Start` reads the configuration, which is read
nowhere else. `tabs` is what the script of each page holds (`token`,
`useCookie`, whether it still waits for its session), `jar` the browser's
cookie, `wire` the requests of all pages, served and received in any order or
lost. A token stands for its fingerprint. An `owed` snapshot (ghost) is what a
page that was opened with the right token can expect.

Abstracted: no request takes as long as a tick; a reference to a variable that
is not set refuses the start (`validate`), so such a start is none;
`require_same_origin` is a function of one request and is left out.

### Deploy and the code

`job` is the script that holds the lock of `panel-lib.sh`; its stage `at` names
the next command. `Begin` has one action for each way a script can start:
`StageNew`, `StageCopy` and `Reactivate` are the three directories `install.sh`
may decide on, `NothingToDo` and `AlreadyRunning` its and `update.sh`'s early
exits, `Roll` a rollback whose backup was found restorable. `Script` is then one
action per command that changes something: `Build`, `TakeBackup`, `Validate`,
`ReplaceWrapper`, `Switch`, `InstallUnit`, `RestartService`, `Verify`, `Record`,
`PruneReleases`, `PruneBackups`, and the chain that `revert` and `do_rollback`
share, `StopConfirmed`, `RestoreDatabase`, `RestoreManifest`, `RestoreControl`,
`Relink` or `Disable`, `StartAgain`, `VerifyAgain`.

A release directory is a pair of a commit and a copy, `present` those on disk,
`whole` those whose build ended. `control` holds the commits the installed
wrapper and unit come from. `db` is `user_version`, 0 when there is no database.
A backup holds what `make_backup` copies; `complete` is its marker.

The service runs beside the job: `Spawn` (systemd starts the link, if the code
opens that database), `Migrate` (one migration with its version), `FirstPoll`
(`/healthz` answers from here on), `Die`, `StartLimit`. It may die or never
become ready at any point, so every release may be a bad one. `Operate` is the
operator between jobs.

`Disturbances` here: `kill` (of the script), `reboot`, `io` (a command of the
script fails), `stop` (a service that does not end in time). `struck` remembers
that one has happened to a job: some properties are promised only without one.

Abstracted: `PANEL_NO_SYSTEMD`, the flat layout of old versions and its
migration, the checkout, the rewriting of the port, the contents of
`config.yaml` and `.env` (a backup's copy of them decides nothing modelled), a
damaged backup, which of several unprotected releases are the newest (any of
them may be pruned), a removal that was killed half way, the write-ahead log
beside the database. Old backups are removed one per step, and a kill may come
between any two. A verification may end at any moment, ready or not. `panelctl
restart` and `stop` take no lock; nobody is assumed to call them during a job.

## 3. Runs

| Run | Instance | Shows |
|---|---|---|
| `alerts_restart` | two collectors, one of them with a check that may vanish and disabled and enabled again by restarts; kill, stop, refuse | types; memory equals table (`DurableDebts`); tombstones and baselines; the last word; no repeats; nothing known of a disabled collector; the contract |
| `alerts_adversity` | a check that may vanish and be muted; lost answers, failing writes and reads of the table, a raising event log, kills | no recovery of the unheard; muted failures stay owed; forgetting only when told |
| `alerts_live` | a check of every poll and an event, a `critical` floor, refusals, grace, mutes, shutdown, under fairness | a steady severity is told; a shutdown ends |
| `liveview` | a board and another client, one place for a stream, a queue of one, two more changes, under fairness | types; no replay of older snapshots; the newest is kept; the board is fed and implements `Display`; it catches up; live updates come back once other clients have gone |
| `polling` | sixteen collectors, with up to two troubles at a time (Proxmox and Wazuh one, or two in a listing with room for one) and every way their requests may end | types; what is taken for over is over, or past the limit of its listing; a complete poll leaves no failure known but those there are, and all that fit their listings; green means well; a lapsed session is renewed |
| `readings` | a board of two collectors with mutes, and one check followed over restarts, gaps, disappearances and pruning | types; green is earned; no failure is outweighed; availability counts what was seen |
| `access` | two pages, two tokens, restarts, expiry, lost requests, under fairness | types; a session opens exactly under its token and in its time; the right token gets in |
| `deploy` | two commits of one version and two schemas, two copies of each, from an empty host; kill, reboot, io, stop | types; nothing restored under a running service; rollback targets stay; a newer schema always opens; and without disturbances backups are restorable, success means deployed, failure changes nothing |
| `alerts_lost_downgrade`, `unread_outposts`, `unseen_counted`, `deploy_nothing_to_do` | see section 5 | violations |

`CHECK_DEADLOCK` is left on: no model ever stops.

Bounds. In the alert engine none: all interleavings of polls, deliveries, mutes,
kills and starts are explored without a limit on their number, since no counter
is in the state. Every rule of the code handles one id on its own; what couples
ids is the shared batch, the baseline and the backoff. In `alerts_restart` the
ids of two panels and of a check meet in the batch, in `alerts_live` two checks
and their panel. In the live view `LastVersion` bounds how often the state
changes: three versions overflow a queue of one and let a fetch, a frame and a
queue hold different ones at once. In `Deploy`, `Copies` are the directories of
one commit, two being what it takes to rebuild a protected release; `MaxBackups`
stops new jobs, not a running one, when as many backups exist; with two of them,
of which an update keeps one, a rollback of a rollback and the pruning of a
release that a backup names both occur. The number of jobs, starts and
disturbances is not bounded. Two schemas are one step up and one step down.

`polling` has no counter either; `Together` names the sets of checks with which
something may be the matter at once, and `SmallLab` has two nodes, agents,
devices or targets where the code distinguishes the one that answers from the
one that does not. Proxmox and Wazuh, which have the most parts and requests, are
checked with one trouble at a time, and with two failed tasks of one node and
two rules, where `TaskLimit` and `RuleBuckets` are one: what is listed, what is
pushed out, and what comes back when the listing has room again all occur. The
theorems about `Polling` hold for any `Together` and any limits. In
`readings` a tick is a poll interval, so a reading reaches three ticks; with a
retention of two, logs are pruned after four, and the followed check lives for
six, so that a window may begin before the first row, between polls, in a gap
longer than the reach, and in what was pruned. A second instance follows, for
five ticks, a check that may also be unread. The board, which depends on ages
only through `Stale`, runs to four. In `access` a session lives one tick of two,
and three moves bound stops, opened links and lost requests: a restart with
another token, back, and a page opened in between.

Fairness. `FairSpec` of the engine assumes that the worker wakes (`while
self._running`, every two seconds, exceptions caught), that a request ends
(client timeout of ten seconds), that `stop()` proceeds (`wait_for` with five
seconds), that clocks advance, and strongly that a webhook asked again and again
accepts at last; without the last no debt can ever be settled. Nothing is
assumed of polls, of the operator, or against kills: `Converges` speaks of
behaviours that end in a running engine. In the live view, generators, polls,
timers and event handlers go on; a stream asked for again and again is admitted
and opened at last, and a fetch repeated again and again is answered (strong
fairness, which says nothing of how often either fails before). The other client
may keep the only place for ever, and then admission is never possible:
`CatchesUp` holds there by polling alone, `LiveReturns` is about the behaviours
in which it goes away at last. It may only have gone away: that its generator
then notices and gives the place back, by `is_disconnected` after the next
snapshot or heartbeat, is a step the board depends on (`End`, weakly fair). In `Access`, systemd starts the service again
(`Restart=always`), a page goes on asking (its timers), a service that is up
answers and the answer arrives, all weakly: requests may be lost, but only as
often as `MaxMoves` lets them. Links, rotation and maintenance are under no
fairness. `Deploy`, `Readings` and `Polling` have safety properties only.

## 4. Proofs

`AlertEngineProofs` proves, for any sets of checks and collectors:

- `Typing`: `[]TypeOK`, under every disturbance.
- `DebtsAreDurable`: `[]DurableDebts` when the cache can be written. Not
  inductive alone: `COALESCE` keeps what is stored, so one needs that an entry
  that starts from nothing has no row with a value (`Blanks`), that this
  survives while the process is down, and that no answer arrives then
  (`Durable`).
- `TombstonesAreOwed`, `BaselinesAreComplete`: they hold each other up
  (`Books`), with the fact that a request never states `unknown`.
- `LastWordIsTrue`, `MessagesAreNews`: from `Durable`, `Books` and `Spoken`:
  what is notified of a lasting id, in memory or in the table, and what the
  receiver heard are equal or both no failure; such an id is never a tombstone;
  what is in flight for it is known and is news. Assumed (`GoodWeather`):
  writable storage, every configuration posts at the default floor, no lost
  answers. The first violation run shows that the floor is needed.

- `DisabledAreUnknown`: `[]OnlyEnabledKnown`, under every disturbance.

`AlertRefinementProofs` proves `EngineKeepsContract`: under the same assumptions
every behaviour of the engine is one of the contract. The invariant is the one
above with `Tidy` (no row is left of a collector that is not enabled, so a start
with the same configuration changes no line; nothing is in flight while the
process is being stopped). A first part says what each operation on one entry is
in the contract (`LineSighted`, `LineEntombed`, `LineForgotten`, ...), a second
puts the handlers together (`IngestWatch`, `DrainWatch`, `AcceptedWatch`,
`DownWatch`, `StartMoves`).

Three action properties are proved under every disturbance, lost answers, failing
writes and a raising event log among them:

- `MutedFailuresStayOwed`: `MutedFailureStaysOwed`, from the types alone: each
  handler is followed by what it leaves of one muted entry.
- `NothingForgottenUntold`: `ForgottenOnlyWhenTold`, from `Neat`: an id without
  an entry or a row has nothing else left either, and a tombstone is observed OK.
- `FailuresComeFirst`: `FirstWordIsFailure`, from `Informed`: where an entry or a
  row reads as if a failure had been sent, it was, and a recovery is in flight
  only to who heard of the failure. Assumed (`OneFloor`): every configuration posts, at
  one floor above `ok`. A floor that a restart lowers, or a floor of `ok`, does
  make the engine announce the recovery of what nobody heard of.

The proofs rest on `IdsAssumption`, `KindsAssumption` and `InputsAssumption`,
which TLC evaluates in every run. With them every safety property of the alert
runs is a theorem.

`StreamsProofs` proves `NoReplay` and `NewestReaches` for any number of
requests, any cap and any sizes. The invariant is per request: its queue lies in
order between what was sent and the state of now (`Ordered`), the newest
broadcast was sent or is at the end (`Fresh`), and a request that is not
subscribed has nothing queued or on its way (`Quiet`): that is why subscribing
inside the generator is needed. `LiveViewProofs` proves `BoardTyping`,
`BoardIsFed` and `BoardDisplays`, the implementation of `Display`: every step of
the whole is a step of the server or leaves it alone (`NextIsStreamStep`), so
the server's invariant carries over, and nothing on screen or in flight is from
the future (`Seen`). They rest on `SizesAssumption` and `OwnAssumption`.

`DeployProofs` proves, for any commits, schemas, bounds and disturbances:

- `RestoresAreAlone`: `[]RestoresAlone`, which is inductive as soon as one knows
  that the job is a record with its fields (`JobShape`): the restoring stages
  are entered only through a confirmed stop, and until `StartAgain` no action
  starts the unit, a reboot because it ends the job.
- `TargetsStayOnDisk`: the action property `TargetsStay`, from `OnDisk`: what is
  whole is present, the link is whole, and what the job moves the link to or
  back to is whole for as long as it may. That a build never touches a directory
  of a backup is the test of `Protected` in `StageNew`; that pruning does not,
  its test in `PruneReleases`; `NamedStay` says so for each step.

Its second half proves the rest of what the run checks:

- `DeployTyping`: `[]TypeOK`, with `Supplied`: a job that has begun has a
  directory, and what puts something back has a backup to put back.
- `NewerIsOpened`: `[]NewerAlwaysOpens`, killed or failed anywhere. The
  invariant is `Steady`: during a move that ascends, the database is between
  what was found and what the new code makes (`Opened`), and the backup of the
  job still has what was found (`Retained`), so that putting it back before the
  link cannot strand the old code.
- `BackupsAreRestorable`, `DoneIsDeployed`, `FailureIsUndone`: without
  disturbances. The invariant `Orderly` says stage by stage how far a job is:
  what is untouched (`Began`), what already belongs to the new release
  (`Forth`), what is already put back (`Back`); between jobs link, manifest,
  wrapper, unit, process and database are of one release (`InOrder`). Success,
  failure and the matching pair inside a backup are the ends of these. It stands
  on `Firm`: the types, the first two theorems, that whoever has a manifest has
  a configuration and a database (`Founded`), and that no process runs on a
  database newer than its code (`Opening`).

They rest on `ReleasesAssumption` and `NoneAssumption`. With them every property
of the run `deploy` is a theorem.

`AccessProofs` proves `AccessTyping` and `SessionsAreTheirTokens` for any pages,
tokens, lifetimes and bounds. `SessionIsItsToken` is an equivalence, and needs
both halves of `Table`: what is in the table is what was issued, and what is no
longer in it has expired. They rest on `TTLAssumption`, `BoundsAssumption` and
`TokensAssumption`.

`ReadingsProofs` proves `GreenMustBeEarned` and `FailuresAreShown` for any
collectors, checks, mutes and intervals, from the shape of the board (`BoardOK`)
and what `worst` returns; the headline is green only in its last branch, and
what the branches before it rule out (`AllClear`) is exactly what the property
asks. The finiteness of the board (`InstanceAssumption`, `ChecksAssumption`) is
needed, as counts are cardinalities.

`ReadingsTyping` and `AvailabilityCountsWhatWasSeen` are about the log, for any
interval, retention, bound on the clock and window. `AvailabilityIsSeen` compares
two sums over a window; neither sum is inductive. The invariant `ReadingsInv` is
about single ticks and does not mention the window:

- `Timeline`: of every tick that somebody looked at since the check's row was
  made, the log tells the truth from both sides (`Told`): the last transition up
  to the tick led to what was true, and the first after it, or the entry when
  there is none, starts from there. Both halves are needed: pruning removes the
  first, and whichever transition is left is right (`ToldPruned`); a new
  transition serves the second (`ToldLogged`).
- `EntryTold`: what the last transition, the entry and the last answer have to
  do with each other, so that a tick that passes is told of (`ToldNow`); of a
  forgotten check, what its last transition may be, since a new life of the
  check inherits it.
- `Sight`: whatever could be said was vouched for by a poll, or is pruned.
- `BoardSees`: the board and the entry agree, for windows without a transition.

`WindowDoesNotMatter` shows that what availability reads of a tick is the same
in every window, `ReadingIsTrue` that it is the truth; the two sets of ticks are
then included in each other, or equal. The proof rests on `InstanceAssumption`
and `ChecksAssumption`, whose last conjunct says that the placeholder of an
unread section is no check.

`PollingProofs` proves all five properties of the run `polling` for any `Lab`
(any nodes, guests, stores, disks, tasks, agents, rules, outposts, indexes,
devices, tunnels, targets and names), any `Together`, any limit of the two
listings and every end of every request: `PollingTyping`,
`CompletePollsAreExact`, `GreenPanelsMeanWell`, `SessionsAreRenewed`,
`WhatIsResolvedIsOver`. The argument has three layers.

- One poll of one collector (`WanWhole` to `ProxmoxHonest`, gathered in
  `Collected`). `Honest` is what it owes: a panel that is `Typed`; that `Tells`,
  as not well or as not read, of every failure but those that are excused; that
  `Notices`, with some check that is not `ok`, whenever there is a failure at
  all; and that is `Exact` when everything was read. `Notices` is not a
  consequence of `Tells`: of outposts and a UPS it holds although their unread
  parts are not declared, thanks to the placeholder and the empty flags.
  Collectors that are all or nothing are `Whole`, which is more. Proxmox is
  taken apart by kinds of checks (`ProxmoxTold`), whose ids have different forms
  (`ProxmoxForms`): a prefix such as `<<"pve", "task", n>>` covers no published
  check, and no two rows of storage make different checks of one id
  (`RowsGraded`). Wazuh's totals are cardinalities (`AgentsCounted`,
  `RulesCounted`), which is why agents and rules must be finite. Listings have
  limits, so `ExactBut` allows what is in `CutOff` to be missing, and nothing
  else. That a listing with a limit of at least one names some failed task
  whenever there is one (`TasksListed`: the newest is listed) is the only place
  where a least element is needed; it comes from the well-foundedness of `<` on
  the naturals (`OldestFirst`). `RulesListed` says which rules are listed when all fit; which of
  two descriptions of one id speaks last does not matter to what is bad, as both
  are notable.
- What the engine makes of such a panel: `KnownAfter` is `_ingest` as a
  function, `ToldIsKnown` that a failure that is told of stays known,
  `ExactIsKnown` that an exact panel leaves nothing over from before, whatever
  that was, and `GreenIsHonest` that a green panel had nothing to notice.
- The steps: `PollTells` is one poll from any state of the right type, and
  `Revoke` and `Outdate` touch the session alone. The invariant `PollingInv` is
  the type and the three properties of the last poll; each poll establishes it
  anew, so nothing stronger is needed. `WhatIsResolvedIsOver`, about two
  successive states, follows from the same lemma.

It rests on `KeysAssumption`, `ListingsAssumption` (both limits are at least
one) and `LabAssumption`: a cluster has a node; agents, rules and tasks are
finite; no two rules have the same place in the alphabet, which breaks ties of
the indexer, and no two tasks the same age; templates are not guests that should
run; and the subsystems are the three that `unifi.py` looks for.

With that every invariant and every safety property of every run is a theorem.
Only liveness (`Converges`, `StopEnds`, `CatchesUp`, `LiveReturns`,
`RightTokenGetsIn`) is out of the prover's reach and stays with TLC, as do the
violations of section 5.

## 5. Where code and documents disagree

1. `alerts_lost_downgrade`. The flag `delivered` lives in memory only. With a
   critical floor: critical sent, downgrade to warning sent, restart, recovery
   settled in silence. `CHANGELOG.md:73-74` promises that the receiver's last
   word is never stale.
2. `unread_outposts`. A failed listing of outposts publishes the unknown check
   `authentik.outposts` and declares nothing unread
   (`app/collectors/authentik.py:178`), so the engine takes every outpost it
   knew for gone, and the recovery of a critical one is announced.
   `CHANGELOG.md:133-135` and `app/models.py:134-136` promise that nothing is
   inferred from what was not read. `ResolvedIsOver` of the run `polling` holds
   with this exception.
3. `unseen_counted`. The availability endpoint passes `unknown` as the current
   severity of a check that is not on the board, as after a restart or a failed
   poll (`app/main.py:415`); where the log has no transition that stands for the
   whole window, and a check that was fine at every poll reads as 100 % unknown.
   `app/db.py:396` speaks of the observed window.
4. `deploy_nothing_to_do`. `install.sh` says "Nothing to do" on the evidence of
   the link and of `/healthz`. A first installation that failed leaves the link,
   writes no manifest and disables the unit; if the operator starts the panel by
   hand and it comes up, installing again reports success, and there is still no
   manifest and no start at boot. `install.sh:422` says that the manifest
   describes what is deployed, and `panelctl update` refuses to run without it.

Seen while modelling, without a run of their own:

- The indexer is asked for the 25 most frequent rule descriptions of any level
  (`app/collectors/wazuh.py:243`), and the notable among them are published. A
  notable rule that still fires, but is pushed out by noisier ones, is neither
  published nor declared unread: the engine takes it for over and announces its
  recovery, and announces it anew when it is back. The comment above the query
  (`wazuh.py:240-242`) says that the number was chosen so that this does not
  happen. `wazuh.alerts` counts by level and is not affected.
- A node is asked for 200 failed tasks (`app/collectors/proxmox.py:257`), and an
  older one of the same window counts as over; the docstring
  (`proxmox.py:236-241`) says that every failed task in the window becomes a
  check of its own. `ResolvedIsOver` and `CompletePollIsExact` hold of all that
  fits into these listings, and say so (`CutOff`).
- An update that is killed between the switch of the link and the writing of the
  manifest has the same end: the release is current and healthy, the manifest
  names the one before it, and a repeated `install.sh` leaves it so.
- When `revert` cannot confirm its stop it leaves everything as it is, and its
  message recommends a rollback. The rollback's own snapshot then pairs the old
  manifest with the migrated database: undoing that rollback restores code that
  refuses to open its data. This is why `BackupsRestorable`, `DoneMeansDeployed`
  and `FailureChangesNothing` are stated without disturbances.
- A poll of the browser still in flight when the stream opens, failing
  afterwards, sets the label to "panel unreachable" (`web/app.js:776`) without
  the test its success branch makes; it stays until the next change of the
  connection. Frames arrive and are shown meanwhile.
- A check that was fine when it was forgotten and first comes back unread logs
  no transition, as only a failure does at first sight (`app/scheduler.py:300`).
  Availability takes the last transition of its former life for its state
  (`app/db.py:428-432`) and charges the unread time to `ok`.

Known limits, which the models have or which keep a property from being wider.
In engine, push and browser:

- A failure whose check vanishes while its first request is in flight is
  forgotten; the request is accepted; no recovery is ever owed
  (`app/scheduler.py:383`).
- Settling without a webhook looks like delivery afterwards: the first message
  after alerts are turned on may be a recovery of something nobody heard of
  (`app/scheduler.py:778`). The runs have a webhook throughout.
- The cap on streams is compared with the number of subscribers, but a stream
  subscribes after its response has begun: requests that arrive together all
  pass (`app/main.py:510`).
- A forget that failed leaves a row that a later save does not clear
  (`app/db.py:238`).
- A stream that hangs without an error is only marked by the watchdog, not
  replaced (`web/app.js:342`); a server clock that is set back makes newer
  snapshots look older (`web/app.js:298`).

- An exception in the alert worker other than those of storage and webhook is
  logged and the loop goes on (`app/scheduler.py:754`); what such an exception
  may have left half done is not in the model.

In collectors:

- Wazuh descriptions that agree in their first 70 characters share an id
  (`app/collectors/wazuh.py:285`). Their checks are ingested one after the other,
  so every poll takes the id through the severity of each and logs the
  transitions. The model has what is left at the end of a poll.
- Certificates, fleet hosts and backup targets of the same name share one id;
  only the names of services are checked for that (`app/validate.py:307`).
- A health request of an outpost that fails reads as an outpost that never
  checked in, and so as a warning.
- A TCP probe that raises is published under another id than one that answers.
  Its former check counts as gone.
- An empty list of cluster resources, and a UPS connection that ends in the
  middle of a list, are taken for complete (`Undeclared` names the latter).
- `backups` keeps its authorisation for six hours and does not renew it when it
  is refused; `Renewing` leaves it out.
- Wazuh pages by offset, and an agent may be skipped when the list moves
  meanwhile; a Jellyfin library that cannot be counted is dropped. Both are
  inside one part.
- The ceiling of the backoff is 600 seconds, which is less than a long interval.

In readings:

- A check that vanished while fine, or a tombstone after a restart, leaves no
  transition; when it comes back well, its time until the next transition is not
  charged to `ok` (`unlogged`).
- Without a row, or when all polls of it are pruned, a check has no observed
  time and the whole window is charged to what is assumed (`HasLog`).
- `observed_spans` looks one day back for the poll that vouches for the
  beginning of a window; intervals over eight hours would need more.

In access:

- Going back to an earlier token revives its sessions that have not expired.
- A refusal clears the browser's cookie whatever request it belongs to: a page
  with a wrong link, or a request from before the session was opened, logs the
  other pages out (`ThrownAway`).

In deployment:

- `panel-lib.sh:276` removes an old write-ahead log after it has renamed the
  database, and a kill between leaves the two together.
- `panelctl:82` restarts the service without the lock.
- `update.sh:156` takes a release for usable when its directory and
  `venv/bin/python` are there, which holds of a build that failed after its
  virtualenv was made. `Roll` asks for a release that is whole. A backup names a
  release that is not whole only if the manifest did, after a kill between the
  switch of the link and the writing of the manifest and a failed rebuild of the
  release that the manifest still names. `TargetsStay`, and what is proved of
  it, is without rollbacks to such a release.
- `stop_confirmed` (`panel-lib.sh:143-150`) ignores a failure of `systemctl
  stop`, and then accepts any state but `active` and `deactivating` without a
  main process; if the command failed while systemd waits to start the unit
  again, that state is confirmed and the unit may still start. In the model
  `systemctl stop` always reaches systemd, and `RestoresAlone` is about that.

## 6. Not modelled

- The collector `updates`: one check, off by default and never worse than a
  warning, from an answer it caches for an hour.
- Configuration and validation: functions of a file and the environment that run
  once at a start. What they may yield is a constant of `AlertEngine`
  (`Configs`) and the parameter of `Start` in `Access`.
- In the store, metrics and their retention; in the API, `/healthz`, `/metrics`,
  the read-only endpoints and the same-origin test: no state depends on them.
- In the browser, rendering, filters, the watchdog's banner, the lengths of
  timers.
- Migrations, beyond their order and atomicity with `user_version`: tables and
  columns.
- The heartbeat, whose result nothing reads.
- In deployment, what section 2 names.
- Styling, the service worker's cache of static files, CI, texts and logs.

Nothing of the plan is left. What would come next is inside parts that are
already there: the pages of a listing as requests of their own, and wall clocks
that go back.
