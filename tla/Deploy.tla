------------------------------- MODULE Deploy -------------------------------
(***************************************************************************)
(* install.sh, update.sh and its rollback, with the functions they share   *)
(* in deploy/panel-lib.sh, as one job at a time beside the service that    *)
(* systemd keeps running from the link `current', whose start migrates the *)
(* database (app/migrations.py).                                           *)
(*                                                                         *)
(* A release directory is a commit and a copy: copy 1 is releases/COMMIT,  *)
(* the others are the stamped rebuilds of it.  Files are reduced to what   *)
(* they belong to: the database to its schema, the wrapper and the unit to *)
(* the commit they come from.                                              *)
(***************************************************************************)
EXTENDS Integers, Sequences

CONSTANTS
  Commits,       \* what may be installed
  SchemaOf,      \* commit -> the schema its migrations end in
  VersionOf,     \* commit -> __version__, which commits may share
  Copies,        \* bound: directories of one commit
  KeepBackups,   \* KEEP_BACKUPS, 5 in the code
  MaxBackups,    \* bound: backups on disk when a job begins
  Disturbances,  \* what may go wrong beside the releases themselves
  None           \* no directory, no manifest, no backup, no process

ASSUME ReleasesAssumption == /\ SchemaOf \in [Commits -> Nat \ {0}]
                             /\ Copies \in Nat \ {0}
                             /\ KeepBackups \in Nat \ {0}
                             /\ None \notin Commits \X (1..Copies)

VARIABLES
  link,       \* what `current' points at
  present,    \* the release directories on disk
  whole,      \* those whose build was completed
  config,     \* config.yaml exists
  db,         \* user_version of the database; 0: there is none yet
  manifest,   \* manifest.json
  control,    \* the commits of the installed wrapper and unit
  backups,    \* the backup directories, oldest first
  unit,       \* what systemd was told: started, stopping, stopped
  enabled,    \* the unit starts at boot
  process,    \* the running panel: the directory of its code, and whether it is ready
  job,        \* the script that holds the lock
  struck      \* history: a disturbance has happened

disk == <<present, whole>>
state == <<db, manifest, control>>
service == <<unit, process>>
vars == <<link, disk, config, state, backups, service, enabled, job, struck>>

Dirs == Commits \X (1..Copies)
Commit(d) == d[1]
Manifests == [dir : Dirs, prev : Dirs \cup {None}]
Controls == [wrapper : Commits \cup {None}, unit : Commits \cup {None}]
Backups == [complete : BOOLEAN, db : Nat, manifest : Manifests \cup {None}, control : Controls]

ASSUME NoneAssumption == None \notin Commits /\ None \notin Backups

Resting == {"idle", "done", "failed", "killed"}
Restoring == {"restore db", "restore manifest", "restore control", "relink", "start again"}
Stages == Resting \cup Restoring \cup
          {"build", "snapshot", "validate", "control", "switch", "unit", "restart", "verify",
           "record", "prune releases", "prune backups", "stop", "verify again"}

NoJob == [at |-> "idle", kind |-> "none", to |-> None, from |-> None, undo |-> None, was |-> None]

CompleteBackups == {b \in {backups[i] : i \in DOMAIN backups} : b.complete}

Protected_ForgetsBackups ==  \* faulty: only the current and the previous release
  {link} \cup {m.prev : m \in {manifest} \ {None}}

\* protected_releases: current, the recorded previous one, and what complete backups name.
Protected ==
  {link} \cup {m.prev : m \in {manifest} \ {None}}
         \cup {b.manifest.dir : b \in {c \in CompleteBackups : c.manifest # None}}

At(stage) == job.at = stage
Go(stage) == job' = [job EXCEPT !.at = stage]
Can(d) == d \in Disturbances
Strike(d) == Can(d) /\ struck' = TRUE

\* A command of the script fails and `set -e' or die ends it where it stands.
Abort == Go("failed")

(***************************************************************************)
(* The service.  systemd starts what `current' points at, again and again, *)
(* until the start limit is reached; a release may crash or never be ready.*)
(***************************************************************************)
Ready(versions) ==  \* panelctl wait-healthy
  /\ unit = "started"
  /\ process # None
  /\ process.ready
  /\ VersionOf[Commit(process.dir)] \in versions

\* migrate() refuses a database newer than the code.
Opens(d) == d \in whole /\ db <= SchemaOf[Commit(d)]

Spawn ==
  /\ unit = "started" /\ process = None
  /\ link # None /\ Opens(link)
  /\ process' = [dir |-> link, ready |-> FALSE]
  /\ UNCHANGED <<link, disk, config, state, backups, unit, enabled, job, struck>>

\* One migration and its version, in one transaction.
Migrate ==
  /\ process # None /\ db < SchemaOf[Commit(process.dir)]
  /\ db' = db + 1
  /\ UNCHANGED <<link, disk, config, manifest, control, backups, service, enabled, job, struck>>

FirstPoll ==
  /\ process # None /\ ~process.ready
  /\ db = SchemaOf[Commit(process.dir)]
  /\ process' = [process EXCEPT !.ready = TRUE]
  /\ UNCHANGED <<link, disk, config, state, backups, unit, enabled, job, struck>>

Die ==
  /\ process # None
  /\ process' = None
  /\ unit' = IF unit = "stopping" THEN "stopped" ELSE unit
  /\ UNCHANGED <<link, disk, config, state, backups, enabled, job, struck>>

StartLimit ==
  /\ unit = "started" /\ process = None
  /\ unit' = "stopped"
  /\ UNCHANGED <<link, disk, config, state, backups, process, enabled, job, struck>>

(***************************************************************************)
(* Beginning: which directory a commit is built in.                        *)
(***************************************************************************)
CurrentOpens == link # None => db <= SchemaOf[Commit(link)]
CurrentRuns == process # None => process.dir = link
Picture == [link |-> link, manifest |-> manifest, control |-> control,
            sound |-> CurrentOpens /\ CurrentRuns]
Begun(kind, stage, d) == [at |-> stage, kind |-> kind, to |-> d, from |-> link, undo |-> None,
                          was |-> Picture]

\* update.sh needs an installed panel and compares with the manifest's commit.
MayBegin(kind, c) ==
  /\ job.at \in Resting
  /\ kind = "update" => link # None /\ (manifest # None => Commit(manifest.dir) # c)

Room == Len(backups) < MaxBackups  \* bound

AlreadyRunning ==
  /\ job.at \in Resting
  /\ link # None /\ manifest # None
  /\ job' = Begun("update", "done", manifest.dir)
  /\ UNCHANGED <<link, disk, config, state, backups, service, enabled, struck>>

\* "already installed, current and healthy.  Nothing to do."  update.sh goes on from there.
NothingToDo(kind, c) ==
  /\ MayBegin(kind, c)
  /\ link = <<c, 1>> /\ Ready({VersionOf[c]})
  /\ job' = Begun(kind, IF kind = "update" THEN "prune backups" ELSE "done", link)
  /\ UNCHANGED <<link, disk, config, state, backups, service, enabled, struck>>

\* What is current is re-validated and restarted, its files untouched.
Reactivate(kind, c) ==
  /\ MayBegin(kind, c) /\ Room
  /\ link = <<c, 1>>
  /\ job' = Begun(kind, "snapshot", link)
  /\ UNCHANGED <<link, disk, config, state, backups, service, enabled, struck>>

\* A stale directory is removed and built again.
Stage(kind, d) ==
  /\ present' = present \cup {d}
  /\ whole' = whole \ {d}
  /\ job' = Begun(kind, "build", d)
  /\ UNCHANGED <<link, config, state, backups, service, enabled, struck>>

StageNew(kind, c) ==
  /\ MayBegin(kind, c) /\ Room
  /\ link # <<c, 1>>
  /\ <<c, 1>> \notin present \/ <<c, 1>> \notin Protected
  /\ Stage(kind, <<c, 1>>)

\* A retained rollback target: the commit is built once more somewhere new.
StageCopy(kind, c, n) ==
  /\ MayBegin(kind, c) /\ Room
  /\ link # <<c, 1>>
  /\ <<c, 1>> \in present \cap Protected
  /\ n > 1 /\ <<c, n>> \notin present
  /\ Stage(kind, <<c, n>>)

\* do_rollback checks everything about the backup before it changes anything.
Roll(b) ==
  /\ job.at \in Resting /\ Room
  /\ link # None
  /\ b.manifest # None /\ b.manifest.dir \in whole
  /\ job' = [Begun("rollback", "snapshot", b.manifest.dir) EXCEPT !.undo = b]
  /\ UNCHANGED <<link, disk, config, state, backups, service, enabled, struck>>

(***************************************************************************)
(* Before anything that runs is touched.                                   *)
(***************************************************************************)
Build ==
  /\ At("build")
  /\ \/ whole' = whole \cup {job.to} /\ Go("snapshot")
     \/ Abort /\ UNCHANGED whole       \* no network, say
  /\ UNCHANGED <<link, present, config, state, backups, service, enabled, struck>>

Snapshot_NoDatabase(ok) ==  \* faulty: the database is not in the backup
  [complete |-> ok, db |-> 0, manifest |-> manifest, control |-> control]

\* make_backup: the marker is written last.
Snapshot(ok) == [complete |-> ok, db |-> db, manifest |-> manifest, control |-> control]

TakeBackup ==
  /\ At("snapshot")
  /\ IF job.kind = "rollback"
     THEN /\ backups' = Append(backups, Snapshot(TRUE))
          /\ Go("stop")
     ELSE IF config
     THEN /\ backups' = Append(backups, Snapshot(TRUE))
          /\ job' = [job EXCEPT !.at = "validate", !.undo = Snapshot(TRUE)]
     ELSE Go("validate") /\ UNCHANGED backups
  /\ UNCHANGED <<link, disk, config, state, service, enabled, struck>>

BackupFails ==
  /\ At("snapshot") /\ (config \/ job.kind = "rollback")
  /\ Strike("io")
  /\ backups' = Append(backups, Snapshot(FALSE))
  /\ Abort
  /\ UNCHANGED <<link, disk, config, state, service, enabled>>

\* The first run creates the configuration; a release may reject it.
Validate ==
  /\ At("validate")
  /\ config' = TRUE
  /\ Go("control") \/ Abort
  /\ UNCHANGED <<link, disk, state, backups, service, enabled, struck>>

(***************************************************************************)
(* Activation.                                                             *)
(***************************************************************************)
ReplaceWrapper ==
  /\ At("control")
  /\ control' = [control EXCEPT !.wrapper = Commit(job.to)]
  /\ Go("switch")
  /\ UNCHANGED <<link, disk, config, db, manifest, backups, service, enabled, struck>>

Switch ==
  /\ At("switch")
  /\ link' = job.to
  /\ Go("unit")
  /\ UNCHANGED <<disk, config, state, backups, service, enabled, struck>>

InstallUnit ==
  /\ At("unit")
  /\ control' = [control EXCEPT !.unit = Commit(job.to)]
  /\ enabled' = TRUE
  /\ Go("restart")
  /\ UNCHANGED <<link, disk, config, db, manifest, backups, service, struck>>

RestartService_Start ==  \* faulty: systemctl start, which leaves a running service alone
  /\ At("restart")
  /\ unit' = "started" /\ UNCHANGED process
  /\ Go("verify")
  /\ UNCHANGED <<link, disk, config, state, backups, enabled, struck>>

RestartService ==
  /\ At("restart")
  /\ unit' = "started" /\ process' = None
  /\ Go("verify")
  /\ UNCHANGED <<link, disk, config, state, backups, enabled, struck>>

ServiceFails ==
  /\ job.at \in {"unit", "restart"} /\ Strike("io")
  /\ Go("stop")
  /\ UNCHANGED <<link, disk, config, state, backups, service, enabled>>

Verify ==
  /\ At("verify")
  /\ IF Ready({VersionOf[Commit(job.to)]}) THEN Go("record") ELSE Go("stop")
  /\ UNCHANGED <<link, disk, config, state, backups, service, enabled, struck>>

\* The manifest becomes the truth.  Of what was current already, the previous
\* release is still the one recorded.
Previous == IF job.to # job.from THEN job.from ELSE IF manifest = None THEN None ELSE manifest.prev

Record ==
  /\ At("record")
  /\ manifest' = [dir |-> job.to, prev |-> Previous]
  /\ Go("prune releases")
  /\ UNCHANGED <<link, disk, config, db, control, backups, service, enabled, struck>>

\* Wrapper, link and manifest are written outside of revert's reach.
WriteFails ==
  /\ job.at \in {"control", "switch", "record", "relink"}
  /\ Strike("io")
  /\ Abort
  /\ UNCHANGED <<link, disk, config, state, backups, service, enabled>>

\* Of those that nothing protects the newest are kept: any may be among them.
PruneReleases ==
  /\ At("prune releases")
  /\ \E old \in SUBSET (present \ Protected) :
       present' = present \ old /\ whole' = whole \ old
  /\ Go(IF job.kind = "update" THEN "prune backups" ELSE "done")
  /\ UNCHANGED <<link, config, state, backups, service, enabled, struck>>

\* Of the old ones the newest goes first; an incomplete backup is left for a
\* person to see.
PruneBackups ==
  /\ At("prune backups")
  /\ LET old == {i \in 1..(Len(backups) - KeepBackups) : backups[i].complete}
     IN  IF old = {}
         THEN Go("done") /\ UNCHANGED backups
         ELSE /\ \E i \in old :
                   /\ \A j \in old : j <= i
                   /\ backups' = SubSeq(backups, 1, i - 1) \o SubSeq(backups, i + 1, Len(backups))
              /\ UNCHANGED job
  /\ UNCHANGED <<link, disk, config, state, service, enabled, struck>>

(***************************************************************************)
(* Putting a backup back: revert() after an activation that failed, and    *)
(* the rollback.                                                           *)
(***************************************************************************)
StopConfirmed_Trusting ==  \* faulty: systemctl stop is believed
  /\ At("stop")
  /\ unit' = "stopped" /\ UNCHANGED process
  /\ Go(IF job.undo = None THEN "relink" ELSE "restore db")
  /\ UNCHANGED <<link, disk, config, state, backups, enabled, struck>>

StopConfirmed ==
  /\ At("stop")
  /\ unit' = "stopped" /\ process' = None
  /\ Go(IF job.undo = None THEN "relink" ELSE "restore db")
  /\ UNCHANGED <<link, disk, config, state, backups, enabled, struck>>

StopUnconfirmed ==
  /\ At("stop") /\ process # None /\ Strike("stop")
  /\ unit' = "stopping"
  /\ Abort
  /\ UNCHANGED <<link, disk, config, state, backups, process, enabled>>

RestoreDatabase_Skipped ==  \* faulty: only the release goes back
  /\ At("restore db")
  /\ Go("restore manifest")
  /\ UNCHANGED <<link, disk, config, state, backups, service, enabled, struck>>

\* Only what the backup recorded is put back.
RestoreDatabase ==
  /\ At("restore db")
  /\ db' = IF job.undo.db = 0 THEN db ELSE job.undo.db
  /\ Go("restore manifest")
  /\ UNCHANGED <<link, disk, config, manifest, control, backups, service, enabled, struck>>

RestoreManifest ==
  /\ At("restore manifest")
  /\ manifest' = IF job.undo.manifest = None THEN manifest ELSE job.undo.manifest
  /\ Go("restore control")
  /\ UNCHANGED <<link, disk, config, db, control, backups, service, enabled, struck>>

RestoreControl_WrapperOnly ==  \* faulty: the unit file stays the new one
  /\ At("restore control")
  /\ control' = [control EXCEPT !.wrapper = IF job.undo.control.wrapper = None THEN @
                                            ELSE job.undo.control.wrapper]
  /\ Go("relink")
  /\ UNCHANGED <<link, disk, config, db, manifest, backups, service, enabled, struck>>

RestoreControl ==
  /\ At("restore control")
  /\ control' = [f \in {"wrapper", "unit"} |-> IF job.undo.control[f] = None THEN control[f]
                                               ELSE job.undo.control[f]]
  /\ Go("relink")
  /\ UNCHANGED <<link, disk, config, db, manifest, backups, service, enabled, struck>>

RestoreFails ==
  /\ job.at \in {"restore db", "restore manifest", "restore control"}
  /\ Strike("io")
  /\ Abort
  /\ UNCHANGED <<link, disk, config, state, backups, service, enabled>>

Goal == IF job.kind = "rollback" THEN job.to ELSE job.from

Relink ==
  /\ At("relink") /\ Goal # None
  /\ link' = Goal
  /\ Go("start again")
  /\ UNCHANGED <<disk, config, state, backups, service, enabled, struck>>

\* A first installation: nothing to fall back to, and nothing starts at boot.
Disable ==
  /\ At("relink") /\ Goal = None
  /\ enabled' = FALSE
  /\ Abort
  /\ UNCHANGED <<link, disk, config, state, backups, service, struck>>

StartAgain ==
  /\ At("start again")
  /\ unit' = "started"
  /\ Go("verify again")
  /\ UNCHANGED <<link, disk, config, state, backups, process, enabled, struck>>

\* A rollback that comes up is done; a revert is a failed job however it ends.
VerifyAgain ==
  /\ At("verify again")
  /\ IF job.kind = "rollback" /\ Ready({VersionOf[Commit(job.to)]}) THEN Go("done") ELSE Abort
  /\ UNCHANGED <<link, disk, config, state, backups, service, enabled, struck>>

(***************************************************************************)
(* Disturbances, and the operator between jobs.                            *)
(***************************************************************************)
Kill ==
  /\ job.at \notin Resting
  /\ Strike("kill")
  /\ Go("killed")
  /\ UNCHANGED <<link, disk, config, state, backups, service, enabled>>

Reboot ==
  /\ Can("reboot")
  /\ unit' = IF enabled THEN "started" ELSE "stopped"
  /\ process' = None
  /\ IF job.at \in Resting THEN UNCHANGED <<job, struck>> ELSE Go("killed") /\ struck' = TRUE
  /\ UNCHANGED <<link, disk, config, state, backups, enabled>>

\* panelctl restart and stop do not take the lock; nobody calls them during a job.
Operate ==
  /\ job.at \in Resting /\ control.unit # None
  /\ unit' \in {"started", "stopped"}
  /\ process' = None
  /\ UNCHANGED <<link, disk, config, state, backups, enabled, job, struck>>

Service == Spawn \/ Migrate \/ FirstPoll \/ Die \/ StartLimit

Begin ==
  \/ AlreadyRunning
  \/ \E kind \in {"install", "update"}, c \in Commits :
       NothingToDo(kind, c) \/ Reactivate(kind, c) \/ StageNew(kind, c)
         \/ \E n \in 1..Copies : StageCopy(kind, c, n)
  \/ \E b \in CompleteBackups : Roll(b)

Script ==
  \/ Build \/ TakeBackup \/ BackupFails \/ Validate
  \/ ReplaceWrapper \/ Switch \/ InstallUnit \/ RestartService \/ ServiceFails \/ Verify
  \/ Record \/ WriteFails \/ PruneReleases \/ PruneBackups
  \/ StopConfirmed \/ StopUnconfirmed
  \/ RestoreDatabase \/ RestoreManifest \/ RestoreControl \/ RestoreFails
  \/ Relink \/ Disable \/ StartAgain \/ VerifyAgain

Init ==
  /\ link = None /\ present = {} /\ whole = {} /\ config = FALSE
  /\ db = 0 /\ manifest = None /\ control = [wrapper |-> None, unit |-> None]
  /\ backups = <<>> /\ unit = "stopped" /\ enabled = FALSE /\ process = None
  /\ job = NoJob /\ struck = FALSE

Next == Service \/ Begin \/ Script \/ Kill \/ Reboot \/ Operate

Spec == Init /\ [][Next]_vars

(***************************************************************************)
(* Properties.                                                             *)
(***************************************************************************)

Jobs == [at : Stages, kind : {"none", "install", "update", "rollback"},
         to : Dirs \cup {None}, from : Dirs \cup {None}, undo : Backups \cup {None},
         was : [link : Dirs \cup {None}, manifest : Manifests \cup {None},
                control : Controls, sound : BOOLEAN] \cup {None}]

\* The types; what is whole is there, and a process belongs to a unit not stopped.
TypeOK ==
  /\ link \in Dirs \cup {None}
  /\ present \subseteq Dirs
  /\ whole \subseteq present
  /\ config \in BOOLEAN /\ enabled \in BOOLEAN /\ struck \in BOOLEAN
  /\ db \in Nat
  /\ manifest \in Manifests \cup {None}
  /\ control \in Controls
  /\ backups \in Seq(Backups)
  /\ unit \in {"started", "stopping", "stopped"}
  /\ process \in [dir : Dirs, ready : BOOLEAN] \cup {None}
  /\ unit = "stopped" => process = None
  /\ job \in Jobs

\* No file of a backup is put back, and the link is not moved back, while a
\* process of the service runs or may be started: what stop_confirmed is for.
RestoresAlone ==
  job.at \in {"restore db", "restore manifest", "restore control", "relink"} =>
    unit = "stopped" /\ process = None

\* Whatever happens, the link names a release that is whole, and one that a
\* complete backup names is not removed or built anew while the backup exists.
TargetsStay == [][
  /\ link' # None => link' \in whole'
  /\ \A b \in CompleteBackups \cap CompleteBackups' :
       b.manifest # None /\ b.manifest.dir \in whole => b.manifest.dir \in whole'
  ]_vars

\* Without disturbances every complete backup is one release: its code is on disk
\* and opens its database, its wrapper and unit are that code's.  So restoring works.
BackupsRestorable ==
  ~struck => \A b \in CompleteBackups :
    b.manifest # None =>
      /\ b.manifest.dir \in whole
      /\ b.db <= SchemaOf[Commit(b.manifest.dir)]
      /\ b.control = [wrapper |-> Commit(b.manifest.dir), unit |-> Commit(b.manifest.dir)]

\* Without disturbances a job that reports success on an installed panel has
\* deployed what it was asked for: manifest, link, control files and process say so.
DoneMeansDeployed ==
  ~struck /\ job.at = "done" /\ manifest # None =>
    /\ manifest.dir = job.to /\ link = job.to
    /\ control = [wrapper |-> Commit(job.to), unit |-> Commit(job.to)]
    /\ process # None => process.dir = job.to

\* Without disturbances a failed install or update of an installed panel leaves
\* release, manifest and control files as they were, with a database they open.
FailureChangesNothing ==
  ~struck /\ job.at = "failed" /\ job.kind # "rollback" /\ job.was.manifest # None =>
    /\ [link |-> link, manifest |-> manifest, control |-> control] =
         [f \in {"link", "manifest", "control"} |-> job.was[f]]
    /\ CurrentOpens

\* Whatever happens, a move to a newer schema leaves at every moment, killed or
\* not, a database that the release behind the link opens at the next boot.
NewerAlwaysOpens ==
  /\ job.kind \in {"install", "update"}
  /\ job.was.manifest # None /\ job.was.link # None /\ job.was.sound
  /\ SchemaOf[Commit(job.from)] <= SchemaOf[Commit(job.to)]
  => CurrentOpens

\* When a job reports success the manifest names what is deployed: update.sh
\* reads what is DEPLOYED from it, and panelctl finds update.sh through it.
ManifestIsDeployed ==
  ~struck /\ job.at = "done" => manifest # None /\ manifest.dir = link

=============================================================================
