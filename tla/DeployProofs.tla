---------------------------- MODULE DeployProofs ----------------------------
(***************************************************************************)
(* Theorems about Deploy for any commits, schemas, versions, bounds and    *)
(* disturbances.  First, nothing is put back under a running service, and  *)
(* what is current or a rollback target stays on disk as it was built.     *)
(* Then its types; that a move to a newer schema never leaves a database   *)
(* behind that what is current cannot open; and, as long as nothing        *)
(* disturbs a job, that backups can be put back, that success means        *)
(* deployed and that failure changes nothing.                              *)
(***************************************************************************)
EXTENDS Deploy, TLAPS

Fields == {"at", "kind", "to", "from", "undo", "was"}
JobShape == DOMAIN job = Fields

RestoreInv == JobShape /\ RestoresAlone

LEMMA RestoreStart == Init => RestoreInv
BY DEF Init, NoJob, RestoreInv, JobShape, Fields, RestoresAlone

\* Setting the stage of a job that has one.
LEMMA GoSets ==
  ASSUME JobShape, NEW s, Go(s)
  PROVE  JobShape' /\ job'.at = s
BY DEF JobShape, Fields, Go

Inside == {"restore db", "restore manifest", "restore control", "relink"}

LEMMA GoesOutside ==
  ASSUME RestoreInv, NEW s, s \notin Inside, Go(s)
  PROVE  RestoreInv'
<1>1. JobShape' /\ job'.at = s
  BY GoSets DEF RestoreInv
<1> QED BY <1>1 DEF RestoreInv, RestoresAlone, Inside

LEMMA BegunHas ==
  ASSUME NEW kind, NEW s, NEW d, job' = Begun(kind, s, d)
  PROVE  JobShape' /\ job'.at = s /\ job'.to = d /\ job'.from = link
BY DEF JobShape, Fields, Begun

LEMMA RestoreService == RestoreInv /\ Service => RestoreInv'
<1> SUFFICES ASSUME RestoreInv, Service PROVE RestoreInv'
  OBVIOUS
<1>1. UNCHANGED job
  BY DEF Service, Spawn, Migrate, FirstPoll, Die, StartLimit
<1>2. ASSUME job.at \in {"restore db", "restore manifest", "restore control", "relink"}
      PROVE  unit' = "stopped" /\ process' = None
  <2>1. unit = "stopped" /\ process = None
    BY <1>2 DEF RestoreInv, RestoresAlone
  <2> QED BY <2>1 DEF Service, Spawn, Migrate, FirstPoll, Die, StartLimit, service
<1> QED BY <1>1, <1>2 DEF RestoreInv, RestoresAlone, JobShape

LEMMA RestoreBegin == RestoreInv /\ Begin => RestoreInv'
<1> SUFFICES ASSUME RestoreInv, Begin PROVE RestoreInv'
  OBVIOUS
<1>1. JobShape' /\ job'.at \in {"done", "prune backups", "snapshot", "build"}
  <2>1. CASE AlreadyRunning
    BY <2>1, BegunHas DEF AlreadyRunning
  <2>2. ASSUME NEW kind, NEW c, NothingToDo(kind, c)
        PROVE  JobShape' /\ job'.at \in {"done", "prune backups", "snapshot", "build"}
    BY <2>2, BegunHas DEF NothingToDo
  <2>3. ASSUME NEW kind, NEW c, Reactivate(kind, c)
        PROVE  JobShape' /\ job'.at \in {"done", "prune backups", "snapshot", "build"}
    BY <2>3, BegunHas DEF Reactivate
  <2>4. ASSUME NEW kind, NEW d, Stage(kind, d)
        PROVE  JobShape' /\ job'.at \in {"done", "prune backups", "snapshot", "build"}
    BY <2>4, BegunHas DEF Stage
  <2>5. ASSUME NEW b, Roll(b)
        PROVE  JobShape' /\ job'.at \in {"done", "prune backups", "snapshot", "build"}
    BY <2>5 DEF Roll, Begun, JobShape, Fields
  <2> QED BY <2>1, <2>2, <2>3, <2>4, <2>5 DEF Begin, StageNew, StageCopy
<1> QED BY <1>1 DEF RestoreInv, RestoresAlone

LEMMA RestoreScript == RestoreInv /\ Script => RestoreInv'
<1> SUFFICES ASSUME RestoreInv, Script PROVE RestoreInv'
  OBVIOUS
<1>1. CASE Build
  BY <1>1, GoesOutside DEF Build, Abort, Inside
<1>2. CASE TakeBackup
  <2>1. JobShape' /\ job'.at \in {"stop", "validate"}
    <3>1. CASE job' = [job EXCEPT !.at = "validate", !.undo = Snapshot(TRUE)]
      BY <3>1 DEF RestoreInv, JobShape, Fields
    <3>2. ASSUME NEW s \in {"stop", "validate"}, Go(s) PROVE JobShape' /\ job'.at \in {"stop", "validate"}
      BY <3>2, GoSets DEF RestoreInv
    <3> QED BY <1>2, <3>1, <3>2 DEF TakeBackup
  <2> QED BY <2>1 DEF RestoreInv, RestoresAlone
<1>3. CASE BackupFails \/ Validate
  BY <1>3, GoesOutside DEF BackupFails, Validate, Abort, Inside
<1>4. CASE ReplaceWrapper \/ Switch \/ InstallUnit \/ RestartService \/ ServiceFails
  BY <1>4, GoesOutside DEF ReplaceWrapper, Switch, InstallUnit, RestartService, ServiceFails, Inside
<1>5. CASE Verify \/ Record \/ WriteFails \/ PruneReleases \/ PruneBackups
  <2>1. CASE UNCHANGED <<job, service>>
    BY <2>1 DEF service, RestoreInv, RestoresAlone, JobShape
  <2> QED BY <1>5, <2>1, GoesOutside
          DEF Verify, Record, WriteFails, PruneReleases, PruneBackups, Abort, Inside
<1>6. CASE StopConfirmed
  <2>1. JobShape'
    BY <1>6, GoSets DEF StopConfirmed, RestoreInv
  <2>2. unit' = "stopped" /\ process' = None
    BY <1>6 DEF StopConfirmed
  <2> QED BY <2>1, <2>2 DEF RestoreInv, RestoresAlone
<1>7. CASE StopUnconfirmed \/ RestoreFails
  BY <1>7, GoesOutside DEF StopUnconfirmed, RestoreFails, Abort, Inside
<1>8. CASE RestoreDatabase \/ RestoreManifest \/ RestoreControl
  <2>1. job.at \in Inside /\ UNCHANGED service
    BY <1>8 DEF RestoreDatabase, RestoreManifest, RestoreControl, At, Inside
  <2>2. JobShape'
    BY <1>8, GoSets DEF RestoreDatabase, RestoreManifest, RestoreControl, RestoreInv
  <2>3. unit' = "stopped" /\ process' = None
    BY <2>1 DEF RestoreInv, RestoresAlone, service, Inside
  <2> QED BY <2>2, <2>3 DEF RestoreInv, RestoresAlone
<1>9. CASE Relink \/ Disable \/ StartAgain \/ VerifyAgain
  BY <1>9, GoesOutside DEF Relink, Disable, StartAgain, VerifyAgain, Abort, Inside
<1> QED BY <1>1, <1>2, <1>3, <1>4, <1>5, <1>6, <1>7, <1>8, <1>9 DEF Script

LEMMA RestoreNext == RestoreInv /\ [Next]_vars => RestoreInv'
<1> SUFFICES ASSUME RestoreInv, [Next]_vars PROVE RestoreInv'
  OBVIOUS
<1>1. CASE Kill
  BY <1>1, GoesOutside DEF Kill, Inside
<1>2. CASE Reboot
  <2>1. JobShape' /\ job'.at \in Resting
    BY <1>2, GoSets DEF Reboot, RestoreInv, Resting, JobShape
  <2> QED BY <2>1 DEF RestoreInv, RestoresAlone, Resting
<1>3. CASE Operate
  BY <1>3 DEF Operate, RestoreInv, RestoresAlone, JobShape, Resting
<1>4. CASE UNCHANGED vars
  BY <1>4 DEF vars, service, RestoreInv, RestoresAlone, JobShape
<1> QED BY <1>1, <1>2, <1>3, <1>4, RestoreService, RestoreBegin, RestoreScript DEF Next

\* No file of a backup is put back and the link is not moved back while the
\* service runs or may be started: stop_confirmed in revert and do_rollback.
THEOREM RestoresAreAlone == Spec => []RestoresAlone
<1>1. RestoreInv => RestoresAlone
  BY DEF RestoreInv
<1> QED BY <1>1, RestoreStart, RestoreNext, PTL DEF Spec

(***************************************************************************)
(* What is on disk.  While the link may still be moved, what it would be   *)
(* moved to, forth or back, is whole.                                      *)
(***************************************************************************)
Moving == {"snapshot", "validate", "control", "switch", "unit", "restart", "verify", "stop"} \cup Inside

OnDisk ==
  /\ whole \subseteq present
  /\ link # None => link \in whole
  /\ job.at \in Moving \cup {"build"} /\ job.from # None => job.from \in whole
  /\ job.at \in Moving => job.to \in whole
  /\ job.at = "build" => job.to \in present

TargetInv == JobShape /\ OnDisk

LEMMA TargetStart == Init => TargetInv
BY DEF Init, NoJob, TargetInv, OnDisk, JobShape, Fields, Moving, Inside

LEMMA GoKeeps ==
  ASSUME JobShape, NEW s, Go(s)
  PROVE  job'.to = job.to /\ job'.from = job.from
BY DEF JobShape, Fields, Go

\* A step that leaves directories and link alone and goes on with the job.
LEMMA GoesOn ==
  ASSUME TargetInv, NEW s, Go(s), UNCHANGED <<link, disk>>,
         s \in Moving \cup {"build"} => job.at \in Moving /\ s # "build"
  PROVE  TargetInv'
<1>1. JobShape' /\ job'.at = s
  BY GoSets DEF TargetInv
<1>2. job'.to = job.to /\ job'.from = job.from
  BY GoKeeps DEF TargetInv
<1>3. OnDisk'
  BY <1>1, <1>2 DEF TargetInv, OnDisk, disk
<1> QED BY <1>1, <1>3 DEF TargetInv

LEMMA TargetService == TargetInv /\ Service => TargetInv'
<1> SUFFICES ASSUME TargetInv, Service PROVE TargetInv'
  OBVIOUS
<1>1. UNCHANGED <<job, link, disk>>
  BY DEF Service, Spawn, Migrate, FirstPoll, Die, StartLimit
<1> QED BY <1>1 DEF TargetInv, OnDisk, JobShape, disk

\* A new job: from is what is current, and the directory it stages is another.
LEMMA TargetStage ==
  ASSUME TargetInv, NEW kind, NEW d, Stage(kind, d), d # link
  PROVE  TargetInv'
<1>1. JobShape' /\ job'.at = "build" /\ job'.to = d /\ job'.from = link
  BY BegunHas DEF Stage
<1>2. OnDisk'
  BY <1>1 DEF TargetInv, OnDisk, Stage, Moving, Inside
<1> QED BY <1>1, <1>2 DEF TargetInv

LEMMA TargetBegin == TargetInv /\ Begin => TargetInv'
<1> SUFFICES ASSUME TargetInv, Begin PROVE TargetInv'
  OBVIOUS
<1>1. ASSUME NEW kind, NEW s, job' = Begun(kind, s, link), s # "build", link # None, UNCHANGED <<link, disk>>
      PROVE  TargetInv'
  <2>1. JobShape' /\ job'.at = s /\ job'.to = link /\ job'.from = link
    BY <1>1, BegunHas
  <2>2. OnDisk'
    BY <1>1, <2>1 DEF TargetInv, OnDisk, disk
  <2> QED BY <2>1, <2>2 DEF TargetInv
<1>2. CASE AlreadyRunning
  <2>1. JobShape' /\ job'.at = "done"
    BY <1>2, BegunHas DEF AlreadyRunning
  <2>2. OnDisk'
    BY <1>2, <2>1 DEF AlreadyRunning, TargetInv, OnDisk, disk, Moving, Inside
  <2> QED BY <2>1, <2>2 DEF TargetInv
<1>3. ASSUME NEW c \in Commits, NEW n \in 1..Copies PROVE <<c, n>> # None
  BY ReleasesAssumption
<1>4. ASSUME NEW kind, NEW c \in Commits, NothingToDo(kind, c) \/ Reactivate(kind, c)
      PROVE  TargetInv'
  <2>1. 1 \in 1..Copies
    BY ReleasesAssumption
  <2>2. link = <<c, 1>>
    BY <1>4 DEF NothingToDo, Reactivate
  <2>3. link # None
    BY <1>3, <2>1, <2>2
  <2> QED BY <1>1, <1>4, <2>3 DEF NothingToDo, Reactivate
<1>5. ASSUME NEW kind, NEW c \in Commits,
             StageNew(kind, c) \/ \E n \in 1..Copies : StageCopy(kind, c, n)
      PROVE  TargetInv'
  <2>1. CASE StageNew(kind, c)
    BY <2>1, TargetStage DEF StageNew
  <2>2. ASSUME NEW n \in 1..Copies, StageCopy(kind, c, n) PROVE TargetInv'
    <3>1. <<c, n>> # None
      BY <1>3
    <3>2. link \in present \/ link = None
      BY DEF TargetInv, OnDisk
    <3>3. <<c, n>> # link
      BY <2>2, <3>1, <3>2 DEF StageCopy
    <3> QED BY <2>2, <3>3, TargetStage DEF StageCopy
  <2> QED BY <1>5, <2>1, <2>2
<1>6. ASSUME NEW b, Roll(b) PROVE TargetInv'
  <2>1. JobShape' /\ job'.at = "snapshot" /\ job'.to \in whole /\ job'.from = link
    BY <1>6 DEF Roll, Begun, JobShape, Fields
  <2>2. OnDisk'
    BY <1>6, <2>1 DEF Roll, TargetInv, OnDisk, disk, Moving, Inside
  <2> QED BY <2>1, <2>2 DEF TargetInv
<1> QED BY <1>2, <1>4, <1>5, <1>6 DEF Begin

LEMMA TargetScript == TargetInv /\ Script => TargetInv'
<1> SUFFICES ASSUME TargetInv, Script PROVE TargetInv'
  OBVIOUS
<1>1. CASE Build
  <2>1. ASSUME Go("snapshot") PROVE JobShape' /\ job'.at = "snapshot" /\ job'.to = job.to /\ job'.from = job.from
    BY <2>1, GoSets, GoKeeps DEF TargetInv
  <2>2. ASSUME Go("failed") PROVE JobShape' /\ job'.at = "failed"
    BY <2>2, GoSets DEF TargetInv
  <2>3. CASE whole' = whole \cup {job.to} /\ Go("snapshot")
    <3>1. OnDisk'
      BY <1>1, <2>1, <2>3 DEF Build, At, TargetInv, OnDisk, Moving, Inside
    <3> QED BY <2>1, <2>3, <3>1 DEF TargetInv
  <2>4. CASE Abort /\ UNCHANGED whole
    <3>1. OnDisk'
      BY <1>1, <2>2, <2>4 DEF Build, Abort, TargetInv, OnDisk, Moving, Inside
    <3> QED BY <2>2, <2>4, <3>1 DEF TargetInv, Abort
  <2> QED BY <1>1, <2>3, <2>4 DEF Build
<1>2. CASE TakeBackup
  <2>1. CASE job' = [job EXCEPT !.at = "validate", !.undo = Snapshot(TRUE)]
    <3>1. JobShape' /\ job'.at = "validate" /\ job'.to = job.to /\ job'.from = job.from
      BY <2>1 DEF TargetInv, JobShape, Fields
    <3>2. OnDisk'
      BY <1>2, <3>1 DEF TakeBackup, At, TargetInv, OnDisk, disk, Moving
    <3> QED BY <3>1, <3>2 DEF TargetInv
  <2>2. CASE Go("stop") \/ Go("validate")
    BY <1>2, <2>2, GoesOn DEF TakeBackup, At, Moving
  <2> QED BY <1>2, <2>1, <2>2 DEF TakeBackup
<1>3. CASE BackupFails \/ Validate
  BY <1>3, GoesOn DEF BackupFails, Validate, At, Abort, Moving, Inside
<1>4. CASE ReplaceWrapper \/ InstallUnit \/ RestartService \/ ServiceFails
  BY <1>4, GoesOn DEF ReplaceWrapper, InstallUnit, RestartService, ServiceFails, At, Moving
<1>5. CASE Switch
  <2>1. JobShape' /\ job'.at = "unit" /\ job'.to = job.to /\ job'.from = job.from
    BY <1>5, GoSets, GoKeeps DEF Switch, TargetInv
  <2>2. OnDisk'
    BY <1>5, <2>1 DEF Switch, At, TargetInv, OnDisk, disk, Moving
  <2> QED BY <2>1, <2>2 DEF TargetInv
<1>6. CASE Verify \/ Record \/ WriteFails \/ PruneBackups
  <2>1. CASE UNCHANGED <<job, link, disk>>
    BY <2>1 DEF disk, TargetInv, OnDisk, JobShape
  <2> QED BY <1>6, <2>1, GoesOn DEF Verify, Record, WriteFails, PruneBackups, At, Abort, Moving, Inside
<1>7. CASE PruneReleases
  <2>1. JobShape' /\ job'.at \notin Moving \cup {"build"}
    <3>1. PICK s \in {"prune backups", "done"} : Go(s)
      BY <1>7 DEF PruneReleases
    <3> QED BY <3>1, GoSets DEF TargetInv, Moving, Inside
  <2>2. PICK old \in SUBSET (present \ Protected) : present' = present \ old /\ whole' = whole \ old
    BY <1>7 DEF PruneReleases
  <2>3. UNCHANGED link /\ link \in Protected
    BY <1>7 DEF PruneReleases, Protected
  <2>4. whole' \subseteq present' /\ (link' # None => link' \in whole')
    BY <2>2, <2>3 DEF TargetInv, OnDisk
  <2>5. OnDisk'
    BY <2>1, <2>4 DEF OnDisk, Moving
  <2> QED BY <2>1, <2>5 DEF TargetInv
<1>8. CASE StopConfirmed \/ StopUnconfirmed
  BY <1>8, GoesOn DEF StopConfirmed, StopUnconfirmed, At, Abort, Moving, Inside
<1>9. CASE RestoreDatabase \/ RestoreManifest \/ RestoreControl \/ RestoreFails
  BY <1>9, GoesOn DEF RestoreDatabase, RestoreManifest, RestoreControl, RestoreFails, At, Abort, Moving, Inside
<1>10. CASE Relink
  <2>1. JobShape' /\ job'.at = "start again"
    BY <1>10, GoSets DEF Relink, TargetInv
  <2>2. Goal # None => Goal \in whole
    BY <1>10 DEF Relink, At, Goal, TargetInv, OnDisk, Moving, Inside
  <2>3. OnDisk'
    BY <1>10, <2>1, <2>2 DEF Relink, TargetInv, OnDisk, disk, Moving, Inside
  <2> QED BY <2>1, <2>3 DEF TargetInv
<1>11. CASE Disable \/ StartAgain \/ VerifyAgain
  BY <1>11, GoesOn DEF Disable, StartAgain, VerifyAgain, At, Abort, Moving, Inside
<1> QED BY <1>1, <1>2, <1>3, <1>4, <1>5, <1>6, <1>7, <1>8, <1>9, <1>10, <1>11 DEF Script

LEMMA TargetNext == TargetInv /\ [Next]_vars => TargetInv'
<1> SUFFICES ASSUME TargetInv, [Next]_vars PROVE TargetInv'
  OBVIOUS
<1>1. CASE Kill
  BY <1>1, GoesOn DEF Kill, Moving, Inside
<1>2. CASE Reboot
  <2>1. CASE UNCHANGED job
    BY <1>2, <2>1 DEF Reboot, TargetInv, OnDisk, JobShape, disk
  <2>2. CASE Go("killed")
    BY <1>2, <2>2, GoesOn DEF Reboot, Moving, Inside
  <2> QED BY <1>2, <2>1, <2>2 DEF Reboot
<1>3. CASE Operate \/ UNCHANGED vars
  BY <1>3 DEF Operate, vars, disk, TargetInv, OnDisk, JobShape
<1> QED BY <1>1, <1>2, <1>3, TargetService, TargetBegin, TargetScript DEF Next

\* The directory that is removed or built anew is not one a complete backup
\* names, unless that one was not whole.
LEMMA NamedStay ==
  ASSUME TargetInv, [Next]_vars, NEW b \in CompleteBackups,
         b.manifest # None, b.manifest.dir \in whole
  PROVE  b.manifest.dir \in whole'
<1>1. b.manifest.dir \in present /\ b.manifest.dir \in Protected
  BY DEF TargetInv, OnDisk, Protected
<1>2. CASE whole \subseteq whole'
  BY <1>2
<1>3. ASSUME NEW kind, NEW d, Stage(kind, d), d \notin present \/ d \notin Protected
      PROVE  b.manifest.dir \in whole'
  BY <1>1, <1>3 DEF Stage
<1>4. CASE Begin
  <2>1. ASSUME NEW kind, NEW c, StageNew(kind, c) PROVE b.manifest.dir \in whole'
    BY <2>1, <1>3 DEF StageNew
  <2>2. ASSUME NEW kind, NEW c, NEW n, StageCopy(kind, c, n) PROVE b.manifest.dir \in whole'
    BY <2>2, <1>3 DEF StageCopy
  <2> QED BY <1>4, <1>2, <2>1, <2>2 DEF Begin, AlreadyRunning, NothingToDo, Reactivate, Roll, disk
<1>5. CASE PruneReleases
  BY <1>1, <1>5 DEF PruneReleases
<1>6. CASE Script /\ ~PruneReleases
  <2>1. whole \subseteq whole'
    <3>1. CASE Build \/ TakeBackup \/ BackupFails \/ Validate
      BY <3>1 DEF Build, TakeBackup, BackupFails, Validate, disk
    <3>2. CASE ReplaceWrapper \/ Switch \/ InstallUnit \/ RestartService \/ ServiceFails \/ Verify
      BY <3>2 DEF ReplaceWrapper, Switch, InstallUnit, RestartService, ServiceFails, Verify, disk
    <3>3. CASE Record \/ WriteFails \/ PruneBackups \/ StopConfirmed \/ StopUnconfirmed
      BY <3>3 DEF Record, WriteFails, PruneBackups, StopConfirmed, StopUnconfirmed, disk
    <3>4. CASE RestoreDatabase \/ RestoreManifest \/ RestoreControl \/ RestoreFails
      BY <3>4 DEF RestoreDatabase, RestoreManifest, RestoreControl, RestoreFails, disk
    <3>5. CASE Relink \/ Disable \/ StartAgain \/ VerifyAgain
      BY <3>5 DEF Relink, Disable, StartAgain, VerifyAgain, disk
    <3> QED BY <1>6, <3>1, <3>2, <3>3, <3>4, <3>5 DEF Script
  <2> QED BY <1>2, <2>1
<1>7. CASE Service
  BY <1>7, <1>2 DEF Service, Spawn, Migrate, FirstPoll, Die, StartLimit, disk
<1>8. CASE Kill \/ Reboot \/ Operate \/ UNCHANGED vars
  BY <1>8, <1>2 DEF Kill, Reboot, Operate, vars, disk
<1> QED BY <1>4, <1>5, <1>6, <1>7, <1>8 DEF Next

\* The link always names a whole release, and no job removes or rebuilds one
\* that a complete backup names: protected_releases and its two uses in install.sh.
THEOREM TargetsStayOnDisk == Spec => TargetsStay
<1>1. TargetInv /\ TargetInv' /\ [Next]_vars =>
        [ /\ link' # None => link' \in whole'
          /\ \A b \in CompleteBackups \cap CompleteBackups' :
               b.manifest # None /\ b.manifest.dir \in whole => b.manifest.dir \in whole' ]_vars
  BY NamedStay DEF TargetInv, OnDisk
<1> QED BY <1>1, TargetStart, TargetNext, PTL DEF Spec, TargetsStay

-----------------------------------------------------------------------------
Putting == {"restore db", "restore manifest", "restore control"}

\* A job that has begun has a directory; what puts something back has a backup.
Supplied ==
  /\ job.at # "idle" => job.to \in Dirs /\ job.kind # "none"
  /\ job.at \in Putting => job.undo # None

Typed == TypeOK /\ Supplied

Pictures == [link : Dirs \cup {None}, manifest : Manifests \cup {None},
             control : Controls, sound : BOOLEAN]

LEMMA TypedStart == Init => Typed
<1>1. NoJob \in Jobs
  BY DEF NoJob, Jobs, Stages, Resting
<1>2. [wrapper |-> None, unit |-> None] \in Controls
  BY DEF Controls
<1>3. << >> \in Seq(Backups)
  OBVIOUS
<1>4. NoJob.at = "idle"
  BY DEF NoJob
<1> SUFFICES ASSUME Init PROVE Typed
  OBVIOUS
<1>5. TypeOK
  <2>1. job \in Jobs /\ control \in Controls /\ backups \in Seq(Backups)
    BY <1>1, <1>2, <1>3 DEF Init
  <2> QED BY <2>1 DEF Init, TypeOK
<1>6. Supplied
  BY <1>4 DEF Init, Supplied, Putting
<1> QED BY <1>5, <1>6 DEF Typed

LEMMA FirstCopy ==
  ASSUME NEW c \in Commits, NEW n \in 1..Copies
  PROVE  <<c, n>> \in Dirs /\ <<c, 1>> \in Dirs /\ <<c, n>> # None /\ <<c, 1>> # None
<1>1. 1 \in 1..Copies
  BY ReleasesAssumption
<1> QED BY <1>1, ReleasesAssumption DEF Dirs

LEMMA CommitTypes ==
  ASSUME NEW d \in Dirs
  PROVE  Commit(d) \in Commits /\ SchemaOf[Commit(d)] \in Nat /\ SchemaOf[Commit(d)] > 0
BY ReleasesAssumption DEF Dirs, Commit

LEMMA TypedGo ==
  ASSUME Typed, NEW s \in Stages, Go(s), job.at # "idle", s \in Putting => job.undo # None
  PROVE  job' \in Jobs /\ Supplied'
<1>1. job \in Jobs /\ job.to \in Dirs
  BY DEF Typed, TypeOK, Supplied
<1>2. job' = [job EXCEPT !.at = s]
  BY DEF Go
<1>3. job' \in Jobs
  BY <1>1, <1>2 DEF Jobs
<1>4. job'.at = s /\ job'.to = job.to /\ job'.kind = job.kind /\ job'.undo = job.undo
  BY <1>1, <1>2 DEF Jobs
<1> QED BY <1>1, <1>3, <1>4 DEF Typed, Supplied

LEMMA Appended ==
  ASSUME NEW S, NEW s \in Seq(S), NEW e \in S
  PROVE  Append(s, e) \in Seq(S)
OBVIOUS

LEMMA AppendedElements ==
  ASSUME NEW S, NEW s \in Seq(S), NEW e \in S, NEW i \in DOMAIN Append(s, e)
  PROVE  (i \in DOMAIN s /\ Append(s, e)[i] = s[i]) \/ Append(s, e)[i] = e
OBVIOUS

LEMMA Joined ==
  ASSUME NEW S, NEW a \in Seq(S), NEW z \in Seq(S)
  PROVE  DOMAIN (a \o z) = 1..(Len(a) + Len(z))
OBVIOUS

Without(s, i) == SubSeq(s, 1, i - 1) \o SubSeq(s, i + 1, Len(s))

LEMMA WithoutElements ==
  ASSUME NEW S, NEW s \in Seq(S), NEW i \in 1..Len(s), NEW j \in DOMAIN Without(s, i)
  PROVE  \E k \in DOMAIN s : Without(s, i)[j] = s[k]
<1> DEFINE a == SubSeq(s, 1, i - 1)
           z == SubSeq(s, i + 1, Len(s))
<1>1. a \in Seq(S) /\ Len(a) = i - 1 /\ \A k \in 1..(i - 1) : a[k] = s[k]
  OBVIOUS
<1>2. z \in Seq(S) /\ Len(z) = Len(s) - i /\ \A k \in 1..(Len(s) - i) : z[k] = s[i + k]
  OBVIOUS
<1> HIDE DEF a, z
<1>0. Without(s, i) = a \o z
  BY DEF Without, a, z
<1>3. j \in 1..(Len(s) - 1)
  <2>1. DOMAIN (a \o z) = 1..(Len(a) + Len(z))
    BY <1>1, <1>2, Joined
  <2>2. Len(a) + Len(z) = Len(s) - 1
    BY <1>1, <1>2
  <2> QED BY <1>0, <2>1, <2>2
<1>4. CASE j <= i - 1
  <2>1. (a \o z)[j] = a[j]
    BY <1>1, <1>2, <1>3, <1>4
  <2> QED BY <1>0, <1>1, <1>3, <1>4, <2>1
<1>5. CASE j > i - 1
  <2>1. (a \o z)[j] = z[j - (i - 1)]
    BY <1>1, <1>2, <1>3, <1>5
  <2>2. j - (i - 1) \in 1..(Len(s) - i)
    BY <1>3, <1>5
  <2>3. z[j - (i - 1)] = s[i + (j - (i - 1))]
    BY <1>2, <2>2
  <2>4. i + (j - (i - 1)) \in DOMAIN s
    BY <1>3, <1>5
  <2> QED BY <1>0, <2>1, <2>3, <2>4
<1> QED BY <1>3, <1>4, <1>5

LEMMA PictureTyped == Typed => Picture \in Pictures
<1>1. (CurrentOpens /\ CurrentRuns) \in BOOLEAN
  BY DEF CurrentOpens, CurrentRuns
<1> QED BY <1>1 DEF Typed, TypeOK, Picture, Pictures

LEMMA TypedBegun ==
  ASSUME Typed, NEW kind \in {"install", "update", "rollback"},
         NEW s \in Stages \ (Putting \cup {"idle"}), NEW d \in Dirs
  PROVE  Begun(kind, s, d) \in Jobs
BY PictureTyped DEF Begun, Jobs, Pictures, Typed, TypeOK

LEMMA TypedService == Typed /\ Service => Typed'
<1> SUFFICES ASSUME Typed, Service PROVE Typed'
  OBVIOUS
<1>1. UNCHANGED job /\ Supplied'
  BY DEF Service, Spawn, Migrate, FirstPoll, Die, StartLimit, Typed, Supplied
<1>2. CASE Spawn
  BY <1>1, <1>2 DEF Spawn, disk, state, Typed, TypeOK
<1>3. CASE Migrate
  BY <1>1, <1>3 DEF Migrate, disk, service, Typed, TypeOK
<1>4. CASE FirstPoll
  BY <1>1, <1>4 DEF FirstPoll, disk, state, Typed, TypeOK
<1>5. CASE Die
  BY <1>1, <1>5 DEF Die, disk, state, Typed, TypeOK
<1>6. CASE StartLimit
  BY <1>1, <1>6 DEF StartLimit, disk, state, Typed, TypeOK
<1> QED BY <1>2, <1>3, <1>4, <1>5, <1>6 DEF Service

LEMMA BackupsTyped == Typed => CompleteBackups \subseteq Backups
BY DEF Typed, TypeOK, CompleteBackups

\* The job is all that begins, and the directory it stages.
LEMMA TypedBegin == Typed /\ Begin => Typed'
<1> SUFFICES ASSUME Typed, Begin PROVE Typed'
  OBVIOUS
<1>1. ASSUME NEW kind \in {"install", "update", "rollback"},
             NEW s \in Stages \ (Putting \cup {"idle"}), NEW d \in Dirs, job' = Begun(kind, s, d)
      PROVE  job' \in Jobs /\ Supplied'
  <2>1. job' \in Jobs
    BY <1>1, TypedBegun
  <2>2. job'.at = s /\ job'.to = d /\ job'.kind = kind
    BY <1>1 DEF Begun
  <2> QED BY <2>1, <2>2 DEF Supplied
<1>2. ASSUME job' \in Jobs, Supplied', UNCHANGED <<link, disk, config, state, backups, service, enabled, struck>>
      PROVE  Typed'
  BY <1>2 DEF Typed, TypeOK, disk, state, service
<1>3. CASE AlreadyRunning
  <2>1. manifest.dir \in Dirs
    BY <1>3 DEF AlreadyRunning, Typed, TypeOK, Manifests
  <2> QED BY <1>1, <1>2, <1>3, <2>1 DEF AlreadyRunning, Stages, Resting, Putting
<1>4. ASSUME NEW kind \in {"install", "update"}, NEW c \in Commits,
             NothingToDo(kind, c) \/ Reactivate(kind, c)
      PROVE  Typed'
  <2>1. link \in Dirs
    <3>1. 1 \in 1..Copies
      BY ReleasesAssumption
    <3> QED BY <1>4, <3>1, FirstCopy DEF NothingToDo, Reactivate
  <2>2. PICK s \in {"prune backups", "done", "snapshot"} : job' = Begun(kind, s, link)
    BY <1>4 DEF NothingToDo, Reactivate
  <2>3. job' \in Jobs /\ Supplied'
    BY <1>1, <2>1, <2>2 DEF Stages, Resting, Putting
  <2> QED BY <1>2, <1>4, <2>3 DEF NothingToDo, Reactivate
<1>5. ASSUME NEW kind \in {"install", "update"}, NEW d \in Dirs, Stage(kind, d) PROVE Typed'
  <2>1. job' \in Jobs /\ Supplied'
    BY <1>1, <1>5 DEF Stage, Stages, Putting
  <2>2. present' \subseteq Dirs /\ whole' \subseteq present'
    BY <1>5 DEF Stage, Typed, TypeOK
  <2> QED BY <1>5, <2>1, <2>2 DEF Stage, Typed, TypeOK, state, service
<1>6. ASSUME NEW b \in CompleteBackups, Roll(b) PROVE Typed'
  <2>1. b \in Backups /\ b.manifest \in Manifests /\ b.manifest.dir \in Dirs
    <3>1. b \in Backups
      BY BackupsTyped
    <3>2. b.manifest \in Manifests
      BY <1>6, <3>1 DEF Roll, Backups
    <3> QED BY <3>1, <3>2 DEF Manifests
  <2> DEFINE begun == Begun("rollback", "snapshot", b.manifest.dir)
  <2>2. begun \in Jobs
    BY <2>1, TypedBegun DEF Stages, Putting
  <2>3. begun.at = "snapshot" /\ begun.to = b.manifest.dir /\ begun.kind = "rollback"
    BY DEF Begun
  <2> HIDE DEF begun
  <2>4. job' = [begun EXCEPT !.undo = b]
    BY <1>6 DEF Roll, begun
  <2>5. job' \in Jobs
    BY <2>1, <2>2, <2>4 DEF Jobs
  <2>6. Supplied'
    BY <2>1, <2>2, <2>3, <2>4 DEF Supplied, Putting, Jobs
  <2> QED BY <1>2, <1>6, <2>5, <2>6 DEF Roll
<1>7. ASSUME NEW kind \in {"install", "update"}, NEW c \in Commits,
             StageNew(kind, c) \/ \E n \in 1..Copies : StageCopy(kind, c, n)
      PROVE  Typed'
  <2>1. 1 \in 1..Copies
    BY ReleasesAssumption
  <2>2. CASE StageNew(kind, c)
    BY <1>5, <2>1, <2>2, FirstCopy DEF StageNew
  <2>3. ASSUME NEW n \in 1..Copies, StageCopy(kind, c, n) PROVE Typed'
    BY <1>5, <2>3, FirstCopy DEF StageCopy
  <2> QED BY <1>7, <2>2, <2>3
<1> QED BY <1>3, <1>4, <1>6, <1>7 DEF Begin

LEMMA SnapshotTyped == Typed => Snapshot(TRUE) \in Backups /\ Snapshot(FALSE) \in Backups
BY DEF Snapshot, Backups, Typed, TypeOK

\* Every step of the script goes on with a job that has begun.
LEMMA TypedScript == Typed /\ TargetInv /\ Script => Typed'
<1> SUFFICES ASSUME Typed, TargetInv, Script PROVE Typed'
  OBVIOUS
<1>1. ASSUME NEW s \in Stages \ Putting, Go(s), job.at # "idle"
      PROVE  job' \in Jobs /\ Supplied'
  BY <1>1, TypedGo
<1>2. CASE Build
  <2>1. job' \in Jobs /\ Supplied'
    BY <1>1, <1>2 DEF Build, At, Abort, Stages, Resting, Putting
  <2>2. whole' \subseteq present'
    BY <1>2 DEF Build, At, Typed, TypeOK, TargetInv, OnDisk
  <2> QED BY <1>2, <2>1, <2>2 DEF Build, Typed, TypeOK, state, service
<1>3. Snapshot(TRUE) \in Backups /\ Snapshot(FALSE) \in Backups
  BY SnapshotTyped
<1>4. CASE TakeBackup
  <2>1. job' \in Jobs /\ Supplied'
    <3>1. CASE job' = [job EXCEPT !.at = "validate", !.undo = Snapshot(TRUE)]
      <4>1. job \in Jobs /\ job.to \in Dirs
        BY <1>4 DEF TakeBackup, At, Typed, TypeOK, Supplied
      <4>2. job' \in Jobs
        BY <1>3, <3>1, <4>1 DEF Jobs, Stages
      <4>3. job'.at = "validate" /\ job'.to = job.to /\ job'.kind = job.kind /\ job.at = "snapshot"
        BY <1>4, <3>1, <4>1 DEF Jobs, TakeBackup, At
      <4> QED BY <4>1, <4>2, <4>3 DEF Typed, Supplied, Putting
    <3>2. CASE Go("stop") \/ Go("validate")
      BY <1>1, <1>4, <3>2 DEF TakeBackup, At, Stages, Putting
    <3> QED BY <1>4, <3>1, <3>2 DEF TakeBackup
  <2>2. backups' \in Seq(Backups)
    <3>1. backups \in Seq(Backups) /\ backups' \in {backups, Append(backups, Snapshot(TRUE))}
      BY <1>4 DEF TakeBackup, Typed, TypeOK
    <3> QED BY <1>3, <3>1, Appended
  <2> QED BY <1>4, <2>1, <2>2 DEF TakeBackup, Typed, TypeOK, disk, state, service
<1>5. CASE BackupFails
  <2>1. job' \in Jobs /\ Supplied'
    BY <1>1, <1>5 DEF BackupFails, At, Abort, Stages, Resting, Putting
  <2>2. backups' \in Seq(Backups)
    <3>1. backups \in Seq(Backups) /\ backups' = Append(backups, Snapshot(FALSE))
      BY <1>5 DEF BackupFails, Typed, TypeOK
    <3> QED BY <1>3, <3>1, Appended
  <2> QED BY <1>5, <2>1, <2>2 DEF BackupFails, Strike, Typed, TypeOK, disk, state, service
<1>6. CASE Validate
  <2>1. job' \in Jobs /\ Supplied'
    BY <1>1, <1>6 DEF Validate, At, Abort, Stages, Resting, Putting
  <2> QED BY <1>6, <2>1 DEF Validate, Typed, TypeOK, disk, state, service
<1>7. CASE ReplaceWrapper \/ InstallUnit
  <2>1. job' \in Jobs /\ Supplied'
    BY <1>1, <1>7 DEF ReplaceWrapper, InstallUnit, At, Stages, Putting
  <2>2. Commit(job.to) \in Commits
    BY <1>7, CommitTypes DEF ReplaceWrapper, InstallUnit, At, Typed, Supplied
  <2>3. control' \in Controls
    BY <1>7, <2>2 DEF ReplaceWrapper, InstallUnit, Typed, TypeOK, Controls
  <2> QED BY <1>7, <2>1, <2>3 DEF ReplaceWrapper, InstallUnit, Typed, TypeOK, disk, service
<1>8. CASE Switch
  <2>1. job' \in Jobs /\ Supplied'
    BY <1>1, <1>8 DEF Switch, At, Stages, Putting
  <2>2. link' \in Dirs
    BY <1>8 DEF Switch, At, Typed, Supplied
  <2> QED BY <1>8, <2>1, <2>2 DEF Switch, Typed, TypeOK, disk, state, service
<1>9. CASE RestartService \/ ServiceFails \/ Verify \/ WriteFails \/ VerifyAgain \/ StartAgain
  <2>1. job' \in Jobs /\ Supplied'
    BY <1>1, <1>9 DEF RestartService, ServiceFails, Verify, WriteFails, VerifyAgain, StartAgain, At,
                      Abort, Stages, Resting, Restoring, Putting
  <2> QED BY <1>9, <2>1 DEF RestartService, ServiceFails, Verify, WriteFails, VerifyAgain, StartAgain,
                            Strike, Typed, TypeOK, disk, state, service
<1>10. CASE Record
  <2>1. job' \in Jobs /\ Supplied'
    BY <1>1, <1>10 DEF Record, At, Stages, Putting
  <2>2. job.to \in Dirs /\ Previous \in Dirs \cup {None}
    BY <1>10 DEF Record, At, Previous, Typed, TypeOK, Supplied, Jobs, Manifests
  <2>3. manifest' \in Manifests
    BY <1>10, <2>2 DEF Record, Manifests
  <2> QED BY <1>10, <2>1, <2>3 DEF Record, Typed, TypeOK, disk, service
<1>11. CASE PruneReleases
  <2>1. job' \in Jobs /\ Supplied'
    BY <1>1, <1>11 DEF PruneReleases, At, Stages, Resting, Putting
  <2>2. present' \subseteq Dirs /\ whole' \subseteq present'
    BY <1>11 DEF PruneReleases, Typed, TypeOK
  <2> QED BY <1>11, <2>1, <2>2 DEF PruneReleases, Typed, TypeOK, state, service
<1>12. CASE PruneBackups
  <2>1. job' \in Jobs /\ Supplied'
    <3>1. CASE Go("done")
      BY <1>1, <1>12, <3>1 DEF PruneBackups, At, Stages, Resting, Putting
    <3>2. CASE UNCHANGED job
      BY <3>2 DEF Typed, TypeOK, Supplied
    <3> QED BY <1>12, <3>1, <3>2 DEF PruneBackups
  <2>2. backups' \in Seq(Backups)
    <3>1. CASE UNCHANGED backups
      BY <3>1 DEF Typed, TypeOK
    <3>2. ASSUME NEW i \in 1..(Len(backups) - KeepBackups),
                 backups' = SubSeq(backups, 1, i - 1) \o SubSeq(backups, i + 1, Len(backups))
          PROVE  backups' \in Seq(Backups)
      <4>1. backups \in Seq(Backups) /\ Len(backups) \in Nat /\ i \in Nat /\ i >= 1 /\ i <= Len(backups)
        BY ReleasesAssumption DEF Typed, TypeOK
      <4>2. SubSeq(backups, 1, i - 1) \in Seq(Backups) /\ SubSeq(backups, i + 1, Len(backups)) \in Seq(Backups)
        BY <4>1
      <4> QED BY <3>2, <4>2
    <3> QED BY <1>12, <3>1, <3>2 DEF PruneBackups
  <2> QED BY <1>12, <2>1, <2>2 DEF PruneBackups, Typed, TypeOK, disk, state, service
<1>13. CASE StopConfirmed
  <2>1. job' \in Jobs /\ Supplied'
    BY <1>13, TypedGo DEF StopConfirmed, At, Stages, Restoring, Putting
  <2> QED BY <1>13, <2>1 DEF StopConfirmed, Typed, TypeOK, disk, state
<1>14. CASE StopUnconfirmed
  <2>1. job' \in Jobs /\ Supplied'
    BY <1>1, <1>14 DEF StopUnconfirmed, At, Abort, Stages, Resting, Putting
  <2> QED BY <1>14, <2>1 DEF StopUnconfirmed, Strike, Typed, TypeOK, disk, state
<1>15. CASE RestoreDatabase \/ RestoreManifest \/ RestoreControl
  <2>1. job.undo \in Backups
    BY <1>15 DEF RestoreDatabase, RestoreManifest, RestoreControl, At, Putting, Typed, TypeOK, Supplied, Jobs
  <2>2. job' \in Jobs /\ Supplied'
    <3>1. job.undo # None
      BY <1>15 DEF RestoreDatabase, RestoreManifest, RestoreControl, At, Putting, Typed, Supplied
    <3> QED BY <1>15, <3>1, TypedGo
            DEF RestoreDatabase, RestoreManifest, RestoreControl, At, Stages, Restoring, Putting
  <2>3. db' \in Nat
    BY <1>15, <2>1 DEF RestoreDatabase, RestoreManifest, RestoreControl, Typed, TypeOK, Backups
  <2>4. manifest' \in Manifests \cup {None}
    BY <1>15, <2>1 DEF RestoreDatabase, RestoreManifest, RestoreControl, Typed, TypeOK, Backups
  <2>5. control' \in Controls
    <3>1. CASE UNCHANGED control
      BY <3>1 DEF Typed, TypeOK
    <3>2. CASE RestoreControl
      <4>1. control \in Controls /\ job.undo.control \in Controls
        BY <2>1 DEF Backups, Typed, TypeOK
      <4> QED BY <3>2, <4>1 DEF RestoreControl, Controls
    <3> QED BY <1>15, <3>1, <3>2 DEF RestoreDatabase, RestoreManifest
  <2> QED BY <1>15, <2>2, <2>3, <2>4, <2>5
          DEF RestoreDatabase, RestoreManifest, RestoreControl, Typed, TypeOK, disk, service
<1>16. CASE RestoreFails
  <2>1. job' \in Jobs /\ Supplied'
    BY <1>1, <1>16 DEF RestoreFails, Abort, Stages, Resting, Putting
  <2> QED BY <1>16, <2>1 DEF RestoreFails, Strike, Typed, TypeOK, disk, state, service
<1>17. CASE Relink
  <2>1. job' \in Jobs /\ Supplied'
    BY <1>1, <1>17 DEF Relink, At, Stages, Restoring, Putting
  <2>2. link' \in Dirs \cup {None}
    BY <1>17 DEF Relink, Goal, Typed, TypeOK, Jobs
  <2> QED BY <1>17, <2>1, <2>2 DEF Relink, Typed, TypeOK, disk, state, service
<1>18. CASE Disable
  <2>1. job' \in Jobs /\ Supplied'
    BY <1>1, <1>18 DEF Disable, At, Abort, Stages, Resting, Putting
  <2> QED BY <1>18, <2>1 DEF Disable, Typed, TypeOK, disk, state, service
<1> QED BY <1>2, <1>4, <1>5, <1>6, <1>7, <1>8, <1>9, <1>10, <1>11, <1>12, <1>13, <1>14, <1>15, <1>16,
           <1>17, <1>18 DEF Script

LEMMA TypedNext == Typed /\ TargetInv /\ [Next]_vars => Typed'
<1> SUFFICES ASSUME Typed, TargetInv, [Next]_vars PROVE Typed'
  OBVIOUS
<1>1. CASE Kill
  <2>1. job' \in Jobs /\ Supplied'
    BY <1>1, TypedGo DEF Kill, Stages, Resting, Putting
  <2> QED BY <1>1, <2>1 DEF Kill, Strike, Typed, TypeOK, disk, state, service
<1>2. CASE Reboot
  <2>1. job' \in Jobs /\ Supplied' /\ struck' \in BOOLEAN
    <3>1. CASE job.at \in Resting
      BY <1>2, <3>1 DEF Reboot, Typed, TypeOK, Supplied
    <3>2. CASE job.at \notin Resting
      BY <1>2, <3>2, TypedGo DEF Reboot, Stages, Resting, Putting
    <3> QED BY <3>1, <3>2
  <2> QED BY <1>2, <2>1 DEF Reboot, Typed, TypeOK, disk, state
<1>3. CASE Operate
  BY <1>3 DEF Operate, Typed, TypeOK, Supplied, disk, state
<1>4. CASE UNCHANGED vars
  BY <1>4 DEF vars, Typed, TypeOK, Supplied, disk, state, service
<1> QED BY <1>1, <1>2, <1>3, <1>4, TypedService, TypedBegin, TypedScript DEF Next

\* The variables of install.sh, update.sh and their functions have their types,
\* and no process outlives a stopped unit.
THEOREM DeployTyping == Spec => []TypeOK
<1>1. Typed => TypeOK
  BY DEF Typed
<1> QED BY <1>1, TypedStart, TypedNext, TargetStart, TargetNext, PTL DEF Spec

(***************************************************************************)
(* A panel that has a manifest has a configuration and a database, and     *)
(* keeps them: every backup of it holds a schema.                          *)
(***************************************************************************)
Used == config /\ db > 0

Configured == {"control", "switch", "unit", "restart", "verify", "record"}

Founded ==
  /\ manifest # None => Used
  /\ \A b \in CompleteBackups : b.manifest # None => Used
  /\ job.undo # None /\ job.undo.manifest # None => Used
  /\ job.kind # "none" /\ job.was.manifest # None => Used
  /\ job.at \in Configured => config
  /\ job.at = "record" => db > 0
  /\ process # None /\ process.ready => db > 0

LEMMA FoundedStart == Init => Founded
BY DEF Init, NoJob, Founded, CompleteBackups, Configured

LEMMA ConfigStays == [Next]_vars => (config => config')
<1> SUFFICES ASSUME [Next]_vars PROVE config => config'
  OBVIOUS
<1>1. CASE Service
  BY <1>1 DEF Service, Spawn, Migrate, FirstPoll, Die, StartLimit
<1>2. CASE Begin
  BY <1>2 DEF Begin, AlreadyRunning, NothingToDo, Reactivate, StageNew, StageCopy, Stage, Roll
<1>3. CASE Script
  <2>1. CASE Build \/ TakeBackup \/ BackupFails \/ Validate \/ ReplaceWrapper \/ Switch \/ InstallUnit
    BY <2>1 DEF Build, TakeBackup, BackupFails, Validate, ReplaceWrapper, Switch, InstallUnit
  <2>2. CASE RestartService \/ ServiceFails \/ Verify \/ Record \/ WriteFails \/ PruneReleases \/ PruneBackups
    BY <2>2 DEF RestartService, ServiceFails, Verify, Record, WriteFails, PruneReleases, PruneBackups
  <2>3. CASE StopConfirmed \/ StopUnconfirmed \/ RestoreDatabase \/ RestoreManifest \/ RestoreControl
               \/ RestoreFails
    BY <2>3 DEF StopConfirmed, StopUnconfirmed, RestoreDatabase, RestoreManifest, RestoreControl, RestoreFails
  <2>4. CASE Relink \/ Disable \/ StartAgain \/ VerifyAgain
    BY <2>4 DEF Relink, Disable, StartAgain, VerifyAgain
  <2> QED BY <1>3, <2>1, <2>2, <2>3, <2>4 DEF Script
<1>4. CASE Kill \/ Reboot \/ Operate \/ UNCHANGED vars
  BY <1>4 DEF Kill, Reboot, Operate, vars
<1> QED BY <1>1, <1>2, <1>3, <1>4 DEF Next

\* Only a migration and a restored backup change the database.
LEMMA DatabaseSteps ==
  ASSUME [Next]_vars
  PROVE  UNCHANGED db \/ Migrate \/ RestoreDatabase
<1>1. CASE Service
  BY <1>1 DEF Service, Spawn, FirstPoll, Die, StartLimit, state
<1>2. CASE Begin
  BY <1>2 DEF Begin, AlreadyRunning, NothingToDo, Reactivate, StageNew, StageCopy, Stage, Roll, state
<1>3. CASE Script
  <2>1. CASE Build \/ TakeBackup \/ BackupFails \/ Validate \/ ReplaceWrapper \/ Switch \/ InstallUnit
    BY <2>1 DEF Build, TakeBackup, BackupFails, Validate, ReplaceWrapper, Switch, InstallUnit, state
  <2>2. CASE RestartService \/ ServiceFails \/ Verify \/ Record \/ WriteFails \/ PruneReleases \/ PruneBackups
    BY <2>2 DEF RestartService, ServiceFails, Verify, Record, WriteFails, PruneReleases, PruneBackups, state
  <2>3. CASE StopConfirmed \/ StopUnconfirmed \/ RestoreManifest \/ RestoreControl \/ RestoreFails
    BY <2>3 DEF StopConfirmed, StopUnconfirmed, RestoreManifest, RestoreControl, RestoreFails, state
  <2>4. CASE Relink \/ Disable \/ StartAgain \/ VerifyAgain
    BY <2>4 DEF Relink, Disable, StartAgain, VerifyAgain, state
  <2> QED BY <1>3, <2>1, <2>2, <2>3, <2>4 DEF Script
<1>4. CASE Kill \/ Reboot \/ Operate \/ UNCHANGED vars
  BY <1>4 DEF Kill, Reboot, Operate, vars, state
<1> QED BY <1>1, <1>2, <1>3, <1>4 DEF Next

LEMMA ProcessSteps ==
  ASSUME [Next]_vars
  PROVE  Spawn \/ FirstPoll \/ process' \in {None, process}
<1>1. CASE Service
  BY <1>1 DEF Service, Migrate, Die, StartLimit, service
<1>2. CASE Begin
  BY <1>2 DEF Begin, AlreadyRunning, NothingToDo, Reactivate, StageNew, StageCopy, Stage, Roll, service
<1>3. CASE Script
  <2>1. CASE Build \/ TakeBackup \/ BackupFails \/ Validate \/ ReplaceWrapper \/ Switch \/ InstallUnit
    BY <2>1 DEF Build, TakeBackup, BackupFails, Validate, ReplaceWrapper, Switch, InstallUnit, service
  <2>2. CASE RestartService \/ ServiceFails \/ Verify \/ Record \/ WriteFails \/ PruneReleases \/ PruneBackups
    BY <2>2 DEF RestartService, ServiceFails, Verify, Record, WriteFails, PruneReleases, PruneBackups, service
  <2>3. CASE StopConfirmed \/ StopUnconfirmed \/ RestoreDatabase \/ RestoreManifest \/ RestoreControl
               \/ RestoreFails
    BY <2>3 DEF StopConfirmed, StopUnconfirmed, RestoreDatabase, RestoreManifest, RestoreControl, RestoreFails,
                service
  <2>4. CASE Relink \/ Disable \/ StartAgain \/ VerifyAgain
    BY <2>4 DEF Relink, Disable, StartAgain, VerifyAgain, service
  <2> QED BY <1>3, <2>1, <2>2, <2>3, <2>4 DEF Script
<1>4. CASE Kill \/ Reboot \/ Operate \/ UNCHANGED vars
  BY <1>4 DEF Kill, Reboot, Operate, vars, service
<1> QED BY <1>1, <1>2, <1>3, <1>4 DEF Next

LEMMA DatabaseStays == Typed /\ [Next]_vars /\ db > 0 => db' > 0
<1> SUFFICES ASSUME Typed, [Next]_vars, db > 0 PROVE db' > 0
  OBVIOUS
<1>1. CASE Migrate
  BY <1>1 DEF Migrate, Typed, TypeOK
<1>2. CASE RestoreDatabase
  <2>1. job.undo \in Backups
    BY <1>2 DEF RestoreDatabase, At, Putting, Typed, TypeOK, Supplied, Jobs
  <2>2. job.undo.db \in Nat
    BY <2>1 DEF Backups
  <2>3. db' = IF job.undo.db = 0 THEN db ELSE job.undo.db
    BY <1>2 DEF RestoreDatabase
  <2>4. db \in Nat
    BY DEF Typed, TypeOK
  <2> QED BY <2>2, <2>3, <2>4
<1> QED BY <1>1, <1>2, DatabaseSteps

LEMMA GoSame ==
  ASSUME job \in Jobs, NEW s, Go(s)
  PROVE  /\ job'.at = s /\ job'.kind = job.kind /\ job'.to = job.to /\ job'.from = job.from
         /\ job'.undo = job.undo /\ job'.was = job.was
BY DEF Jobs, Go

\* What a step of the job has to show that changes neither manifest nor backups.
LEMMA FoundedGo ==
  ASSUME Typed, Founded, [Next]_vars, NEW s, Go(s), UNCHANGED <<manifest, backups>>,
         process' \in {None, process}, s \in Configured => config', s = "record" => db > 0
  PROVE  Founded'
<1>1. (config => config') /\ (db > 0 => db' > 0)
  BY ConfigStays, DatabaseStays
<1>2. job'.at = s /\ job'.kind = job.kind /\ job'.undo = job.undo /\ job'.was = job.was
  BY GoSame DEF Typed, TypeOK
<1>3. CompleteBackups' = CompleteBackups
  BY DEF CompleteBackups
<1> QED BY <1>1, <1>2, <1>3 DEF Founded, Used

LEMMA FoundedService == Typed /\ Founded /\ [Next]_vars /\ Service => Founded'
<1> SUFFICES ASSUME Typed, Founded, [Next]_vars, Service PROVE Founded'
  OBVIOUS
<1>1. (config => config') /\ (db > 0 => db' > 0)
  BY ConfigStays, DatabaseStays
<1>2. UNCHANGED <<job, manifest, backups>>
  BY DEF Service, Spawn, Migrate, FirstPoll, Die, StartLimit, state
<1>3. CompleteBackups' = CompleteBackups
  BY <1>2 DEF CompleteBackups
<1>4. process' # None /\ process'.ready => db' > 0
  <2>1. CASE FirstPoll
    <3>1. db > 0
      <4>1. process.dir \in Dirs
        BY <2>1 DEF FirstPoll, Typed, TypeOK
      <4> QED BY <2>1, <4>1, CommitTypes DEF FirstPoll
    <3> QED BY <1>1, <3>1
  <2>2. CASE Spawn
    BY <2>2 DEF Spawn
  <2>3. CASE Migrate \/ Die \/ StartLimit
    BY <1>1, <2>3 DEF Migrate, Die, StartLimit, service, Founded
  <2> QED BY <2>1, <2>2, <2>3 DEF Service
<1> QED BY <1>1, <1>2, <1>3, <1>4 DEF Founded, Used

\* The picture a job takes when it begins is of the present.
LEMMA FoundedBegun ==
  ASSUME Typed, Founded, [Next]_vars, UNCHANGED <<manifest, backups, process>>, NEW b,
         job'.was = Picture, job'.undo = b, job'.at \in {"done", "prune backups", "snapshot", "build"},
         b # None => b \in CompleteBackups
  PROVE  Founded'
<1>1. (config => config') /\ (db > 0 => db' > 0)
  BY ConfigStays, DatabaseStays
<1>2. CompleteBackups' = CompleteBackups
  BY DEF CompleteBackups
<1>3. Picture.manifest = manifest
  BY DEF Picture
<1> QED BY <1>1, <1>2, <1>3 DEF Founded, Used, Configured

LEMMA BegunIs ==
  ASSUME NEW kind, NEW s, NEW d, job' = Begun(kind, s, d)
  PROVE  /\ job'.at = s /\ job'.kind = kind /\ job'.to = d /\ job'.from = link
         /\ job'.undo = None /\ job'.was = Picture
BY DEF Begun

LEMMA RollIs ==
  ASSUME NEW b, Roll(b)
  PROVE  /\ job'.at = "snapshot" /\ job'.kind = "rollback" /\ job'.from = link
         /\ job'.undo = b /\ job'.was = Picture
         /\ UNCHANGED <<link, disk, config, state, backups, service, enabled, struck>>
BY DEF Roll, Begun

LEMMA FoundedBegin == Typed /\ Founded /\ [Next]_vars /\ Begin => Founded'
<1> SUFFICES ASSUME Typed, Founded, [Next]_vars, Begin PROVE Founded'
  OBVIOUS
<1>1. UNCHANGED <<manifest, backups, process>>
  BY DEF Begin, AlreadyRunning, NothingToDo, Reactivate, StageNew, StageCopy, Stage, Roll, state, service
<1>2. ASSUME NEW kind, NEW d, NEW s \in {"done", "prune backups", "snapshot", "build"},
             job' = Begun(kind, s, d)
      PROVE  Founded'
  BY <1>1, <1>2, BegunIs, FoundedBegun
<1>3. ASSUME NEW kind, NEW c, NothingToDo(kind, c) \/ Reactivate(kind, c) PROVE Founded'
  BY <1>2, <1>3 DEF NothingToDo, Reactivate
<1>4. ASSUME NEW kind, NEW d, Stage(kind, d) PROVE Founded'
  BY <1>2, <1>4 DEF Stage
<1>5. ASSUME NEW b \in CompleteBackups, Roll(b) PROVE Founded'
  BY <1>1, <1>5, RollIs, FoundedBegun
<1>6. CASE AlreadyRunning
  BY <1>2, <1>6 DEF AlreadyRunning
<1> QED BY <1>3, <1>4, <1>5, <1>6 DEF Begin, StageNew, StageCopy

LEMMA BackupAdded ==
  Typed /\ TakeBackup => \A b \in CompleteBackups' : b \in CompleteBackups \/ b = Snapshot(TRUE)
<1> SUFFICES ASSUME Typed, TakeBackup PROVE \A b \in CompleteBackups' : b \in CompleteBackups \/ b = Snapshot(TRUE)
  OBVIOUS
<1>1. backups \in Seq(Backups) /\ backups' \in {backups, Append(backups, Snapshot(TRUE))}
  BY DEF TakeBackup, Typed, TypeOK
<1>2. Snapshot(TRUE) \in Backups
  BY SnapshotTyped
<1>3. \A i \in DOMAIN Append(backups, Snapshot(TRUE)) :
        \/ i \in DOMAIN backups /\ Append(backups, Snapshot(TRUE))[i] = backups[i]
        \/ Append(backups, Snapshot(TRUE))[i] = Snapshot(TRUE)
  BY <1>1, <1>2, AppendedElements
<1> QED BY <1>1, <1>3 DEF CompleteBackups

LEMMA BackupStopped == Typed /\ BackupFails => CompleteBackups' \subseteq CompleteBackups
<1> SUFFICES ASSUME Typed, BackupFails PROVE CompleteBackups' \subseteq CompleteBackups
  OBVIOUS
<1>1. backups \in Seq(Backups) /\ backups' = Append(backups, Snapshot(FALSE)) /\ ~Snapshot(FALSE).complete
  BY DEF BackupFails, Snapshot, Typed, TypeOK
<1>2. Snapshot(FALSE) \in Backups /\ backups \in Seq(Backups)
  BY SnapshotTyped DEF Typed, TypeOK
<1>3. \A i \in DOMAIN Append(backups, Snapshot(FALSE)) :
        \/ i \in DOMAIN backups /\ Append(backups, Snapshot(FALSE))[i] = backups[i]
        \/ Append(backups, Snapshot(FALSE))[i] = Snapshot(FALSE)
  BY <1>2, AppendedElements
<1>4. ASSUME NEW b \in CompleteBackups' PROVE b \in CompleteBackups
  <2>1. PICK i \in DOMAIN Append(backups, Snapshot(FALSE)) : b = Append(backups, Snapshot(FALSE))[i] /\ b.complete
    BY <1>1, <1>4 DEF CompleteBackups
  <2>2. b # Snapshot(FALSE)
    BY <1>1, <2>1
  <2> QED BY <1>3, <2>1, <2>2 DEF CompleteBackups
<1> QED BY <1>4

LEMMA BackupsPruned == Typed /\ PruneBackups => CompleteBackups' \subseteq CompleteBackups
<1> SUFFICES ASSUME Typed, PruneBackups PROVE CompleteBackups' \subseteq CompleteBackups
  OBVIOUS
<1>1. CASE UNCHANGED backups
  BY <1>1 DEF CompleteBackups
<1>2. ASSUME NEW i \in 1..(Len(backups) - KeepBackups),
             backups' = SubSeq(backups, 1, i - 1) \o SubSeq(backups, i + 1, Len(backups))
      PROVE  CompleteBackups' \subseteq CompleteBackups
  <2>1. \A j \in DOMAIN backups' : \E k \in DOMAIN backups : backups'[j] = backups[k]
    <3>1. backups \in Seq(Backups) /\ i \in 1..Len(backups)
      BY ReleasesAssumption DEF Typed, TypeOK
    <3> QED BY <1>2, <3>1, WithoutElements DEF Without
  <2> QED BY <2>1 DEF CompleteBackups
<1> QED BY <1>1, <1>2 DEF PruneBackups

LEMMA FoundedScript == Typed /\ Founded /\ [Next]_vars /\ Script => Founded'
<1> SUFFICES ASSUME Typed, Founded, [Next]_vars, Script PROVE Founded'
  OBVIOUS
<1>1. (config => config') /\ (db > 0 => db' > 0)
  BY ConfigStays, DatabaseStays
<1>2. job \in Jobs /\ backups \in Seq(Backups)
  BY DEF Typed, TypeOK
<1>3. CASE Build
  BY <1>3, FoundedGo DEF Build, Abort, state, service, Configured
<1>4. CASE TakeBackup
  <2>1. \A b \in CompleteBackups' : b \in CompleteBackups \/ b = Snapshot(TRUE)
    BY <1>4, BackupAdded
  <2>2. Snapshot(TRUE).manifest = manifest
    BY DEF Snapshot
  <2>3. /\ job'.kind = job.kind /\ job'.was = job.was /\ job'.undo \in {job.undo, Snapshot(TRUE)}
        /\ job'.at \in {"stop", "validate"}
    <3>1. CASE job' = [job EXCEPT !.at = "validate", !.undo = Snapshot(TRUE)]
      BY <1>2, <3>1 DEF Jobs
    <3>2. CASE Go("stop") \/ Go("validate")
      BY <1>2, <3>2, GoSame
    <3> QED BY <1>4, <3>1, <3>2 DEF TakeBackup
  <2>4. UNCHANGED <<config, db, manifest, process>>
    BY <1>4 DEF TakeBackup, state, service
  <2> QED BY <1>1, <2>1, <2>2, <2>3, <2>4 DEF Founded, Used, Configured
<1>5. CASE BackupFails
  <2>1. CompleteBackups' \subseteq CompleteBackups
    BY <1>5, BackupStopped
  <2>2. job'.kind = job.kind /\ job'.was = job.was /\ job'.undo = job.undo /\ job'.at = "failed"
    BY <1>2, <1>5, GoSame DEF BackupFails, Abort
  <2>3. UNCHANGED <<config, db, manifest, process>>
    BY <1>5 DEF BackupFails, state, service
  <2> QED BY <1>1, <2>1, <2>2, <2>3 DEF Founded, Used, Configured
<1>6. CASE Validate
  BY <1>6, FoundedGo DEF Validate, Abort, state, service, Configured
<1>7. CASE ReplaceWrapper \/ Switch \/ InstallUnit \/ RestartService \/ ServiceFails
  <2>1. config
    BY <1>7 DEF ReplaceWrapper, Switch, InstallUnit, RestartService, ServiceFails, At, Founded, Configured
  <2> QED BY <1>1, <1>7, <2>1, FoundedGo
          DEF ReplaceWrapper, Switch, InstallUnit, RestartService, ServiceFails, state, service
<1>8. CASE Verify
  <2>1. config
    BY <1>8 DEF Verify, At, Founded, Configured
  <2>2. Go("record") => db > 0
    <3>1. CASE Ready({VersionOf[Commit(job.to)]})
      BY <3>1 DEF Ready, Founded
    <3>2. CASE ~Ready({VersionOf[Commit(job.to)]})
      <4>1. Go("stop")
        BY <1>8, <3>2 DEF Verify
      <4> QED BY <1>2, <4>1, GoSame
    <3> QED BY <3>1, <3>2
  <2>3. UNCHANGED <<manifest, backups, process>>
    BY <1>8 DEF Verify, state, service
  <2> QED BY <1>1, <1>8, <2>1, <2>2, <2>3, FoundedGo DEF Verify
<1>9. CASE Record
  <2>1. config /\ db > 0
    BY <1>9 DEF Record, At, Founded, Configured
  <2>2. config' /\ db' > 0
    BY <1>1, <2>1
  <2>3. job'.at = "prune releases"
    BY <1>2, <1>9, GoSame DEF Record
  <2> QED BY <2>2, <2>3 DEF Founded, Used, Configured
<1>10. CASE WriteFails \/ PruneReleases \/ StopConfirmed \/ StopUnconfirmed
  BY <1>10, FoundedGo DEF WriteFails, PruneReleases, StopConfirmed, StopUnconfirmed, Abort, state, service,
                          Configured
<1>11. CASE PruneBackups
  <2>1. CompleteBackups' \subseteq CompleteBackups
    BY <1>11, BackupsPruned
  <2>2. job'.kind = job.kind /\ job'.was = job.was /\ job'.undo = job.undo /\ job'.at \in {"done", "prune backups"}
    <3>1. CASE Go("done")
      BY <1>2, <3>1, GoSame
    <3>2. CASE UNCHANGED job
      BY <1>11, <3>2 DEF PruneBackups, At
    <3> QED BY <1>11, <3>1, <3>2 DEF PruneBackups
  <2>3. UNCHANGED <<config, db, manifest, process>>
    BY <1>11 DEF PruneBackups, state, service
  <2> QED BY <2>1, <2>2, <2>3 DEF Founded, Used, Configured
<1>12. CASE RestoreDatabase \/ RestoreControl \/ RestoreFails
  BY <1>12, FoundedGo DEF RestoreDatabase, RestoreControl, RestoreFails, Abort, state, service, Configured
<1>13. CASE RestoreManifest
  <2>1. job.undo # None
    BY <1>13 DEF RestoreManifest, At, Putting, Typed, Supplied
  <2>2. manifest' # None => Used
    BY <1>13, <2>1 DEF RestoreManifest, Founded
  <2>3. job'.kind = job.kind /\ job'.was = job.was /\ job'.undo = job.undo /\ job'.at = "restore control"
    BY <1>2, <1>13, GoSame DEF RestoreManifest
  <2>4. CompleteBackups' = CompleteBackups /\ UNCHANGED <<config, db, process>>
    BY <1>13 DEF RestoreManifest, CompleteBackups, service
  <2> QED BY <2>2, <2>3, <2>4 DEF Founded, Used, Configured
<1>14. CASE Relink \/ Disable \/ StartAgain \/ VerifyAgain
  BY <1>14, FoundedGo DEF Relink, Disable, StartAgain, VerifyAgain, Abort, state, service, Configured
<1> QED BY <1>3, <1>4, <1>5, <1>6, <1>7, <1>8, <1>9, <1>10, <1>11, <1>12, <1>13, <1>14 DEF Script

LEMMA FoundedNext == Typed /\ Founded /\ [Next]_vars => Founded'
<1> SUFFICES ASSUME Typed, Founded, [Next]_vars PROVE Founded'
  OBVIOUS
<1>1. CASE Kill
  BY <1>1, FoundedGo DEF Kill, state, service, Configured
<1>2. CASE Reboot \/ Operate \/ UNCHANGED vars
  <2>1. CASE Go("killed")
    BY <1>2, <2>1, FoundedGo DEF Reboot, Operate, vars, state, service, Configured
  <2>2. CASE UNCHANGED job
    <3>1. UNCHANGED <<config, db, manifest, backups>> /\ process' \in {None, process}
      BY <1>2 DEF Reboot, Operate, vars, state, service
    <3>2. CompleteBackups' = CompleteBackups
      BY <3>1 DEF CompleteBackups
    <3> QED BY <2>2, <3>1, <3>2 DEF Founded, Used
  <2> QED BY <1>2, <2>1, <2>2 DEF Reboot, Operate, vars
<1> QED BY <1>1, <1>2, FoundedService, FoundedBegin, FoundedScript DEF Next

(***************************************************************************)
(* A move to a newer schema.  While such a job is the last one, what is     *)
(* current opens the database and is at least as new as what it replaces   *)
(* and as what runs; the backup to be put back is not newer than that.     *)
(***************************************************************************)
SchemaIn(d) == SchemaOf[Commit(d)]

Ascends ==
  /\ job.kind \in {"install", "update"}
  /\ job.was.manifest # None /\ job.was.link # None /\ job.was.sound
  /\ SchemaIn(job.from) <= SchemaIn(job.to)

Early == {"build", "snapshot", "validate", "control", "switch"}
Lowered == {"restore manifest", "restore control", "relink"}
Secured == {"validate", "control", "switch", "unit", "restart", "verify", "stop", "restore db"} \cup Lowered

Rooted == job.kind # "none" => job.was.link = job.from /\ job.at # "idle"

Opened ==
  /\ link # None /\ db <= SchemaIn(link)
  /\ SchemaIn(job.from) <= SchemaIn(link)
  /\ process # None => SchemaIn(process.dir) <= SchemaIn(link)

Retained ==
  /\ job.at \in Early => link = job.from
  /\ job.at \in Secured => job.undo # None /\ job.undo.db # 0 /\ job.undo.db <= SchemaIn(job.from)
  /\ job.at \in Lowered => db <= SchemaIn(job.from)

Steady == Rooted /\ (Ascends => Opened /\ Retained)

Sure == Typed /\ TargetInv /\ RestoreInv /\ Founded

LEMMA NoneIsNoBackup == Typed => Snapshot(TRUE) # None
BY SnapshotTyped, NoneAssumption

LEMMA NotAbove == \A n \in Nat : n <= n
OBVIOUS

LEMMA SteadyStart == Init => Steady
BY DEF Init, NoJob, Steady, Rooted, Ascends

LEMMA SchemaTypes ==
  ASSUME Typed
  PROVE  /\ db \in Nat
         /\ link # None => SchemaIn(link) \in Nat
         /\ process # None => SchemaIn(process.dir) \in Nat
         /\ job.from # None => SchemaIn(job.from) \in Nat
         /\ job.at # "idle" => SchemaIn(job.to) \in Nat
         /\ job.undo # None => job.undo.db \in Nat
<1>1. db \in Nat
  BY DEF Typed, TypeOK
<1>2. link # None => link \in Dirs
  BY DEF Typed, TypeOK
<1>3. process # None => process.dir \in Dirs
  BY DEF Typed, TypeOK
<1>4. job.from # None => job.from \in Dirs
  BY DEF Typed, TypeOK, Jobs
<1>5. job.at # "idle" => job.to \in Dirs
  BY DEF Typed, Supplied
<1>6. job.undo # None => job.undo.db \in Nat
  BY DEF Typed, TypeOK, Jobs, Backups
<1> QED BY <1>1, <1>2, <1>3, <1>4, <1>5, <1>6, CommitTypes DEF SchemaIn

\* A job goes on and moves neither link nor database; the service may be stopped.
LEMMA SteadyGo ==
  ASSUME Sure, Steady, NEW s, Go(s), s # "idle", UNCHANGED <<link, db>>, process' \in {None, process},
         s \in Early => job.at \in Early, s \in Secured => job.at \in Secured,
         s \in Lowered => job.at \in Lowered
  PROVE  Steady'
<1>1. /\ job'.at = s /\ job'.kind = job.kind /\ job'.to = job.to /\ job'.from = job.from
      /\ job'.undo = job.undo /\ job'.was = job.was
  BY GoSame DEF Sure, Typed, TypeOK
<1>2. Rooted'
  BY <1>1 DEF Steady, Rooted
<1>3. ASSUME Ascends' PROVE Opened' /\ Retained'
  <2>1. Opened /\ Retained
    BY <1>1, <1>3 DEF Ascends, SchemaIn, Steady
  <2>2. Opened'
    BY <1>1, <2>1 DEF Opened, SchemaIn
  <2>3. Retained'
    BY <1>1, <2>1 DEF Retained, SchemaIn
  <2> QED BY <2>2, <2>3
<1> QED BY <1>2, <1>3 DEF Steady

LEMMA SteadyService == Sure /\ Steady /\ Service => Steady'
<1> SUFFICES ASSUME Sure, Steady, Service PROVE Steady'
  OBVIOUS
<1>1. UNCHANGED <<job, link>>
  BY DEF Service, Spawn, Migrate, FirstPoll, Die, StartLimit
<1>2. Rooted'
  BY <1>1 DEF Steady, Rooted
<1>3. ASSUME Ascends' PROVE Opened' /\ Retained'
  <2>1. Opened /\ Retained
    BY <1>1, <1>3 DEF Ascends, SchemaIn, Steady
  <2>2. link # None
    BY <2>1 DEF Opened
  <2>3. CASE Spawn
    <3>1. process'.dir = link /\ UNCHANGED db
      BY <2>3 DEF Spawn, state
    <3>2. SchemaIn(link) \in Nat
      BY <2>2, SchemaTypes DEF Sure
    <3>3. Opened'
      BY <1>1, <2>1, <3>1, <3>2 DEF Opened, SchemaIn
    <3>4. Retained'
      BY <1>1, <2>1, <3>1 DEF Retained, SchemaIn
    <3> QED BY <3>3, <3>4
  <2>4. CASE Migrate
    <3>1. process # None /\ db < SchemaIn(process.dir) /\ db' = db + 1 /\ UNCHANGED process
      BY <2>4 DEF Migrate, SchemaIn, service
    <3>2. db + 1 <= SchemaIn(link)
      BY <2>1, <2>2, <3>1, SchemaTypes DEF Opened, Sure
    <3>3. Opened'
      BY <1>1, <2>1, <3>1, <3>2 DEF Opened, SchemaIn
    <3>4. job.at \notin Lowered
      BY <3>1 DEF Lowered, Sure, RestoreInv, RestoresAlone
    <3>5. Retained'
      BY <1>1, <2>1, <3>1, <3>4 DEF Retained, SchemaIn
    <3> QED BY <3>3, <3>5
  <2>5. CASE FirstPoll
    <3>1. process # None /\ process' = [process EXCEPT !.ready = TRUE] /\ UNCHANGED db
      BY <2>5 DEF FirstPoll, state
    <3>2. process'.dir = process.dir
      BY <3>1 DEF Sure, Typed, TypeOK
    <3>3. Opened'
      BY <1>1, <2>1, <3>1, <3>2 DEF Opened, SchemaIn
    <3>4. Retained'
      BY <1>1, <2>1, <3>1 DEF Retained, SchemaIn
    <3> QED BY <3>3, <3>4
  <2>6. CASE Die \/ StartLimit
    <3>1. process' \in {None, process} /\ UNCHANGED db
      BY <2>6 DEF Die, StartLimit, state
    <3>2. Opened'
      BY <1>1, <2>1, <3>1 DEF Opened, SchemaIn
    <3>3. Retained'
      BY <1>1, <2>1, <3>1 DEF Retained, SchemaIn
    <3> QED BY <3>2, <3>3
  <2> QED BY <2>3, <2>4, <2>5, <2>6 DEF Service
<1> QED BY <1>2, <1>3 DEF Steady

\* A job that begins on a sound panel finds everything as it should be.
LEMMA SteadyBegun ==
  ASSUME Sure, UNCHANGED <<link, db, process>>, job'.kind # "none",
         job'.was = Picture, job'.from = link, job'.at \in {"done", "prune backups", "snapshot", "build"}
  PROVE  Steady'
<1>1. Picture.link = link /\ (Picture.sound <=> CurrentOpens /\ CurrentRuns)
  BY DEF Picture
<1>2. Rooted'
  BY <1>1 DEF Rooted
<1>3. ASSUME Ascends' PROVE Opened' /\ Retained'
  <2>1. link # None /\ CurrentOpens /\ CurrentRuns
    BY <1>1, <1>3 DEF Ascends
  <2>2. db <= SchemaIn(link) /\ SchemaIn(link) \in Nat /\ (process # None => process.dir = link)
    BY <2>1, SchemaTypes DEF CurrentOpens, CurrentRuns, SchemaIn, Sure
  <2>3. Opened'
    <3>1. SchemaIn(job'.from) = SchemaIn(link) /\ SchemaIn(link') = SchemaIn(link)
      <4>1. job'.from = link /\ link' = link
        OBVIOUS
      <4> QED BY <4>1
    <3>2. SchemaIn(link) <= SchemaIn(link)
      BY <2>2, NotAbove, Zenon
    <3>3. process' # None => SchemaIn(process'.dir) = SchemaIn(link)
      BY <2>2
    <3> QED BY <2>1, <2>2, <3>1, <3>2, <3>3 DEF Opened, SchemaIn
  <2>4. Retained'
    BY DEF Retained, Early, Secured, Lowered
  <2> QED BY <2>3, <2>4
<1> QED BY <1>2, <1>3 DEF Steady

LEMMA SteadyBegin == Sure /\ Begin => Steady'
<1> SUFFICES ASSUME Sure, Begin PROVE Steady'
  OBVIOUS
<1>1. UNCHANGED <<link, db, process>>
  BY DEF Begin, AlreadyRunning, NothingToDo, Reactivate, StageNew, StageCopy, Stage, Roll, state, service
<1>2. ASSUME NEW kind \in {"install", "update"}, NEW d, NEW s \in {"done", "prune backups", "snapshot", "build"},
             job' = Begun(kind, s, d)
      PROVE  Steady'
  BY <1>1, <1>2, BegunIs, SteadyBegun
<1>3. ASSUME NEW kind \in {"install", "update"}, NEW c, NothingToDo(kind, c) \/ Reactivate(kind, c) PROVE Steady'
  BY <1>2, <1>3 DEF NothingToDo, Reactivate
<1>4. ASSUME NEW kind \in {"install", "update"}, NEW d, Stage(kind, d) PROVE Steady'
  BY <1>2, <1>4 DEF Stage
<1>5. ASSUME NEW b, Roll(b) PROVE Steady'
  BY <1>1, <1>5, RollIs, SteadyBegun
<1>6. CASE AlreadyRunning
  BY <1>2, <1>6 DEF AlreadyRunning
<1> QED BY <1>3, <1>4, <1>5, <1>6 DEF Begin, StageNew, StageCopy

LEMMA SteadyBackup == Sure /\ Steady /\ TakeBackup => Steady'
<1> SUFFICES ASSUME Sure, Steady, TakeBackup PROVE Steady'
  OBVIOUS
<1>1. UNCHANGED <<link, db, process>> /\ job.at = "snapshot" /\ job \in Jobs
  BY DEF TakeBackup, At, state, service, Sure, Typed, TypeOK
<1>2. CASE job' = [job EXCEPT !.at = "validate", !.undo = Snapshot(TRUE)]
  <2>1. /\ job'.at = "validate" /\ job'.kind = job.kind /\ job'.to = job.to /\ job'.from = job.from
        /\ job'.undo = Snapshot(TRUE) /\ job'.was = job.was
    BY <1>1, <1>2 DEF Jobs
  <2>2. Rooted'
    BY <2>1 DEF Steady, Rooted
  <2>3. ASSUME Ascends' PROVE Opened' /\ Retained'
    <3>1. Ascends
      BY <2>1, <2>3 DEF Ascends, SchemaIn
    <3>2. Opened /\ Retained
      BY <3>1 DEF Steady
    <3>4. db > 0 /\ db \in Nat
      BY <3>1 DEF Ascends, Sure, Founded, Used, Typed, TypeOK
    <3>5. link = job.from /\ db <= SchemaIn(job.from)
      BY <1>1, <3>2 DEF Opened, Retained, Early
    <3>6. Snapshot(TRUE) # None /\ Snapshot(TRUE).db = db
      BY NoneIsNoBackup DEF Snapshot, Sure
    <3>7. Opened'
      BY <1>1, <2>1, <3>2 DEF Opened, SchemaIn
    <3>8. Retained'
      <4>1. job'.undo # None /\ job'.undo.db = db
        BY <2>1, <3>6
      <4>2. db # 0
        BY <3>4
      <4>3. SchemaIn(job'.from) = SchemaIn(job.from)
        BY <2>1
      <4> QED BY <1>1, <2>1, <3>5, <4>1, <4>2, <4>3 DEF Retained, Early, Secured, Lowered, SchemaIn
    <3> QED BY <3>7, <3>8
  <2> QED BY <2>2, <2>3 DEF Steady
<1>3. CASE Go("stop") /\ job.kind = "rollback"
  BY <1>1, <1>3, GoSame DEF Steady, Rooted, Ascends
<1>4. CASE Go("validate") /\ ~config
  <2>1. ~Ascends
    <3>1. Ascends => job.kind # "none" /\ job.was.manifest # None
      BY DEF Ascends, Steady, Rooted
    <3> QED BY <1>4, <3>1 DEF Sure, Founded, Used
  <2>2. /\ job'.at = "validate" /\ job'.kind = job.kind /\ job'.to = job.to /\ job'.from = job.from
        /\ job'.was = job.was
    BY <1>1, <1>4, GoSame
  <2>3. ~Ascends'
    BY <2>1, <2>2 DEF Ascends, SchemaIn
  <2> QED BY <2>2, <2>3 DEF Steady, Rooted
<1> QED BY <1>2, <1>3, <1>4 DEF TakeBackup

LEMMA SteadySwitch == Sure /\ Steady /\ Switch => Steady'
<1> SUFFICES ASSUME Sure, Steady, Switch PROVE Steady'
  OBVIOUS
<1>1. link' = job.to /\ UNCHANGED <<db, process>> /\ job.at = "switch" /\ job \in Jobs
  BY DEF Switch, At, state, service, Sure, Typed, TypeOK
<1>2. /\ job'.at = "unit" /\ job'.kind = job.kind /\ job'.to = job.to /\ job'.from = job.from
      /\ job'.undo = job.undo /\ job'.was = job.was
  BY <1>1, GoSame DEF Switch
<1>3. Rooted'
  BY <1>2 DEF Steady, Rooted
<1>4. ASSUME Ascends' PROVE Opened' /\ Retained'
  <2>1. Ascends
    BY <1>2, <1>4 DEF Ascends, SchemaIn
  <2>2. Opened /\ Retained
    BY <2>1 DEF Steady
  <2>3. link = job.from
    BY <1>1, <2>2 DEF Retained, Early
  <2>4. job.to # None
    <3>1. None \notin Dirs
      BY ReleasesAssumption DEF Dirs
    <3> QED BY <1>1, <3>1 DEF Sure, Typed, Supplied
  <2>5. SchemaIn(job.from) <= SchemaIn(job.to) /\ SchemaIn(job.from) \in Nat /\ SchemaIn(job.to) \in Nat
    <3>1. job.from # None
      BY <2>2, <2>3 DEF Opened
    <3> QED BY <1>1, <2>1, <3>1, SchemaTypes DEF Ascends, Sure
  <2>6. db <= SchemaIn(job.to)
    BY <2>2, <2>3, <2>5, SchemaTypes DEF Opened, Sure
  <2>7. process # None => SchemaIn(process.dir) <= SchemaIn(job.to)
    BY <2>2, <2>3, <2>5, SchemaTypes DEF Opened, Sure
  <2>8. Opened'
    BY <1>1, <1>2, <2>4, <2>5, <2>6, <2>7 DEF Opened, SchemaIn
  <2>9. Retained'
    BY <1>1, <1>2, <2>2 DEF Retained, Early, Lowered, Secured, SchemaIn
  <2> QED BY <2>8, <2>9
<1> QED BY <1>3, <1>4 DEF Steady

LEMMA SteadyDatabase == Sure /\ Steady /\ RestoreDatabase => Steady'
<1> SUFFICES ASSUME Sure, Steady, RestoreDatabase PROVE Steady'
  OBVIOUS
<1>1. /\ db' = IF job.undo.db = 0 THEN db ELSE job.undo.db
      /\ UNCHANGED <<link, process>> /\ job.at = "restore db" /\ job \in Jobs
  BY DEF RestoreDatabase, At, service, Sure, Typed, TypeOK
<1>2. /\ job'.at = "restore manifest" /\ job'.kind = job.kind /\ job'.to = job.to /\ job'.from = job.from
      /\ job'.undo = job.undo /\ job'.was = job.was
  BY <1>1, GoSame DEF RestoreDatabase
<1>3. Rooted'
  BY <1>2 DEF Steady, Rooted
<1>4. ASSUME Ascends' PROVE Opened' /\ Retained'
  <2>1. Ascends
    BY <1>2, <1>4 DEF Ascends, SchemaIn
  <2>2. Opened /\ Retained
    BY <2>1 DEF Steady
  <2>3. job.undo # None /\ db' = job.undo.db /\ db' <= SchemaIn(job.from)
    BY <1>1, <2>2 DEF Retained, Secured
  <2>4. job.from # None
    BY <2>1 DEF Ascends, Steady, Rooted
  <2>5. db' <= SchemaIn(link)
    BY <2>2, <2>3, <2>4, SchemaTypes DEF Opened, Sure
  <2>6. Opened'
    BY <1>1, <1>2, <2>2, <2>5 DEF Opened, SchemaIn
  <2>7. Retained'
    BY <1>1, <1>2, <2>2, <2>3 DEF Retained, Early, Lowered, Secured, SchemaIn
  <2> QED BY <2>6, <2>7
<1> QED BY <1>3, <1>4 DEF Steady

LEMMA SteadyRelink == Sure /\ Steady /\ Relink => Steady'
<1> SUFFICES ASSUME Sure, Steady, Relink PROVE Steady'
  OBVIOUS
<1>1. link' = Goal /\ UNCHANGED <<db, process>> /\ job.at = "relink" /\ job \in Jobs
  BY DEF Relink, At, state, service, Sure, Typed, TypeOK
<1>2. /\ job'.at = "start again" /\ job'.kind = job.kind /\ job'.to = job.to /\ job'.from = job.from
      /\ job'.undo = job.undo /\ job'.was = job.was
  BY <1>1, GoSame DEF Relink
<1>3. Rooted'
  BY <1>2 DEF Steady, Rooted
<1>4. ASSUME Ascends' PROVE Opened' /\ Retained'
  <2>1. Ascends
    BY <1>2, <1>4 DEF Ascends, SchemaIn
  <2>2. Retained /\ Goal = job.from /\ job.from # None
    BY <2>1 DEF Steady, Ascends, Goal, Rooted
  <2>3. process = None
    BY <1>1 DEF Sure, RestoreInv, RestoresAlone
  <2>4. db <= SchemaIn(job.from) /\ SchemaIn(job.from) \in Nat
    BY <1>1, <2>2, SchemaTypes DEF Retained, Lowered, Sure
  <2>5. Opened'
    <3>1. SchemaIn(job'.from) = SchemaIn(job.from) /\ SchemaIn(link') = SchemaIn(job.from)
      BY <1>1, <1>2, <2>2
    <3>2. SchemaIn(job.from) <= SchemaIn(job.from)
      BY <2>4
    <3> QED BY <1>1, <1>2, <2>2, <2>3, <2>4, <3>1, <3>2 DEF Opened, SchemaIn
  <2>6. Retained'
    BY <1>2 DEF Retained, Early, Lowered, Secured
  <2> QED BY <2>5, <2>6
<1> QED BY <1>3, <1>4 DEF Steady

LEMMA SteadyScript == Sure /\ Steady /\ Script => Steady'
<1> SUFFICES ASSUME Sure, Steady, Script PROVE Steady'
  OBVIOUS
<1>1. CASE Build
  BY <1>1, SteadyGo DEF Build, At, Abort, state, service, Early, Secured, Lowered
<1>2. CASE BackupFails \/ Validate
  BY <1>2, SteadyGo DEF BackupFails, Validate, At, Abort, state, service, Early, Secured, Lowered
<1>3. CASE ReplaceWrapper \/ InstallUnit \/ RestartService \/ ServiceFails
  BY <1>3, SteadyGo DEF ReplaceWrapper, InstallUnit, RestartService, ServiceFails, At, state, service,
                        Early, Secured, Lowered
<1>4. CASE Verify \/ Record \/ WriteFails \/ PruneReleases
  BY <1>4, SteadyGo DEF Verify, Record, WriteFails, PruneReleases, At, Abort, state, service,
                        Early, Secured, Lowered
<1>5. CASE PruneBackups
  <2>1. CASE Go("done")
    BY <1>5, <2>1, SteadyGo DEF PruneBackups, state, service, Early, Secured, Lowered
  <2>2. CASE UNCHANGED job
    <3>1. UNCHANGED <<link, db, process>>
      BY <1>5 DEF PruneBackups, state, service
    <3> QED BY <2>2, <3>1 DEF Steady, Rooted, Ascends, Opened, Retained, SchemaIn
  <2> QED BY <1>5, <2>1, <2>2 DEF PruneBackups
<1>6. CASE StopConfirmed
  <2>1. CASE job.undo = None
    <3>1. Go("relink") /\ job.at = "stop" /\ UNCHANGED <<link, db>> /\ process' = None
      BY <1>6, <2>1 DEF StopConfirmed, At, state
    <3>2. ~Ascends
      BY <2>1, <3>1 DEF Steady, Retained, Secured
    <3>3. /\ job'.at = "relink" /\ job'.kind = job.kind /\ job'.to = job.to /\ job'.from = job.from
          /\ job'.was = job.was
      BY <3>1, GoSame DEF Sure, Typed, TypeOK
    <3>4. ~Ascends'
      BY <3>2, <3>3 DEF Ascends, SchemaIn
    <3> QED BY <3>3, <3>4 DEF Steady, Rooted
  <2>2. CASE job.undo # None
    BY <1>6, <2>2, SteadyGo DEF StopConfirmed, At, state, Early, Secured, Lowered
  <2> QED BY <2>1, <2>2
<1>7. CASE StopUnconfirmed \/ RestoreManifest \/ RestoreControl \/ RestoreFails
  BY <1>7, SteadyGo DEF StopUnconfirmed, RestoreManifest, RestoreControl, RestoreFails, At, Abort, state, service,
                        Early, Secured, Lowered
<1>8. CASE Disable \/ StartAgain \/ VerifyAgain
  BY <1>8, SteadyGo DEF Disable, StartAgain, VerifyAgain, At, Abort, state, service, Early, Secured, Lowered
<1> QED BY <1>1, <1>2, <1>3, <1>4, <1>5, <1>6, <1>7, <1>8, SteadyBackup, SteadySwitch, SteadyDatabase, SteadyRelink
        DEF Script

LEMMA SteadyNext == Sure /\ Steady /\ [Next]_vars => Steady'
<1> SUFFICES ASSUME Sure, Steady, [Next]_vars PROVE Steady'
  OBVIOUS
<1>1. CASE Kill
  BY <1>1, SteadyGo DEF Kill, state, service, Early, Secured, Lowered
<1>2. CASE Reboot \/ Operate \/ UNCHANGED vars
  <2>1. UNCHANGED <<link, db>> /\ process' \in {None, process}
    BY <1>2 DEF Reboot, Operate, vars, state, service
  <2>2. CASE Go("killed")
    BY <2>1, <2>2, SteadyGo DEF Early, Secured, Lowered
  <2>3. CASE UNCHANGED job
    BY <2>1, <2>3 DEF Steady, Rooted, Ascends, Opened, Retained, SchemaIn
  <2> QED BY <1>2, <2>2, <2>3 DEF Reboot, Operate, vars
<1> QED BY <1>1, <1>2, SteadyService, SteadyBegin, SteadyScript DEF Next

\* After a move to a newer schema, killed or failed anywhere, put back or not,
\* what is current opens the database: install.sh, update.sh, panel-lib.sh.
THEOREM NewerIsOpened == Spec => []NewerAlwaysOpens
<1>1. Sure /\ Steady => NewerAlwaysOpens
  <2>1. ASSUME Steady, Ascends PROVE CurrentOpens
    BY <2>1 DEF Steady, Opened, CurrentOpens, SchemaIn
  <2> QED BY <2>1 DEF NewerAlwaysOpens, Ascends, SchemaIn
<1>2. Init => Sure /\ Steady
  BY TypedStart, TargetStart, RestoreStart, FoundedStart, SteadyStart DEF Sure
<1>3. Sure /\ Steady /\ [Next]_vars => Sure' /\ Steady'
  BY TypedNext, TargetNext, RestoreNext, FoundedNext, SteadyNext DEF Sure
<1> QED BY <1>1, <1>2, <1>3, PTL DEF Spec

(***************************************************************************)
(* Without disturbances.  Between jobs manifest, link, control files,      *)
(* database and process belong together; a job that leaves that order      *)
(* holds a backup that restores it.                                        *)
(***************************************************************************)
Both(d) == [wrapper |-> Commit(d), unit |-> Commit(d)]
Fits(d, base, ctl) == base <= SchemaIn(d) /\ ctl = Both(d)

Calm == Resting \cup {"build", "snapshot", "validate", "control", "prune releases", "prune backups",
                      "start again", "verify again"}
Recorded == {"idle", "done", "killed", "prune releases", "prune backups"}
Settled == {"done", "prune releases", "prune backups"}
Restarted == {"start again", "verify again"}

InOrder ==
  manifest # None => /\ link = manifest.dir
                     /\ Fits(link, db, control)
                     /\ process # None => process.dir = link

\* What a job has to mend it with, and whether it has to.
Mends == job.kind = "rollback" \/ (job.kind # "none" /\ job.was.manifest # None)
Kept ==
  /\ job.undo # None /\ job.undo.manifest # None
  /\ job.undo.manifest.dir = Goal /\ job.undo.db # 0
  /\ Fits(Goal, job.undo.db, job.undo.control)

Began ==
  /\ job.kind # "none" /\ job.was.manifest # None =>
       job.was.link = job.was.manifest.dir /\ job.was.control = Both(job.was.link)
  /\ job.kind \in {"install", "update"} /\ job.at \notin Recorded => manifest = job.was.manifest
  /\ job.at = "build" => job.kind # "rollback"
  /\ job.kind \in {"install", "update"} /\ job.at \in {"build", "snapshot"} => job.undo = None
  /\ job.kind \in {"install", "update"} /\ job.at \in Secured /\ job.undo # None =>
       job.undo.manifest = job.was.manifest
  /\ (Mends /\ job.at \in Secured) \/ (job.kind = "rollback" /\ job.at = "snapshot") => Kept

Forth ==
  /\ job.at \in {"switch", "unit"} => control.wrapper = Commit(job.to)
  /\ job.at \in {"unit", "restart", "verify", "record"} => link = job.to
  /\ job.at \in {"restart", "verify", "record"} => control = Both(job.to)
  /\ job.at \in {"verify", "record"} /\ process # None => process.dir = job.to
  /\ job.at = "record" => db <= SchemaIn(job.to)

Back ==
  /\ Mends /\ job.at \in Lowered => db <= SchemaIn(Goal)
  /\ Mends /\ job.at \in {"restore control", "relink"} => manifest # None /\ manifest.dir = Goal
  /\ Mends /\ job.at = "relink" => control = Both(Goal)
  /\ job.kind = "rollback" /\ job.at \in Restarted => manifest # None /\ manifest.dir = job.to
  /\ job.at \in Settled /\ manifest # None => manifest.dir = job.to

Restorable ==
  \A b \in CompleteBackups : b.manifest # None =>
    b.manifest.dir \in whole /\ b.db # 0 /\ Fits(b.manifest.dir, b.db, b.control)

Parts == (job.at \in Calm => InOrder) /\ Began /\ Forth /\ Back

Orderly == ~struck => Parts /\ Restorable

\* What runs can open what it runs on.
Opening == process # None => db <= SchemaIn(process.dir)

Firm == Sure /\ Steady /\ Opening

LEMMA OpeningStart == Init => Opening
BY DEF Init, Opening

LEMMA OpeningNext == Sure /\ Opening /\ [Next]_vars => Opening'
<1> SUFFICES ASSUME Sure, Opening, [Next]_vars PROVE Opening'
  OBVIOUS
<1>1. CASE Migrate
  <2>1. process # None /\ db < SchemaIn(process.dir) /\ db' = db + 1 /\ UNCHANGED process
    BY <1>1 DEF Migrate, SchemaIn, service
  <2>2. db + 1 <= SchemaIn(process.dir)
    BY <2>1, SchemaTypes DEF Sure
  <2> QED BY <2>1, <2>2 DEF Opening, SchemaIn
<1>2. CASE RestoreDatabase
  <2>1. process = None /\ UNCHANGED process
    BY <1>2 DEF RestoreDatabase, At, service, Sure, RestoreInv, RestoresAlone
  <2> QED BY <2>1 DEF Opening
<1>3. CASE Spawn
  BY <1>3 DEF Spawn, Opens, Opening, SchemaIn, state
<1>4. CASE FirstPoll
  <2>1. process' = [process EXCEPT !.ready = TRUE] /\ process # None /\ UNCHANGED db
    BY <1>4 DEF FirstPoll, state
  <2>2. process'.dir = process.dir
    BY <2>1 DEF Sure, Typed, TypeOK
  <2> QED BY <2>1, <2>2 DEF Opening, SchemaIn
<1>5. CASE UNCHANGED db /\ process' \in {None, process}
  BY <1>5 DEF Opening, SchemaIn
<1>6. Spawn \/ FirstPoll \/ process' \in {None, process}
  BY ProcessSteps
<1> QED BY <1>1, <1>2, <1>3, <1>4, <1>5, <1>6, DatabaseSteps

LEMMA OrderlyStart == Init => Orderly
BY DEF Init, NoJob, Orderly, Parts, InOrder, Began, Forth, Back, Mends, Restorable, CompleteBackups, Secured, Lowered,
       Recorded, Settled, Restarted

LEMMA SameJob ==
  ASSUME Firm, NEW s, Go(s)
  PROVE  /\ job'.at = s /\ job'.kind = job.kind /\ job'.to = job.to /\ job'.from = job.from
         /\ job'.undo = job.undo /\ job'.was = job.was
BY GoSame DEF Firm, Sure, Typed, TypeOK

\* A step beside the job that changes nothing but what runs.
LEMMA PartsSame ==
  ASSUME Parts, UNCHANGED <<job, link, db, manifest, control>>, process' \in {None, process}
  PROVE  Parts'
<1>1. Goal' = Goal /\ Mends' = Mends /\ Kept' = Kept
  BY DEF Goal, Mends, Kept, Fits, Both, SchemaIn
<1>2. job.at \in Calm => InOrder'
  BY DEF Parts, InOrder, Fits, Both, SchemaIn
<1>3. Began'
  BY <1>1 DEF Parts, Began, Both
<1>4. Forth'
  BY DEF Parts, Forth, Both, SchemaIn
<1>5. Back'
  BY <1>1 DEF Parts, Back, Both, SchemaIn
<1> QED BY <1>2, <1>3, <1>4, <1>5 DEF Parts

\* A step of the job that leaves what is installed as it is.
LEMMA PartsGo ==
  ASSUME Firm, Parts, NEW s, Go(s), UNCHANGED <<link, db, manifest, control>>, process' \in {None, process},
         s \notin {"switch", "unit", "restart", "verify", "record"},
         s \in Calm => job.at \in Calm,
         s \notin Recorded => job.at \notin Recorded,
         s \in Secured => job.at \in Secured,
         s \in {"build", "snapshot"} => job.at = "build" /\ job.kind # "rollback",
         s \in Lowered => ~Mends,
         s \in Restarted => job.at \in Restarted,
         s \in Settled => job.at \in Settled \/ (job.kind = "rollback" /\ job.at \in Restarted)
  PROVE  Parts'
<1>1. /\ job'.at = s /\ job'.kind = job.kind /\ job'.to = job.to /\ job'.from = job.from
      /\ job'.undo = job.undo /\ job'.was = job.was
  BY SameJob
<1>2. job'.at \in Calm => InOrder'
  BY <1>1 DEF Parts, InOrder, Fits, Both, SchemaIn
<1>3. Goal' = Goal /\ Mends' = Mends
  BY <1>1 DEF Goal, Mends
<1>4. Began'
  BY <1>1, <1>3 DEF Parts, Began, Kept, Fits, Both, SchemaIn
<1>5. Forth'
  BY <1>1 DEF Forth
<1>6. Back'
  BY <1>1, <1>3 DEF Parts, Back, Lowered
<1> QED BY <1>2, <1>4, <1>5, <1>6 DEF Parts

LEMMA PartsBackup == Firm /\ Parts /\ TakeBackup => Parts'
<1> SUFFICES ASSUME Firm, Parts, TakeBackup PROVE Parts'
  OBVIOUS
<1>1. UNCHANGED <<link, db, manifest, control, process>> /\ job.at = "snapshot" /\ job \in Jobs /\ db \in Nat
  BY DEF TakeBackup, At, state, service, Firm, Sure, Typed, TypeOK
<1>2. CASE Go("stop") /\ job.kind = "rollback"
  <2>1. /\ job'.at = "stop" /\ job'.kind = job.kind /\ job'.to = job.to /\ job'.from = job.from
        /\ job'.undo = job.undo /\ job'.was = job.was
    BY <1>2, SameJob
  <2>2. Goal' = Goal /\ Kept
    BY <1>1, <1>2, <2>1 DEF Goal, Parts, Began
  <2>3. Began'
    BY <1>1, <1>2, <2>1, <2>2 DEF Parts, Began, Kept, Fits, Both, SchemaIn
  <2>4. Forth' /\ Back' /\ job'.at \notin Calm
    BY <2>1 DEF Forth, Back, Lowered, Restarted, Settled, Calm, Resting
  <2> QED BY <2>3, <2>4 DEF Parts
<1>3. CASE job.kind # "rollback" /\ (job' = [job EXCEPT !.at = "validate", !.undo = Snapshot(TRUE)]
                                     \/ (Go("validate") /\ ~config))
  <2>1. /\ job'.at = "validate" /\ job'.kind = job.kind /\ job'.to = job.to /\ job'.from = job.from
        /\ job'.was = job.was /\ (job'.undo = Snapshot(TRUE) \/ (~config /\ job'.undo = job.undo))
    <3>1. CASE Go("validate") /\ ~config
      BY <3>1, SameJob
    <3>2. CASE job' = [job EXCEPT !.at = "validate", !.undo = Snapshot(TRUE)]
      BY <1>1, <3>2 DEF Jobs
    <3> QED BY <1>3, <3>1, <3>2
  <2>2. job.kind \in {"install", "update"} /\ manifest = job.was.manifest /\ Goal' = job.from
    <3>1. job.kind # "none"
      BY <1>1 DEF Firm, Sure, Typed, Supplied
    <3> QED BY <1>1, <1>3, <2>1, <3>1 DEF Jobs, Goal, Parts, Began, Recorded
  <2>3. Snapshot(TRUE).manifest = manifest /\ Snapshot(TRUE).db = db /\ Snapshot(TRUE).control = control
    BY DEF Snapshot
  <2>4. ASSUME manifest # None PROVE Kept' /\ job'.undo.manifest = manifest
    <3>1. config /\ db # 0
      BY <1>1, <2>4 DEF Firm, Sure, Founded, Used
    <3>2. job'.undo = Snapshot(TRUE) /\ job'.undo # None
      BY <2>1, <3>1, NoneIsNoBackup DEF Firm, Sure
    <3>3. InOrder /\ job.from = link
      BY <1>1, <2>2, <2>4 DEF Parts, Began, Calm, InOrder, Firm, Steady, Rooted
    <3>4. link = manifest.dir /\ Fits(link, db, control)
      BY <2>4, <3>3 DEF InOrder
    <3>5. job'.undo.manifest = manifest /\ job'.undo.db = db /\ job'.undo.control = control
      BY <2>3, <3>2
    <3>6. Goal' = link
      BY <2>2, <3>3
    <3>7. Fits(link, job'.undo.db, job'.undo.control)
      BY <3>4, <3>5
    <3>8. Fits(Goal', job'.undo.db, job'.undo.control)
      BY <3>6, <3>7
    <3> QED BY <2>4, <3>1, <3>2, <3>4, <3>5, <3>6, <3>8 DEF Kept, Fits, Both, SchemaIn
  <2>5. job'.undo # None => job'.undo.manifest = manifest
    <3>1. CASE job'.undo = Snapshot(TRUE)
      BY <2>3, <3>1
    <3>2. CASE ~config /\ job'.undo = job.undo
      BY <1>1, <2>2, <3>2 DEF Parts, Began
    <3> QED BY <2>1, <3>1, <3>2
  <2>6. Began'
    BY <1>1, <1>3, <2>1, <2>2, <2>4, <2>5 DEF Parts, Began, Mends
  <2>7. Forth' /\ Back' /\ job'.at \notin Calm \ {"validate"}
    BY <2>1 DEF Forth, Back, Lowered, Restarted, Settled
  <2>8. InOrder'
    BY <1>1 DEF Parts, Calm, InOrder, Fits, Both, SchemaIn
  <2> QED BY <2>6, <2>7, <2>8 DEF Parts
<1> QED BY <1>2, <1>3 DEF TakeBackup

LEMMA CommitNotNone == Typed /\ job.at # "idle" => Commit(job.to) # None /\ job.to # None
<1> SUFFICES ASSUME Typed, job.at # "idle" PROVE Commit(job.to) # None /\ job.to # None
  OBVIOUS
<1>1. job.to \in Dirs /\ None \notin Dirs
  BY ReleasesAssumption DEF Typed, Supplied, Dirs
<1> QED BY <1>1, CommitTypes, NoneAssumption

\* The steps between validation and the restart.
LEMMA PartsForth ==
  ASSUME Firm, Parts,
         ReplaceWrapper \/ Switch \/ InstallUnit \/ RestartService
  PROVE  Parts'
<1> DEFINE next == CASE job.at = "control" -> "switch" [] job.at = "switch" -> "unit"
                     [] job.at = "unit" -> "restart" [] OTHER -> "verify"
<1>1. Go(next) /\ job.at \in {"control", "switch", "unit", "restart"}
  BY DEF ReplaceWrapper, Switch, InstallUnit, RestartService, At
<1>2. /\ job'.at = next /\ job'.kind = job.kind /\ job'.to = job.to /\ job'.from = job.from
      /\ job'.undo = job.undo /\ job'.was = job.was
  BY <1>1, SameJob
<1>3. next \in {"switch", "unit", "restart", "verify"}
  BY <1>1
<1>4. UNCHANGED <<db, manifest>> /\ process' \in {None, process}
  BY DEF ReplaceWrapper, Switch, InstallUnit, RestartService, state, service
<1>5. Goal' = Goal /\ Mends' = Mends
  BY <1>2 DEF Goal, Mends
<1>6. Began'
  <2>1. job.at \in Secured /\ job.at \notin Recorded /\ job'.at \notin {"build", "snapshot"}
    BY <1>1, <1>2, <1>3 DEF Secured, Recorded
  <2> QED BY <1>2, <1>4, <1>5, <2>1 DEF Parts, Began, Kept, Fits, Both, SchemaIn
<1>7. Forth'
  <2>1. CASE ReplaceWrapper
    <3>1. control' = [control EXCEPT !.wrapper = Commit(job.to)] /\ job'.at = "switch" /\ control \in Controls
      BY <1>2, <2>1 DEF ReplaceWrapper, At, Firm, Sure, Typed, TypeOK
    <3>2. control'.wrapper = Commit(job.to)
      BY <3>1 DEF Controls
    <3> QED BY <1>2, <3>1, <3>2 DEF Forth
  <2>2. CASE Switch
    <3>1. link' = job.to /\ UNCHANGED control /\ job.at = "switch" /\ job'.at = "unit"
      BY <1>2, <2>2 DEF Switch, At, state
    <3> QED BY <1>2, <3>1 DEF Parts, Forth
  <2>3. CASE InstallUnit
    <3>1. /\ control' = [control EXCEPT !.unit = Commit(job.to)] /\ control \in Controls
          /\ UNCHANGED link /\ job.at = "unit" /\ job'.at = "restart"
      BY <1>2, <2>3 DEF InstallUnit, At, Firm, Sure, Typed, TypeOK
    <3>2. control.wrapper = Commit(job.to) /\ link = job.to
      BY <3>1 DEF Parts, Forth
    <3>3. control' = Both(job.to)
      BY <3>1, <3>2 DEF Both, Controls
    <3> QED BY <1>2, <3>1, <3>2, <3>3 DEF Forth, Both
  <2>4. CASE RestartService
    <3>1. process' = None /\ UNCHANGED <<link, control>> /\ job.at = "restart" /\ job'.at = "verify"
      BY <1>2, <2>4 DEF RestartService, At, state
    <3> QED BY <1>2, <3>1 DEF Parts, Forth, Both
  <2> QED BY <2>1, <2>2, <2>3, <2>4
<1>8. Back' /\ job'.at \notin Calm
  BY <1>2, <1>3 DEF Back, Lowered, Restarted, Settled, Calm, Resting
<1> QED BY <1>6, <1>7, <1>8 DEF Parts

LEMMA PartsVerify == Firm /\ Parts /\ Verify => Parts'
<1> SUFFICES ASSUME Firm, Parts, Verify PROVE Parts'
  OBVIOUS
<1>1. UNCHANGED <<link, db, manifest, control, process>> /\ job.at = "verify"
  BY DEF Verify, At, state, service
<1>2. CASE ~Ready({VersionOf[Commit(job.to)]})
  BY <1>1, <1>2, PartsGo DEF Verify, Calm, Resting, Recorded, Secured, Lowered, Restarted, Settled
<1>3. CASE Ready({VersionOf[Commit(job.to)]})
  <2>1. Go("record")
    BY <1>3 DEF Verify
  <2>2. /\ job'.at = "record" /\ job'.kind = job.kind /\ job'.to = job.to /\ job'.from = job.from
        /\ job'.undo = job.undo /\ job'.was = job.was
    BY <2>1, SameJob
  <2>3. Goal' = Goal /\ Mends' = Mends
    BY <2>2 DEF Goal, Mends
  <2>4. Began'
    BY <1>1, <2>2, <2>3 DEF Parts, Began, Recorded, Secured, Lowered
  <2>5. process # None /\ process.dir = job.to /\ db <= SchemaIn(job.to)
    BY <1>1, <1>3 DEF Ready, Parts, Forth, Firm, Opening
  <2>6. Forth'
    BY <1>1, <2>2, <2>5 DEF Parts, Forth, Both, SchemaIn
  <2>7. Back' /\ job'.at \notin Calm
    BY <2>2 DEF Back, Lowered, Restarted, Settled, Calm, Resting
  <2> QED BY <2>4, <2>6, <2>7 DEF Parts
<1> QED BY <1>2, <1>3

LEMMA PartsRecord == Firm /\ Parts /\ Record => Parts'
<1> SUFFICES ASSUME Firm, Parts, Record PROVE Parts'
  OBVIOUS
<1>1. /\ UNCHANGED <<link, db, control, process>> /\ job.at = "record"
      /\ manifest' = [dir |-> job.to, prev |-> Previous]
  BY DEF Record, At, service
<1>2. /\ job'.at = "prune releases" /\ job'.kind = job.kind /\ job'.to = job.to /\ job'.from = job.from
      /\ job'.undo = job.undo /\ job'.was = job.was
  BY SameJob DEF Record
<1>3. manifest'.dir = job.to
  BY <1>1
<1>4. /\ link = job.to /\ control = Both(job.to) /\ (process # None => process.dir = job.to)
      /\ db <= SchemaIn(job.to)
  BY <1>1 DEF Parts, Forth
<1>5. InOrder'
  BY <1>1, <1>3, <1>4 DEF InOrder, Fits, Both, SchemaIn
<1>6. Began'
  BY <1>2 DEF Parts, Began, Recorded, Secured, Lowered
<1>7. Forth' /\ Back'
  BY <1>2, <1>3 DEF Forth, Back, Lowered, Restarted
<1> QED BY <1>5, <1>6, <1>7 DEF Parts

\* The steps that put a backup back, under a service that is stopped.
LEMMA PartsRestore ==
  ASSUME Firm, Parts, RestoreDatabase \/ RestoreManifest \/ RestoreControl
  PROVE  Parts'
<1> DEFINE next == CASE job.at = "restore db" -> "restore manifest"
                     [] job.at = "restore manifest" -> "restore control" [] OTHER -> "relink"
<1>1. Go(next) /\ job.at \in {"restore db", "restore manifest", "restore control"}
  BY DEF RestoreDatabase, RestoreManifest, RestoreControl, At
<1>2. /\ job'.at = next /\ job'.kind = job.kind /\ job'.to = job.to /\ job'.from = job.from
      /\ job'.undo = job.undo /\ job'.was = job.was
  BY <1>1, SameJob
<1>3. next \in {"restore manifest", "restore control", "relink"}
  BY <1>1
<1>4. Goal' = Goal /\ Mends' = Mends
  BY <1>2 DEF Goal, Mends
<1>5. job.at \in Secured /\ job.at \notin Recorded /\ job'.at \notin {"build", "snapshot"}
  BY <1>1, <1>2, <1>3 DEF Secured, Lowered, Recorded
<1>6. Mends => Kept
  BY <1>5 DEF Parts, Began
<1>7. job.undo # None
  BY <1>1 DEF Putting, Firm, Sure, Typed, Supplied
<1>8. manifest' = manifest \/ (RestoreManifest /\ manifest' = job.undo.manifest)
  BY DEF RestoreDatabase, RestoreManifest, RestoreControl
<1>9. job.kind \in {"install", "update"} => manifest' = job.was.manifest
  BY <1>5, <1>7, <1>8 DEF Parts, Began
<1>10. Began'
  BY <1>2, <1>4, <1>5, <1>6, <1>9 DEF Parts, Began, Kept, Fits, Both, SchemaIn
<1>11. Forth' /\ job'.at \notin Calm
  BY <1>2, <1>3 DEF Forth, Calm, Resting
<1>12. Back'
  <2>1. CASE RestoreDatabase
    <3>1. job'.at = "restore manifest" /\ db' = (IF job.undo.db = 0 THEN db ELSE job.undo.db)
      BY <1>2, <2>1 DEF RestoreDatabase, At
    <3>2. Mends => db' <= SchemaIn(Goal)
      BY <1>6, <3>1 DEF Kept, Fits
    <3> QED BY <1>2, <1>4, <3>1, <3>2 DEF Back, Restarted, Settled, SchemaIn
  <2>2. CASE RestoreManifest
    <3>1. /\ job'.at = "restore control" /\ job.at = "restore manifest" /\ UNCHANGED db
          /\ manifest' = (IF job.undo.manifest = None THEN manifest ELSE job.undo.manifest)
      BY <1>2, <2>2 DEF RestoreManifest, At
    <3>2. Mends => manifest' # None /\ manifest'.dir = Goal
      BY <1>6, <3>1 DEF Kept
    <3>3. Mends => db <= SchemaIn(Goal)
      BY <3>1 DEF Parts, Back, Lowered
    <3> QED BY <1>2, <1>4, <3>1, <3>2, <3>3 DEF Back, Restarted, Settled, SchemaIn
  <2>3. CASE RestoreControl
    <3>1. /\ job'.at = "relink" /\ job.at = "restore control" /\ UNCHANGED <<db, manifest>>
          /\ control' = [f \in {"wrapper", "unit"} |-> IF job.undo.control[f] = None THEN control[f]
                                                       ELSE job.undo.control[f]]
      BY <1>2, <2>3 DEF RestoreControl, At
    <3>2. Mends => manifest # None /\ manifest.dir = Goal /\ db <= SchemaIn(Goal)
      BY <3>1 DEF Parts, Back, Lowered
    <3>3. ASSUME Mends PROVE control' = Both(Goal)
      <4>1. job.undo.control = Both(Goal)
        BY <1>6, <3>3 DEF Kept, Fits
      <4>2. Commit(Goal) # None
        <5>1. manifest \in Manifests
          BY <3>2, <3>3 DEF Firm, Sure, Typed, TypeOK
        <5>2. Goal \in Dirs
          BY <3>2, <3>3, <5>1 DEF Manifests
        <5> QED BY <5>2, CommitTypes, NoneAssumption
      <4>3. job.undo.control["wrapper"] = Commit(Goal) /\ job.undo.control["unit"] = Commit(Goal)
        BY <4>1 DEF Both
      <4>4. control' = [f \in {"wrapper", "unit"} |-> Commit(Goal)]
        BY <3>1, <4>2, <4>3
      <4> QED BY <4>4 DEF Both
    <3>4. (Mends => manifest # None /\ manifest.dir = Goal)'
      BY <1>4, <3>1, <3>2
    <3>5. (Mends => db <= SchemaIn(Goal))'
      BY <1>4, <3>1, <3>2 DEF SchemaIn
    <3>6. (Mends => control = Both(Goal))'
      BY <1>4, <3>3 DEF Both
    <3> QED BY <1>2, <3>1, <3>4, <3>5, <3>6 DEF Back, Restarted, Settled
  <2> QED BY <2>1, <2>2, <2>3
<1> QED BY <1>10, <1>11, <1>12 DEF Parts

LEMMA PartsRelink == Firm /\ Parts /\ (Relink \/ Disable) => Parts'
<1> SUFFICES ASSUME Firm, Parts, Relink \/ Disable PROVE Parts'
  OBVIOUS
<1> DEFINE next == IF Goal # None THEN "start again" ELSE "failed"
<1>1. /\ UNCHANGED <<db, manifest, control, process>> /\ job.at = "relink" /\ Go(next)
      /\ IF Goal # None THEN link' = Goal ELSE link' = link
  BY DEF Relink, Disable, Abort, At, state, service
<1>2. /\ job'.at = next /\ job'.kind = job.kind /\ job'.to = job.to /\ job'.from = job.from
      /\ job'.undo = job.undo /\ job'.was = job.was
  BY <1>1, SameJob
<1>3. next \in {"start again", "failed"}
  OBVIOUS
<1>4. Goal' = Goal /\ Mends' = Mends
  BY <1>2 DEF Goal, Mends
<1>5. Mends => manifest # None /\ manifest.dir = Goal /\ control = Both(Goal) /\ db <= SchemaIn(Goal)
  BY <1>1 DEF Parts, Back, Lowered
<1>6. process = None
  BY <1>1 DEF Firm, Sure, RestoreInv, RestoresAlone
<1>7. ~Mends => manifest = None
  <2>1. job.kind # "none" /\ job.kind \in {"none", "install", "update", "rollback"}
    BY <1>1 DEF Firm, Sure, Typed, TypeOK, Supplied, Jobs
  <2> QED BY <1>1, <2>1 DEF Mends, Parts, Began, Recorded
<1>8. Mends => Goal # None
  <2>1. manifest # None => manifest.dir \in Dirs
    BY DEF Firm, Sure, Typed, TypeOK, Manifests
  <2>2. None \notin Dirs
    BY ReleasesAssumption DEF Dirs
  <2> QED BY <1>5, <2>1, <2>2
<1>9. InOrder'
  <2>1. CASE Mends
    <3>1. link' = Goal /\ manifest'.dir = Goal
      BY <1>1, <1>5, <1>8, <2>1
    <3>2. Fits(Goal, db, control)
      BY <1>5, <2>1 DEF Fits
    <3>3. Fits(link', db', control')
      BY <1>1, <3>1, <3>2
    <3> QED BY <1>1, <1>6, <3>1, <3>3 DEF InOrder, Fits, Both, SchemaIn
  <2>2. CASE ~Mends
    BY <1>1, <1>7, <2>2 DEF InOrder
  <2> QED BY <2>1, <2>2
<1>10. Began'
  <2>1. job.at \notin Recorded /\ job'.at \notin Secured \cup {"build", "snapshot"}
    BY <1>1, <1>2, <1>3 DEF Secured, Lowered, Recorded
  <2> QED BY <1>1, <1>2, <1>4, <2>1 DEF Parts, Began, Both
<1>11. Forth'
  BY <1>2, <1>3 DEF Forth
<1>12. Back'
  <2>1. job.kind = "rollback" => manifest # None /\ manifest.dir = job.to
    BY <1>5 DEF Mends, Goal
  <2> QED BY <1>1, <1>2, <1>3, <2>1 DEF Back, Lowered, Settled
<1> QED BY <1>9, <1>10, <1>11, <1>12 DEF Parts

LEMMA PartsScript == Firm /\ Parts /\ Script /\ ~struck' => Parts'
<1> SUFFICES ASSUME Firm, Parts, Script, ~struck' PROVE Parts'
  OBVIOUS
<1>1. CASE Build
  <2>1. job.kind # "rollback"
    BY <1>1 DEF Build, At, Parts, Began
  <2> QED BY <1>1, <2>1, PartsGo DEF Build, At, Abort, state, service, Calm, Resting, Recorded, Secured, Lowered,
                                    Restarted, Settled
<1>2. CASE Validate
  BY <1>2, PartsGo DEF Validate, At, Abort, state, service, Calm, Resting, Recorded, Secured, Lowered, Restarted,
                       Settled
<1>3. CASE BackupFails \/ ServiceFails \/ WriteFails \/ StopUnconfirmed \/ RestoreFails
  BY <1>3 DEF BackupFails, ServiceFails, WriteFails, StopUnconfirmed, RestoreFails, Strike
<1>4. CASE PruneReleases
  BY <1>4, PartsGo DEF PruneReleases, At, state, service, Calm, Resting, Recorded, Secured, Lowered, Restarted,
                       Settled
<1>5. CASE PruneBackups
  <2>1. CASE Go("done")
    BY <1>5, <2>1, PartsGo DEF PruneBackups, At, state, service, Calm, Resting, Recorded, Secured, Lowered, Restarted,
                               Settled
  <2>2. CASE UNCHANGED job
    BY <1>5, <2>2, PartsSame DEF PruneBackups, state, service
  <2> QED BY <1>5, <2>1, <2>2 DEF PruneBackups
<1>6. CASE StopConfirmed
  <2>1. /\ UNCHANGED <<link, db, manifest, control>> /\ process' \in {None, process} /\ job.at = "stop"
        /\ Go(IF job.undo = None THEN "relink" ELSE "restore db")
    BY <1>6 DEF StopConfirmed, At, state
  <2>2. CASE job.undo = None
    <3>1. ~Mends
      BY <2>1, <2>2 DEF Parts, Began, Kept, Secured
    <3> QED BY <2>1, <2>2, <3>1, PartsGo DEF Calm, Resting, Recorded, Secured, Lowered, Restarted, Settled
  <2>3. CASE job.undo # None
    BY <2>1, <2>3, PartsGo DEF Calm, Resting, Recorded, Secured, Lowered, Restarted, Settled
  <2> QED BY <2>2, <2>3
<1>7. CASE StartAgain
  BY <1>7, PartsGo DEF StartAgain, At, state, Calm, Resting, Recorded, Secured, Lowered, Restarted, Settled
<1>8. CASE VerifyAgain
  BY <1>8, PartsGo DEF VerifyAgain, At, Abort, state, service, Calm, Resting, Recorded, Secured, Lowered, Restarted,
                       Settled
<1> QED BY <1>1, <1>2, <1>3, <1>4, <1>5, <1>6, <1>7, <1>8, PartsBackup, PartsForth, PartsVerify, PartsRecord,
           PartsRestore, PartsRelink DEF Script

LEMMA PartsService == Firm /\ Parts /\ Service => Parts'
<1> SUFFICES ASSUME Firm, Parts, Service PROVE Parts'
  OBVIOUS
<1>1. UNCHANGED <<job, link, manifest, control>>
  BY DEF Service, Spawn, Migrate, FirstPoll, Die, StartLimit, state
<1>2. Goal' = Goal /\ Mends' = Mends /\ Kept' = Kept
  BY <1>1 DEF Goal, Mends, Kept, Fits, Both, SchemaIn
<1>3. Began'
  BY <1>1, <1>2 DEF Parts, Began, Both
<1>4. CASE Spawn
  <2>1. process' = [dir |-> link, ready |-> FALSE] /\ UNCHANGED db
    BY <1>4 DEF Spawn, state
  <2>2. job.at \in Calm => InOrder'
    BY <1>1, <2>1 DEF Parts, InOrder, Fits, Both, SchemaIn
  <2>3. Forth'
    BY <1>1, <2>1 DEF Parts, Forth, Both, SchemaIn
  <2>4. Back'
    BY <1>1, <1>2, <2>1 DEF Parts, Back, Both, SchemaIn
  <2> QED BY <1>1, <1>3, <2>2, <2>3, <2>4 DEF Parts
<1>5. CASE Migrate
  <2>1. process # None /\ db < SchemaIn(process.dir) /\ db' = db + 1 /\ UNCHANGED process
    BY <1>5 DEF Migrate, SchemaIn, service
  <2>2. db' <= SchemaIn(process.dir)
    BY <2>1, SchemaTypes DEF Firm, Sure
  <2>3. job.at \in Calm => InOrder'
    <3>1. ASSUME InOrder, manifest # None PROVE link = manifest.dir /\ Fits(link, db', control) /\ process.dir = link
      BY <2>1, <2>2, <3>1 DEF InOrder, Fits
    <3> QED BY <1>1, <2>1, <3>1 DEF Parts, InOrder, Fits, Both, SchemaIn
  <2>4. Forth'
    <3>1. job.at = "record" => db' <= SchemaIn(job.to)
      BY <2>1, <2>2 DEF Parts, Forth
    <3> QED BY <1>1, <2>1, <3>1 DEF Parts, Forth, Both, SchemaIn
  <2>5. job.at \notin Lowered
    BY <2>1 DEF Lowered, Firm, Sure, RestoreInv, RestoresAlone
  <2>6. Back'
    BY <1>1, <1>2, <2>5 DEF Parts, Back, Both, SchemaIn
  <2> QED BY <1>1, <1>3, <2>3, <2>4, <2>6 DEF Parts
<1>6. CASE FirstPoll
  <2>1. process # None /\ process' = [process EXCEPT !.ready = TRUE] /\ UNCHANGED db
    BY <1>6 DEF FirstPoll, state
  <2>2. process'.dir = process.dir
    BY <2>1 DEF Firm, Sure, Typed, TypeOK
  <2>3. job.at \in Calm => InOrder'
    BY <1>1, <2>1, <2>2 DEF Parts, InOrder, Fits, Both, SchemaIn
  <2>4. Forth'
    BY <1>1, <2>1, <2>2 DEF Parts, Forth, Both, SchemaIn
  <2>5. Back'
    BY <1>1, <1>2, <2>1 DEF Parts, Back, Both, SchemaIn
  <2> QED BY <1>1, <1>3, <2>3, <2>4, <2>5 DEF Parts
<1>7. CASE Die \/ StartLimit
  <2>1. process' \in {None, process} /\ UNCHANGED db
    BY <1>7 DEF Die, StartLimit, state
  <2> QED BY <1>1, <2>1, PartsSame
<1> QED BY <1>4, <1>5, <1>6, <1>7 DEF Service

\* A job begins in good order; a rollback with a backup that restores it.
LEMMA PartsBegun ==
  ASSUME InOrder, UNCHANGED <<link, db, manifest, control, process>>, job'.was = Picture,
         job'.from = link, job'.at \in {"done", "prune backups", "snapshot", "build"},
         \/ /\ job'.kind \in {"install", "update"} /\ job'.undo = None
            /\ job'.at \in Settled /\ manifest # None => job'.to = manifest.dir
         \/ job'.kind = "rollback" /\ job'.at = "snapshot" /\ Kept'
  PROVE  Parts'
<1>1. Picture.link = link /\ Picture.manifest = manifest /\ Picture.control = control
  BY DEF Picture
<1>2. InOrder'
  BY DEF InOrder, Fits, Both, SchemaIn
<1>3. job'.at \notin Secured
  BY DEF Secured, Lowered
<1>4. manifest # None => link = manifest.dir /\ control = Both(link)
  BY DEF InOrder, Fits
<1>5. Began'
  <2>1. manifest' = job'.was.manifest
    BY <1>1
  <2>2. job'.was.manifest # None => job'.was.link = job'.was.manifest.dir /\ job'.was.control = Both(job'.was.link)
    BY <1>1, <1>4
  <2> QED BY <1>3, <2>1, <2>2 DEF Began, Both
<1>6. Forth'
  BY DEF Forth
<1>7. Back'
  BY DEF Back, Lowered, Restarted, Settled
<1> QED BY <1>2, <1>5, <1>6, <1>7 DEF Parts

LEMMA PartsBegin == Firm /\ Parts /\ Restorable /\ Begin => Parts'
<1> SUFFICES ASSUME Firm, Parts, Restorable, Begin PROVE Parts'
  OBVIOUS
<1>1. UNCHANGED <<link, db, manifest, control, process>> /\ InOrder
  <2>1. job.at \in Resting
    BY DEF Begin, AlreadyRunning, NothingToDo, Reactivate, StageNew, StageCopy, Roll, MayBegin
  <2>2. InOrder
    BY <2>1 DEF Parts, Calm
  <2> QED BY <2>2 DEF Begin, AlreadyRunning, NothingToDo, Reactivate, StageNew, StageCopy, Stage, Roll, state, service
<1>2. ASSUME NEW kind \in {"install", "update"}, NEW d, NEW s \in {"done", "prune backups", "snapshot", "build"},
             job' = Begun(kind, s, d), s \in Settled /\ manifest # None => d = manifest.dir
      PROVE  Parts'
  <2>1. /\ job'.at = s /\ job'.kind = kind /\ job'.to = d /\ job'.from = link
        /\ job'.undo = None /\ job'.was = Picture
    BY <1>2, BegunIs
  <2> QED BY <1>1, <1>2, <2>1, PartsBegun
<1>3. manifest # None => link = manifest.dir
  BY <1>1 DEF InOrder
<1>4. ASSUME NEW kind \in {"install", "update"}, NEW c, NothingToDo(kind, c) \/ Reactivate(kind, c) PROVE Parts'
  BY <1>2, <1>3, <1>4 DEF NothingToDo, Reactivate
<1>5. ASSUME NEW kind \in {"install", "update"}, NEW d, Stage(kind, d) PROVE Parts'
  BY <1>2, <1>5 DEF Stage, Settled
<1>6. ASSUME NEW b \in CompleteBackups, Roll(b) PROVE Parts'
  <2>1. /\ job'.at = "snapshot" /\ job'.kind = "rollback" /\ job'.from = link /\ job'.undo = b /\ job'.was = Picture
    BY <1>6, RollIs
  <2>2. job'.to = b.manifest.dir /\ b.manifest # None
    BY <1>6 DEF Roll, Begun
  <2>3. b # None
    BY BackupsTyped, NoneAssumption DEF Firm, Sure
  <2>4. b.db # 0 /\ Fits(b.manifest.dir, b.db, b.control)
    BY <2>2 DEF Restorable
  <2>5. Goal' = b.manifest.dir
    BY <2>1, <2>2 DEF Goal
  <2>6. Fits(Goal', job'.undo.db, job'.undo.control)
    BY <2>1, <2>4, <2>5
  <2>7. Kept'
    BY <2>1, <2>2, <2>3, <2>4, <2>5, <2>6 DEF Kept, Fits, Both, SchemaIn
  <2> QED BY <1>1, <2>1, <2>7, PartsBegun
<1>7. CASE AlreadyRunning
  BY <1>2, <1>7 DEF AlreadyRunning
<1> QED BY <1>4, <1>5, <1>6, <1>7 DEF Begin, StageNew, StageCopy

\* Only a snapshot adds a backup.
LEMMA BackupSteps ==
  ASSUME Typed, [Next]_vars
  PROVE  TakeBackup \/ CompleteBackups' \subseteq CompleteBackups
<1>1. ASSUME UNCHANGED backups PROVE CompleteBackups' \subseteq CompleteBackups
  BY <1>1 DEF CompleteBackups
<1>2. CASE Service
  BY <1>1, <1>2 DEF Service, Spawn, Migrate, FirstPoll, Die, StartLimit
<1>3. CASE Begin
  BY <1>1, <1>3 DEF Begin, AlreadyRunning, NothingToDo, Reactivate, StageNew, StageCopy, Stage, Roll
<1>4. CASE Script
  <2>1. CASE Build \/ Validate \/ ReplaceWrapper \/ Switch \/ InstallUnit
    BY <1>1, <2>1 DEF Build, Validate, ReplaceWrapper, Switch, InstallUnit
  <2>2. CASE RestartService \/ ServiceFails \/ Verify \/ Record \/ WriteFails \/ PruneReleases
    BY <1>1, <2>2 DEF RestartService, ServiceFails, Verify, Record, WriteFails, PruneReleases
  <2>3. CASE StopConfirmed \/ StopUnconfirmed \/ RestoreDatabase \/ RestoreManifest \/ RestoreControl \/ RestoreFails
    BY <1>1, <2>3
       DEF StopConfirmed, StopUnconfirmed, RestoreDatabase, RestoreManifest, RestoreControl, RestoreFails
  <2>4. CASE Relink \/ Disable \/ StartAgain \/ VerifyAgain
    BY <1>1, <2>4 DEF Relink, Disable, StartAgain, VerifyAgain
  <2> QED BY <1>4, <2>1, <2>2, <2>3, <2>4, BackupStopped, BackupsPruned DEF Script
<1>5. CASE Kill \/ Reboot \/ Operate \/ UNCHANGED vars
  BY <1>1, <1>5 DEF Kill, Reboot, Operate, vars
<1> QED BY <1>2, <1>3, <1>4, <1>5 DEF Next

LEMMA RestorableNext == Firm /\ Parts /\ Restorable /\ [Next]_vars => Restorable'
<1> SUFFICES ASSUME Firm, Parts, Restorable, [Next]_vars,
                    NEW b \in CompleteBackups', b.manifest # None
             PROVE  b.manifest.dir \in whole' /\ b.db # 0 /\ Fits(b.manifest.dir, b.db, b.control)
  BY DEF Restorable, Fits, Both, SchemaIn
<1>1. CASE b \in CompleteBackups
  <2>1. b.manifest.dir \in whole /\ b.db # 0 /\ Fits(b.manifest.dir, b.db, b.control)
    BY <1>1 DEF Restorable
  <2>2. b.manifest.dir \in whole'
    BY <1>1, <2>1, NamedStay DEF Firm, Sure
  <2> QED BY <2>1, <2>2
<1>2. CASE TakeBackup /\ b = Snapshot(TRUE)
  <2>1. b.manifest = manifest /\ b.db = db /\ b.control = control
    BY <1>2 DEF Snapshot
  <2>2. InOrder
    BY <1>2 DEF TakeBackup, At, Parts, Calm
  <2>3. link = manifest.dir /\ Fits(link, db, control)
    BY <2>1, <2>2 DEF InOrder
  <2>4. db # 0
    BY <2>1 DEF Firm, Sure, Founded, Used, Typed, TypeOK
  <2>5. link # None /\ link \in whole /\ UNCHANGED whole
    <3>1. manifest.dir \in Dirs /\ None \notin Dirs
      BY <2>1, ReleasesAssumption DEF Dirs, Firm, Sure, Typed, TypeOK, Manifests
    <3>2. link # None
      BY <2>3, <3>1
    <3> QED BY <1>2, <3>2 DEF TakeBackup, disk, Firm, Sure, TargetInv, OnDisk
  <2> QED BY <2>1, <2>3, <2>4, <2>5
<1>3. CASE TakeBackup
  BY <1>1, <1>2, <1>3, BackupAdded DEF Firm, Sure
<1> QED BY <1>1, <1>3, BackupSteps DEF Firm, Sure

LEMMA StruckStays ==
  ASSUME [Next]_vars
  PROVE  struck => struck'
<1>1. CASE Service
  BY <1>1 DEF Service, Spawn, Migrate, FirstPoll, Die, StartLimit
<1>2. CASE Begin
  BY <1>2 DEF Begin, AlreadyRunning, NothingToDo, Reactivate, StageNew, StageCopy, Stage, Roll
<1>3. CASE Script
  <2>1. CASE Build \/ TakeBackup \/ Validate \/ ReplaceWrapper \/ Switch \/ InstallUnit
    BY <2>1 DEF Build, TakeBackup, Validate, ReplaceWrapper, Switch, InstallUnit
  <2>2. CASE RestartService \/ Verify \/ Record \/ PruneReleases \/ PruneBackups
    BY <2>2 DEF RestartService, Verify, Record, PruneReleases, PruneBackups
  <2>3. CASE StopConfirmed \/ RestoreDatabase \/ RestoreManifest \/ RestoreControl
    BY <2>3 DEF StopConfirmed, RestoreDatabase, RestoreManifest, RestoreControl
  <2>4. CASE Relink \/ Disable \/ StartAgain \/ VerifyAgain
    BY <2>4 DEF Relink, Disable, StartAgain, VerifyAgain
  <2>5. CASE BackupFails \/ ServiceFails \/ WriteFails \/ StopUnconfirmed \/ RestoreFails
    BY <2>5 DEF BackupFails, ServiceFails, WriteFails, StopUnconfirmed, RestoreFails, Strike
  <2> QED BY <1>3, <2>1, <2>2, <2>3, <2>4, <2>5 DEF Script
<1>4. CASE Kill \/ Reboot \/ Operate \/ UNCHANGED vars
  BY <1>4 DEF Kill, Strike, Reboot, Operate, vars
<1> QED BY <1>1, <1>2, <1>3, <1>4 DEF Next

LEMMA OrderlyNext == Firm /\ Orderly /\ [Next]_vars => Orderly'
<1> SUFFICES ASSUME Firm, Orderly, [Next]_vars, ~struck' PROVE Parts' /\ Restorable'
  BY DEF Orderly
<1>1. ~struck
  BY StruckStays
<1>2. Parts /\ Restorable
  BY <1>1 DEF Orderly
<1>3. Restorable'
  BY <1>2, RestorableNext
<1>4. CASE Kill
  BY <1>4 DEF Kill, Strike
<1>5. CASE Reboot \/ Operate \/ UNCHANGED vars
  <2>1. UNCHANGED <<link, db, manifest, control>> /\ process' \in {None, process}
    BY <1>5 DEF Reboot, Operate, vars, state, service
  <2>2. UNCHANGED job
    BY <1>5 DEF Reboot, Operate, vars
  <2> QED BY <1>2, <1>3, <2>1, <2>2, PartsSame
<1> QED BY <1>2, <1>3, <1>4, <1>5, PartsService, PartsBegin, PartsScript DEF Next

LEMMA FirmNext == Firm /\ [Next]_vars => Firm'
BY TypedNext, TargetNext, RestoreNext, FoundedNext, SteadyNext, OpeningNext DEF Firm, Sure

LEMMA FirmStart == Init => Firm
BY TypedStart, TargetStart, RestoreStart, FoundedStart, SteadyStart, OpeningStart DEF Firm, Sure

\* Without disturbances every complete backup can be put back: its release is on
\* disk, opens its database and is the one its wrapper and unit come from.
THEOREM BackupsAreRestorable == Spec => []BackupsRestorable
<1>1. Orderly => BackupsRestorable
  BY DEF Orderly, Restorable, BackupsRestorable, Fits, Both, SchemaIn
<1> QED BY <1>1, FirmStart, FirmNext, OrderlyStart, OrderlyNext, PTL DEF Spec

\* Without disturbances "done" of install.sh and update.sh means that manifest,
\* link, control files and process are those of the release asked for.
THEOREM DoneIsDeployed == Spec => []DoneMeansDeployed
<1>1. Orderly => DoneMeansDeployed
  <2> SUFFICES ASSUME Orderly, ~struck, job.at = "done", manifest # None
               PROVE  /\ manifest.dir = job.to /\ link = job.to
                      /\ control = [wrapper |-> Commit(job.to), unit |-> Commit(job.to)]
                      /\ process # None => process.dir = job.to
    BY DEF DoneMeansDeployed
  <2>1. InOrder /\ Back
    BY DEF Orderly, Parts, Calm, Resting
  <2>2. manifest.dir = job.to
    BY <2>1 DEF Back, Settled
  <2>3. link = manifest.dir /\ control = Both(link) /\ (process # None => process.dir = link)
    BY <2>1 DEF InOrder, Fits
  <2> QED BY <2>2, <2>3 DEF Both
<1> QED BY <1>1, FirmStart, FirmNext, OrderlyStart, OrderlyNext, PTL DEF Spec

\* Without disturbances a job that fails, at whichever command, leaves release,
\* manifest and control files as it found them and a database they open.
THEOREM FailureIsUndone == Spec => []FailureChangesNothing
<1>1. Firm /\ Orderly => FailureChangesNothing
  <2> SUFFICES ASSUME Firm, Orderly, ~struck, job.at = "failed", job.kind # "rollback", job.was.manifest # None
               PROVE  /\ [link |-> link, manifest |-> manifest, control |-> control] =
                           [f \in {"link", "manifest", "control"} |-> job.was[f]]
                      /\ CurrentOpens
    BY DEF FailureChangesNothing
  <2>1. InOrder /\ Began
    BY DEF Orderly, Parts, Calm, Resting
  <2>2. job.kind \in {"install", "update"}
    BY DEF Firm, Sure, Typed, TypeOK, Supplied, Jobs
  <2>3. manifest = job.was.manifest /\ job.was.link = manifest.dir /\ job.was.control = Both(job.was.link)
    BY <2>1, <2>2 DEF Began, Recorded
  <2>4. link = manifest.dir /\ Fits(link, db, control)
    BY <2>1, <2>3 DEF InOrder
  <2>5. link = job.was["link"] /\ manifest = job.was["manifest"] /\ control = job.was["control"]
    BY <2>3, <2>4 DEF Fits
  <2>6. CurrentOpens
    BY <2>4 DEF CurrentOpens, Fits, SchemaIn
  <2> QED BY <2>5, <2>6
<1> QED BY <1>1, FirmStart, FirmNext, OrderlyStart, OrderlyNext, PTL DEF Spec
=============================================================================
