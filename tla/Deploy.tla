--------------------------------- MODULE Deploy ---------------------------------
(***************************************************************************)
(* The box under its operator: scripts/deploy.sh and scripts/rollback.sh   *)
(* over the storage of one Pi.  A script is a sequence of commands sent    *)
(* over ssh to a machine that goes on booting, backing up, losing power    *)
(* and rotting meanwhile; it ends at the first command that fails.         *)
(***************************************************************************)
EXTENDS Storage, ImageTags, SequencesExt

CONSTANTS
    Commits,            \* the builds the operator may deploy
    Keep,               \* image tags a deploy keeps
    MaxScripts          \* bound: scripts run

ASSUME DeployAssumption ==
    Commits \subseteq Build /\ NoTag \notin Build /\ {Keep, MaxScripts} \subseteq Nat

VARIABLES
    tags,               \* the image tags on the box, newest built first
    latest,             \* the build darts:latest is
    script,             \* the script: its next step and what it has read
    scripts             \* scripts run so far

boxVars == <<db, wal, kept, backups, app, job, now, played, faults,
             tags, latest, script, scripts>>

NoScript == [at |-> "idle", sha |-> NoTag, running |-> NoTag, listed |-> <<>>,
             target |-> NoTag, saved |-> {}]

WithoutTag(tag) == RemoveFirst(tags, tag)

(* What /api/healthz answers: 200 with the build, unless it started        *)
(* degraded; but a poll may also get no answer at all.                     *)
Answering(build) == app.stage = "up" /\ app.build = build /\ app.report # "degraded"

Heard == {NoTag} \cup {build \in Build : Answering(build)}

(* A box that runs its newest image and has no database yet.               *)
Installed(images) ==
    /\ StorageInit(images[1])
    /\ tags = images /\ latest = images[1]
    /\ script = NoScript /\ scripts = 0

DeployInit == \E images \in Seq(Build) : images # <<>> /\ IsInjective(images)
                                          /\ Installed(images)
-----------------------------------------------------------------------------
(* list_remote_tags: a query that fails, or breaks off, lists none or some *)
(* of the tags, and those without a build stamp come in any order.         *)
Listings == {listed \in UNION {[1..n -> Range(tags)] : n \in 0..Len(tags)} : IsInjective(listed)}

(* deploy.sh, up to the transfer: what answers and which tags there are is *)
(* read once, before anything is touched.                                  *)
BeginDeploy(sha) ==
    /\ script.at = "idle" /\ scripts < MaxScripts
    /\ scripts' = scripts + 1
    /\ \E running \in Heard, listed \in Listings :
          script' = [NoScript EXCEPT !.at = "transfer", !.sha = sha, !.running = running,
                                     !.listed = listed]
    /\ UNCHANGED <<storageVars, tags, latest>>

TransferImage ==
    /\ script.at = "transfer"
    /\ tags' = <<script.sha>> \o WithoutTag(script.sha)
    /\ script' = [script EXCEPT !.at = "stop"]
    /\ UNCHANGED <<storageVars, latest, scripts>>

(* The container is told to stop: the server waits for a backup in         *)
(* progress and folds the sidecar, unless its grace period ends first.     *)
Stopped ==
    \/ app.stage # "up" /\ UNCHANGED <<db, wal>>
    \/ app.stage = "up" /\ UNCHANGED <<db, wal>>
    \/ app.stage = "up" /\ ~db.damaged /\ db' = [db EXCEPT !.rows = Rows] /\ wal' = {}

StopContainer ==
    /\ script.at = "stop"
    /\ Stopped
    /\ app' = [Down(app.build) EXCEPT !.stage = "off"] /\ job' = Idle
    /\ script' = [script EXCEPT !.at = "backup"]
    /\ UNCHANGED <<backups, kept, now, played, faults, tags, latest, scripts>>

(* darts-backup copies what a reader sees, empty or not; closing the only  *)
(* connection folds the sidecar.                                           *)
BackupOfFileOnly ==                     \* mutant: the sidecar is not read
    /\ script.at = "backup" /\ db.exists /\ ~db.damaged
    /\ \E name \in FirstUnused(Names, now) :
          /\ job' = BackupOf(name, File(db.rows, db.schema))
          /\ script' = [script EXCEPT !.at = "saving", !.saved = {name}]
    /\ db' = [db EXCEPT !.rows = Rows] /\ wal' = {}
    /\ UNCHANGED <<backups, kept, app, now, played, faults, tags, latest, scripts>>

BackupDatabase ==
    /\ script.at = "backup" /\ db.exists /\ ~db.damaged
    /\ \E name \in FirstUnused(Names, now) :
          /\ job' = BackupOf(name, File(Rows, db.schema))
          /\ script' = [script EXCEPT !.at = "saving", !.saved = {name}]
    /\ db' = [db EXCEPT !.rows = Rows] /\ wal' = {}
    /\ UNCHANGED <<backups, kept, app, now, played, faults, tags, latest, scripts>>

BackedUp ==
    /\ script.at = "saving" /\ job.step = "idle"
    /\ script' = [script EXCEPT !.at = "migrate"]
    /\ UNCHANGED <<storageVars, tags, latest, scripts>>

(* There is no database to back up, or the query that asks for it fails,   *)
(* which is taken for the same answer.                                     *)
SkipBackup ==
    /\ script.at = "backup"
    /\ script' = [script EXCEPT !.at = "migrate"]
    /\ UNCHANGED <<storageVars, tags, latest, scripts>>

(* darts-migrate of the new build creates a missing database and applies   *)
(* one migration per transaction; then the place to go back to is chosen.  *)
MigrateDatabase ==
    /\ script.at = "migrate" /\ ~db.damaged /\ db.schema < Migrations[script.sha]
    /\ db' = File(IF db.exists THEN Rows ELSE {}, db.schema + 1) /\ wal' = {}
    /\ UNCHANGED <<backups, kept, app, job, now, played, faults, tags, latest,
                   script, scripts>>

Migrated ==
    /\ script.at = "migrate" /\ ~db.damaged /\ db.schema = Migrations[script.sha]
    /\ db' = [db EXCEPT !.rows = Rows] /\ wal' = {}
    /\ script' = [script EXCEPT !.at = "tag", !.target =
                     SelectRollbackTag(script.sha, script.running, script.listed)]
    /\ UNCHANGED <<backups, kept, app, job, now, played, faults, tags, latest, scripts>>

(* activate: darts:latest is moved, and the container is made anew for it, *)
(* or left alone when it is running the very same image.                   *)
TagLatest ==
    \/ /\ script.at = "tag" /\ latest' = script.sha
       /\ script' = [script EXCEPT !.at = "up"]
       /\ UNCHANGED <<storageVars, tags, scripts>>
    \/ /\ script.at = "tagBack" /\ latest' = script.target
       /\ script' = [script EXCEPT !.at = "upBack"]
       /\ UNCHANGED <<storageVars, tags, scripts>>

ComposeUp ==
    /\ \/ script.at = "up" /\ script' = [script EXCEPT !.at = "await"]
       \/ script.at = "upBack" /\ script' = [script EXCEPT !.at = "awaitBack"]
    /\ \/ Stopped /\ app' = Down(latest) /\ job' = Idle
       \/ app.stage # "off" /\ app.build = latest /\ UNCHANGED <<db, wal, app, job>>
    /\ UNCHANGED <<backups, kept, now, played, faults, tags, latest, scripts>>

AwaitSha ==
    /\ script.at = "await" /\ Answering(script.sha)
    /\ script' = [script EXCEPT !.at = "prune"]
    /\ UNCHANGED <<storageVars, tags, latest, scripts>>

(* The retries run out, whatever the box does meanwhile: back to the image *)
(* that was there, if there is one.                                        *)
RollBack ==
    /\ script.at = "await"
    /\ script' = IF script.target = NoTag THEN NoScript ELSE [script EXCEPT !.at = "tagBack"]
    /\ UNCHANGED <<storageVars, tags, latest, scripts>>

RolledBack ==
    /\ script.at = "awaitBack"
    /\ \/ Answering(script.target) /\ script' = [script EXCEPT !.at = "discard"]
       \/ script' = NoScript
    /\ UNCHANGED <<storageVars, tags, latest, scripts>>

DiscardFailedImage ==
    /\ script.at = "discard"
    /\ tags' \in {tags, WithoutTag(script.sha)}
    /\ script' = NoScript
    /\ UNCHANGED <<storageVars, latest, scripts>>

(* prune_images, over the tags listed before the transfer, one at a time.  *)
DoomedIfUnprotected ==                  \* mutant: only the new image is protected
    Range(tags) \cap TagsToPrune(Keep, {script.sha}, script.listed)

Doomed ==
    Range(tags) \cap TagsToPrune(Keep, {script.sha, script.target}, script.listed)

PruneImages ==
    /\ script.at = "prune"
    /\ IF Doomed = {} THEN script' = NoScript /\ tags' = tags
       ELSE script' = script /\ \E tag \in Doomed : tags' = WithoutTag(tag)
    /\ UNCHANGED <<storageVars, latest, scripts>>

(* rollback.sh: the previous image, or any the operator names.             *)
BeginRollback(target) ==
    /\ script.at = "idle" /\ scripts < MaxScripts
    /\ \E running \in Heard : target # running
    /\ scripts' = scripts + 1
    /\ script' = [NoScript EXCEPT !.at = "tagBack", !.target = target]
    /\ UNCHANGED <<storageVars, tags, latest>>

(* A command fails, or the operator's machine goes away.                   *)
ScriptDies ==
    /\ script.at # "idle"
    /\ script' = NoScript
    /\ job' = IF script.at = "saving" THEN Idle ELSE job
    /\ UNCHANGED <<db, wal, kept, backups, app, now, played, faults, tags, latest, scripts>>

(* While the box is without power every command fails; only the polls may  *)
(* outlast it.                                                             *)
BoxLosesPower ==
    /\ PowerCut
    /\ script' = IF script.at \in {"await", "awaitBack"} THEN script ELSE NoScript
    /\ UNCHANGED <<tags, latest, scripts>>

RunScript ==
    \/ \E sha \in Commits : BeginDeploy(sha)
    \/ TransferImage \/ StopContainer \/ BackupDatabase \/ BackedUp \/ SkipBackup
    \/ MigrateDatabase \/ Migrated \/ TagLatest \/ ComposeUp \/ AwaitSha \/ RollBack \/ RolledBack
    \/ DiscardFailedImage \/ PruneImages
    \/ \E target \in Range(tags) : BeginRollback(target)
    \/ ScriptDies

BoxGoesOn ==
    /\ Boot \/ Play \/ Fold \/ BackUp \/ Tick \/ RotDatabase \/ \E n \in Names : RotBackup(n)
    /\ UNCHANGED <<tags, latest, script, scripts>>

DeployNext == BoxGoesOn \/ BoxLosesPower \/ RunScript

DeploySpec == DeployInit /\ [][DeployNext]_boxVars
-----------------------------------------------------------------------------
(* "Pruning is wrong when it deletes the image you are about to need"      *)
(* (deploy-lib.sh): the image the container runs, the one darts:latest is  *)
(* and the one the script may go back to are on the box.                   *)
NeededImagesStay ==
    /\ latest \in Range(tags) \cup {NoTag}
    /\ script.target \in Range(tags) \cup {NoTag}
    /\ app.stage # "off" => app.build \in Range(tags)

(* The backup a deploy took is of exactly the matches whose schema it then *)
(* changes, and of before; it is still there, or has been outlived by the  *)
(* hour and by the day, which takes a clock that stood behind a backup.    *)
BackupIsOfWhatMigrates ==
    [][MigrateDatabase /\ Rows # {} =>
          \A name \in script.saved :
             \/ /\ name \in Names
                /\ backups[name].rows = Rows /\ backups[name].schema <= db.schema
             \/ /\ name \notin Names
                /\ Outlived(name, PerHour, Hourly) /\ Outlived(name, PerDay, Daily)]_boxVars

(* "The backup from step 4 is the escape hatch" (deploy.sh): when a deploy *)
(* changes the schema of a database with matches, there is a backup of     *)
(* exactly those matches, of before, on the box.                           *)
BackupBeforeMigration ==
    [][MigrateDatabase /\ Rows # {} =>
          \E n \in Names : backups[n].rows = Rows /\ backups[n].schema <= db.schema]_boxVars

(* "Migrations here are additive, so an older image generally still serves *)
(* a newer schema" (deploy.sh): no boot meets a schema it refuses.         *)
OlderImageServes ==
    app.stage = "prepare" => db.schema <= Migrations[app.build]
=============================================================================
