-------------------------------- MODULE Storage --------------------------------
(***************************************************************************)
(* The database file of the box and everything that replaces or copies it: *)
(* the boot check with its repair (db/recovery.py, db/durability.py,       *)
(* db/migrate.py), the automatic backups (services/auto_backup.py,         *)
(* db/backup.py, db/artifact.py) and the process around them               *)
(* (api/main.py), on a machine that loses power and rots its files.        *)
(*                                                                         *)
(* A file is what it holds: a set of matches, how many migrations it has   *)
(* had, whether it is damaged.  Each rename and each transaction is a step *)
(* of its own, because the power can go between any two.  Left out are the *)
(* temporary copies, whose names keep them from being taken for anything   *)
(* else, and the manifest beside each backup, which nothing here reads.    *)
(***************************************************************************)
EXTENDS Retention

CONSTANTS
    Build,              \* the builds that may run
    Migrations,         \* how many migration files each of them ships
    MaxMatches,         \* bound: matches recorded
    MaxStamp,           \* bound: the wall clock
    MaxFaults           \* bound: power cuts and rotted files

ASSUME StorageAssumption ==
    /\ Migrations \in [Build -> Nat \ {0}]
    /\ {MaxMatches, MaxStamp, MaxFaults} \subseteq Nat

VARIABLES
    db,                 \* the database file, or NoFile
    wal,                \* the matches that are in its -wal sidecar only
    kept,               \* the matches in the files moved aside
    backups,            \* backup name |-> its file
    app,                \* the server: its stage, build, boot report and copy
    job,                \* the backup thread: its step, and the backup it takes
    now,                \* the wall clock
    played,             \* matches recorded so far
    faults              \* faults so far

storageVars == <<db, wal, kept, backups, app, job, now, played, faults>>

NoFile == [rows |-> {}, schema |-> 0, damaged |-> FALSE, exists |-> FALSE]

File(rows, schema) == [rows |-> rows, schema |-> schema, damaged |-> FALSE, exists |-> TRUE]

NoName == [stamp |-> 0, ordinal |-> 0]

Idle == [step |-> "idle", taken |-> NoName, copy |-> NoFile]

BackupOf(name, copy) == [Idle EXCEPT !.step = "publish", !.taken = name, !.copy = copy]

Down(build) == [stage |-> "down", build |-> build, report |-> "none", copy |-> NoFile]

Names == DOMAIN backups

(* What a reader of the database sees, the sidecar included.               *)
Rows == db.rows \cup wal

SoundBackups == {n \in Names : ~backups[n].damaged}

StorageInit(build) ==
    /\ db = NoFile /\ wal = {} /\ kept = {}
    /\ backups = [n \in {} |-> NoFile]
    /\ app = Down(build)
    /\ job = Idle
    /\ now = 0 /\ played = 0 /\ faults = 0
-----------------------------------------------------------------------------
(* The boot, check_and_recover.  A missing database is created empty, and  *)
(* SQLite deletes a -wal left without one; a damaged database is renamed.  *)
BootCreates ==
    /\ app.stage = "down"
    /\ ~db.exists
    /\ db' = File({}, 0) /\ wal' = {}
    /\ app' = [app EXCEPT !.stage = "prepare", !.report = "healthy"]
    /\ UNCHANGED <<kept, backups, job, now, played, faults>>

BootPasses ==
    /\ app.stage = "down"
    /\ db.exists /\ ~db.damaged
    /\ app' = [app EXCEPT !.stage = "prepare", !.report = "healthy"]
    /\ UNCHANGED <<db, wal, kept, backups, job, now, played, faults>>

QuarantineDeletes ==                    \* mutant: the damaged file is dropped
    /\ app.stage = "down"
    /\ db.exists /\ db.damaged
    /\ db' = NoFile /\ kept' = kept
    /\ app' = [app EXCEPT !.stage = "sidecar"]
    /\ UNCHANGED <<wal, backups, job, now, played, faults>>

QuarantineRaises ==                     \* mutant: corruption ends the boot
    /\ app.stage = "down"
    /\ db.exists /\ db.damaged
    /\ app' = Down(app.build)
    /\ UNCHANGED <<db, wal, kept, backups, job, now, played, faults>>

Quarantine ==
    /\ app.stage = "down"
    /\ db.exists /\ db.damaged
    /\ db' = NoFile /\ kept' = kept \cup db.rows
    /\ app' = [app EXCEPT !.stage = "sidecar"]
    /\ UNCHANGED <<wal, backups, job, now, played, faults>>

QuarantineSidecar ==
    /\ app.stage = "sidecar"
    /\ wal' = {} /\ kept' = kept \cup wal
    /\ app' = [app EXCEPT !.stage = "choose"]
    /\ UNCHANGED <<db, backups, job, now, played, faults>>

(* newest_valid, and its copy into a temporary file.                       *)
ChooseBackup ==
    /\ app.stage = "choose"
    /\ \E n \in NewestOf(SoundBackups) :
          app' = [app EXCEPT !.stage = "publish", !.copy = backups[n]]
    /\ UNCHANGED <<db, wal, kept, backups, job, now, played, faults>>

StartDegraded ==
    /\ app.stage = "choose"
    /\ SoundBackups = {}
    /\ db' = File({}, 0) /\ wal' = {}
    /\ app' = [app EXCEPT !.stage = "prepare", !.report = "degraded"]
    /\ UNCHANGED <<kept, backups, job, now, played, faults>>

PublishAndServe ==                      \* mutant: a restored backup is not migrated
    /\ app.stage = "publish"
    /\ db' = app.copy
    /\ app' = [app EXCEPT !.stage = "up", !.report = "restored", !.copy = NoFile]
    /\ UNCHANGED <<wal, kept, backups, job, now, played, faults>>

PublishRestored ==
    /\ app.stage = "publish"
    /\ db' = app.copy
    /\ app' = [app EXCEPT !.stage = "prepare", !.report = "restored", !.copy = NoFile]
    /\ UNCHANGED <<wal, kept, backups, job, now, played, faults>>

(* _prepare: one migration per transaction, and then the server serves; a  *)
(* database with more migrations than the build has files is refused, and  *)
(* the container starts over.                                              *)
Migrate ==
    /\ app.stage = "prepare" /\ db.schema < Migrations[app.build]
    /\ db' = [db EXCEPT !.schema = @ + 1]
    /\ UNCHANGED <<wal, kept, backups, app, job, now, played, faults>>

Serve ==
    /\ app.stage = "prepare" /\ db.schema = Migrations[app.build]
    /\ app' = [app EXCEPT !.stage = "up"]
    /\ UNCHANGED <<db, wal, kept, backups, job, now, played, faults>>

RefuseSchema ==
    /\ app.stage = "prepare" /\ db.schema > Migrations[app.build]
    /\ app' = [app EXCEPT !.stage = "down", !.report = "none"]
    /\ UNCHANGED <<db, wal, kept, backups, job, now, played, faults>>

Boot ==
    \/ BootCreates \/ BootPasses \/ Quarantine \/ QuarantineSidecar \/ ChooseBackup
    \/ StartDegraded \/ PublishRestored \/ Migrate \/ Serve \/ RefuseSchema
-----------------------------------------------------------------------------
(* A match is recorded: committed to the sidecar.                          *)
Play ==
    /\ app.stage = "up" /\ ~db.damaged /\ played < MaxMatches
    /\ played' = played + 1 /\ wal' = wal \cup {played + 1}
    /\ UNCHANGED <<db, kept, backups, app, job, now, faults>>

(* SQLite folds the sidecar into the file when its last reader closes it.  *)
Fold ==
    /\ app.stage \in {"down", "prepare", "up"}
    /\ db.exists /\ wal # {}
    /\ db' = [db EXCEPT !.rows = Rows] /\ wal' = {}
    /\ UNCHANGED <<kept, backups, app, job, now, played, faults>>

(* The backup thread, take and backup.create: nothing to copy without a    *)
(* match, nothing published of a copy that fails its check.                *)
StartBackup ==
    /\ app.stage = "up" /\ job.step = "idle"
    /\ Rows # {} /\ ~db.damaged
    /\ \E name \in FirstUnused(Names, now) : job' = BackupOf(name, File(Rows, db.schema))
    /\ UNCHANGED <<db, wal, kept, backups, app, now, played, faults>>

PublishBackup ==
    /\ job.step = "publish"
    /\ backups' = [n \in Names \cup {job.taken} |->
                      IF n = job.taken THEN job.copy ELSE backups[n]]
    /\ job' = [job EXCEPT !.step = "prune", !.copy = NoFile]
    /\ UNCHANGED <<db, wal, kept, app, now, played, faults>>

(* prune, oldest first.                                                    *)
Without(names) == [n \in Names \ names |-> backups[n]]

Prune ==
    /\ job.step = "prune"
    /\ \E name \in OldestOf(Names \ Retained(Names)) : backups' = Without({name})
    /\ UNCHANGED <<db, wal, kept, app, job, now, played, faults>>

BackupDone ==
    /\ job.step = "prune" /\ Names = Retained(Names)
    /\ job' = Idle
    /\ UNCHANGED <<db, wal, kept, backups, app, now, played, faults>>

BackUp ==
    StartBackup \/ PublishBackup \/ Prune \/ BackupDone
-----------------------------------------------------------------------------
Tick ==
    /\ now < MaxStamp /\ now' = now + 1
    /\ UNCHANGED <<db, wal, kept, backups, app, job, played, faults>>

(* The power goes.  The Pi has no clock of its own: the next boot may      *)
(* begin at any earlier time.  A container that was stopped stays stopped. *)
PowerCut ==
    /\ faults < MaxFaults /\ faults' = faults + 1
    /\ app.stage # "down"
    /\ app' = [app EXCEPT !.stage = IF @ = "off" THEN @ ELSE "down",
                          !.report = "none", !.copy = NoFile]
    /\ job' = Idle
    /\ now' \in 0..now
    /\ UNCHANGED <<db, wal, kept, backups, played>>

RotDatabase ==
    /\ faults < MaxFaults /\ faults' = faults + 1
    /\ db.exists /\ ~db.damaged
    /\ db' = [db EXCEPT !.damaged = TRUE]
    /\ UNCHANGED <<wal, kept, backups, app, job, now, played>>

RotBackup(n) ==
    /\ faults < MaxFaults /\ faults' = faults + 1
    /\ ~backups[n].damaged
    /\ backups' = [backups EXCEPT ![n].damaged = TRUE]
    /\ UNCHANGED <<db, wal, kept, app, job, now, played>>

StorageNext ==
    \/ Boot
    \/ Play
    \/ Fold
    \/ BackUp
    \/ Tick
    \/ PowerCut
    \/ RotDatabase
    \/ \E n \in Names : RotBackup(n)
-----------------------------------------------------------------------------
(* "Nothing is ever deleted" (docs/durability.md): a match that is in the  *)
(* database file stays in it or in one moved aside, whatever is repaired,  *)
(* deployed or cut short.  Matches that are only in the sidecar are not    *)
(* spoken of.                                                              *)
NothingFiledIsDeleted ==
    [][db.rows \cup kept \subseteq db'.rows \cup kept']_storageVars

(* Every outcome of a boot ends with the migrations applied: requests are  *)
(* served over the schema the running build was written for, whichever     *)
(* build ran before and whichever backup was restored.                     *)
ServedSchemaIsTheBuilds ==
    app.stage = "up" => db.exists /\ db.schema = Migrations[app.build]

(* "The worst case is an empty database and a degraded report"             *)
(* (recovery.py): the box never serves an empty database as healthy while  *)
(* it holds a sound backup with matches in it.                             *)
EmptyStartIsReported ==
    app.stage = "up" /\ Rows = {} /\ app.report = "healthy" =>
        \A n \in SoundBackups : backups[n].rows = {}

(* "The windows overlap rather than compete": a backup is only deleted     *)
(* when both its hour and its day have a newer backup, or are behind as    *)
(* many later hours, or days, as the window is wide.                       *)
Outlived(name, span, limit) ==
    \/ \E m \in Names : Bucket(m, span) = Bucket(name, span) /\ Later(m, name)
    \/ Cardinality(LaterBuckets(Names, span, name)) >= limit

DeletionsRespectTheWindows ==
    [][\A name \in Names \ DOMAIN backups' :
          Outlived(name, PerHour, Hourly) /\ Outlived(name, PerDay, Daily)]_storageVars

(* "Never a crash loop": a box that is down comes up again by itself,      *)
(* unless its build is older than its database.                            *)
Booting == app.stage \in {"down", "sidecar", "choose", "publish", "prepare"}

ComesBackUp == Booting ~> (~Booting \/ db.schema > Migrations[app.build])
=============================================================================
