------------------------------ MODULE DeployProofs ------------------------------
(***************************************************************************)
(* What holds of every box, whatever its builds, bounds and windows.       *)
(***************************************************************************)
EXTENDS Deploy, Induction, FiniteSetTheorems, FunctionTheorems, SequenceTheorems, TLAPS

NameType == [stamp : Nat, ordinal : Nat]
-----------------------------------------------------------------------------
(* Of two names one is the later.                                          *)
LEMMA NamesAreOrdered ==
    ASSUME NEW m \in NameType, NEW n \in NameType, m # n, ~Later(n, m)
    PROVE  Later(m, n)
BY DEF NameType, Later

(* A set of later buckets is finite, so its size can be compared.          *)
LEMMA BucketsAreFinite ==
    ASSUME NEW names, IsFiniteSet(names), NEW span, NEW name
    PROVE  IsFiniteSet(LaterBuckets(names, span, name))
<1> DEFINE later == {k \in names : Bucket(k, span) > Bucket(name, span)}
           f == [m \in later |-> Bucket(m, span)]
<1>1. IsFiniteSet(later)
    BY FS_Subset
<1>2. f \in Surjection(later, LaterBuckets(names, span, name))
    BY Fun_IsSurj DEF LaterBuckets
<1> QED
    BY <1>1, <1>2, FS_Surjection

(* A name that is not the newest of a recent bucket has a later one in its *)
(* bucket, or as many later buckets as the window is wide.                 *)
LEMMA UnretainedIsOutlived ==
    ASSUME IsFiniteSet(Names), Names \subseteq NameType,
           NEW span, NEW limit \in Nat,
           NEW name \in Names, name \notin NewestPerBucket(Names, span, limit)
    PROVE  Outlived(name, span, limit)
<1> DEFINE same == {m \in Names : Bucket(m, span) = Bucket(name, span)}
           count == Cardinality(LaterBuckets(Names, span, name))
<1>1. CASE name \in NewestOf(same)
    <2>1. ~(count < limit)
        BY <1>1 DEF NewestPerBucket
    <2>2. count \in Nat
        BY BucketsAreFinite, FS_CardinalityType
    <2>3. count >= limit
        <3> HIDE DEF count
        <3> QED
            BY <2>1, <2>2
    <2> QED
        BY <2>3 DEF Outlived
<1>2. CASE name \notin NewestOf(same)
    <2>1. PICK m \in same \ {name} : ~Later(name, m)
        BY <1>2 DEF NewestOf
    <2>2. Later(m, name)
        BY <2>1, NamesAreOrdered
    <2> QED
        BY <2>1, <2>2 DEF Outlived
<1> QED
    BY <1>1, <1>2
-----------------------------------------------------------------------------
(* The shapes of the state: nothing about it is bounded.                   *)
FileType == [rows : SUBSET Nat, schema : Nat, damaged : BOOLEAN, exists : BOOLEAN]

JobType == [step : {"idle", "publish", "prune"}, taken : NameType, copy : FileType]

IsApp(a) == a = [stage |-> a.stage, build |-> a.build, report |-> a.report, copy |-> a.copy]

IsScript(s) == s = [at |-> s.at, sha |-> s.sha, running |-> s.running, listed |-> s.listed,
                    target |-> s.target, saved |-> s.saved]

Shaped ==
    /\ db \in FileType /\ wal \subseteq Nat /\ now \in Nat /\ played \in Nat
    /\ IsFiniteSet(Names) /\ Names \subseteq NameType
    /\ backups \in [Names -> FileType]
    /\ IsApp(app) /\ app.copy \in FileType
    /\ job \in JobType
    /\ IsScript(script)

(* A file that is missing holds nothing, and a copy that is about to be    *)
(* published is a file; what has been moved aside is missing until the     *)
(* repair is over; and the container is off while a script works on the    *)
(* database.                                                               *)
Filed ==
    /\ ~db.exists => db.rows = {} /\ db.schema = 0
    /\ \A n \in Names : backups[n].exists
    /\ job.step = "publish" => job.copy.exists
    /\ app.stage = "publish" => app.copy.exists

Attended ==
    /\ app.stage \in {"sidecar", "choose", "publish"} => ~db.exists
    /\ app.stage \in {"prepare", "up"} => db.exists
    /\ app.stage = "up" => db.schema = Migrations[app.build]
    /\ script.at \in {"backup", "saving", "migrate", "tag", "up"} => app.stage = "off"
    /\ script.at \in {"transfer", "stop", "backup", "saving", "migrate"} => script.sha \in Build

BoxInv == Shaped /\ Filed /\ Attended

(* A backup is named by a stamp and an ordinal.                            *)
LEMMA NameIsTyped ==
    ASSUME Shaped, NEW name \in FirstUnused(Names, now)
    PROVE  name \in NameType
<1>1. Cardinality(Names) \in Nat
    BY FS_CardinalityType DEF Shaped
<1> QED
    BY <1>1 DEF FirstUnused, NameType, Shaped

(* The records the actions write have the shapes above.                     *)
LEMMA RecordsAreShaped ==
    /\ NoFile \in FileType
    /\ Idle \in JobType /\ Idle.step = "idle"
    /\ \A name \in NameType, copy \in FileType :
          LET taken == BackupOf(name, copy)
          IN  taken \in JobType /\ taken.step = "publish" /\ taken.copy = copy
    /\ \A rows \in SUBSET Nat, schema \in Nat : File(rows, schema) \in FileType
BY DEF Idle, JobType, NameType, FileType, NoName, NoFile, BackupOf, File

(* What the box does by itself keeps the invariant.                        *)
LEMMA BoxKeepsInv ==
    ASSUME BoxInv, BoxGoesOn
    PROVE  BoxInv'
<1> USE DEF BoxInv, Shaped, Filed, Attended, FileType, JobType, IsApp, IsScript, Names
<1>0. UNCHANGED script
    BY DEF BoxGoesOn
<1>1. CASE BootCreates
    BY <1>0, <1>1 DEF BootCreates, File
<1>2. CASE BootPasses
    BY <1>0, <1>2 DEF BootPasses
<1>3. CASE Quarantine
    BY <1>0, <1>3 DEF Quarantine, NoFile
<1>4. CASE QuarantineSidecar
    BY <1>0, <1>4 DEF QuarantineSidecar
<1>5. CASE ChooseBackup
    BY <1>0, <1>5 DEF ChooseBackup, NewestOf, SoundBackups
<1>6. CASE StartDegraded
    BY <1>0, <1>6 DEF StartDegraded, File
<1>7. CASE PublishRestored
    BY <1>0, <1>7 DEF PublishRestored, NoFile
<1>8. CASE Migrate
    BY <1>0, <1>8 DEF Migrate
<1>9. CASE Serve
    BY <1>0, <1>9 DEF Serve
<1>10. CASE RefuseSchema
    BY <1>0, <1>10 DEF RefuseSchema
<1>11. CASE Play
    BY <1>0, <1>11 DEF Play
<1>12. CASE Fold
    BY <1>0, <1>12 DEF Fold, Rows
<1>13. CASE StartBackup
    <2> DEFINE copy == File(Rows, db.schema)
    <2>1. PICK name \in NameType : job' = BackupOf(name, copy)
        BY <1>13, NameIsTyped DEF StartBackup
    <2>2. copy \in FileType /\ copy.exists
        BY RecordsAreShaped DEF Rows, File
    <2>3. job' \in JobType /\ job'.step = "publish" /\ job'.copy.exists
        <3> HIDE DEF copy
        <3> QED
            BY <2>1, <2>2, RecordsAreShaped
    <2>4. Shaped'
        BY <1>13, <2>3, <1>0 DEF StartBackup, Rows
    <2>5. Filed'
        BY <1>13, <2>3, <1>0 DEF StartBackup, Rows
    <2>6. Attended'
        BY <1>13, <2>3, <1>0 DEF StartBackup, Rows
    <2> QED
        BY <2>4, <2>5, <2>6
<1>14. CASE PublishBackup
    BY <1>0, <1>14, FS_AddElement DEF PublishBackup, NoFile
<1>15. CASE Prune
    BY <1>0, <1>15, FS_Subset DEF Prune, Without, OldestOf
<1>16. CASE BackupDone
    BY <1>0, <1>16 DEF BackupDone, Idle, NoName, NoFile, NameType
<1>17. CASE Tick
    BY <1>0, <1>17 DEF Tick
<1>18. CASE RotDatabase
    BY <1>0, <1>18 DEF RotDatabase
<1>19. ASSUME NEW n \in Names, RotBackup(n)
      PROVE  BoxInv'
    <2>1. /\ UNCHANGED <<db, wal, app, job, now, played, script>>
          /\ backups' = [backups EXCEPT ![n].damaged = TRUE]
        BY <1>0, <1>19 DEF RotBackup
    <2>2. /\ backups' \in [Names -> FileType]
          /\ \A m \in Names : backups'[m].exists
        BY <2>1
    <2>3. DOMAIN backups' = DOMAIN backups
        BY <2>1
    <2> QED
        BY <2>1, <2>2, <2>3
<1> QED
    BY <1>1, <1>2, <1>3, <1>4, <1>5, <1>6, <1>7, <1>8, <1>9, <1>10, <1>11,
       <1>12, <1>13, <1>14, <1>15, <1>16, <1>17, <1>18, <1>19
    DEF BoxGoesOn, Boot, BackUp

(* So does every command of a script, whichever it is cut short by.        *)
LEMMA ScriptKeepsInv ==
    ASSUME BoxInv, RunScript
    PROVE  BoxInv'
<1> USE DEF BoxInv, Shaped, Filed, Attended, FileType, JobType, IsApp, IsScript, Names
<1>1. CASE TransferImage
    BY <1>1 DEF TransferImage, storageVars
<1>2. CASE StopContainer
    <2>1. job' \in JobType
        BY <1>2, RecordsAreShaped DEF StopContainer
    <2>2. IsApp(app') /\ app'.copy \in FileType
        BY <1>2, RecordsAreShaped DEF StopContainer, Down
    <2>3. Shaped'
        BY <1>2, RecordsAreShaped, <2>1, <2>2
        DEF StopContainer, Stopped, Rows, Down, NoFile
    <2>4. Filed'
        BY <1>2, RecordsAreShaped, <2>1, <2>2
        DEF StopContainer, Stopped, Rows, Down, NoFile
    <2>5. Attended'
        BY <1>2, RecordsAreShaped, <2>1, <2>2
        DEF StopContainer, Stopped, Rows, Down, NoFile
    <2> QED
        BY <2>3, <2>4, <2>5
<1>3. CASE BackupDatabase
    <2> DEFINE copy == File(Rows, db.schema)
    <2>1. PICK name \in NameType : job' = BackupOf(name, copy)
        BY <1>3, NameIsTyped DEF BackupDatabase
    <2>2. copy \in FileType /\ copy.exists
        BY RecordsAreShaped DEF Rows, File
    <2>3. job' \in JobType /\ job'.step = "publish" /\ job'.copy.exists
        <3> HIDE DEF copy
        <3> QED
            BY <2>1, <2>2, RecordsAreShaped
    <2>4. Shaped'
        BY <1>3, <2>3 DEF BackupDatabase, Rows
    <2>5. Filed'
        BY <1>3, <2>3 DEF BackupDatabase, Rows
    <2>6. Attended'
        BY <1>3, <2>3 DEF BackupDatabase, Rows
    <2> QED
        BY <2>4, <2>5, <2>6
<1>4. CASE BackedUp
    BY <1>4 DEF BackedUp, storageVars
<1>5. CASE MigrateDatabase
    BY <1>5 DEF MigrateDatabase, File, Rows
<1>6. CASE Migrated
    <2>1. Shaped'
        BY <1>6, StorageAssumption DEF Migrated, Rows
    <2>2. Filed'
        BY <1>6, StorageAssumption DEF Migrated, Rows
    <2>3. Attended'
        BY <1>6, StorageAssumption DEF Migrated, Rows
    <2> QED
        BY <2>1, <2>2, <2>3
<1>7. CASE TagLatest
    BY <1>7 DEF TagLatest, storageVars
<1>8. CASE ComposeUp
    <2>1. job' \in JobType
        BY <1>8, RecordsAreShaped DEF ComposeUp
    <2>2. IsApp(app') /\ app'.copy \in FileType
        BY <1>8, RecordsAreShaped DEF ComposeUp, Down
    <2>3. Shaped'
        BY <1>8, RecordsAreShaped, <2>1, <2>2
        DEF ComposeUp, Stopped, Rows, Down, NoFile
    <2>4. Filed'
        BY <1>8, RecordsAreShaped, <2>1, <2>2
        DEF ComposeUp, Stopped, Rows, Down, NoFile
    <2>5. Attended'
        BY <1>8, RecordsAreShaped, <2>1, <2>2
        DEF ComposeUp, Stopped, Rows, Down, NoFile
    <2> QED
        BY <2>3, <2>4, <2>5
<1>9. CASE AwaitSha
    BY <1>9 DEF AwaitSha, storageVars
<1>10. CASE RollBack
    BY <1>10 DEF RollBack, storageVars, NoScript
<1>11. CASE RolledBack
    BY <1>11 DEF RolledBack, storageVars, NoScript
<1>12. CASE DiscardFailedImage
    BY <1>12 DEF DiscardFailedImage, storageVars, NoScript
<1>13. CASE PruneImages
    BY <1>13 DEF PruneImages, storageVars, NoScript
<1>14. CASE ScriptDies
    BY <1>14 DEF ScriptDies, NoScript, Idle, NoName, NoFile, NameType
<1>15. ASSUME NEW sha \in Commits, BeginDeploy(sha)
      PROVE  BoxInv'
    BY <1>15, DeployAssumption DEF BeginDeploy, NoScript, storageVars
<1>17. CASE SkipBackup
    BY <1>17 DEF SkipBackup, storageVars
<1>16. ASSUME NEW target \in Range(tags), BeginRollback(target)
      PROVE  BoxInv'
    BY <1>16 DEF BeginRollback, NoScript, storageVars
<1> QED
    BY <1>1, <1>2, <1>3, <1>4, <1>5, <1>6, <1>7, <1>8, <1>9, <1>10, <1>11,
       <1>12, <1>13, <1>14, <1>15, <1>16, <1>17
    DEF RunScript

(* Every step of the box keeps its invariant.                              *)
LEMMA BoxInvIsInductive ==
    ASSUME BoxInv, [DeployNext]_boxVars
    PROVE  BoxInv'
<1>1. CASE BoxLosesPower
    <2>1. job' \in JobType
        BY <1>1, RecordsAreShaped DEF BoxLosesPower, PowerCut, BoxInv, Shaped
    <2>2. IsApp(app') /\ app'.copy \in FileType
        BY <1>1, RecordsAreShaped
        DEF BoxLosesPower, PowerCut, IsApp, BoxInv, Shaped
    <2>6. IsScript(script')
        BY <1>1 DEF BoxLosesPower, NoScript, IsScript, BoxInv, Shaped
    <2>7. UNCHANGED <<db, wal, backups, played>> /\ now' \in 0..now
        BY <1>1 DEF BoxLosesPower, PowerCut
    <2>3. Shaped'
        BY <2>1, <2>2, <2>6, <2>7 DEF BoxInv, Shaped, Names
    <2>4. Filed'
        BY <1>1, RecordsAreShaped, <2>1, <2>2
        DEF BoxLosesPower, BoxInv, Shaped, Filed, Attended, FileType, JobType,
            IsApp, IsScript, Names, PowerCut, NoFile, NoScript
    <2>5. Attended'
        BY <1>1, RecordsAreShaped, <2>1, <2>2
        DEF BoxLosesPower, BoxInv, Shaped, Attended, FileType, JobType, IsApp,
            IsScript, Names, PowerCut, NoFile, NoScript
    <2> QED
        BY <2>3, <2>4, <2>5 DEF BoxInv
<1>2. CASE UNCHANGED boxVars
    BY <1>2
    DEF boxVars, BoxInv, Shaped, Filed, Attended, FileType, JobType, IsApp,
        IsScript, Names
<1> QED
    BY <1>1, <1>2, BoxKeepsInv, ScriptKeepsInv DEF DeployNext

(* So it holds of every behaviour.                                         *)
LEMMA BoxInvHolds == DeploySpec => []BoxInv
<1>1. DeployInit => BoxInv
    BY FS_EmptySet
    DEF DeployInit, Installed, StorageInit, NoFile, Down, Idle, NoName,
        NoScript, NameType, BoxInv, Shaped, Filed, Attended, FileType, JobType,
        IsApp, IsScript, Names
<1> QED
    BY <1>1, BoxInvIsInductive, PTL DEF DeploySpec

(* "Every outcome ends with migrations applied" (recovery.py): whatever    *)
(* was deployed, restored or cut short, a server that is up serves the     *)
(* schema its build was written for.                                       *)
THEOREM ServedSchema == DeploySpec => []ServedSchemaIsTheBuilds
<1>1. BoxInv => ServedSchemaIsTheBuilds
    BY DEF BoxInv, Attended, ServedSchemaIsTheBuilds
<1> QED
    BY <1>1, BoxInvHolds, PTL
-----------------------------------------------------------------------------
(* A step loses no match that is in the database or in a backup kept.      *)
LEMMA StepKeepsFiledMatches ==
    ASSUME BoxInv, [DeployNext]_boxVars
    PROVE  db.rows \cup kept \subseteq db'.rows \cup kept'
<1> USE DEF BoxInv, Shaped, FileType
<1>1. CASE UNCHANGED <<db, kept>>
    BY <1>1
<1>2. CASE Boot
    <2>1. CASE BootCreates \/ StartDegraded \/ PublishRestored
        BY <2>1 DEF BootCreates, StartDegraded, PublishRestored, Filed, Attended
    <2>2. CASE Quarantine \/ QuarantineSidecar \/ Migrate
        BY <2>2 DEF Quarantine, QuarantineSidecar, Migrate
    <2>3. CASE BootPasses \/ ChooseBackup \/ Serve \/ RefuseSchema
        BY <2>3, <1>1 DEF BootPasses, ChooseBackup, Serve, RefuseSchema
    <2> QED
        BY <1>2, <2>1, <2>2, <2>3 DEF Boot
<1>3. CASE Fold \/ RotDatabase
    BY <1>3 DEF Fold, RotDatabase, Rows
<1>4. CASE Play \/ BackUp \/ Tick \/ PowerCut \/ \E n \in Names : RotBackup(n)
    BY <1>4, <1>1
    DEF Play, BackUp, StartBackup, PublishBackup, Prune, BackupDone, Tick, PowerCut,
        RotBackup
<1>5. CASE RunScript
    <2>1. CASE StopContainer \/ ComposeUp
        BY <2>1 DEF StopContainer, ComposeUp, Stopped, Rows
    <2>2. CASE BackupDatabase \/ Migrated
        <3>1. kept' = kept /\ db' = [db EXCEPT !.rows = Rows]
            BY <2>2 DEF BackupDatabase, Migrated
        <3> QED
            BY <3>1 DEF Rows
    <2>3. CASE MigrateDatabase
        BY <2>3 DEF MigrateDatabase, File, Rows, Filed
    <2>4. CASE \/ \E sha \in Commits : BeginDeploy(sha)
               \/ TransferImage \/ BackedUp \/ SkipBackup \/ TagLatest \/ AwaitSha
               \/ RollBack \/ RolledBack \/ DiscardFailedImage \/ PruneImages
               \/ \E target \in Range(tags) : BeginRollback(target)
               \/ ScriptDies
        BY <2>4, <1>1
        DEF BeginDeploy, TransferImage, BackedUp, SkipBackup, TagLatest, AwaitSha,
            RollBack, RolledBack, DiscardFailedImage, PruneImages, BeginRollback, ScriptDies,
            storageVars
    <2> QED
        BY <1>5, <2>1, <2>2, <2>3, <2>4 DEF RunScript
<1>6. CASE UNCHANGED boxVars
    BY <1>6, <1>1 DEF boxVars
<1> QED
    BY <1>2, <1>3, <1>4, <1>5, <1>6 DEF DeployNext, BoxGoesOn, BoxLosesPower

(* "Nothing is ever deleted" (docs/durability.md): no boot, repair, backup *)
(* or script takes a match away that was in the database file or in one    *)
(* moved aside.                                                            *)
THEOREM NothingIsDeleted == DeploySpec => NothingFiledIsDeleted
<1>1. BoxInv /\ [DeployNext]_boxVars =>
          [db.rows \cup kept \subseteq db'.rows \cup kept']_storageVars
    BY StepKeepsFiledMatches
<1> QED
    BY <1>1, BoxInvHolds, PTL DEF DeploySpec, NothingFiledIsDeleted
-----------------------------------------------------------------------------
(* A backup that a step leaves out is one that newer ones outlived.        *)
LEMMA StepDeletesTheOutlived ==
    ASSUME BoxInv, [DeployNext]_boxVars, NEW name \in Names \ DOMAIN backups'
    PROVE  Outlived(name, PerHour, Hourly) /\ Outlived(name, PerDay, Daily)
<1>1. ~UNCHANGED backups
    BY DEF Names
<1>2. ~PublishBackup
    BY DEF PublishBackup, Names
<1>3. ~(\E n \in Names : RotBackup(n))
    BY DEF RotBackup, Names
<1>4. ~RunScript
    BY <1>1
    DEF RunScript, BeginDeploy, TransferImage, StopContainer, BackupDatabase, BackedUp,
        SkipBackup, MigrateDatabase, Migrated, TagLatest, ComposeUp, AwaitSha, RollBack, RolledBack,
        DiscardFailedImage, PruneImages, BeginRollback, ScriptDies, storageVars
<1>5. ~(Boot \/ Play \/ Fold \/ Tick \/ RotDatabase)
    BY <1>1
    DEF Boot, BootCreates, BootPasses, Quarantine, QuarantineSidecar, ChooseBackup,
        StartDegraded, PublishRestored, Migrate, Serve, RefuseSchema, Play, Fold, Tick,
        RotDatabase
<1>6. ~(StartBackup \/ BackupDone \/ PowerCut \/ UNCHANGED boxVars)
    BY <1>1 DEF StartBackup, BackupDone, PowerCut, boxVars
<1>7. Prune
    BY <1>2, <1>3, <1>4, <1>5, <1>6 DEF DeployNext, BoxGoesOn, BoxLosesPower, BackUp
<1>8. name \notin Retained(Names)
    BY <1>7 DEF Prune, OldestOf, Without, Names
<1> QED
    BY <1>8, UnretainedIsOutlived, RetentionAssumption DEF BoxInv, Shaped, Retained

(* "The windows overlap rather than compete" (backup.py): a backup is only *)
(* deleted once it is outlived by the hour and by the day.                 *)
THEOREM DeletionsAreOutlived == DeploySpec => DeletionsRespectTheWindows
<1>1. BoxInv /\ [DeployNext]_boxVars =>
          [\A name \in Names \ DOMAIN backups' :
              Outlived(name, PerHour, Hourly)
                  /\ Outlived(name, PerDay, Daily)]_storageVars
    BY StepDeletesTheOutlived
<1> QED
    BY <1>1, BoxInvHolds, PTL DEF DeploySpec, DeletionsRespectTheWindows
-----------------------------------------------------------------------------
(* The escape hatch: what the deploy's own backup holds, from the copy to  *)
(* the last migration.                                                     *)
Held(name) ==
    \/ /\ name \in Names
       /\ backups[name].rows = Rows /\ backups[name].schema <= db.schema
    \/ /\ name \notin Names
       /\ Outlived(name, PerHour, Hourly) /\ Outlived(name, PerDay, Daily)

HatchInv ==
    /\ script.at \in {"backup", "migrate"} => job.step = "idle"
    /\ script.saved \subseteq NameType
    /\ script.at \in {"transfer", "stop", "backup"} => script.saved = {}
    /\ script.at = "saving" /\ job.step = "publish" =>
          script.saved = {job.taken} /\ job.copy.rows = Rows /\ job.copy.schema = db.schema
    /\ script.at = "saving" /\ job.step # "publish" => \A name \in script.saved : Held(name)
    /\ script.at = "migrate" /\ Rows # {} => \A name \in script.saved : Held(name)

(* A name after one that is after a third is after the third.              *)
LEMMA LaterIsTransitive ==
    ASSUME NEW a \in NameType, NEW b \in NameType, NEW c \in NameType, Later(a, b), Later(b, c)
    PROVE  Later(a, c)
BY DEF NameType, Later

(* What is outlived stays so when a name that is outlived is deleted.      *)
OutlivedIn(names, name, span, limit) ==
    \/ \E m \in names : Bucket(m, span) = Bucket(name, span) /\ Later(m, name)
    \/ Cardinality(LaterBuckets(names, span, name)) >= limit

LEMMA OutlivedStays ==
    ASSUME NEW names, IsFiniteSet(names), names \subseteq NameType, NEW gone \in names,
           NEW name \in NameType, NEW span \in Nat \ {0}, NEW limit \in Nat,
           OutlivedIn(names, gone, span, limit), OutlivedIn(names, name, span, limit)
    PROVE  OutlivedIn(names \ {gone}, name, span, limit)
<1> DEFINE left == names \ {gone}
           At(m) == Bucket(m, span)
<1>1. /\ gone \in NameType /\ left \subseteq NameType /\ IsFiniteSet(left)
      /\ \A m \in NameType : At(m) \in Int
    BY FS_Subset DEF NameType, Bucket
<1>2. /\ LaterBuckets(left, span, name) = {At(m) : m \in {k \in left : At(k) > At(name)}}
      /\ LaterBuckets(names, span, name) = {At(m) : m \in {k \in names : At(k) > At(name)}}
      /\ LaterBuckets(names, span, gone) = {At(m) : m \in {k \in names : At(k) > At(gone)}}
    BY DEF LaterBuckets
<1>3. \/ \E m \in left : At(m) = At(gone) /\ Later(m, gone)
      \/ Cardinality(LaterBuckets(names, span, gone)) >= limit
    BY <1>1 DEF OutlivedIn, Later, NameType
<1>4. \/ \E m \in names : At(m) = At(name) /\ Later(m, name)
      \/ Cardinality(LaterBuckets(names, span, name)) >= limit
    BY DEF OutlivedIn
<1>5. SUFFICES \/ \E m \in left : At(m) = At(name) /\ Later(m, name)
               \/ Cardinality(LaterBuckets(left, span, name)) >= limit
    BY DEF OutlivedIn
<1> HIDE DEF At
<1>6. ASSUME NEW some, some \subseteq LaterBuckets(left, span, name), Cardinality(some) >= limit
      PROVE  Cardinality(LaterBuckets(left, span, name)) >= limit
    <2>1. IsFiniteSet(LaterBuckets(left, span, name))
        BY <1>1, BucketsAreFinite
    <2>2. /\ Cardinality(some) \in Nat /\ Cardinality(LaterBuckets(left, span, name)) \in Nat
          /\ Cardinality(some) <= Cardinality(LaterBuckets(left, span, name))
        BY <1>6, <2>1, FS_Subset, FS_CardinalityType
    <2> QED
        BY <1>6, <2>2
<1>7. CASE \E m \in names : At(m) = At(name) /\ Later(m, name)
    <2>1. PICK m \in names : At(m) = At(name) /\ Later(m, name)
        BY <1>7
    <2>2. CASE m # gone
        BY <2>1, <2>2
    <2>3. CASE m = gone /\ \E n \in left : At(n) = At(gone) /\ Later(n, gone)
        BY <1>1, <2>1, <2>3, LaterIsTransitive
    <2>4. CASE m = gone /\ Cardinality(LaterBuckets(names, span, gone)) >= limit
        <3>1. LaterBuckets(names, span, gone) \subseteq LaterBuckets(left, span, name)
            BY <1>1, <1>2, <2>1, <2>4
        <3> QED
            BY <1>6, <2>4, <3>1
    <2> QED
        BY <1>3, <2>2, <2>3, <2>4
<1>8. CASE Cardinality(LaterBuckets(names, span, name)) >= limit
    <2>1. CASE LaterBuckets(names, span, name) \subseteq LaterBuckets(left, span, name)
        BY <1>6, <1>8, <2>1
    <2>2. CASE ~(LaterBuckets(names, span, name) \subseteq LaterBuckets(left, span, name))
        <3>1. At(gone) > At(name) /\ \A n \in left : At(n) # At(gone)
            BY <1>1, <1>2, <2>2
        <3>2. LaterBuckets(names, span, gone) \subseteq LaterBuckets(left, span, name)
            BY <1>1, <1>2, <3>1
        <3> QED
            BY <1>3, <1>6, <3>1, <3>2
    <2> QED
        BY <2>1, <2>2
<1> QED
    BY <1>4, <1>7, <1>8

(* So a backup that is held stays held while old backups are pruned.       *)
LEMMA PruneKeepsHeld ==
    ASSUME Shaped, Prune, NEW name \in NameType, Held(name)
    PROVE  Held(name)'
<1>1. PICK gone \in Names \ Retained(Names) : backups' = Without({gone})
    BY DEF Prune, OldestOf
<1>2. /\ Names' = Names \ {gone} /\ \A n \in Names' : backups'[n] = backups[n]
      /\ Rows' = Rows /\ db' = db
    BY <1>1 DEF Prune, Without, Names, Rows
<1>3. Outlived(gone, PerHour, Hourly) /\ Outlived(gone, PerDay, Daily)
    BY <1>1, UnretainedIsOutlived, RetentionAssumption DEF Shaped, Retained
<1>4. CASE name \in Names \ {gone}
    BY <1>2, <1>4 DEF Held
<1>5. CASE name \notin Names \ {gone}
    <2>1. Outlived(name, PerHour, Hourly) /\ Outlived(name, PerDay, Daily)
        BY <1>3, <1>5 DEF Held
    <2>2. /\ OutlivedIn(Names \ {gone}, name, PerHour, Hourly)
          /\ OutlivedIn(Names \ {gone}, name, PerDay, Daily)
        BY <1>3, <2>1, OutlivedStays, RetentionAssumption DEF Shaped, Outlived, OutlivedIn
    <2>4. Outlived(name, PerHour, Hourly)' /\ Outlived(name, PerDay, Daily)'
        BY <1>2, <2>2 DEF Outlived, OutlivedIn
    <2>3. name \notin Names'
        BY <1>2, <1>5
    <2> QED
        BY <2>3, <2>4 DEF Held
<1> QED
    BY <1>4, <1>5

(* The steps of the box itself, the backups of a start among them, keep    *)
(* what rolling back relies on.                                            *)
LEMMA BoxKeepsHatch ==
    ASSUME BoxInv, HatchInv, BoxGoesOn
    PROVE  HatchInv'
<1>1. UNCHANGED script
    BY DEF BoxGoesOn
<1>2. CASE script.at \notin {"backup", "saving", "migrate"}
    BY <1>1, <1>2 DEF HatchInv
<1>3. CASE script.at \in {"backup", "saving", "migrate"}
    <2>1. app.stage = "off" /\ Shaped
        BY <1>3 DEF BoxInv, Attended
    <2>2. \/ PublishBackup \/ Prune \/ BackupDone \/ Tick \/ RotDatabase
          \/ \E n \in Names : RotBackup(n)
        BY <2>1
        DEF BoxGoesOn, Boot, BootCreates, BootPasses, Quarantine, QuarantineSidecar,
            ChooseBackup, StartDegraded, PublishRestored, Migrate, Serve, RefuseSchema,
            Play, Fold, BackUp, StartBackup
    <2>3. CASE PublishBackup
        <3>1. /\ script.at = "saving" /\ script.saved = {job.taken}
              /\ job.copy.rows = Rows /\ job.copy.schema = db.schema
            BY <1>3, <2>3 DEF HatchInv, PublishBackup
        <3>2. /\ job.taken \in Names' /\ backups'[job.taken] = job.copy
              /\ db' = db /\ wal' = wal
            BY <2>3, <3>1 DEF PublishBackup, Names
        <3>3. \A name \in script.saved : Held(name)'
            BY <1>1, <2>1, <3>1, <3>2 DEF Held, Rows, Shaped, FileType
        <3>4. job'.step = "prune"
            BY <2>1, <2>3 DEF PublishBackup, Shaped, JobType
        <3> QED
            BY <1>1, <3>1, <3>3, <3>4 DEF HatchInv
    <2>4. CASE Prune
        <3>1. job' = job /\ db' = db /\ wal' = wal /\ Rows' = Rows
            BY <2>4 DEF Prune, Rows
        <3>2. \A name \in NameType : Held(name) => Held(name)'
            BY <2>1, <2>4, PruneKeepsHeld
        <3>3. job.step = "prune"
            BY <2>4 DEF Prune
        <3> QED
            BY <1>1, <3>1, <3>2, <3>3 DEF HatchInv
    <2>5. CASE BackupDone
        <3>1. job'.step = "idle" /\ UNCHANGED <<db, wal, backups>> /\ job.step = "prune"
            BY <2>5 DEF BackupDone, Idle
        <3>2. Rows' = Rows /\ Names' = Names
            BY <3>1 DEF Rows, Names
        <3>3. \A name : Held(name) => Held(name)'
            BY <3>1, <3>2 DEF Held, Outlived
        <3> QED
            BY <1>1, <3>1, <3>2, <3>3 DEF HatchInv
    <2>6. CASE Tick
        BY <1>1, <2>6 DEF Tick, HatchInv, Held, Outlived, Rows, Names
    <2>7. CASE RotDatabase
        <3>1. /\ db'.rows = db.rows /\ db'.schema = db.schema /\ db'.exists = db.exists
              /\ UNCHANGED <<wal, backups, job>>
            BY <2>1, <2>7 DEF RotDatabase, Shaped, FileType
        <3>2. Rows' = Rows /\ Names' = Names
            BY <3>1 DEF Rows, Names
        <3>3. \A name : Held(name) => Held(name)'
            BY <3>1, <3>2 DEF Held, Outlived
        <3> QED
            BY <1>1, <3>1, <3>2, <3>3 DEF HatchInv
    <2>8. ASSUME NEW n \in Names, RotBackup(n)
          PROVE  HatchInv'
        <3>1. /\ Names' = Names /\ UNCHANGED <<db, wal, job>>
              /\ \A m \in Names : /\ backups'[m].rows = backups[m].rows
                                  /\ backups'[m].schema = backups[m].schema
            BY <2>1, <2>8 DEF RotBackup, Shaped, FileType, Names
        <3>2. Rows' = Rows
            BY <3>1 DEF Rows
        <3>3. \A name : Held(name) => Held(name)'
            BY <3>1, <3>2 DEF Held, Outlived
        <3> QED
            BY <1>1, <3>1, <3>2, <3>3 DEF HatchInv
    <2> QED
        BY <2>2, <2>3, <2>4, <2>5, <2>6, <2>7, <2>8
<1> QED
    BY <1>2, <1>3

(* So do the steps of the deployment script.                               *)
LEMMA ScriptKeepsHatch ==
    ASSUME BoxInv, HatchInv, RunScript
    PROVE  HatchInv'
<1>s. IsScript(script) /\ Shaped
    BY DEF BoxInv, Shaped
<1>1. CASE TransferImage \/ StopContainer
    <2>1. /\ script.at \in {"transfer", "stop"} /\ script'.at \in {"stop", "backup"}
          /\ script'.saved = script.saved
          /\ script'.at = "backup" => job'.step = "idle"
        BY <1>s, <1>1 DEF TransferImage, StopContainer, IsScript, Idle
    <2> QED
        BY <2>1 DEF HatchInv
<1>2. CASE BackupDatabase
    <2> DEFINE copy == File(Rows, db.schema)
    <2>1. PICK name \in NameType :
              /\ job' = BackupOf(name, copy)
              /\ script' = [script EXCEPT !.at = "saving", !.saved = {name}]
        BY <1>s, <1>2, NameIsTyped DEF BackupDatabase
    <2>2. script'.at = "saving" /\ script'.saved = {name}
        BY <1>s, <2>1 DEF IsScript
    <2>3. /\ job'.step = "publish" /\ job'.taken = name
          /\ job'.copy.rows = Rows /\ job'.copy.schema = db.schema
        BY <2>1 DEF BackupOf, Idle, File
    <2>4. Rows' = Rows /\ db'.schema = db.schema
        BY <1>s, <1>2 DEF BackupDatabase, Rows, Shaped, FileType
    <2> HIDE DEF copy
    <2>5. /\ script'.saved = {job'.taken}
          /\ job'.copy.rows = Rows' /\ job'.copy.schema = db'.schema
        BY <2>2, <2>3, <2>4
    <2>6. /\ script'.at \notin {"transfer", "stop", "backup", "migrate"}
          /\ job'.step = "publish" /\ script'.saved \subseteq NameType
        BY <2>2, <2>3
    <2> QED
        BY <2>5, <2>6 DEF HatchInv
<1>3. CASE BackedUp \/ SkipBackup
    <2>1. /\ script'.at = "migrate" /\ script'.saved = script.saved
          /\ UNCHANGED <<db, wal, backups, job>>
        BY <1>s, <1>3 DEF BackedUp, SkipBackup, IsScript, storageVars
    <2>2. Rows' = Rows /\ Names' = Names
        BY <2>1 DEF Rows, Names
    <2>3. \A name : Held(name) => Held(name)'
        BY <2>1, <2>2 DEF Held, Outlived
    <2>4. \/ script.at = "saving" /\ job.step = "idle"
          \/ script.at = "backup"
        BY <1>3 DEF BackedUp, SkipBackup
    <2>5. job'.step = "idle" /\ \A name \in script.saved : Held(name)
        BY <2>1, <2>4 DEF HatchInv
    <2> QED
        BY <2>1, <2>3, <2>5 DEF HatchInv
<1>4. CASE MigrateDatabase
    <2>1. script.at = "migrate" /\ UNCHANGED <<script, backups, job>>
        BY <1>4 DEF MigrateDatabase
    <2>2. /\ Rows' = IF db.exists THEN Rows ELSE {}
          /\ db'.schema = db.schema + 1 /\ db.schema \in Nat
        BY <1>s, <1>4 DEF MigrateDatabase, File, Rows, Shaped, FileType
    <2>3. ASSUME Rows' # {}, NEW name, Held(name)
          PROVE  Held(name)'
        <3>1. Rows' = Rows /\ Names' = Names /\ \A n \in Names : backups[n].schema \in Nat
            BY <1>s, <2>1, <2>2, <2>3 DEF Names, Shaped, FileType
        <3>2. CASE name \notin Names
            BY <2>1, <2>3, <3>1, <3>2 DEF Held, Outlived
        <3>3. CASE name \in Names
            <4>1. backups[name].rows = Rows /\ backups[name].schema <= db.schema
                BY <2>3, <3>3 DEF Held
            <4>2. backups[name].schema <= db'.schema
                BY <2>2, <3>1, <3>3, <4>1
            <4> QED
                BY <2>1, <3>1, <3>3, <4>1, <4>2 DEF Held
        <3> QED
            BY <3>2, <3>3
    <2>4. Rows' # {} => Rows # {}
        BY <2>2
    <2> QED
        BY <2>1, <2>3, <2>4 DEF HatchInv
<1>5. CASE \E sha \in Commits : BeginDeploy(sha)
    <2>1. IsScript(NoScript) /\ NoScript.saved = {}
        BY DEF IsScript, NoScript
    <2>2. script'.at = "transfer" /\ script'.saved = {}
        BY <1>5, <2>1 DEF BeginDeploy, IsScript
    <2> QED
        BY <2>2 DEF HatchInv
<1>6. CASE \/ \E target \in Range(tags) : BeginRollback(target)
           \/ Migrated \/ TagLatest \/ ComposeUp \/ AwaitSha
           \/ RollBack \/ RolledBack \/ DiscardFailedImage \/ PruneImages \/ ScriptDies
    <2> DEFINE Aside == /\ script'.at \notin {"transfer", "stop", "backup", "saving", "migrate"}
                        /\ script'.saved \subseteq NameType
    <2>0. NoScript.at = "idle" /\ NoScript.saved = {} /\ script.saved \subseteq NameType
        BY DEF NoScript, HatchInv
    <2>1. Aside
        <3>1. CASE \E target \in Range(tags) : BeginRollback(target)
            <4>1. IsScript(NoScript)
                BY DEF IsScript, NoScript
            <4> QED
                BY <2>0, <3>1, <4>1 DEF BeginRollback, IsScript
        <3>2. CASE Migrated \/ TagLatest
            BY <1>s, <2>0, <3>2 DEF Migrated, TagLatest, IsScript
        <3>3. CASE ComposeUp \/ AwaitSha
            BY <1>s, <2>0, <3>3 DEF ComposeUp, AwaitSha, IsScript
        <3>4. CASE RollBack
            BY <1>s, <2>0, <3>4 DEF RollBack, IsScript
        <3>5. CASE RolledBack
            <4>1. script' = NoScript \/ script' = [script EXCEPT !.at = "discard"]
                BY <3>5, Zenon DEF RolledBack
            <4> QED
                BY <1>s, <2>0, <4>1 DEF IsScript
        <3>6. CASE DiscardFailedImage \/ PruneImages \/ ScriptDies
            BY <2>0, <3>6 DEF DiscardFailedImage, PruneImages, ScriptDies
        <3> QED
            BY <1>6, <3>1, <3>2, <3>3, <3>4, <3>5, <3>6
    <2> QED
        BY <2>1 DEF HatchInv
<1> QED
    BY <1>1, <1>2, <1>3, <1>4, <1>5, <1>6 DEF RunScript

(* So a backup that was taken is there to go back to.                      *)
LEMMA HatchInvHolds == DeploySpec => []HatchInv
<1>1. DeployInit => HatchInv
    BY DEF DeployInit, Installed, NoScript, HatchInv
<1>2. BoxInv /\ HatchInv /\ [DeployNext]_boxVars => HatchInv'
    <2> SUFFICES ASSUME BoxInv, HatchInv, [DeployNext]_boxVars
                 PROVE  HatchInv'
        OBVIOUS
    <2>1. CASE BoxLosesPower
        BY <2>1 DEF BoxLosesPower, HatchInv, NoScript
    <2>2. CASE UNCHANGED boxVars
        BY <2>2 DEF boxVars, HatchInv, Held, Outlived, Rows, Names
    <2> QED
        BY <2>1, <2>2, BoxKeepsHatch, ScriptKeepsHatch DEF DeployNext
<1> QED
    BY <1>1, <1>2, BoxInvHolds, PTL DEF DeploySpec

(* "The backup from step 4 is the escape hatch" (deploy.sh), when it was   *)
(* taken: it holds the very matches that are migrated next, and pruning,   *)
(* rot or power leave it there unless the windows let it go.               *)
THEOREM BackupsAreOfWhatMigrates == DeploySpec => BackupIsOfWhatMigrates
<1>1. HatchInv /\ [DeployNext]_boxVars =>
          [MigrateDatabase /\ Rows # {} =>
              \A name \in script.saved :
                 \/ /\ name \in Names
                    /\ backups[name].rows = Rows /\ backups[name].schema <= db.schema
                 \/ /\ name \notin Names
                    /\ Outlived(name, PerHour, Hourly) /\ Outlived(name, PerDay, Daily)]_boxVars
    BY DEF HatchInv, Held, MigrateDatabase
<1> QED
    BY <1>1, HatchInvHolds, PTL DEF DeploySpec, BackupIsOfWhatMigrates
-----------------------------------------------------------------------------
(* An image goes, the others stay.                                         *)
LEMMA OthersStay ==
    ASSUME tags \in Seq(Build), NEW tag
    PROVE  /\ WithoutTag(tag) \in Seq(Build)
           /\ Range(tags) \ {tag} \subseteq Range(WithoutTag(tag))
<1>0. /\ Len(tags) \in Nat /\ \A i \in 1..Len(tags) : tags[i] \in Build
      /\ Range(tags) = {tags[i] : i \in 1..Len(tags)}
    BY LenProperties, ElementOfSeq, RangeEquality
<1>1. CASE ~(\E i \in 1..Len(tags) : tags[i] = tag)
    BY <1>1 DEF WithoutTag, RemoveFirst
<1>2. CASE \E i \in 1..Len(tags) : tags[i] = tag
    <2> DEFINE places == {i \in 1..Len(tags) : tags[i] = tag}
               k      == Min(places)
    <2>1. k \in 1..Len(tags) /\ tags[k] = tag
        <3>1. places \in SUBSET Nat /\ places # {}
            BY <1>0, <1>2
        <3> HIDE DEF places
        <3>2. \E i \in places : \A j \in places : i <= j
            BY <3>1, LeastNumber
        <3>3. k \in places
            BY <3>2 DEF Min
        <3> QED
            BY <3>3 DEF places
    <2>2. WithoutTag(tag) = SubSeq(tags, 1, k - 1) \o SubSeq(tags, k + 1, Len(tags))
        BY <1>2 DEF WithoutTag, RemoveFirst, SelectInSeq, RemoveAt
    <2> HIDE DEF k
    <2> DEFINE before == SubSeq(tags, 1, k - 1)
               behind == SubSeq(tags, k + 1, Len(tags))
    <2>3. /\ before \in Seq(Build) /\ Len(before) = k - 1
          /\ \A i \in 1..k - 1 : before[i] = tags[i]
        <3>1. k - 1 \in Nat /\ \A i \in 1..k - 1 : tags[i] \in Build
            BY <1>0, <2>1
        <3> QED
            BY <3>1, SubSeqProperties
    <2>4. /\ behind \in Seq(Build) /\ Len(behind) = Len(tags) - k
          /\ \A i \in 1..Len(tags) - k : behind[i] = tags[k + i]
        <3>1. /\ k + 1 \in Int /\ Len(tags) \in Int /\ \A i \in k + 1..Len(tags) : tags[i] \in Build
              /\ Len(tags) - (k + 1) + 1 = Len(tags) - k
              /\ \A i \in 1..Len(tags) - k : k + 1 + i - 1 = k + i
            BY <1>0, <2>1
        <3>2. /\ behind \in Seq(Build)
              /\ Len(behind) = IF k + 1 <= Len(tags) THEN Len(tags) - (k + 1) + 1 ELSE 0
              /\ \A i \in 1..Len(tags) - (k + 1) + 1 : behind[i] = tags[k + 1 + i - 1]
            BY <3>1, SubSeqProperties
        <3>3. Len(behind) = Len(tags) - k
            BY <1>0, <2>1, <3>2
        <3>4. ASSUME NEW i \in 1..Len(tags) - k
              PROVE  behind[i] = tags[k + i]
            <4>1. behind[i] = tags[k + 1 + i - 1] /\ k + 1 + i - 1 = k + i
                BY <3>1, <3>2
            <4> QED
                BY <4>1
        <3> QED
            BY <3>2, <3>3, <3>4
    <2> HIDE DEF before, behind
    <2>5. /\ before \o behind \in Seq(Build)
          /\ Range(before \o behind) = Range(before) \cup Range(behind)
        BY <2>3, <2>4, ConcatProperties, RangeConcatenation
    <2>6. ASSUME NEW i \in 1..Len(tags), i # k
          PROVE  tags[i] \in Range(before) \cup Range(behind)
        <3>1. CASE i < k
            <4>1. i \in 1..k - 1
                BY <2>1, <3>1
            <4> QED
                BY <2>3, <4>1, RangeEquality
        <3>2. CASE i > k
            <4>1. i - k \in 1..Len(tags) - k /\ k + (i - k) = i
                BY <1>0, <2>1, <3>2
            <4> QED
                BY <2>4, <4>1, RangeEquality
        <3> QED
            BY <2>1, <2>6, <3>1, <3>2
    <2> QED
        BY <1>0, <2>1, <2>2, <2>5, <2>6 DEF before, behind
<1> QED
    BY <1>1, <1>2

(* The image to go back to is on the box, and is not the one deployed.     *)
LEMMA RollbackTagIsThere ==
    ASSUME NEW new, new # NoTag, NEW running, NEW listed \in Seq(Build)
    PROVE  /\ SelectRollbackTag(new, running, listed) \in Range(listed) \cup {NoTag}
           /\ SelectRollbackTag(new, running, listed) # new
<1> DEFINE others == {i \in DOMAIN listed : listed[i] # new}
<1>1. CASE running \notin {NoTag, new} /\ running \in Range(listed)
    BY <1>1 DEF SelectRollbackTag
<1>2. CASE others # {}
    <2>1. others \in SUBSET Nat
        BY LenProperties
    <2> DEFINE i == CHOOSE k \in others : \A j \in others : k <= j
    <2>2. i \in others
        <3> HIDE DEF others
        <3> QED
            BY <1>2, <2>1, LeastNumber
    <2>3. SelectRollbackTag(new, running, listed)
             = IF running \notin {NoTag, new} /\ running \in Range(listed) THEN running
               ELSE listed[i]
        BY <1>2 DEF SelectRollbackTag
    <2>4. listed[i] # new /\ listed[i] \in Range(listed)
        <3> HIDE DEF i
        <3> QED
            BY <2>2 DEF Range
    <2> HIDE DEF i, others
    <2> QED
        BY <2>3, <2>4
<1>3. CASE others = {} /\ ~(running \notin {NoTag, new} /\ running \in Range(listed))
    BY <1>3 DEF SelectRollbackTag
<1> QED
    BY <1>1, <1>2, <1>3

(* What a script has read and where it stands tells which images it and    *)
(* the container need: what it listed stays until it has chosen where to   *)
(* go back to, what it deploys is there from the transfer on, and what it  *)
(* goes back to is never the image it deploys.                             *)
Installing == {"stop", "backup", "saving", "migrate"}
Chosen     == {"tag", "up", "await", "prune"}
GoingBack  == {"tagBack", "upBack", "awaitBack", "discard"}

ImagesNeeded ==
    /\ latest \in Range(tags)
    /\ script.target \in Range(tags) \cup {NoTag}
    /\ app.stage # "off" => app.build \in Range(tags)

ScriptKnows ==
    /\ script.at \in {"idle", "transfer"} \cup Installing \cup Chosen \cup GoingBack
    /\ script.listed \in Seq(Build)
    /\ script.at \in {"transfer"} \cup Installing \cup Chosen => script.sha \in Build
    /\ script.at \in {"idle", "transfer"} \cup Installing =>
          script.target = NoTag /\ Range(script.listed) \subseteq Range(tags)
    /\ script.at \in Installing \cup Chosen => script.sha \in Range(tags)
    /\ script.at \in GoingBack => script.target # NoTag
    /\ script.at \in Chosen \cup GoingBack => script.target # script.sha

Switched ==
    /\ script.at \in {"up", "await", "prune"} => latest = script.sha
    /\ script.at \in {"await", "prune"} /\ app.stage # "off" => app.build = script.sha
    /\ script.at \in {"upBack", "awaitBack", "discard"} => latest = script.target
    /\ script.at \in {"awaitBack", "discard"} /\ app.stage # "off" =>
          app.build = script.target

TagsInv == tags \in Seq(Build) /\ ImagesNeeded /\ ScriptKnows /\ Switched

(* The box by itself neither changes the image of its container nor starts *)
(* a container that was stopped.                                           *)
ContainerStays == app'.build = app.build /\ (app.stage = "off" => app'.stage = "off")

(* A step that leaves the tags alone, and the script alone or dead, keeps  *)
(* the images that are needed.                                             *)
LEMMA BoxKeepsTags ==
    ASSUME IsApp(app), TagsInv, ContainerStays, UNCHANGED <<tags, latest>>,
           script' = script \/ script' = NoScript
    PROVE  TagsInv'
<1>1. NoScript.at = "idle" /\ NoScript.listed = <<>> /\ NoScript.target = NoTag
    BY DEF NoScript
<1>2. <<>> \in Seq(Build) /\ Range(<<>>) = {}
    BY EmptySeq DEF Range
<1> QED
    BY <1>1, <1>2 DEF TagsInv, ImagesNeeded, ScriptKnows, Switched, ContainerStays,
        Installing, Chosen, GoingBack

(* The box going on, or losing power, removes the image of no container    *)
(* that is running.                                                        *)
LEMMA ContainersStay ==
    ASSUME IsApp(app), BoxGoesOn \/ BoxLosesPower
    PROVE  ContainerStays
<1> USE DEF IsApp, ContainerStays, BoxGoesOn
<1>1. CASE Boot
    BY <1>1 DEF Boot, BootCreates, BootPasses, Quarantine, QuarantineSidecar,
        ChooseBackup, StartDegraded, PublishRestored, Migrate, Serve, RefuseSchema
<1>2. CASE BackUp
    BY <1>2 DEF BackUp, StartBackup, PublishBackup, Prune, BackupDone
<1>3. CASE Play \/ Fold \/ Tick \/ RotDatabase \/ \E n \in Names : RotBackup(n)
    BY <1>3 DEF Play, Fold, Tick, RotDatabase, RotBackup
<1>4. CASE BoxLosesPower
    BY <1>4 DEF BoxLosesPower, PowerCut
<1> QED
    BY <1>1, <1>2, <1>3, <1>4

(* What a deploy lists are tags, in whatever order.                        *)
LEMMA ListingsAreOfTheTags ==
    ASSUME tags \in Seq(Build), NEW listed \in Listings
    PROVE  listed \in Seq(Build) /\ Range(listed) \subseteq Range(tags)
<1>1. PICK n \in Nat : listed \in [1..n -> Range(tags)]
    BY LenProperties DEF Listings
<1>2. Range(tags) \subseteq Build
    BY RangeEquality, ElementOfSeq, LenProperties
<1>3. listed \in Seq(Range(tags))
    BY <1>1
<1> QED
    BY <1>1, <1>2, <1>3 DEF Range

(* Every step of a script keeps the images that are needed.                *)
LEMMA ScriptKeepsTags ==
    ASSUME IsApp(app), IsScript(script), TagsInv, RunScript
    PROVE  TagsInv'
<1> USE DEF TagsInv, ImagesNeeded, ScriptKnows, Switched, Installing, Chosen,
            GoingBack, IsScript, IsApp, storageVars
<1>0. /\ NoScript = [at |-> "idle", sha |-> NoTag, running |-> NoTag, listed |-> <<>>,
                     target |-> NoTag, saved |-> {}]
      /\ <<>> \in Seq(Build) /\ Range(<<>>) = {}
    BY EmptySeq DEF NoScript, Range
<1>1. ASSUME NEW sha \in Commits, BeginDeploy(sha)
      PROVE  TagsInv'
    <2>1. PICK running \in Heard, listed \in Listings :
              script' = [NoScript EXCEPT !.at = "transfer", !.sha = sha, !.running = running,
                                         !.listed = listed]
        BY <1>1 DEF BeginDeploy
    <2>2. listed \in Seq(Build) /\ Range(listed) \subseteq Range(tags)
        BY ListingsAreOfTheTags
    <2> QED
        BY <1>0, <1>1, <2>1, <2>2, DeployAssumption DEF BeginDeploy
<1>2. CASE TransferImage
    <2>1. /\ WithoutTag(script.sha) \in Seq(Build)
          /\ Range(tags) \ {script.sha} \subseteq Range(WithoutTag(script.sha))
        BY OthersStay
    <2> DEFINE newest == <<script.sha>>
    <2>2. newest \in Seq(Build) /\ Range(newest) = {script.sha}
        BY <1>2 DEF TransferImage, Range
    <2>s. tags' = newest \o WithoutTag(script.sha)
        BY <1>2 DEF TransferImage
    <2> HIDE DEF newest
    <2>3. /\ tags' \in Seq(Build)
          /\ Range(tags') = {script.sha} \cup Range(WithoutTag(script.sha))
        BY <2>1, <2>2, <2>s, ConcatProperties, RangeConcatenation
    <2> QED
        BY <1>2, <2>1, <2>3 DEF TransferImage
<1>3. CASE StopContainer
    BY <1>3 DEF StopContainer, Down
<1>4. CASE BackupDatabase
    BY <1>4 DEF BackupDatabase
<1>5. CASE BackedUp
    BY <1>5 DEF BackedUp
<1>15. CASE SkipBackup
    BY <1>15 DEF SkipBackup
<1>6. CASE MigrateDatabase
    BY <1>6 DEF MigrateDatabase
<1>7. CASE Migrated
    <2> DEFINE target == SelectRollbackTag(script.sha, script.running, script.listed)
    <2>1. script.sha # NoTag
        BY <1>7, DeployAssumption DEF Migrated
    <2>2. target \in Range(script.listed) \cup {NoTag} /\ target # script.sha
        BY <2>1, RollbackTagIsThere
    <2>3. script' = [script EXCEPT !.at = "tag", !.target = target]
        BY <1>7 DEF Migrated
    <2> HIDE DEF target
    <2>4. /\ script'.at = "tag" /\ script'.target = target
          /\ script'.sha = script.sha /\ script'.listed = script.listed
        BY <2>3
    <2>5. /\ script.at = "migrate"
          /\ UNCHANGED <<app, tags, latest>>
        BY <1>7 DEF Migrated
    <2>6. target \in Range(tags) \cup {NoTag}
        BY <2>2, <2>5
    <2> QED
        BY <2>2, <2>4, <2>5, <2>6
<1>8. CASE TagLatest
    BY <1>8 DEF TagLatest
<1>9. CASE ComposeUp
    <2>1. app'.build = latest
        BY <1>9 DEF ComposeUp, Down
    <2>2. /\ UNCHANGED <<tags, latest>>
          /\ \/ script.at = "up" /\ script' = [script EXCEPT !.at = "await"]
             \/ script.at = "upBack" /\ script' = [script EXCEPT !.at = "awaitBack"]
        BY <1>9 DEF ComposeUp
    <2>3. /\ script'.listed = script.listed /\ script'.target = script.target
          /\ script'.sha = script.sha
          /\ \/ script.at = "up" /\ script'.at = "await"
             \/ script.at = "upBack" /\ script'.at = "awaitBack"
        BY <2>2
    <2>4. UNCHANGED <<tags, latest>>
        BY <2>2
    <2>5. ImagesNeeded'
        BY <2>1, <2>3, <2>4
    <2>6. ScriptKnows' /\ Switched'
        BY <2>1, <2>3, <2>4
    <2> QED
        BY <2>4, <2>5, <2>6
<1>10. CASE AwaitSha \/ RollBack \/ RolledBack
    <2>1. /\ UNCHANGED <<tags, latest, app>>
          /\ script.at \in {"await", "awaitBack"}
          /\ \/ script' = NoScript
             \/ script.at = "await" /\ script' = [script EXCEPT !.at = "prune"]
             \/ script.at = "await" /\ script.target # NoTag
                                    /\ script' = [script EXCEPT !.at = "tagBack"]
             \/ script.at = "awaitBack" /\ script' = [script EXCEPT !.at = "discard"]
        BY <1>10 DEF AwaitSha, RollBack, RolledBack
    <2>2. CASE script' = NoScript
        BY <1>0, <2>1, <2>2
    <2>3. CASE script' # NoScript
        <3>1. /\ script'.listed = script.listed /\ script'.target = script.target
              /\ script'.sha = script.sha
              /\ \/ script.at = "await" /\ script'.at = "prune"
                 \/ script.at = "await" /\ script.target # NoTag /\ script'.at = "tagBack"
                 \/ script.at = "awaitBack" /\ script'.at = "discard"
            BY <2>1, <2>3
        <3> QED
            BY <2>1, <3>1
    <2> QED
        BY <2>2, <2>3
<1>11. CASE DiscardFailedImage
    <2>1. /\ WithoutTag(script.sha) \in Seq(Build)
          /\ Range(tags) \ {script.sha} \subseteq Range(WithoutTag(script.sha))
        BY OthersStay
    <2> QED
        BY <1>0, <1>11, <2>1 DEF DiscardFailedImage
<1>12. CASE PruneImages
    <2>1. CASE script' = NoScript /\ tags' = tags
        BY <1>0, <1>12, <2>1 DEF PruneImages
    <2>2. ASSUME NEW tag \in Doomed, script' = script, tags' = WithoutTag(tag)
          PROVE  TagsInv'
        <3>1. tag \notin {script.sha, script.target}
            BY <2>2 DEF Doomed, TagsToPrune
        <3>2. /\ WithoutTag(tag) \in Seq(Build)
              /\ Range(tags) \ {tag} \subseteq Range(WithoutTag(tag))
            BY OthersStay
        <3> QED
            BY <1>12, <2>2, <3>1, <3>2 DEF PruneImages
    <2> QED
        BY <1>12, <2>1, <2>2 DEF PruneImages
<1>13. ASSUME NEW target \in Range(tags), BeginRollback(target)
       PROVE  TagsInv'
    <2>1. target # NoTag
        BY DeployAssumption, RangeEquality, ElementOfSeq, LenProperties
    <2> QED
        BY <1>0, <1>13, <2>1 DEF BeginRollback
<1>14. CASE ScriptDies
    BY <1>0, <1>14 DEF ScriptDies
<1> QED
    BY <1>1, <1>2, <1>3, <1>4, <1>5, <1>6, <1>7, <1>8, <1>9, <1>10, <1>11, <1>12,
       <1>13, <1>14, <1>15 DEF RunScript

(* "Pruning is wrong when it deletes the image you are about to need"      *)
(* (deploy-lib.sh): whatever was deployed, rolled back or cut short, the   *)
(* image of the container, darts:latest and the image to go back to are on *)
(* the box.                                                                *)
THEOREM ImagesStay == DeploySpec => []NeededImagesStay
<1>1. DeployInit => TagsInv
    <2> SUFFICES ASSUME NEW images \in Seq(Build), images # <<>>, Installed(images)
                 PROVE  TagsInv
        BY DEF DeployInit
    <2>1. images[1] \in Range(images)
        BY RangeEquality, EmptySeq, LenProperties DEF Range
    <2> QED
        BY <2>1, EmptySeq DEF Installed, StorageInit, Down, NoScript, Range, TagsInv,
            ImagesNeeded, ScriptKnows, Switched, Installing, Chosen, GoingBack
<1>2. BoxInv /\ TagsInv /\ [DeployNext]_boxVars => TagsInv'
    <2> SUFFICES ASSUME BoxInv, TagsInv, [DeployNext]_boxVars
                 PROVE  TagsInv'
        OBVIOUS
    <2>1. IsApp(app) /\ IsScript(script)
        BY DEF BoxInv, Shaped
    <2>2. CASE BoxGoesOn \/ BoxLosesPower
        <3>1. /\ UNCHANGED <<tags, latest>>
              /\ script' = script \/ script' = NoScript
            BY <2>2 DEF BoxGoesOn, BoxLosesPower
        <3> QED
            BY <2>1, <2>2, <3>1, ContainersStay, BoxKeepsTags
    <2>3. CASE RunScript
        BY <2>1, <2>3, ScriptKeepsTags
    <2>4. CASE UNCHANGED boxVars
        BY <2>1, <2>4, BoxKeepsTags DEF boxVars, ContainerStays
    <2> QED
        BY <2>2, <2>3, <2>4 DEF DeployNext
<1>3. TagsInv => NeededImagesStay
    BY DEF TagsInv, ImagesNeeded, NeededImagesStay
<1> QED
    BY <1>1, <1>2, <1>3, BoxInvHolds, PTL DEF DeploySpec
=============================================================================
