------------------------- MODULE CheckpointMigration -------------------------
(***************************************************************************)
(* The one-time migration of the checkpoint tables to the official saver:  *)
(* CheckpointMigrationController runs it on the user's word, by            *)
(* CompactTargetBuilder and NamespaceCollapseMigrator a compact database   *)
(* is built beside app.db, AtomicCheckpointDatabaseSwap renames it into    *)
(* place under a journal, and the next start of the backend picks up       *)
(* whatever a crash has left.                                              *)
(*                                                                         *)
(* Granularity.  What a crash can separate is a step of its own: each      *)
(* rename, each unlink, each journal write (a rename of a temporary file)  *)
(* and each committed transaction.  One process at a time uses the data    *)
(* directory: the desktop's shell runs a single instance.                  *)
(*                                                                         *)
(* A database is the form of its checkpoint tables, the namespaces whose   *)
(* latest checkpoint it holds and the status of its migration row.  The    *)
(* statuses from "preflighting" to "ready_to_swap" are one, "running": the *)
(* code never tells them apart.  A completed migration the user has        *)
(* acknowledged is a status of its own.                                    *)
(***************************************************************************)
CONSTANT Namespaces   \* the checkpoint namespaces of all threads

VARIABLES
  heads,    \* the namespaces the user had before the upgrade
  active,   \* app.db
  target,   \* app.db.checkpoint-collapse-v1.tmp
  backup,   \* app.db.checkpoint-collapse-v1.backup
  journal,  \* the phase in app.db.checkpoint-collapse-v1.swap.json, "none": no such file
  pc,       \* what the backend does next; "down": it does not run, "refused": it gave up
  job,      \* on whose behalf: create_app ("boot"), recover() or the migration task
  denied    \* history: the system has refused an operation on a file

files == <<active, target, backup>>
vars  == <<heads, files, journal, pc, job, denied>>

Statuses == {"none", "pending", "running", "failed", "completed", "acknowledged"}
Phases   == {"none", "prepared", "source_backed_up", "target_active"}

NoFile  == [form |-> "absent", roots |-> {}, status |-> "none"]
\* What init_schema makes of an empty file: official tables, the downgrade guard, no rows.
Blank   == [form |-> "official", roots |-> {}, status |-> "none"]
Legacy(roots, status) == [form |-> "legacy", roots |-> roots, status |-> status]

Exists(db)  == db # NoFile
Marked(db, status) == [db EXCEPT !.status = status]

\* fail() updates the row and asserts that there is one.
Failed(db) == IF db.status = "none" THEN db ELSE Marked(db, "failed")

\* The namespaces of checkpoints_v2, which only a legacy database has rows in.
LegacyNamespaces(db) == IF db.form = "legacy" THEN db.roots ELSE {}

Stopped == {"down", "refused"}
Resting == Stopped \cup {"dialog", "serving"}

\* An upgrade of an installation with conversations, or one without.
Init ==
  /\ heads \in SUBSET Namespaces
  /\ active \in {Legacy(heads, "none")} \cup (IF heads = {} THEN {NoFile} ELSE {})
  /\ target = NoFile /\ backup = NoFile /\ journal = "none"
  /\ pc = "down" /\ job = "boot" /\ denied = FALSE

Goto(next) == pc' = next /\ UNCHANGED <<heads, denied>>

-----------------------------------------------------------------------------
(* Start of the backend: prepare_active_path_for_startup and init_database *)
(* in create_app.                                                          *)

Launch ==
  /\ pc \in Stopped
  /\ Goto("repair") /\ job' = "boot"
  /\ UNCHANGED <<files, journal>>

RepairNothing ==
  /\ pc = "repair" /\ (journal = "none" \/ Exists(active))
  /\ Goto("init")
  /\ UNCHANGED <<files, journal, job>>

\* The compact database can take the place of the missing one.
CanFinish == Exists(target) /\ (journal = "target_active" \/ Exists(backup))

RepairForward ==
  /\ pc = "repair" /\ journal # "none" /\ ~Exists(active) /\ CanFinish
  /\ Goto("activate")
  /\ UNCHANGED <<files, journal, job>>

\* It is gone: the backup takes its place, when there is one.
RepairBack ==
  /\ pc = "repair" /\ journal # "none" /\ ~Exists(active) /\ ~CanFinish
  /\ active' = backup /\ backup' = NoFile
  /\ Goto(IF Exists(backup) THEN "unjournal" ELSE "refused")
  /\ UNCHANGED <<target, journal, job>>

InitSchema ==
  /\ pc = "init"
  /\ active' = IF Exists(active) THEN active ELSE Blank
  /\ Goto("recover")
  /\ UNCHANGED <<target, backup, journal, job>>

-----------------------------------------------------------------------------
(* recover(), in the lifespan.  Its local phase is always the journal's.   *)

RecoverNothing ==
  /\ pc = "recover" /\ journal = "none"
  /\ Goto("inspect")
  /\ UNCHANGED <<files, journal, job>>

RecoverPhase ==
  /\ pc = "recover" /\ journal # "none"
  /\ job' = "recover"
  /\ Goto(CASE journal = "prepared" /\ Exists(active) /\ Exists(target) -> "rename"
            [] journal = "source_backed_up" /\ ~Exists(active)
                 /\ Exists(backup) /\ Exists(target) -> "activate"
            [] journal = "target_active" -> "smoke"
            [] OTHER -> "refused")
  /\ UNCHANGED <<files, journal>>

\* CheckpointRuntime.start: ensure_required writes the row of a migration that is due.  The
\* conversations are opened, or the dialog is shown; an interrupted migration is resumed.
Required(db) == IF LegacyNamespaces(db) # {} /\ db.status = "none" THEN "pending" ELSE db.status

Inspect ==
  /\ pc = "inspect"
  /\ active' = Marked(active, Required(active))
  /\ Goto(CASE Required(active) \in {"none", "acknowledged"} -> "serving"
            [] Required(active) = "running" -> "preflight"
            [] OTHER -> "dialog")
  /\ job' = "migrate"
  /\ UNCHANGED <<target, backup, journal>>

-----------------------------------------------------------------------------
(* The user's word.                                                        *)

StartMigration ==
  /\ pc = "dialog" /\ active.status \in {"pending", "running", "failed"}
  /\ Goto("preflight")
  /\ UNCHANGED <<files, journal, job>>

\* Faulty: the acknowledgement is not written.
AcknowledgeUnsaved ==
  /\ pc = "dialog" /\ active.status = "completed"
  /\ Goto("inspect")
  /\ UNCHANGED <<files, journal, job>>

Acknowledge ==
  /\ pc = "dialog" /\ active.status = "completed"
  /\ active' = Marked(active, "acknowledged")
  /\ Goto("inspect")
  /\ UNCHANGED <<target, backup, journal, job>>

-----------------------------------------------------------------------------
(* The migration task up to the swap.                                      *)

\* Faulty: the journal is written before the compact database is built.
PreflightJournaled ==
  /\ pc = "preflight"
  /\ active' = Marked(active, "running") /\ journal' = "prepared"
  /\ Goto("build")
  /\ UNCHANGED <<target, backup, job>>

Preflight ==
  /\ pc = "preflight"
  /\ active' = Marked(active, "running")
  /\ Goto("build")
  /\ UNCHANGED <<target, backup, journal, job>>

ResetTarget ==
  /\ pc = "build"
  /\ target' = Blank
  /\ Goto("copy")
  /\ UNCHANGED <<active, backup, journal, job>>

\* One transaction copies the business rows and the migration row, not the checkpoints.
CopyBusinessTables ==
  /\ pc = "copy"
  /\ target' = Marked(target, active.status)
  /\ Goto("collapse")
  /\ UNCHANGED <<active, backup, journal, job>>

CollapseNamespace ==
  /\ pc = "collapse"
  /\ \E n \in LegacyNamespaces(active) \ target.roots :
       target' = [target EXCEPT !.roots = @ \cup {n}]
  /\ UNCHANGED <<heads, active, backup, journal, pc, job, denied>>

\* Faulty: the swap is prepared with namespaces left to collapse.
CollapsedEarly ==
  /\ pc = "collapse"
  /\ Goto("prepare")
  /\ UNCHANGED <<files, journal, job>>

Collapsed ==
  /\ pc = "collapse" /\ LegacyNamespaces(active) \subseteq target.roots
  /\ Goto("prepare")
  /\ UNCHANGED <<files, journal, job>>

\* No space, a broken chain, a row that cannot be copied: fail() and the handler of _run.
BuildFails ==
  /\ pc \in {"preflight", "build", "copy", "collapse"}
  /\ active' = Marked(active, "failed")
  /\ Goto("dialog")
  /\ UNCHANGED <<target, backup, journal, job>>

-----------------------------------------------------------------------------
(* swap().  An exception goes to the handler of _run, or ends the start of *)
(* the backend.                                                            *)

Raised == IF job = "migrate" THEN "handler" ELSE "down"

PrepareFiles ==
  /\ pc = "prepare"
  /\ backup' = NoFile
  /\ Goto("journal")
  /\ UNCHANGED <<active, target, journal, job>>

Write(phase) == journal' = phase /\ UNCHANGED <<files, job>>
MoveSource   == backup' = active /\ active' = NoFile /\ UNCHANGED <<target, journal, job>>
MoveTarget   == active' = target /\ target' = NoFile /\ UNCHANGED <<backup, journal, job>>

WriteJournal ==
  /\ pc = "journal"
  /\ Write("prepared")
  /\ Goto("rename")

RenameSourceToBackup ==
  /\ pc = "rename"
  /\ MoveSource
  /\ Goto("noteBackup")

NoteBackup ==
  /\ pc = "noteBackup"
  /\ Write("source_backed_up")
  /\ Goto(IF job = "recover" THEN "recover" ELSE "activate")

\* At the start of the backend a journal that says so already is not written again.
ActivateTarget ==
  /\ pc = "activate"
  /\ MoveTarget
  /\ Goto(IF job = "boot" /\ journal = "target_active" THEN "init" ELSE "noteActive")

NoteActive ==
  /\ pc = "noteActive"
  /\ Write("target_active")
  /\ Goto(CASE job = "boot" -> "init" [] job = "recover" -> "recover" [] OTHER -> "smoke")

-----------------------------------------------------------------------------
(* _finish_or_restore.                                                     *)

\* integrity_check, the guard, no legacy rows and one migration row.
Sound(db) == db.form = "official" /\ db.status # "none"

\* Faulty: the backup is dropped after one check, before the row is marked completed.
SmokeCheckOnly ==
  /\ pc = "smoke" /\ Sound(active)
  /\ Goto("dropBackup")
  /\ UNCHANGED <<files, journal, job>>

SmokeCheck ==
  /\ pc = "smoke" /\ Sound(active)
  /\ Goto("complete")
  /\ UNCHANGED <<files, journal, job>>

MarkCompleted ==
  /\ pc = "complete"
  /\ active' = Marked(active, "completed")
  /\ Goto("confirm")
  /\ UNCHANGED <<target, backup, journal, job>>

ConfirmCompleted ==
  /\ pc = "confirm" /\ Sound(active) /\ active.status = "completed"
  /\ Goto("dropBackup")
  /\ UNCHANGED <<files, journal, job>>

\* The database is not as it should be, or cannot be read now.
SmokeFails ==
  /\ pc \in {"smoke", "complete", "confirm"}
  /\ Goto("restore")
  /\ UNCHANGED <<files, journal, job>>

RestoreWithoutBackup ==
  /\ pc = "restore" /\ ~Exists(backup)
  /\ Goto(IF job = "recover" THEN "refused" ELSE "handler")
  /\ UNCHANGED <<files, journal, job>>

SetTargetAside ==
  /\ pc = "restore" /\ Exists(backup)
  /\ target' = active /\ active' = NoFile
  /\ Goto("restoreBackup")
  /\ UNCHANGED <<backup, journal, job>>

MoveBack == active' = backup /\ backup' = NoFile /\ UNCHANGED <<target, journal, job>>

RestoreBackup ==
  /\ pc = "restoreBackup"
  /\ MoveBack
  /\ Goto("unjournal")

RemoveJournal ==
  /\ pc = "unjournal"
  /\ journal' = "none"
  /\ Goto(IF job = "boot" THEN "init" ELSE "report")
  /\ UNCHANGED <<files, job>>

ReportFailure ==
  /\ pc = "report"
  /\ active' = Failed(active)
  /\ Goto(Raised)
  /\ UNCHANGED <<target, backup, journal, job>>

\* Faulty: the backup is left on the disk.
DropBackupKept ==
  /\ pc = "dropBackup"
  /\ Goto("dropJournal")
  /\ UNCHANGED <<files, journal, job>>

\* _cleanup_success.
DropBackup ==
  /\ pc = "dropBackup"
  /\ backup' = NoFile
  /\ Goto("dropJournal")
  /\ UNCHANGED <<active, target, journal, job>>

\* Faulty: the journal is left on the disk.
DropJournalKept ==
  /\ pc = "dropJournal"
  /\ target' = NoFile
  /\ Goto(IF job = "recover" THEN "inspect" ELSE "dialog")
  /\ UNCHANGED <<active, backup, journal, job>>

DropJournal ==
  /\ pc = "dropJournal"
  /\ target' = NoFile /\ journal' = "none"
  /\ Goto(IF job = "recover" THEN "inspect" ELSE "dialog")
  /\ UNCHANGED <<active, backup, job>>

\* Faulty: the failure is written down without a look at the row.
HandleUnread ==
  /\ pc = "handler"
  /\ active' = Marked(active, "failed")
  /\ Goto("dialog")
  /\ UNCHANGED <<target, backup, journal, job>>

\* The handler of _run reads the row, which creates a missing database, and marks it failed.
HandleFailure ==
  /\ pc = "handler"
  /\ active' = IF Exists(active) THEN Failed(active) ELSE Blank
  /\ Goto("dialog")
  /\ UNCHANGED <<target, backup, journal, job>>

-----------------------------------------------------------------------------
(* What goes wrong.                                                        *)

\* The backend is killed, or ends in order while no task runs.
Crash ==
  /\ pc \notin Stopped
  /\ Goto("down")
  /\ UNCHANGED <<files, journal, job>>

\* A cleaner removes the temporary database.
LoseTarget ==
  /\ pc \in Stopped /\ Exists(target)
  /\ target' = NoFile
  /\ UNCHANGED <<heads, active, backup, journal, pc, job, denied>>

\* An exception of the system, as on Windows for a file another program has open.
Denied == pc' = Raised /\ denied' = TRUE /\ UNCHANGED heads

\* os.replace, Path.unlink or the temporary file of the journal raises: nothing has changed.
OperationFails ==
  /\ pc \in {"prepare", "journal", "rename", "noteBackup", "activate", "noteActive", "restore",
             "restoreBackup", "unjournal", "dropBackup", "dropJournal"}
  /\ pc = "restore" => Exists(backup)
  /\ Denied
  /\ UNCHANGED <<files, journal, job>>

\* The rename is made, but _fsync_file cannot open the file or _remove_sidecars a sidecar.
SyncFails ==
  /\ \/ pc = "journal" /\ Write("prepared")
     \/ pc = "rename" /\ MoveSource
     \/ pc = "noteBackup" /\ Write("source_backed_up")
     \/ pc = "activate" /\ MoveTarget
     \/ pc = "noteActive" /\ Write("target_active")
     \/ pc = "restoreBackup" /\ MoveBack
  /\ Denied

\* The first unlink of the step is made, the operation after it raises.
SecondFails ==
  /\ \/ pc = "prepare" /\ backup' = NoFile /\ UNCHANGED target
     \/ pc = "restore" /\ Exists(backup) /\ target' = NoFile /\ UNCHANGED backup
     \/ pc = "dropJournal" /\ target' = NoFile /\ UNCHANGED backup
  /\ Denied
  /\ UNCHANGED <<active, journal, job>>

-----------------------------------------------------------------------------
Boot    == RepairNothing \/ RepairForward \/ RepairBack \/ InitSchema
Recover == RecoverNothing \/ RecoverPhase \/ Inspect
User    == StartMigration \/ Acknowledge
Build   == Preflight \/ ResetTarget \/ CopyBusinessTables \/ CollapseNamespace \/ Collapsed
Swap    == PrepareFiles \/ WriteJournal \/ RenameSourceToBackup \/ NoteBackup
             \/ ActivateTarget \/ NoteActive
Finish  == SmokeCheck \/ MarkCompleted \/ ConfirmCompleted \/ DropBackup \/ DropJournal
Restore == RestoreWithoutBackup \/ SetTargetAside \/ RestoreBackup \/ RemoveJournal
             \/ ReportFailure \/ HandleFailure
Refused == OperationFails \/ SyncFails \/ SecondFails
Trouble == BuildFails \/ SmokeFails \/ Crash \/ LoseTarget \/ Refused

Work == Boot \/ Recover \/ Build \/ Swap \/ Finish \/ Restore

Next == Launch \/ User \/ Work \/ Trouble

Spec == Init /\ [][Next]_vars

\* The event loop runs a task that is not waiting, a check that does not hold fails, the
\* user starts the application and answers the dialog, which cannot be closed.
FairSpec == Spec /\ WF_vars(Work \/ SmokeFails) /\ WF_vars(Launch) /\ WF_vars(User)

-----------------------------------------------------------------------------
(* Properties.                                                             *)

Databases ==
  {NoFile} \cup [form : {"legacy", "official"}, roots : SUBSET Namespaces, status : Statuses]

Booting  == {"repair", "init"}
Tasking  == {"preflight", "build", "copy", "collapse", "prepare", "journal", "handler"}
Swapping == {"rename", "noteBackup", "activate", "noteActive", "unjournal"}
Closing  == {"smoke", "complete", "confirm", "restore", "restoreBackup", "report",
             "dropBackup", "dropJournal"}

\* Types of the files and of the control state; a missing file has no status.
TypeOK ==
  /\ heads \subseteq Namespaces
  /\ active \in Databases /\ target \in Databases /\ backup \in Databases
  /\ journal \in Phases
  /\ pc \in Resting \cup Booting \cup {"recover", "inspect"} \cup Tasking \cup Swapping \cup Closing
  /\ job \in {"boot", "recover", "migrate"}
  /\ denied \in BOOLEAN

Complete(db) == Exists(db) /\ db.roots = heads

\* Nothing of the swap is left over when the conversations are opened: no journal for a later
\* start to act on, no backup, no second database (the contract of _cleanup_success).  What
\* fails can spare the second database only beside an app.db without a migration row, the empty
\* file that the failure handler has made.
ServedIsSettled ==
  pc = "serving" => /\ journal = "none" /\ ~Exists(backup)
                    /\ Exists(target) => denied /\ active.status = "none"

\* What the user has acknowledged is never replaced, rebuilt or migrated again, whatever swap,
\* failure handler and recovery find on the disk.
AcknowledgedIsFinal == [][active.status = "acknowledged" => active' = active]_vars

\* The other safety properties hold until the system refuses an operation on a file: then the
\* failure handler of the task is wrong about what it finds.

\* The conversations are opened only on a database that holds the latest checkpoint of every
\* namespace the user had (CheckpointRuntime.start opens whatever app.db is).
ServedIsComplete == pc = "serving" /\ ~denied => Complete(active)

\* A journal lets a later start finish the swap with whatever the temporary database is by
\* then: where recover() gives up the backup, it has put a complete database in its place.
RecoversVerified == pc = "dropBackup" /\ job = "recover" /\ ~denied => Complete(active)

\* The last copy of the old database goes only when app.db is complete and marked completed
\* (the unlink of the backup comes after both smoke checks).
HasLegacy == \E db \in {active, target, backup} : db.form = "legacy"
OldKeptUntilVerified ==
  [][HasLegacy /\ ~HasLegacy' /\ ~denied => Complete(active) /\ active.status = "completed"]_vars

\* When nothing fails any more, the conversations are opened in the end, or the backend gives
\* up on the files it finds.
Mishap == BuildFails \/ Crash \/ LoseTarget \/ Refused \/ (SmokeFails /\ Sound(active))
OpensInTheEnd == <>[][~Mishap]_vars => <>(pc \in {"serving", "refused"} \/ denied)

\* The promise of CheckpointStore.  A database that is complete in neither form has no
\* counterpart there.
Kept == IF heads = {} THEN "compact"
        ELSE IF HasLegacy THEN "legacy"
        ELSE IF \E db \in {active, target, backup} : Complete(db) THEN "compact" ELSE "lost"
Store == INSTANCE CheckpointStore WITH kept <- Kept, open <- pc = "serving"
ImplementsStore == Store!Init /\ [][~denied' => Store!Next]_<<Kept, pc = "serving">>
=============================================================================
