-------------------------- MODULE CheckpointProofs --------------------------
(***************************************************************************)
(* Proofs about CheckpointMigration.  The first half holds whatever fails, *)
(* the second until the system refuses an operation on a file.             *)
(***************************************************************************)
EXTENDS CheckpointMigration, TLAPS

USE DEF Goto, files, Denied, Write, MoveSource, MoveTarget, MoveBack, Failed

-----------------------------------------------------------------------------
(* Which files there are, by what the backend is doing.                    *)

Holding == {"inspect", "dialog", "serving", "preflight", "build", "copy", "collapse", "prepare",
            "journal", "rename", "noteActive", "unjournal", "smoke", "complete", "confirm",
            "restore", "report", "dropBackup", "dropJournal"}

\* A control state that writes to a file has one.
FilesAtHand ==
  /\ pc \in Holding => Exists(active)
  /\ pc = "recover" /\ journal # "source_backed_up" => Exists(active)
  /\ pc \in {"copy", "collapse", "prepare", "journal", "rename", "noteBackup", "activate"}
       => Exists(target)
  /\ pc \in {"noteBackup", "restoreBackup"} => Exists(backup)
  /\ pc = "init" /\ journal # "none" => Exists(active)

Typing == TypeOK /\ FilesAtHand

-----------------------------------------------------------------------------
(* What is left over of a swap.                                            *)

Settled == journal = "none" /\ ~Exists(target) /\ ~Exists(backup)

\* A database the migration is not done with.  The empty file the failure handler makes has no
\* row.
Unfinished(db) == db.status \in {"running", "failed"} \/ (db.status = "none" /\ denied)

\* The journal at the steps of the swap.
Journaled ==
  /\ pc \in {"rename", "noteBackup"} => journal = "prepared"
  /\ pc = "activate" => journal # "none" /\ (job = "migrate" => journal = "source_backed_up")
  /\ pc \in {"noteActive", "unjournal"} => journal # "none"
  /\ pc \in Closing \ {"report"} => journal = "target_active"
  /\ pc = "inspect" => journal = "none"
  /\ pc = "repair" => job = "boot"
  /\ pc = "handler" /\ ~Exists(active) => journal # "none" /\ denied

\* The status of the database at the steps of the task and of the swap.
Staged ==
  /\ pc = "preflight" => active.status \in {"pending", "running", "failed"}
  /\ pc \in {"build", "copy", "collapse", "prepare", "journal"} => active.status = "running"
  /\ pc = "unjournal" => Unfinished(active)
  /\ pc \in {"dropBackup", "dropJournal"} => active.status = "completed"
  /\ journal = "prepared" /\ Exists(active) /\ Exists(target) => Unfinished(active)

\* What may be left over when.
Leftovers ==
  /\ Exists(backup) => journal # "none" /\ Unfinished(backup)
  /\ pc \in {"dropJournal", "unjournal", "report"} => ~Exists(backup)
  /\ journal = "none" /\ active.status \in {"completed", "acknowledged"} => ~Exists(target)
  /\ journal = "none" /\ active.status = "none" => ~Exists(target) \/ denied
  /\ target.status # "acknowledged"

\* Acknowledged or about to be.
Final ==
  /\ pc = "dialog" /\ active.status = "completed" => Settled
  /\ active.status = "acknowledged" =>
       Settled /\ pc \in Stopped \cup {"repair", "init", "recover", "inspect", "serving"}

RestInv == Typing /\ Journaled /\ Staged /\ Leftovers /\ Final /\ ServedIsSettled

-----------------------------------------------------------------------------
(* What the databases hold, when the system refuses nothing.                 *)

Old(db) == db.form = "legacy" /\ db.roots = heads
             /\ db.status \in {"none", "pending", "running", "failed"}
Compact(db) == db.form = "official" /\ db.roots = heads
New(db) == Compact(db) /\ db.status \in {"running", "completed"}

\* The four situations of a swap: before the source is renamed, without app.db, before the
\* backup is dropped, and after it.
Before  == Old(active) /\ ~Exists(backup) /\ (Exists(target) => New(target))
Between == ~Exists(active) /\ Old(backup) /\ (Exists(target) => New(target))
After   == New(active) /\ ~Exists(target) /\ Old(backup)
Done    == New(active) /\ active.status = "completed" /\ ~Exists(target) /\ ~Exists(backup)

SwapStage == Before \/ Between \/ After \/ Done

Unswapped == Old(active) \/ (Compact(active) /\ active.status \in {"completed", "acknowledged"})

\* The steps of the swap and its situations.
Stages ==
  /\ pc = "rename" => Before
  /\ pc \in {"noteBackup", "activate", "restoreBackup"} => Between
  /\ pc = "noteActive" => After
  /\ pc \in {"smoke", "restore"} => Before \/ After \/ Done
  /\ pc \in {"complete", "confirm", "dropBackup"} => After \/ Done
  /\ pc = "dropJournal" => Done
  /\ pc = "unjournal" => Before
  /\ pc \in {"smoke", "complete", "confirm", "restore"} /\ job # "recover" => After
  /\ pc \in {"preflight", "build", "copy", "collapse", "prepare", "journal", "report", "handler"}
       => journal = "none" /\ Old(active)
  /\ pc = "dialog" => journal = "none"
  /\ pc = "copy" => target = Blank
  /\ pc = "collapse" => target.form = "official" /\ target.roots \subseteq heads /\ target.status = "running"
  /\ pc \in {"prepare", "journal"} => New(target)

Empty ==
  /\ Settled /\ active.status = "none" /\ active.roots = {}
  /\ pc \in Stopped \cup {"repair", "init", "recover", "inspect", "serving"}

\* A store that has conversations.
Stocked ==
  /\ heads # {}
  /\ journal = "none" => Unswapped
  /\ journal # "none" => SwapStage
  /\ Stages
  /\ Exists(target) => target.form = "official"

Contents == (heads = {} /\ Empty) \/ Stocked

-----------------------------------------------------------------------------
(* The databases.                                                          *)

\* A missing file, an empty database and the databases of Init, with their fields.
LEMMA NoFileIs ==
  /\ NoFile \in Databases /\ ~Exists(NoFile)
  /\ NoFile.form = "absent" /\ NoFile.roots = {} /\ NoFile.status = "none"
BY DEF NoFile, Databases, Exists

LEMMA BlankIs ==
  /\ Blank \in Databases /\ Exists(Blank)
  /\ Blank.form = "official" /\ Blank.roots = {} /\ Blank.status = "none"
BY DEF Blank, NoFile, Databases, Exists, Statuses

LEMMA LegacyIs ==
  ASSUME NEW roots \in SUBSET Namespaces, NEW status \in Statuses
  PROVE  /\ Legacy(roots, status) \in Databases /\ Exists(Legacy(roots, status))
         /\ Legacy(roots, status).form = "legacy" /\ Legacy(roots, status).roots = roots
         /\ Legacy(roots, status).status = status
BY DEF Legacy, NoFile, Databases, Exists

\* Writing the status leaves the checkpoints alone.
LEMMA MarkedIs ==
  ASSUME NEW db \in Databases, Exists(db), NEW status \in Statuses
  PROVE  /\ Marked(db, status) \in Databases /\ Exists(Marked(db, status))
         /\ Marked(db, status).form = db.form /\ Marked(db, status).roots = db.roots
         /\ Marked(db, status).status = status
BY DEF Marked, NoFile, Databases, Exists

LEMMA MarkedSame ==
  ASSUME NEW db \in Databases
  PROVE  Marked(db, db.status) = db
BY DEF Marked, NoFile, Databases

LEMMA DatabaseFields ==
  ASSUME NEW db \in Databases
  PROVE  db.status \in Statuses /\ db.roots \in SUBSET Namespaces
BY NoFileIs DEF Databases, Statuses

LEMMA RequiredIs ==
  ASSUME NEW db \in Databases
  PROVE  Required(db) \in Statuses
BY DatabaseFields DEF Required, Statuses

-----------------------------------------------------------------------------
(* Types.                                                                  *)

\* Types and files at the start.
LEMMA TypingInit == Init => Typing
<1>. SUFFICES ASSUME Init
              PROVE  Typing
  OBVIOUS
<1>1. active \in Databases
  <2>1. Legacy(heads, "none") \in Databases
    BY LegacyIs DEF Init, Statuses
  <2>. QED
    BY <2>1, NoFileIs DEF Init
<1>. QED
  BY <1>1, NoFileIs DEF Init, Typing, TypeOK, FilesAtHand, Holding, Phases, Resting, Stopped

\* Every step keeps types and files.
LEMMA TypingStep ==
  ASSUME Typing, Next
  PROVE  Typing'
<1>. USE NoFileIs, BlankIs DEF Typing, TypeOK, FilesAtHand, Holding, Exists
<1>0. /\ "none" \in Statuses /\ "pending" \in Statuses /\ "running" \in Statuses
      /\ "failed" \in Statuses /\ "completed" \in Statuses /\ "acknowledged" \in Statuses
  BY DEF Statuses
<1>1. CASE Launch
  BY <1>1 DEF Launch, Resting, Stopped, Booting
<1>2. CASE Boot
  BY <1>2 DEF Boot, RepairNothing, RepairForward, RepairBack, InitSchema, CanFinish, Resting,
    Stopped, Booting, Swapping, Exists, Phases
<1>3. CASE RecoverNothing \/ RecoverPhase
  BY <1>3 DEF RecoverNothing, RecoverPhase, Resting, Stopped, Swapping, Closing, Exists, Phases
<1>4. CASE Inspect
  <2>1. active' = Marked(active, Required(active))
    BY <1>4 DEF Inspect
  <2>2. active' \in Databases /\ Exists(active)'
    BY <1>4, <2>1, MarkedIs, RequiredIs DEF Inspect
  <2>. QED
    BY <1>4, <2>2 DEF Inspect, Resting, Tasking
<1>5. CASE User
  <2>1. CASE StartMigration
    BY <2>1 DEF StartMigration, Resting, Tasking
  <2>2. CASE Acknowledge
    <3>1. active' \in Databases /\ Exists(active')
      BY <1>0, <2>2, MarkedIs DEF Acknowledge
    <3>. QED
      BY <2>2, <3>1 DEF Acknowledge, Resting
  <2>. QED
    BY <1>5, <2>1, <2>2 DEF User
<1>6. CASE Build
  <2>1. CASE CollapseNamespace
    <3>1. target' \in Databases /\ Exists(target')
      BY <2>1 DEF CollapseNamespace, Databases, Exists, LegacyNamespaces, NoFile
    <3>. QED
      BY <2>1, <3>1 DEF CollapseNamespace
  <2>2. CASE Preflight
    <3>1. active' \in Databases /\ Exists(active')
      BY <1>0, <2>2, MarkedIs DEF Preflight
    <3>. QED
      BY <2>2, <3>1 DEF Preflight, Tasking
  <2>3. CASE CopyBusinessTables
    <3>1. target' \in Databases /\ Exists(target')
      BY <2>3, MarkedIs, DatabaseFields DEF CopyBusinessTables
    <3>. QED
      BY <2>3, <3>1 DEF CopyBusinessTables, Tasking
  <2>4. CASE ResetTarget \/ Collapsed
    BY <2>4 DEF ResetTarget, Collapsed, Tasking
  <2>. QED
    BY <1>6, <2>1, <2>2, <2>3, <2>4 DEF Build
<1>7. CASE Swap
  BY <1>7 DEF Swap, PrepareFiles, WriteJournal, RenameSourceToBackup, NoteBackup,
    ActivateTarget, NoteActive, Swapping, Closing, Booting, Tasking, Phases, Exists
<1>8. CASE Finish
  <2>1. CASE MarkCompleted
    <3>1. active' \in Databases /\ Exists(active')
      BY <1>0, <2>1, MarkedIs DEF MarkCompleted
    <3>. QED
      BY <2>1, <3>1 DEF MarkCompleted, Closing
  <2>2. CASE SmokeCheck \/ ConfirmCompleted \/ DropBackup \/ DropJournal
    BY <2>2 DEF SmokeCheck, ConfirmCompleted, DropBackup, DropJournal, Resting, Closing, Phases
  <2>. QED
    BY <1>8, <2>1, <2>2 DEF Finish
<1>9. CASE Restore
  <2>1. CASE ReportFailure
    <3>1. active' \in Databases /\ Exists(active')
      BY <1>0, <2>1, MarkedIs DEF ReportFailure
    <3>. QED
      BY <2>1, <3>1 DEF ReportFailure, Raised, Resting, Stopped, Tasking
  <2>2. CASE HandleFailure
    <3>1. active' \in Databases /\ Exists(active')
      BY <1>0, <2>2, MarkedIs DEF HandleFailure
    <3>. QED
      BY <2>2, <3>1 DEF HandleFailure, Resting
  <2>3. CASE RestoreWithoutBackup \/ SetTargetAside \/ RestoreBackup \/ RemoveJournal
    BY <2>3 DEF RestoreWithoutBackup, SetTargetAside, RestoreBackup, RemoveJournal, Resting,
      Stopped, Closing, Swapping, Booting, Tasking, Phases
  <2>. QED
    BY <1>9, <2>1, <2>2, <2>3 DEF Restore
<1>10. CASE Trouble
  <2>1. CASE BuildFails
    <3>1. active' \in Databases /\ Exists(active')
      BY <1>0, <2>1, MarkedIs DEF BuildFails
    <3>. QED
      BY <2>1, <3>1 DEF BuildFails, Resting
  <2>2. CASE SmokeFails \/ Crash \/ LoseTarget \/ Refused
    BY <2>2 DEF SmokeFails, Crash, LoseTarget, Refused, OperationFails, SyncFails, SecondFails,
      Raised, Resting, Stopped, Closing, Tasking, Phases
  <2>. QED
    BY <1>10, <2>1, <2>2 DEF Trouble
<1>. QED
  BY <1>1, <1>2, <1>3, <1>4, <1>5, <1>6, <1>7, <1>8, <1>9, <1>10 DEF Next, Work, Recover

\* Files and control state keep their types, whatever fails: no step of the migration writes the
\* row of a file that is not there.
THEOREM TypeCorrect == Spec => []TypeOK
<1>1. Typing /\ UNCHANGED vars => Typing'
  BY DEF Typing, TypeOK, FilesAtHand, vars
<1>2. Typing => TypeOK
  BY DEF Typing
<1>. QED
  BY <1>1, <1>2, TypingInit, TypingStep, PTL DEF Spec

-----------------------------------------------------------------------------
(* Leftovers.                                                              *)

\* Every step keeps the journal in line with the control state.
LEMMA JournaledStep ==
  ASSUME Typing, Journaled, Final, Next
  PROVE  Journaled'
<1>. USE NoFileIs, BlankIs DEF Typing, TypeOK, FilesAtHand, Holding, Journaled, Final, Settled,
       Closing, Exists
<1>1. CASE Launch \/ Boot
  BY <1>1 DEF Launch, Boot, RepairNothing, RepairForward, RepairBack, InitSchema, CanFinish
<1>2. CASE Recover
  BY <1>2 DEF Recover, RecoverNothing, RecoverPhase, Inspect
<1>3. CASE User \/ Build
  BY <1>3 DEF User, StartMigration, Acknowledge, Build, Preflight, ResetTarget,
    CopyBusinessTables, CollapseNamespace, Collapsed
<1>4. CASE Swap
  BY <1>4 DEF Swap, PrepareFiles, WriteJournal, RenameSourceToBackup, NoteBackup,
    ActivateTarget, NoteActive, Phases
<1>5. CASE Finish
  BY <1>5 DEF Finish, SmokeCheck, MarkCompleted, ConfirmCompleted, DropBackup, DropJournal
<1>6. CASE Restore
  <2>1. CASE ReportFailure
    <3>1. Exists(active')
      BY <2>1, MarkedIs DEF ReportFailure, Statuses
    <3>. QED
      BY <2>1, <3>1 DEF ReportFailure, Raised
  <2>2. CASE RestoreWithoutBackup \/ SetTargetAside \/ RestoreBackup \/ RemoveJournal \/ HandleFailure
    BY <2>2 DEF RestoreWithoutBackup, SetTargetAside, RestoreBackup, RemoveJournal, HandleFailure
  <2>. QED
    BY <1>6, <2>1, <2>2 DEF Restore
<1>7. CASE Trouble
  BY <1>7 DEF Trouble, BuildFails, SmokeFails, Crash, LoseTarget, Refused, OperationFails,
    SyncFails, SecondFails,
    Raised, Stopped, Phases
<1>. QED
  BY <1>1, <1>2, <1>3, <1>4, <1>5, <1>6, <1>7 DEF Next, Work

\* Every step keeps the statuses of the task and of the swap.
LEMMA StagedStep ==
  ASSUME Typing, Journaled, Staged, Leftovers, Next
  PROVE  Staged'
<1>. USE NoFileIs, BlankIs DEF Typing, TypeOK, FilesAtHand, Holding, Journaled, Closing, Exists,
       Staged, Leftovers, Unfinished
<1>1. CASE Launch \/ Boot
  BY <1>1 DEF Launch, Boot, RepairNothing, RepairForward, RepairBack, InitSchema, CanFinish
<1>2. CASE Recover
  <2>1. CASE Inspect
    <3>1. active'.status = Required(active)
      BY <2>1, MarkedIs, RequiredIs DEF Inspect
    <3>. QED
      BY <2>1, <3>1 DEF Inspect
  <2>2. CASE RecoverNothing \/ RecoverPhase
    BY <2>2 DEF RecoverNothing, RecoverPhase
  <2>. QED
    BY <1>2, <2>1, <2>2 DEF Recover
<1>3. CASE User \/ Build
  BY <1>3, MarkedIs DEF User, StartMigration, Acknowledge, Build, Preflight, ResetTarget,
    CopyBusinessTables, CollapseNamespace, Collapsed, Statuses
<1>4. CASE Swap
  BY <1>4 DEF Swap, PrepareFiles, WriteJournal, RenameSourceToBackup, NoteBackup,
    ActivateTarget, NoteActive, Phases
<1>5. CASE Finish
  BY <1>5, MarkedIs DEF Finish, SmokeCheck, MarkCompleted, ConfirmCompleted, DropBackup,
    DropJournal, Statuses
<1>6. CASE Restore
  BY <1>6, MarkedIs DEF Restore, RestoreWithoutBackup, SetTargetAside, RestoreBackup,
    RemoveJournal,
    ReportFailure, HandleFailure, Raised, Statuses
<1>7. CASE Trouble
  BY <1>7, MarkedIs DEF Trouble, BuildFails, SmokeFails, Crash, LoseTarget, Refused,
    OperationFails, SyncFails, SecondFails,
    Raised, Stopped, Phases, Statuses
<1>. QED
  BY <1>1, <1>2, <1>3, <1>4, <1>5, <1>6, <1>7 DEF Next, Work

\* Every step keeps what may be left over.
LEMMA LeftoversStep ==
  ASSUME Typing, Journaled, Staged, Leftovers, Final, Next
  PROVE  Leftovers'
<1>. USE NoFileIs, BlankIs DEF Typing, TypeOK, FilesAtHand, Holding, Journaled, Closing, Exists,
       Staged, Leftovers, Unfinished, Final, Settled
<1>1. CASE Launch \/ Boot
  BY <1>1 DEF Launch, Boot, RepairNothing, RepairForward, RepairBack, InitSchema, CanFinish
<1>2. CASE Recover
  <2>1. CASE Inspect
    <3>1. active'.status = Required(active)
      BY <2>1, MarkedIs, RequiredIs DEF Inspect
    <3>. QED
      BY <2>1, <3>1 DEF Inspect, Required
  <2>2. CASE RecoverNothing \/ RecoverPhase
    BY <2>2 DEF RecoverNothing, RecoverPhase
  <2>. QED
    BY <1>2, <2>1, <2>2 DEF Recover
<1>3. CASE User
  BY <1>3, MarkedIs DEF User, StartMigration, Acknowledge, Statuses
<1>4. CASE Build
  <2>1. CASE CollapseNamespace
    <3>1. target'.status = target.status
      BY <2>1 DEF CollapseNamespace, Databases, NoFile
    <3>. QED
      BY <2>1, <3>1 DEF CollapseNamespace
  <2>2. CASE Preflight \/ ResetTarget \/ CopyBusinessTables \/ Collapsed
    BY <2>2, MarkedIs DEF Preflight, ResetTarget, CopyBusinessTables, Collapsed, Statuses
  <2>. QED
    BY <1>4, <2>1, <2>2 DEF Build
<1>5. CASE Swap
  BY <1>5 DEF Swap, PrepareFiles, WriteJournal, RenameSourceToBackup, NoteBackup,
    ActivateTarget, NoteActive, Phases
<1>6. CASE Finish
  BY <1>6, MarkedIs DEF Finish, SmokeCheck, MarkCompleted, ConfirmCompleted, DropBackup,
    DropJournal, Statuses
<1>7. CASE Restore
  BY <1>7, MarkedIs DEF Restore, RestoreWithoutBackup, SetTargetAside, RestoreBackup,
    RemoveJournal,
    ReportFailure, HandleFailure, Raised, Statuses
<1>8. CASE Trouble
  BY <1>8, MarkedIs DEF Trouble, BuildFails, SmokeFails, Crash, LoseTarget, Refused,
    OperationFails, SyncFails, SecondFails,
    Raised, Stopped, Phases, Statuses
<1>. QED
  BY <1>1, <1>2, <1>3, <1>4, <1>5, <1>6, <1>7, <1>8 DEF Next, Work

\* Every step leaves what is acknowledged or served alone.
LEMMA FinalStep ==
  ASSUME Typing, Journaled, Staged, Leftovers, Final, ServedIsSettled, Next
  PROVE  Final' /\ ServedIsSettled'
<1>. USE NoFileIs, BlankIs DEF Typing, TypeOK, FilesAtHand, Holding, Journaled, Closing, Exists,
       Staged, Leftovers, Unfinished, Final, Settled, Stopped, ServedIsSettled
<1>1. CASE Launch \/ Boot
  BY <1>1 DEF Launch, Boot, RepairNothing, RepairForward, RepairBack, InitSchema, CanFinish
<1>2. CASE Recover
  <2>1. CASE Inspect
    <3>1. active'.status = Required(active)
      BY <2>1, MarkedIs, RequiredIs DEF Inspect
    <3>. QED
      BY <2>1, <3>1 DEF Inspect, Required
  <2>2. CASE RecoverNothing \/ RecoverPhase
    BY <2>2 DEF RecoverNothing, RecoverPhase
  <2>. QED
    BY <1>2, <2>1, <2>2 DEF Recover
<1>3. CASE User
  BY <1>3, MarkedIs DEF User, StartMigration, Acknowledge, Statuses
<1>4. CASE Build
  BY <1>4, MarkedIs DEF Build, Preflight, ResetTarget,
    CopyBusinessTables, CollapseNamespace, Collapsed, Statuses
<1>5. CASE Swap
  BY <1>5 DEF Swap, PrepareFiles, WriteJournal, RenameSourceToBackup, NoteBackup,
    ActivateTarget, NoteActive, Phases
<1>6. CASE Finish
  BY <1>6, MarkedIs DEF Finish, SmokeCheck, MarkCompleted, ConfirmCompleted, DropBackup,
    DropJournal, Statuses
<1>7. CASE Restore
  BY <1>7, MarkedIs DEF Restore, RestoreWithoutBackup, SetTargetAside, RestoreBackup,
    RemoveJournal,
    ReportFailure, HandleFailure, Raised, Statuses
<1>8. CASE Trouble
  BY <1>8, MarkedIs DEF Trouble, BuildFails, SmokeFails, Crash, LoseTarget, Refused,
    OperationFails, SyncFails, SecondFails,
    Raised, Phases, Statuses
<1>. QED
  BY <1>1, <1>2, <1>3, <1>4, <1>5, <1>6, <1>7, <1>8 DEF Next, Work

\* What the control state says about journal, files and statuses, whatever fails.
THEOREM RestInvariant == Spec => []RestInv
<1>1. Init => RestInv
  <2>. SUFFICES ASSUME Init
                PROVE  RestInv
    OBVIOUS
  <2>1. active.status = "none"
    BY NoFileIs, LegacyIs DEF Init, Statuses
  <2>. QED
    BY <2>1, TypingInit, NoFileIs DEF Init, RestInv, Journaled, Staged, Leftovers, Final,
      ServedIsSettled, Settled, Closing, Stopped
<1>2. RestInv /\ [Next]_vars => RestInv'
  <2>1. ASSUME RestInv, Next
        PROVE  RestInv'
    BY <2>1, TypingStep, JournaledStep, StagedStep, LeftoversStep, FinalStep DEF RestInv
  <2>2. ASSUME RestInv, UNCHANGED vars
        PROVE  RestInv'
    BY <2>2 DEF RestInv, Typing, TypeOK, FilesAtHand, Journaled, Staged, Leftovers, Final,
      ServedIsSettled, Settled, Unfinished, vars
  <2>. QED
    BY <2>1, <2>2
<1>. QED
  BY <1>1, <1>2, PTL DEF Spec

\* Nothing of a swap is left over when CheckpointRuntime.start opens the conversations, whatever
\* was refused before; a compact database can be, but only beside the empty file that the failure
\* handler has made.
THEOREM SettledWhenServed == Spec => []ServedIsSettled
<1>1. RestInv => ServedIsSettled
  BY DEF RestInv
<1>. QED
  BY <1>1, RestInvariant, PTL

\* A database whose migration the user has acknowledged is never touched again by the swap, the
\* failure handler or the recovery.
THEOREM FinalWhenAcknowledged == Spec => AcknowledgedIsFinal
<1>1. RestInv /\ [Next]_vars => [active.status = "acknowledged" => active' = active]_vars
  <2>. SUFFICES ASSUME RestInv, Next, active.status = "acknowledged"
                PROVE  active' = active
    BY DEF RestInv, vars
  <2>. USE NoFileIs DEF RestInv, Final, Settled, Stopped, Exists, Journaled
  <2>1. CASE Launch \/ Boot
    BY <2>1 DEF Launch, Boot, RepairNothing, RepairForward, RepairBack, InitSchema
  <2>2. CASE Recover
    <3>1. CASE Inspect
      <4>1. Required(active) = active.status
        BY DEF Required
      <4>. QED
        BY <3>1, <4>1, MarkedSame DEF Inspect, Typing, TypeOK
    <3>2. CASE RecoverNothing \/ RecoverPhase
      BY <3>2 DEF RecoverNothing, RecoverPhase
    <3>. QED
      BY <2>2, <3>1, <3>2 DEF Recover
  <2>3. CASE User \/ Build
    BY <2>3 DEF User, StartMigration, Acknowledge, Build, Preflight, ResetTarget,
      CopyBusinessTables, CollapseNamespace, Collapsed
  <2>4. CASE Swap \/ Finish
    BY <2>4 DEF Swap, PrepareFiles, WriteJournal, RenameSourceToBackup, NoteBackup,
      ActivateTarget, NoteActive, Finish, SmokeCheck, MarkCompleted, ConfirmCompleted,
      DropBackup, DropJournal
  <2>5. CASE Restore \/ Trouble
    BY <2>5 DEF Restore, RestoreWithoutBackup, SetTargetAside, RestoreBackup, RemoveJournal,
      ReportFailure, HandleFailure, Trouble, BuildFails, SmokeFails, Crash, LoseTarget,
      Refused, OperationFails, SyncFails, SecondFails
  <2>. QED
    BY <2>1, <2>2, <2>3, <2>4, <2>5 DEF Next, Work
<1>. QED
  BY <1>1, RestInvariant, PTL DEF Spec, AcknowledgedIsFinal

-----------------------------------------------------------------------------
(* Contents, until an operation on a file is refused.                      *)

\* An installation without conversations never migrates.
LEMMA EmptyStep ==
  ASSUME Typing, Journaled, heads = {}, Empty, Next
  PROVE  Empty' /\ heads' = {} /\ (Exists(active) => active' = active)
<1>. USE NoFileIs, BlankIs DEF Typing, TypeOK, FilesAtHand, Holding, Journaled, Exists, Empty,
       Settled, Stopped
<1>1. CASE Launch \/ Boot
  BY <1>1 DEF Launch, Boot, RepairNothing, RepairForward, RepairBack, InitSchema
<1>2. CASE Recover
  <2>1. CASE Inspect
    <3>1. Required(active) = "none"
      BY DEF Required, LegacyNamespaces
    <3>2. active' = active
      BY <2>1, <3>1, MarkedSame DEF Inspect
    <3>. QED
      BY <2>1, <3>1, <3>2 DEF Inspect
  <2>2. CASE RecoverNothing \/ RecoverPhase
    BY <2>2 DEF RecoverNothing, RecoverPhase
  <2>. QED
    BY <1>2, <2>1, <2>2 DEF Recover
<1>3. CASE User \/ Build
  BY <1>3 DEF User, StartMigration, Acknowledge, Build, Preflight, ResetTarget,
    CopyBusinessTables, CollapseNamespace, Collapsed
<1>4. CASE Swap \/ Finish
  BY <1>4 DEF Swap, PrepareFiles, WriteJournal, RenameSourceToBackup, NoteBackup,
    ActivateTarget, NoteActive, Finish, SmokeCheck, MarkCompleted, ConfirmCompleted,
    DropBackup, DropJournal
<1>5. CASE Restore \/ Trouble
  BY <1>5 DEF Restore, RestoreWithoutBackup, SetTargetAside, RestoreBackup, RemoveJournal,
    ReportFailure, HandleFailure, Trouble, BuildFails, SmokeFails, Crash, LoseTarget,
    Refused, OperationFails, SyncFails, SecondFails
<1>. QED
  BY <1>1, <1>2, <1>3, <1>4, <1>5 DEF Next, Work

\* Every step of a store with conversations stays within the situations of a swap.
LEMMA StockedStep ==
  ASSUME RestInv, Stocked, ~denied', Next
  PROVE  Stocked'
<1>. USE NoFileIs, BlankIs DEF RestInv, Typing, TypeOK, FilesAtHand, Holding, Journaled, Staged,
       Leftovers, Exists, Stocked, Stages, Unswapped, SwapStage, Before, Between, After, Done, Old, New,
       Compact, Closing, Unfinished
<1>1. CASE Launch
  BY <1>1 DEF Launch, Stopped
<1>2. CASE Boot
  <2>1. CASE RepairNothing \/ RepairForward
    BY <2>1 DEF RepairNothing, RepairForward, CanFinish
  <2>2. CASE RepairBack
    BY <2>2 DEF RepairBack, CanFinish
  <2>3. CASE InitSchema
    BY <2>3 DEF InitSchema
  <2>. QED
    BY <1>2, <2>1, <2>2, <2>3 DEF Boot
<1>3. CASE Recover
  <2>1. CASE Inspect
    <3>1. /\ active'.form = active.form /\ active'.roots = active.roots /\ Exists(active')
          /\ active'.status = Required(active)
      BY <2>1, MarkedIs, RequiredIs DEF Inspect
    <3>2. /\ Old(active) => Required(active) \in {"pending", "running", "failed"}
          /\ Compact(active) => Required(active) = active.status
      BY DEF Required, LegacyNamespaces
    <3>. QED
      BY <2>1, <3>1, <3>2 DEF Inspect
  <2>2. CASE RecoverNothing
    BY <2>2 DEF RecoverNothing
  <2>3. CASE RecoverPhase
    BY <2>3 DEF RecoverPhase
  <2>. QED
    BY <1>3, <2>1, <2>2, <2>3 DEF Recover
<1>4. CASE User
  <2>1. CASE StartMigration
    BY <2>1 DEF StartMigration
  <2>2. CASE Acknowledge
    BY <2>2, MarkedIs DEF Acknowledge, Statuses
  <2>. QED
    BY <1>4, <2>1, <2>2 DEF User
<1>5. CASE Build
  <2>1. CASE Preflight
    BY <2>1, MarkedIs DEF Preflight, Statuses
  <2>2. CASE ResetTarget
    BY <2>2 DEF ResetTarget
  <2>3. CASE CopyBusinessTables
    BY <2>3, MarkedIs DEF CopyBusinessTables, Statuses
  <2>4. CASE CollapseNamespace
    BY <2>4 DEF CollapseNamespace, LegacyNamespaces
  <2>5. CASE Collapsed
    BY <2>5 DEF Collapsed, LegacyNamespaces
  <2>. QED
    BY <1>5, <2>1, <2>2, <2>3, <2>4, <2>5 DEF Build
<1>6. CASE Swap
  <2>1. CASE PrepareFiles \/ WriteJournal
    BY <2>1 DEF PrepareFiles, WriteJournal
  <2>2. CASE RenameSourceToBackup
    BY <2>2 DEF RenameSourceToBackup
  <2>3. CASE NoteBackup \/ NoteActive
    BY <2>3 DEF NoteBackup, NoteActive
  <2>4. CASE ActivateTarget
    BY <2>4 DEF ActivateTarget
  <2>. QED
    BY <1>6, <2>1, <2>2, <2>3, <2>4 DEF Swap
<1>7. CASE Finish
  <2>1. CASE SmokeCheck
    BY <2>1 DEF SmokeCheck, Sound
  <2>2. CASE MarkCompleted
    BY <2>2, MarkedIs DEF MarkCompleted, Statuses
  <2>3. CASE ConfirmCompleted
    BY <2>3 DEF ConfirmCompleted
  <2>4. CASE DropBackup
    BY <2>4 DEF DropBackup
  <2>5. CASE DropJournal
    BY <2>5 DEF DropJournal
  <2>. QED
    BY <1>7, <2>1, <2>2, <2>3, <2>4, <2>5 DEF Finish
<1>8. CASE Restore
  <2>1. CASE RestoreWithoutBackup
    BY <2>1 DEF RestoreWithoutBackup
  <2>2. CASE SetTargetAside
    BY <2>2 DEF SetTargetAside
  <2>3. CASE RestoreBackup
    BY <2>3 DEF RestoreBackup
  <2>4. CASE RemoveJournal
    BY <2>4 DEF RemoveJournal
  <2>5. CASE ReportFailure
    BY <2>5, MarkedIs DEF ReportFailure, Raised, Statuses
  <2>6. CASE HandleFailure
    BY <2>6, MarkedIs DEF HandleFailure, Statuses
  <2>. QED
    BY <1>8, <2>1, <2>2, <2>3, <2>4, <2>5, <2>6 DEF Restore
<1>9. CASE Trouble
  <2>1. CASE BuildFails
    BY <2>1, MarkedIs DEF BuildFails, Statuses
  <2>2. CASE SmokeFails
    BY <2>2 DEF SmokeFails
  <2>3. CASE Crash
    BY <2>3 DEF Crash
  <2>4. CASE LoseTarget
    BY <2>4 DEF LoseTarget, Stopped
  <2>5. CASE Refused
    BY <2>5 DEF Refused, OperationFails, SyncFails, SecondFails
  <2>. QED
    BY <1>9, <2>1, <2>2, <2>3, <2>4, <2>5 DEF Trouble
<1>. QED
  BY <1>1, <1>2, <1>3, <1>4, <1>5, <1>6, <1>7, <1>8, <1>9 DEF Next, Work

\* What was refused once is not forgotten.
LEMMA DeniedStays == Next => (denied => denied')
<1>1. Launch \/ Boot \/ Recover => denied' = denied
  BY DEF Launch, Boot, RepairNothing, RepairForward, RepairBack, InitSchema, Recover,
    RecoverNothing, RecoverPhase, Inspect
<1>2. User \/ Build => denied' = denied
  BY DEF User, StartMigration, Acknowledge, Build, Preflight, ResetTarget, CopyBusinessTables,
    CollapseNamespace, Collapsed
<1>3. Swap \/ Finish => denied' = denied
  BY DEF Swap, PrepareFiles, WriteJournal, RenameSourceToBackup, NoteBackup, ActivateTarget,
    NoteActive, Finish, SmokeCheck, MarkCompleted, ConfirmCompleted, DropBackup, DropJournal
<1>4. Restore \/ Trouble => (denied => denied')
  BY DEF Restore, RestoreWithoutBackup, SetTargetAside, RestoreBackup, RemoveJournal,
    ReportFailure, HandleFailure, Trouble, BuildFails, SmokeFails, Crash, LoseTarget,
    Refused, OperationFails, SyncFails, SecondFails
<1>. QED
  BY <1>1, <1>2, <1>3, <1>4 DEF Next, Work

ContentInv == RestInv /\ (denied \/ Contents)

\* Until an operation on a file is refused the files are in one of the situations of Contents.
THEOREM ContentInvariant == Spec => []ContentInv
<1>1. Init => Contents
  <2>. SUFFICES ASSUME Init
                PROVE  Contents
    OBVIOUS
  <2>1. CASE heads = {}
    <3>1. active.status = "none" /\ active.roots = {}
      BY <2>1, NoFileIs, LegacyIs DEF Init, Statuses
    <3>. QED
      BY <2>1, <3>1, NoFileIs DEF Init, Contents, Empty, Settled, Stopped
  <2>2. CASE heads # {}
    <3>1. active.status = "none" /\ active.form = "legacy" /\ active.roots = heads
      BY <2>2, LegacyIs DEF Init, Statuses
    <3>. QED
      BY <2>2, <3>1, NoFileIs DEF Init, Contents, Stocked, Stages, Unswapped, Old
  <2>. QED
    BY <2>1, <2>2
<1>2. ContentInv /\ [Next]_vars => (denied \/ Contents)'
  <2>1. ASSUME ContentInv, Next
        PROVE  (denied \/ Contents)'
    BY <2>1, EmptyStep, StockedStep, DeniedStays DEF ContentInv, RestInv, Contents
  <2>2. ASSUME ContentInv, UNCHANGED vars
        PROVE  (denied \/ Contents)'
    BY <2>2 DEF ContentInv, Contents, Empty, Stocked, Stages, Settled, Unswapped, SwapStage,
      Before, Between, After, Done, Old, New, Compact, vars
  <2>. QED
    BY <2>1, <2>2
<1>. QED
  BY <1>1, <1>2, RestInvariant, PTL DEF ContentInv, Spec

\* After any crashes, and until an operation on a file is refused, the conversations are opened
\* only on a database that has all of them.
THEOREM CompleteWhenServed == Spec => []ServedIsComplete
<1>1. ContentInv => ServedIsComplete
  BY DEF ContentInv, RestInv, Typing, FilesAtHand, Holding, ServedIsSettled, Contents, Empty,
    Stocked, Unswapped, Old, Compact, ServedIsComplete, Complete
<1>. QED
  BY <1>1, ContentInvariant, PTL

\* A start that finishes an interrupted swap drops the backup only for a complete database.
THEOREM VerifiedWhenRecovered == Spec => []RecoversVerified
<1>1. ContentInv => RecoversVerified
  BY DEF ContentInv, RestInv, Typing, FilesAtHand, Holding, Contents, Empty, Stopped, Stocked,
    Stages, After, Done, New, Compact, RecoversVerified, Complete
<1>. QED
  BY <1>1, ContentInvariant, PTL

-----------------------------------------------------------------------------
(* The old database and its successor.                                     *)

\* The old database is given up in one place.
LEMMA GivenUp ==
  ASSUME RestInv, Stocked, Next
  PROVE  \/ HasLegacy' = HasLegacy
         \/ pc = "dropBackup" /\ HasLegacy /\ ~HasLegacy'
<1>. USE NoFileIs, BlankIs DEF RestInv, Typing, TypeOK, FilesAtHand, Holding, Journaled,
       Leftovers, Exists, Stocked, Stages, Before, Between, After, Done, Old, New, Compact,
       HasLegacy, Closing
<1>1. CASE Launch \/ Boot
  BY <1>1 DEF Launch, Boot, RepairNothing, RepairForward, RepairBack, InitSchema, CanFinish
<1>2. CASE Recover
  <2>1. CASE Inspect
    <3>1. active'.form = active.form
      BY <2>1, MarkedIs, RequiredIs DEF Inspect
    <3>. QED
      BY <2>1, <3>1 DEF Inspect
  <2>2. CASE RecoverNothing \/ RecoverPhase
    BY <2>2 DEF RecoverNothing, RecoverPhase
  <2>. QED
    BY <1>2, <2>1, <2>2 DEF Recover
<1>3. CASE User
  BY <1>3, MarkedIs DEF User, StartMigration, Acknowledge, Statuses
<1>4. CASE Build
  BY <1>4, MarkedIs DEF Build, Preflight, ResetTarget, CopyBusinessTables, CollapseNamespace,
    Collapsed, Statuses
<1>5. CASE Swap
  BY <1>5 DEF Swap, PrepareFiles, WriteJournal, RenameSourceToBackup, NoteBackup, ActivateTarget,
    NoteActive
<1>6. CASE Finish
  BY <1>6, MarkedIs DEF Finish, SmokeCheck, MarkCompleted, ConfirmCompleted, DropBackup,
    DropJournal, Statuses
<1>7. CASE Restore
  BY <1>7, MarkedIs DEF Restore, RestoreWithoutBackup, SetTargetAside, RestoreBackup,
    RemoveJournal, ReportFailure, HandleFailure, Statuses
<1>8. CASE Trouble
  BY <1>8, MarkedIs DEF Trouble, BuildFails, SmokeFails, Crash, LoseTarget, Refused,
    OperationFails, SyncFails, SecondFails, Statuses
<1>. QED
  BY <1>1, <1>2, <1>3, <1>4, <1>5, <1>6, <1>7, <1>8 DEF Next, Work

\* The last copy of the old database goes when its successor is complete and marked completed.
THEOREM OldKept == Spec => OldKeptUntilVerified
<1>1. ContentInv /\ [Next]_vars
        => [HasLegacy /\ ~HasLegacy' /\ ~denied
              => Complete(active) /\ active.status = "completed"]_vars
  <2>. SUFFICES ASSUME ContentInv, Next, HasLegacy, ~HasLegacy', ~denied
                PROVE  Complete(active) /\ active.status = "completed"
    BY DEF vars
  <2>1. CASE Stocked
    <3>1. pc = "dropBackup"
      BY <2>1, GivenUp DEF ContentInv
    <3>. QED
      BY <2>1, <3>1 DEF ContentInv, RestInv, Typing, FilesAtHand, Holding, Staged, Stocked,
        Stages, After, Done, New, Compact, Complete
  <2>2. CASE heads = {} /\ Empty
    <3>1. active' = active
      BY <2>2, EmptyStep, NoFileIs
      DEF ContentInv, RestInv, Empty, Settled, HasLegacy, Exists
    <3>. QED
      BY <2>2, <3>1, NoFileIs DEF Empty, Settled, HasLegacy, Exists
  <2>. QED
    BY <2>1, <2>2 DEF ContentInv, Contents
<1>. QED
  BY <1>1, ContentInvariant, PTL DEF Spec, OldKeptUntilVerified

\* Who opens and closes the conversations.
LEMMA Opening ==
  ASSUME Next
  PROVE  /\ heads' = heads
         /\ pc = "serving" => pc' = "down" /\ UNCHANGED files
         /\ pc # "serving" /\ pc' = "serving"
              => Inspect /\ Required(active) \in {"none", "acknowledged"}
<1>1. CASE Launch \/ Boot
  BY <1>1 DEF Launch, Boot, RepairNothing, RepairForward, RepairBack, InitSchema, Stopped
<1>2. CASE Recover
  BY <1>2 DEF Recover, RecoverNothing, RecoverPhase, Inspect
<1>3. CASE User \/ Build
  BY <1>3 DEF User, StartMigration, Acknowledge, Build, Preflight, ResetTarget,
    CopyBusinessTables, CollapseNamespace, Collapsed
<1>4. CASE Swap \/ Finish
  BY <1>4 DEF Swap, PrepareFiles, WriteJournal, RenameSourceToBackup, NoteBackup,
    ActivateTarget, NoteActive, Finish, SmokeCheck, MarkCompleted, ConfirmCompleted,
    DropBackup, DropJournal
<1>5. CASE Restore \/ Trouble
  BY <1>5 DEF Restore, RestoreWithoutBackup, SetTargetAside, RestoreBackup, RemoveJournal,
    ReportFailure, HandleFailure, Raised, Trouble, BuildFails, SmokeFails, Crash, LoseTarget,
    Refused, OperationFails, SyncFails, SecondFails, Stopped
<1>. QED
  BY <1>1, <1>2, <1>3, <1>4, <1>5 DEF Next, Work

\* One complete database or the old one, never neither.
KeptIsOneOfBoth == Kept = IF heads # {} /\ HasLegacy THEN "legacy" ELSE "compact"

\* The mapping of the refinement in terms of the old database.
LEMMA KeptIs == ContentInv => denied \/ KeptIsOneOfBoth
<1>1. CASE heads = {}
  BY <1>1 DEF Kept, KeptIsOneOfBoth
<1>2. ASSUME ContentInv, ~denied, heads # {}, ~HasLegacy
      PROVE  KeptIsOneOfBoth
  <2>1. active.roots = heads /\ Exists(active)
    BY <1>2, NoFileIs
    DEF ContentInv, Contents, Stocked, Unswapped, SwapStage, Before, Between, After, Done, Old,
      New, Compact, HasLegacy, Exists
  <2>. QED
    BY <1>2, <2>1 DEF Kept, KeptIsOneOfBoth, Complete
<1>. QED
  BY <1>1, <1>2 DEF Kept, KeptIsOneOfBoth

\* Every step is one of CheckpointStore or leaves it alone.
LEMMA StoreStep ==
  ASSUME ContentInv, ~denied', KeptIsOneOfBoth, KeptIsOneOfBoth', Next
  PROVE  Store!Next \/ UNCHANGED <<Kept, pc = "serving">>
<1>. USE DEF Store!Next, Store!Commit, Store!Open, Store!Close, KeptIsOneOfBoth
<1>0. ~denied /\ Contents
  BY DeniedStays DEF ContentInv
<1>1. heads' = heads
  BY Opening
<1>2. CASE pc = "serving"
  <2>1. Kept' = Kept
    BY <1>1, <1>2, Opening DEF HasLegacy, files
  <2>. QED
    BY <1>2, <2>1, Opening
<1>3. CASE pc # "serving" /\ pc' = "serving"
  <2>1. Inspect /\ Required(active) \in {"none", "acknowledged"}
    BY <1>3, Opening
  <2>2. Kept = "compact"
    <3>1. CASE Stocked
      <4>1. active.form # "legacy"
        BY <2>1, <3>1, NoFileIs
        DEF ContentInv, RestInv, Journaled, Stocked, Unswapped, Old, Compact, Inspect, Required,
          LegacyNamespaces
      <4>2. target.form # "legacy" /\ backup.form # "legacy"
        BY <2>1, <3>1, NoFileIs
        DEF ContentInv, RestInv, Journaled, Leftovers, Stocked, Inspect, Exists
      <4>. QED
        BY <4>1, <4>2 DEF HasLegacy
    <3>. QED
      BY <1>0, <3>1 DEF Contents
  <2>3. Kept' = Kept
    <3>1. CASE Stocked
      <4>1. HasLegacy' = HasLegacy
        BY <2>1, <3>1, GivenUp DEF ContentInv, Inspect
      <4>. QED
        BY <1>1, <4>1
    <3>. QED
      BY <1>0, <1>1, <3>1 DEF Contents
  <2>. QED
    BY <1>3, <2>2, <2>3
<1>4. CASE pc # "serving" /\ pc' # "serving"
  <2>1. CASE Stocked
    <3>1. HasLegacy' = HasLegacy \/ (HasLegacy /\ ~HasLegacy')
      BY <2>1, GivenUp DEF ContentInv
    <3>. QED
      BY <1>1, <1>4, <3>1
  <2>. QED
    BY <1>0, <1>1, <1>4, <2>1 DEF Contents
<1>. QED
  BY <1>2, <1>3, <1>4

\* The migration implements CheckpointStore: one form of the store is always complete, it changes
\* once, and the conversations are opened in the new form only.
THEOREM Implements == Spec => ImplementsStore
<1>1. Init => Store!Init
  <2>. SUFFICES ASSUME Init
                PROVE  Store!Init
    OBVIOUS
  <2>1. heads # {} => HasLegacy
    BY LegacyIs DEF Init, HasLegacy, Statuses
  <2>. QED
    BY <2>1 DEF Init, Kept, Store!Init
<1>2. ASSUME ContentInv, denied \/ KeptIsOneOfBoth, (denied \/ KeptIsOneOfBoth)', [Next]_vars
      PROVE  [~denied' => Store!Next]_<<Kept, pc = "serving">>
  <2>1. CASE Next /\ ~denied'
    BY <1>2, <2>1, DeniedStays, StoreStep
  <2>2. CASE UNCHANGED vars
    BY <2>2 DEF vars, Kept, HasLegacy, Complete
  <2>. QED
    BY <1>2, <2>1, <2>2
<1>. QED
  BY <1>1, <1>2, ContentInvariant, KeptIs, PTL DEF Spec, ImplementsStore
=============================================================================
