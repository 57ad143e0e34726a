-------------------------- MODULE DatabaseUpgrade --------------------------
(***************************************************************************)
(* The upgrade of one profile database (services/database_upgrade) with    *)
(* the MESH adapter.  A worker process holds the maintenance lock, backs   *)
(* the database up, builds a shadow database and a shadow parsed           *)
(* directory, moves the old pair aside and the new pair in, tests it, and  *)
(* keeps the old pair with the backup; an exception at any step makes it   *)
(* undo the switch.  A journal per operation records the stage.  When the  *)
(* backend starts it recovers every journal a dead worker left behind.     *)
(*                                                                         *)
(* Every move of a file is a step; workers, the backend and the recovery   *)
(* itself may die between any two.  A content is named by the operation    *)
(* that built it; the -wal and -shm files, which the checkpoints leave     *)
(* empty, and the reuse of an identical earlier backup are left out.       *)
(***************************************************************************)
EXTENDS Naturals

CONSTANTS Ops,       \* operation ids, each used once
          HOME,      \* the content the profile starts with
          NONE,      \* no file
          Initial,   \* what the profile may start with: HOME, or NONE for a first creation
          MaxCrash,  \* bound: deaths of workers and of a starting backend
          MaxError   \* bound: exceptions

ASSUME ContentAssumption == NONE # HOME /\ NONE \notin Ops /\ HOME \notin Ops
ASSUME LockAssumption == "free" \notin Ops /\ "boot" \notin Ops
ASSUME InitialAssumption == Initial \subseteq {HOME, NONE}
ASSUME BoundAssumption == MaxCrash \in Nat /\ MaxError \in Nat

Content == {HOME, NONE} \cup Ops

VARIABLES
  active, parsed,       \* the database file and the parsed directory in use
  shadow, pshadow,      \* [Ops -> Content]: database and directory being built
  rollback, prollback,  \* the old ones, moved aside by the switch
  backup,               \* the verified copy: database.sqlite of the backup
  kept, pkept,          \* rollback.sqlite and rollback_parsed of the backup
  attic, pattic,        \* the other contents retained below the backup centre
  journal,              \* the journal file of each operation
  worker,               \* the process of each operation
  boot,                 \* the backend: serving, down, or recovering what it found
  lock,                 \* holder of the maintenance lock: "free", "boot" or an operation
  hist,                 \* history: initial and last begun content, and what went wrong
  crashes, errors

dbs == <<active, shadow, rollback, backup, kept, attic>>
dirs == <<parsed, pshadow, prollback, pkept, pattic>>
vars == <<dbs, dirs, journal, worker, boot, lock, hist, crashes, errors>>

-----------------------------------------------------------------------------
(* The journal.                                                            *)

Settled == {"completed", "failed_before_switch", "failed_rolled_back",
            "diagnostic_retention_failed", "recovered_no_switch", "recovered_rollback",
            "recovered_from_backup", "recovered_new_database",
            "recovered_no_existing_database"}
Stages == Settled \cup {"none", "created", "checkpoint", "backup_failed", "backup_validated",
                        "shadow_building", "shadow_validated", "switched", "smoke_failed",
                        "smoke_validated", "failed", "rollback_failed", "recovery_failed"}

\* stage, and whether backup_path, adapter_state and switched are recorded.
Journal == [stage : Stages, backup : BOOLEAN, adapter : BOOLEAN, switched : BOOLEAN]
Blank == [stage |-> "none", backup |-> FALSE, adapter |-> FALSE, switched |-> FALSE]

WorkSteps == {"pause", "backup", "record", "prepare", "build", "fill", "validate", "ready",
              "move_db", "move_dir", "place_db", "place_dir", "rewrite", "announce",
              "smoke", "keep_db", "keep_dir", "complete"}
UndoSteps == {"undo_db", "undo_shadow", "undo_dir", "redo_db", "redo_dir"}
Steps == WorkSteps \cup UndoSteps
         \cup {"raised", "restore", "closing", "stuck", "discard_db", "discard_dir",
               "discarded", "undiscarded", "abort"}
Worker == [pc : Steps \cup {"new", "gone"},
           data : Journal,     \* the journal as the process last wrote it
           started : BOOLEAN,  \* switch_started
           existed : BOOLEAN,  \* the backup found a database
           moved : BOOLEAN]    \* the adapter's rollback_parsed is set

Idle == [pc |-> "new", data |-> Blank, started |-> FALSE, existed |-> FALSE, moved |-> FALSE]
Gone == [Idle EXCEPT !.pc = "gone"]

Recovering == {"choose", "keep_db", "keep_dir", "away_db", "away_dir", "take_dir", "recopy",
               "aside", "back", "copy", "clear_dir", "back_dir", "tidy_db", "tidy_dir",
               "check", "finish"}
BootSteps == {"up", "down", "scan", "wait", "failing"} \cup Recovering
Quiet(pc) == [pc |-> pc, found |-> {}, todo |-> {}, op |-> NONE, value |-> Blank,
              current |-> Blank, result |-> "none", blocked |-> FALSE]

Init ==
  /\ \E c \in Initial :
       /\ active = c /\ parsed = c
       /\ hist = [start |-> c, before |-> c, last |-> NONE, clean |-> TRUE, calm |-> TRUE]
  /\ shadow = [o \in Ops |-> NONE] /\ pshadow = [o \in Ops |-> NONE]
  /\ rollback = [o \in Ops |-> NONE] /\ prollback = [o \in Ops |-> NONE]
  /\ backup = [o \in Ops |-> NONE]
  /\ kept = [o \in Ops |-> NONE] /\ pkept = [o \in Ops |-> NONE]
  /\ attic = {} /\ pattic = {}
  /\ journal = [o \in Ops |-> Blank] /\ worker = [o \in Ops |-> Idle]
  /\ boot = Quiet("up") /\ lock = "free" /\ crashes = 0 /\ errors = 0

\* A content moved out of the way below the backup centre, under a fresh name.
Retained(a, c) == a \cup ({c} \ {NONE})

-----------------------------------------------------------------------------
(* The worker.                                                             *)

others == <<boot, lock, hist, crashes, errors>>

Goto(o, from, to) == worker[o].pc = from /\ worker' = [worker EXCEPT ![o].pc = to]

\* DatabaseUpgradeJournal.update: the process writes all it knows.
Update(o, from, to, data) ==
  /\ worker[o].pc = from
  /\ worker' = [worker EXCEPT ![o] = [@ EXCEPT !.pc = to, !.data = data]]
  /\ journal' = [journal EXCEPT ![o] = data]
Stage(o, from, to, s) == Update(o, from, to, [worker[o].data EXCEPT !.stage = s])

\* The last update, and the end of the with block that holds the lock.
Close(o, from, s) ==
  /\ worker[o].pc = from
  /\ worker' = [worker EXCEPT ![o] = Gone]
  /\ journal' = [journal EXCEPT ![o] = [worker[o].data EXCEPT !.stage = s]]
  /\ lock' = "free"
  /\ UNCHANGED <<dbs, dirs, boot, hist, crashes, errors>>

\* Nothing asks whether another operation was left unfinished, nor whether the
\* backend serves: a worker that waited for the lock may have outlived it, and
\* the maintenance script needs no backend.
Begin(o) ==
  /\ lock = "free"
  /\ Stage(o, "new", "pause", "created")
  /\ lock' = o
  /\ hist' = [hist EXCEPT !.before = active, !.last = o,
                          !.clean = @ /\ \A p \in Ops : journal[p].stage \in Settled \cup {"none"}]
  /\ UNCHANGED <<dbs, dirs, boot, crashes, errors>>

Pause(o) == Stage(o, "pause", "backup", "checkpoint") /\ UNCHANGED <<dbs, dirs, others>>

Backup(o) ==
  /\ worker[o].pc = "backup"
  /\ backup' = [backup EXCEPT ![o] = active]
  /\ worker' = [worker EXCEPT ![o] = [@ EXCEPT !.pc = "record", !.existed = active # NONE]]
  /\ UNCHANGED <<active, shadow, rollback, kept, attic, dirs, journal, others>>

\* The copy is recorded once it is verified; if it is not, the upgrade stops.
RecordBackup(o) ==
  /\ \/ Update(o, "record", "prepare",
               [worker[o].data EXCEPT !.stage = "backup_validated", !.backup = TRUE])
     \/ /\ worker[o].existed
        /\ Update(o, "record", "raised",
                  [worker[o].data EXCEPT !.stage = "backup_failed", !.backup = TRUE])
  /\ UNCHANGED <<dbs, dirs, others>>

Prepare(o) ==
  /\ shadow[o] = NONE /\ rollback[o] = NONE
  /\ Stage(o, "prepare", "build", "shadow_building")
  /\ UNCHANGED <<dbs, dirs, others>>

BuildParsed(o) ==
  /\ Goto(o, "build", "fill")
  /\ pshadow' = [pshadow EXCEPT ![o] = o]
  /\ UNCHANGED <<dbs, parsed, prollback, pkept, pattic, journal, others>>

BuildShadow(o) ==
  /\ Goto(o, "fill", "validate")
  /\ shadow' = [shadow EXCEPT ![o] = o]
  /\ UNCHANGED <<active, rollback, backup, kept, attic, dirs, journal, others>>

Validated(o) ==
  /\ Update(o, "validate", "ready",
            [worker[o].data EXCEPT !.stage = "shadow_validated", !.adapter = TRUE])
  /\ UNCHANGED <<dbs, dirs, others>>

StartSwitch(o) ==
  /\ worker[o].pc = "ready"
  /\ worker' = [worker EXCEPT ![o] = [@ EXCEPT !.pc = "move_db", !.started = TRUE]]
  /\ UNCHANGED <<dbs, dirs, journal, others>>

-----------------------------------------------------------------------------
(* The adapter's switch, and what follows it.                              *)

MoveActive(o) ==
  /\ Goto(o, "move_db", "move_dir")
  /\ rollback' = [rollback EXCEPT ![o] = active] /\ active' = NONE
  /\ UNCHANGED <<shadow, backup, kept, attic, dirs, journal, others>>

MoveParsed(o) ==
  /\ worker[o].pc = "move_dir"
  /\ worker' = [worker EXCEPT ![o] = [@ EXCEPT !.pc = "place_db", !.moved = parsed # NONE]]
  /\ prollback' = [prollback EXCEPT ![o] = parsed] /\ parsed' = NONE
  /\ UNCHANGED <<dbs, pshadow, pkept, pattic, journal, others>>

PlaceShadow(o) ==
  /\ Goto(o, "place_db", "place_dir")
  /\ active' = shadow[o] /\ shadow' = [shadow EXCEPT ![o] = NONE]
  /\ UNCHANGED <<rollback, backup, kept, attic, dirs, journal, others>>

PlaceParsed(o) ==
  /\ Goto(o, "place_dir", "rewrite")
  /\ parsed' = pshadow[o] /\ pshadow' = [pshadow EXCEPT ![o] = NONE]
  /\ UNCHANGED <<dbs, prollback, pkept, pattic, journal, others>>

\* The paths stored in the database are rewritten in place.
RewritePaths(o) == Goto(o, "rewrite", "announce") /\ UNCHANGED <<dbs, dirs, journal, others>>

Announce(o) ==
  /\ Update(o, "announce", "smoke",
            [worker[o].data EXCEPT !.stage = "switched", !.switched = TRUE])
  /\ UNCHANGED <<dbs, dirs, others>>

SmokeTest(o) ==
  /\ \/ Stage(o, "smoke", "keep_db", "smoke_validated")
     \/ Stage(o, "smoke", "raised", "smoke_failed")
  /\ UNCHANGED <<dbs, dirs, others>>

\* finalize_success: the old pair joins the backup.
KeepRollback(o) ==
  /\ Goto(o, "keep_db", "keep_dir")
  /\ kept' = [kept EXCEPT ![o] = rollback[o]] /\ rollback' = [rollback EXCEPT ![o] = NONE]
  /\ UNCHANGED <<active, shadow, backup, attic, dirs, journal, others>>

KeepParsed(o) ==
  /\ Goto(o, "keep_dir", "complete")
  /\ pkept' = [pkept EXCEPT ![o] = prollback[o]] /\ prollback' = [prollback EXCEPT ![o] = NONE]
  /\ UNCHANGED <<dbs, parsed, pshadow, pattic, journal, others>>

Complete(o) == Close(o, "complete", "completed")

-----------------------------------------------------------------------------
(* The except branch of the upgrade.                                       *)

\* What update has put into its record when the write of it fails.
Remembered(o) ==
  LET d == worker[o].data IN
  CASE worker[o].pc = "record" -> {[d EXCEPT !.backup = TRUE]}
    [] worker[o].pc = "validate" -> {d, [d EXCEPT !.adapter = TRUE]}
    [] worker[o].pc = "announce" -> {[d EXCEPT !.switched = TRUE]}
    [] OTHER -> {d}

\* A step fails, or the task is cancelled between two steps.
Raise(o) ==
  /\ errors < MaxError
  /\ worker[o].pc \in WorkSteps
  /\ \E d \in Remembered(o) :
       worker' = [worker EXCEPT ![o] = [@ EXCEPT !.pc = "raised", !.data = d]]
  /\ errors' = errors + 1
  /\ UNCHANGED <<dbs, dirs, journal, boot, lock, hist, crashes>>

Failed(o) ==
  /\ Stage(o, "raised",
           IF worker[o].started \/ rollback[o] # NONE THEN "undo_db"
           ELSE IF shadow[o] # NONE \/ pshadow[o] # NONE THEN "discard_db" ELSE "abort",
           "failed")
  /\ UNCHANGED <<dbs, dirs, others>>

\* The adapter's rollback: the new pair is retained, the old one put back.
UndoActive(o) ==
  /\ Goto(o, "undo_db", "undo_shadow")
  /\ attic' = Retained(attic, active) /\ active' = NONE
  /\ UNCHANGED <<shadow, rollback, backup, kept, dirs, journal, others>>

UndoShadow(o) ==
  /\ Goto(o, "undo_shadow", "undo_dir")
  /\ attic' = Retained(attic, shadow[o]) /\ shadow' = [shadow EXCEPT ![o] = NONE]
  /\ UNCHANGED <<active, rollback, backup, kept, dirs, journal, others>>

UndoParsed(o) ==
  /\ Goto(o, "undo_dir", "redo_db")
  /\ pattic' = Retained(pattic, parsed) /\ parsed' = NONE
  /\ UNCHANGED <<dbs, pshadow, prollback, pkept, journal, others>>

RedoActive(o) ==
  /\ Goto(o, "redo_db", "redo_dir")
  /\ active' = IF rollback[o] # NONE THEN rollback[o] ELSE kept[o]
  /\ rollback' = [rollback EXCEPT ![o] = NONE]
  /\ kept' = [kept EXCEPT ![o] = IF rollback[o] # NONE THEN @ ELSE NONE]
  /\ UNCHANGED <<shadow, backup, attic, dirs, journal, others>>

RedoParsed(o) ==
  /\ Goto(o, "redo_dir", "restore")
  /\ parsed' = IF worker[o].moved /\ prollback[o] # NONE THEN prollback[o] ELSE pkept[o]
  /\ prollback' = [prollback EXCEPT ![o] = IF worker[o].moved THEN NONE ELSE @]
  /\ pkept' = [pkept EXCEPT ![o] = IF worker[o].moved /\ prollback[o] # NONE THEN @ ELSE NONE]
  /\ UNCHANGED <<dbs, pshadow, pattic, journal, others>>

\* An exception in the rollback only ends the rollback.
UndoFails(o) ==
  /\ errors < MaxError
  /\ worker[o].pc \in UndoSteps
  /\ Goto(o, worker[o].pc, "restore")
  /\ errors' = errors + 1 /\ hist' = [hist EXCEPT !.calm = FALSE]
  /\ UNCHANGED <<dbs, dirs, journal, boot, lock, crashes>>

\* Mutant: the rollback is trusted to have put a database back.
RestoreTrusts(o) ==
  /\ Goto(o, "restore", "closing")
  /\ UNCHANGED <<dbs, dirs, journal, others>>

\* _restore_active_from_backup_if_needed: a valid database is left alone.
Restore(o) ==
  /\ active' = IF worker[o].existed /\ active = NONE THEN backup[o] ELSE active
  /\ Goto(o, "restore", IF worker[o].existed = (active' # NONE) THEN "closing" ELSE "stuck")
  /\ UNCHANGED <<shadow, rollback, backup, kept, attic, dirs, journal, others>>

RolledBack(o) == Close(o, "closing", "failed_rolled_back")
RollbackFailed(o) == Close(o, "stuck", "rollback_failed")

\* Before the switch: the shadow pair is retained, or stays if that fails.
DiscardShadow(o) ==
  /\ Goto(o, "discard_db", "discard_dir")
  /\ attic' = Retained(attic, shadow[o]) /\ shadow' = [shadow EXCEPT ![o] = NONE]
  /\ UNCHANGED <<active, rollback, backup, kept, dirs, journal, others>>

DiscardParsed(o) ==
  /\ Goto(o, "discard_dir", "discarded")
  /\ pattic' = Retained(pattic, pshadow[o]) /\ pshadow' = [pshadow EXCEPT ![o] = NONE]
  /\ UNCHANGED <<dbs, parsed, prollback, pkept, journal, others>>

Discarded(o) == Close(o, "discarded", "failed_before_switch")
Aborted(o) == Close(o, "abort", "failed_before_switch")

\* The copy of the backup, the moves or the last update fail as well.
EndFails(o) ==
  /\ errors < MaxError
  /\ \/ worker[o].existed /\ active = NONE /\ Goto(o, "restore", "stuck")
     \/ Goto(o, "closing", "stuck") \/ Goto(o, "abort", "stuck")
     \/ Goto(o, "undiscarded", "stuck")
     \/ \E s \in {"discard_db", "discard_dir", "discarded"} : Goto(o, s, "undiscarded")
  /\ errors' = errors + 1 /\ hist' = [hist EXCEPT !.calm = FALSE]
  /\ UNCHANGED <<dbs, dirs, journal, boot, lock, crashes>>

NotDiscarded(o) == Close(o, "undiscarded", "diagnostic_retention_failed")

WorkerDies(o) ==
  /\ crashes < MaxCrash
  /\ worker[o].pc \in Steps
  /\ worker' = [worker EXCEPT ![o] = Gone]
  /\ lock' = "free" /\ crashes' = crashes + 1
  /\ UNCHANGED <<dbs, dirs, journal, boot, hist, errors>>
-----------------------------------------------------------------------------
(* The backend: recover_incomplete_upgrades when it starts.                *)

BGoto(from, to) == boot.pc = from /\ boot' = [boot EXCEPT !.pc = to]
workers == <<worker, crashes, errors>>
Rest == <<journal, lock, hist, workers>>

\* The program is closed or dies; a worker may outlive it.
BackendStops ==
  /\ BGoto("up", "down")
  /\ UNCHANGED <<dbs, dirs, Rest>>

BackendDies ==
  /\ crashes < MaxCrash
  /\ boot.pc \notin {"up", "down"}
  /\ boot' = Quiet("down")
  /\ lock' = IF lock = "boot" THEN "free" ELSE lock
  /\ crashes' = crashes + 1
  /\ UNCHANGED <<dbs, dirs, journal, worker, hist, errors>>

\* The journals are listed once; one that is begun later is not seen.
BackendStarts ==
  /\ boot.pc = "down"
  /\ LET listed == {o \in Ops : journal[o].stage # "none"} IN
     boot' = [Quiet("scan") EXCEPT !.found = listed, !.todo = listed]
  /\ UNCHANGED <<dbs, dirs, Rest>>

\* The first look at a journal is without the lock.
Look(o) ==
  /\ boot.pc = "scan" /\ o \in boot.todo
  /\ boot' = IF journal[o].stage \in Settled THEN [boot EXCEPT !.todo = @ \ {o}]
             ELSE [boot EXCEPT !.pc = "wait", !.op = o, !.value = journal[o]]
  /\ UNCHANGED <<dbs, dirs, Rest>>

LockAndRead ==
  /\ boot.pc = "wait" /\ lock = "free"
  /\ LET o == boot.op IN
     IF journal[o].stage \in Settled
     THEN /\ boot' = [boot EXCEPT !.pc = "scan", !.todo = @ \ {o}]
          /\ lock' = lock
     ELSE /\ boot' = [boot EXCEPT !.pc = "choose", !.current = journal[o]]
          /\ lock' = "boot"
  /\ UNCHANGED <<dbs, dirs, journal, hist, workers>>

\* A worker that outlived the last backend holds the lock for a minute.
LockTimesOut ==
  /\ lock \in Ops
  /\ BGoto("wait", "failing")
  /\ hist' = [hist EXCEPT !.calm = FALSE]
  /\ UNCHANGED <<dbs, dirs, journal, lock, workers>>

\* An exception leaves the lock; what the first look saw is written back.
RecoveryRaises ==
  /\ errors < MaxError
  /\ boot.pc \in Recovering
  /\ BGoto(boot.pc, "failing")
  /\ lock' = "free" /\ errors' = errors + 1 /\ hist' = [hist EXCEPT !.calm = FALSE]
  /\ UNCHANGED <<dbs, dirs, journal, worker, crashes>>

RecordFailure ==
  /\ boot.pc = "failing"
  /\ journal' = [journal EXCEPT ![boot.op] = [boot.value EXCEPT !.stage = "recovery_failed"]]
  /\ boot' = [boot EXCEPT !.pc = "scan", !.todo = @ \ {boot.op}, !.blocked = TRUE]
  /\ UNCHANGED <<dbs, dirs, lock, hist, workers>>

\* Mutant: the backend serves whatever the recovery reported.
ServeAnyway ==
  /\ boot.pc = "scan" /\ boot.todo = {}
  /\ boot' = Quiet("up")
  /\ UNCHANGED <<dbs, dirs, Rest>>

\* create_app raises if any journal was blocked.
Serve ==
  /\ boot.pc = "scan" /\ boot.todo = {}
  /\ boot' = Quiet(IF boot.blocked THEN "down" ELSE "up")
  /\ UNCHANGED <<dbs, dirs, Rest>>

-----------------------------------------------------------------------------
(* _recover_journal, under the lock.                                       *)

BackupCopy(o) == IF boot.current.backup THEN backup[o] ELSE NONE

\* Mutant: a database in place is taken for the old one.
ChooseActive ==
  /\ boot.pc = "choose"
  /\ boot' =
       IF boot.current.stage = "smoke_validated" /\ active # NONE
       THEN [boot EXCEPT !.pc = "keep_db", !.result = "recovered_new_database"]
       ELSE IF active # NONE
       THEN [boot EXCEPT !.pc = "clear_dir", !.result = "recovered_no_switch"]
       ELSE IF rollback[boot.op] # NONE
       THEN [boot EXCEPT !.pc = "aside", !.result = "recovered_rollback"]
       ELSE [boot EXCEPT !.pc = "copy", !.result = "recovered_from_backup"]
  /\ UNCHANGED <<dbs, dirs, Rest>>

Choose ==
  LET o == boot.op
      j == boot.current
      switched == j.switched /\ j.stage \in {"switched", "smoke_failed", "failed"} IN
  /\ boot.pc = "choose"
  /\ boot' =
       IF j.stage = "smoke_validated" /\ active # NONE
       THEN [boot EXCEPT !.pc = "keep_db", !.result = "recovered_new_database"]
       ELSE IF switched /\ rollback[o] = NONE THEN [boot EXCEPT !.pc = "away_db"]
       ELSE IF rollback[o] # NONE
       THEN [boot EXCEPT !.pc = "aside", !.result = "recovered_rollback"]
       ELSE IF active = NONE THEN [boot EXCEPT !.pc = "copy", !.result = "recovered_from_backup"]
       ELSE [boot EXCEPT !.pc = "clear_dir", !.result = "recovered_no_switch"]
  /\ UNCHANGED <<dbs, dirs, Rest>>

\* The smoke test has passed: the new database stays.
KeepDb ==
  /\ BGoto("keep_db", "keep_dir")
  /\ attic' = Retained(attic, rollback[boot.op])
  /\ rollback' = [rollback EXCEPT ![boot.op] = NONE]
  /\ UNCHANGED <<active, shadow, backup, kept, dirs, Rest>>

KeepDir ==
  /\ BGoto("keep_dir", "tidy_db")
  /\ IF boot.current.adapter
     THEN /\ pattic' = Retained(pattic, prollback[boot.op])
          /\ prollback' = [prollback EXCEPT ![boot.op] = NONE]
     ELSE UNCHANGED <<pattic, prollback>>
  /\ UNCHANGED <<dbs, parsed, pshadow, pkept, Rest>>

\* Switched, and the old database is no longer beside the new one.
AwayDb ==
  /\ BGoto("away_db", "away_dir")
  /\ attic' = Retained(attic, active) /\ active' = NONE
  /\ UNCHANGED <<shadow, rollback, backup, kept, dirs, Rest>>

AwayDir ==
  /\ BGoto("away_dir", "take_dir")
  /\ IF boot.current.adapter THEN pattic' = Retained(pattic, parsed) /\ parsed' = NONE
     ELSE UNCHANGED <<pattic, parsed>>
  /\ UNCHANGED <<dbs, pshadow, prollback, pkept, Rest>>

TakeDir ==
  /\ BGoto("take_dir", "recopy")
  /\ LET o == boot.op IN
     IF boot.current.adapter /\ boot.current.backup /\ pkept[o] # NONE
     THEN parsed' = pkept[o] /\ pkept' = [pkept EXCEPT ![o] = NONE]
     ELSE UNCHANGED <<parsed, pkept>>
  /\ UNCHANGED <<dbs, pshadow, prollback, pattic, Rest>>

Recopy ==
  /\ boot.pc = "recopy"
  /\ LET c == BackupCopy(boot.op) IN
     /\ active' = c
     /\ boot' = IF c # NONE
                THEN [boot EXCEPT !.pc = "clear_dir", !.result = "recovered_from_backup"]
                ELSE [boot EXCEPT !.pc = "finish", !.result = "recovered_no_existing_database"]
  /\ UNCHANGED <<shadow, rollback, backup, kept, attic, dirs, Rest>>

\* Mutant: the rollback replaces the active database.
AsideSkipped ==
  /\ BGoto("aside", "back")
  /\ active' = NONE
  /\ UNCHANGED <<shadow, rollback, backup, kept, attic, dirs, Rest>>

\* The old database is still beside the active one.
Aside ==
  /\ BGoto("aside", "back")
  /\ attic' = Retained(attic, active) /\ active' = NONE
  /\ UNCHANGED <<shadow, rollback, backup, kept, dirs, Rest>>

Back ==
  /\ BGoto("back", "clear_dir")
  /\ active' = rollback[boot.op] /\ rollback' = [rollback EXCEPT ![boot.op] = NONE]
  /\ UNCHANGED <<shadow, backup, kept, attic, dirs, Rest>>

\* Neither is there: the backup, or no way forward.
Copy ==
  /\ boot.pc = "copy"
  /\ LET c == BackupCopy(boot.op) IN
     /\ active' = c
     /\ BGoto("copy", IF c # NONE THEN "clear_dir" ELSE "failing")
     /\ lock' = IF c # NONE THEN lock ELSE "free"
  /\ UNCHANGED <<shadow, rollback, backup, kept, attic, dirs, journal, hist, workers>>

ClearDir ==
  /\ BGoto("clear_dir", "back_dir")
  /\ IF boot.current.adapter /\ prollback[boot.op] # NONE
     THEN pattic' = Retained(pattic, parsed) /\ parsed' = NONE
     ELSE UNCHANGED <<pattic, parsed>>
  /\ UNCHANGED <<dbs, pshadow, prollback, pkept, Rest>>

BackDir ==
  /\ BGoto("back_dir", "tidy_db")
  /\ LET o == boot.op IN
     IF boot.current.adapter /\ prollback[o] # NONE
     THEN parsed' = prollback[o] /\ prollback' = [prollback EXCEPT ![o] = NONE]
     ELSE UNCHANGED <<parsed, prollback>>
  /\ UNCHANGED <<dbs, pshadow, pkept, pattic, Rest>>

TidyDb ==
  /\ BGoto("tidy_db", "tidy_dir")
  /\ attic' = Retained(attic, shadow[boot.op])
  /\ shadow' = [shadow EXCEPT ![boot.op] = NONE]
  /\ UNCHANGED <<active, rollback, backup, kept, dirs, Rest>>

TidyDir ==
  /\ BGoto("tidy_dir", "check")
  /\ IF boot.current.adapter
     THEN /\ pattic' = Retained(pattic, pshadow[boot.op])
          /\ pshadow' = [pshadow EXCEPT ![boot.op] = NONE]
     ELSE UNCHANGED <<pattic, pshadow>>
  /\ UNCHANGED <<dbs, parsed, prollback, pkept, Rest>>

\* Mutant: a recovered database must have the version of the upgrade.
CheckVersion ==
  /\ BGoto("check", IF active = boot.op THEN "finish" ELSE "failing")
  /\ lock' = IF active = boot.op THEN lock ELSE "free"
  /\ UNCHANGED <<dbs, dirs, journal, hist, workers>>

Check ==
  /\ BGoto("check", IF active # NONE THEN "finish" ELSE "failing")
  /\ lock' = IF active # NONE THEN lock ELSE "free"
  /\ UNCHANGED <<dbs, dirs, journal, hist, workers>>

Finish ==
  /\ boot.pc = "finish"
  /\ journal' = [journal EXCEPT ![boot.op] = [boot.current EXCEPT !.stage = boot.result]]
  /\ boot' = [boot EXCEPT !.pc = "scan", !.todo = @ \ {boot.op}]
  /\ lock' = "free"
  /\ UNCHANGED <<dbs, dirs, hist, workers>>

-----------------------------------------------------------------------------
Work(o) ==
  \/ Pause(o) \/ Backup(o) \/ RecordBackup(o) \/ Prepare(o) \/ BuildParsed(o)
  \/ BuildShadow(o) \/ Validated(o) \/ StartSwitch(o) \/ MoveActive(o) \/ MoveParsed(o)
  \/ PlaceShadow(o) \/ PlaceParsed(o) \/ RewritePaths(o) \/ Announce(o) \/ SmokeTest(o)
  \/ KeepRollback(o) \/ KeepParsed(o) \/ Complete(o) \/ Failed(o)
  \/ UndoActive(o) \/ UndoShadow(o) \/ UndoParsed(o) \/ RedoActive(o) \/ RedoParsed(o)
  \/ Restore(o) \/ RolledBack(o) \/ RollbackFailed(o)
  \/ DiscardShadow(o) \/ DiscardParsed(o) \/ Discarded(o) \/ Aborted(o) \/ NotDiscarded(o)

Recover ==
  \/ Choose \/ KeepDb \/ KeepDir \/ AwayDb \/ AwayDir \/ TakeDir \/ Recopy \/ Aside \/ Back
  \/ Copy \/ ClearDir \/ BackDir \/ TidyDb \/ TidyDir \/ Check \/ Finish

Boot == BackendStarts \/ (\E o \in Ops : Look(o)) \/ LockAndRead \/ RecordFailure \/ Serve

Next ==
  \/ \E o \in Ops : \/ Begin(o) \/ Work(o)
                     \/ Raise(o) \/ UndoFails(o) \/ EndFails(o) \/ WorkerDies(o)
  \/ Boot \/ Recover
  \/ BackendStops \/ BackendDies \/ LockTimesOut \/ RecoveryRaises

Spec == Init /\ [][Next]_vars

\* Processes run while they live, and a stopped backend is started again.
FairSpec == Spec /\ (\A o \in Ops : WF_vars(Work(o))) /\ WF_vars(Boot) /\ WF_vars(Recover)

-----------------------------------------------------------------------------
(* Properties.                                                             *)

Slots == [Ops -> Content]
Boots == [pc : BootSteps, found : SUBSET Ops, todo : SUBSET Ops, op : Ops \cup {NONE},
          value : Journal, current : Journal, result : Settled \cup {"none"}, blocked : BOOLEAN]
Histories == [start : Content, before : Content, last : Ops \cup {NONE},
              clean : BOOLEAN, calm : BOOLEAN]

\* Every file slot holds a content, every journal a known stage, and the
\* worker and the recovery are at a step of theirs.
TypeOK ==
  /\ active \in Content /\ parsed \in Content
  /\ shadow \in Slots /\ pshadow \in Slots /\ rollback \in Slots /\ prollback \in Slots
  /\ backup \in Slots /\ kept \in Slots /\ pkept \in Slots
  /\ attic \subseteq Content /\ pattic \subseteq Content
  /\ journal \in [Ops -> Journal] /\ worker \in [Ops -> Worker]
  /\ boot \in Boots /\ lock \in {"free", "boot"} \cup Ops
  /\ hist \in Histories
  /\ crashes \in Nat /\ errors \in Nat

Unsettled(o) == journal[o].stage \notin Settled \cup {"none"}
AtRest == lock = "free" /\ \A o \in Ops : ~Unsettled(o)

DbHeld == {active} \cup attic \cup UNION {{shadow[o], rollback[o], kept[o]} : o \in Ops}
DirHeld == {parsed} \cup pattic \cup UNION {{pshadow[o], prollback[o], pkept[o]} : o \in Ops}

\* No step of an upgrade, of its rollback or of the recovery destroys a
\* database or a parsed directory: whatever is moved, replaced or given up
\* stays in some place, wherever the processes die and whatever fails.  The
\* backups do not count as places.
NothingLost == [][DbHeld \ {NONE} \subseteq DbHeld' /\ DirHeld \ {NONE} \subseteq DirHeld']_vars

\* When no process holds the maintenance lock and every journal is settled, a
\* profile that began with a database has one in place, unless an upgrade was
\* begun over a journal nobody had recovered: even after a rollback that
\* failed half way (_restore_active_from_backup_if_needed, _recover_journal).
Usable == (AtRest /\ hist.clean /\ hist.start # NONE) => active # NONE

Success == {"completed", "recovered_new_database"}

\* The journal tells the truth: at rest the database in use is the one the
\* last upgrade built if its journal reports success, and otherwise the very
\* database the upgrade found, after any death of worker or recovery and after
\* any exception except one in the undoing itself.
Trusted ==
  (AtRest /\ hist.clean /\ hist.calm /\ hist.last # NONE /\ hist.before # NONE)
     => active = IF journal[hist.last].stage \in Success THEN hist.last ELSE hist.before

\* A backend that goes from its start to serving leaves no upgrade half done
\* that was there when it started: every journal recover_incomplete_upgrades
\* listed is settled when create_app returns, whoever settled it, whatever
\* other upgrades were begun meanwhile, or create_app refused.  An upgrade
\* begun after the listing may be under way when the backend serves.
ServesSettled ==
  [][(boot.pc # "up" /\ boot.pc' = "up") => \A o \in boot.found : ~Unsettled(o)']_vars

\* A backend that is down comes to serve: recovery, however often it is
\* interrupted, finds a way forward from every point an upgrade of an existing
\* database can die at, as long as no exception hits an undoing step and no
\* living worker keeps the lock past the timeout.
StartupCompletes ==
  (boot.pc = "down" /\ hist.start # NONE) ~> (boot.pc = "up" \/ ~hist.calm)

\* The parsed directory goes with its database: at rest both are the old ones
\* or both the new ones.  A switch that fails before it has moved anything
\* breaks it: the rollback gives away the old directory as the failed new one.
ParsedFollows ==
  (AtRest /\ hist.clean /\ hist.calm /\ hist.last # NONE /\ hist.before # NONE)
     => parsed = active
=============================================================================
