------------------------ MODULE DatabaseUpgradeProofs ------------------------
(***************************************************************************)
(* Proofs about DatabaseUpgrade for every set of operations and every      *)
(* bound on deaths and exceptions.                                         *)
(***************************************************************************)
EXTENDS DatabaseUpgrade, TLAPS

-----------------------------------------------------------------------------
(* The inductive invariant.                                                *)

NotBuilt == {"new", "pause", "backup", "record", "prepare", "build"}
NotFilled == NotBuilt \cup {"fill"}
NotMoved == NotFilled \cup {"validate", "ready", "move_db"}
NotMovedDir == NotMoved \cup {"move_dir"}
Placed == {"place_dir", "rewrite", "announce", "smoke", "keep_db", "keep_dir", "complete"}
NotKept == NotMovedDir \cup {"place_db", "place_dir", "rewrite", "announce", "smoke", "keep_db"}
NotKeptDir == NotKept \cup {"keep_dir"}
Switching == {"move_db", "move_dir", "place_db", "restore"} \cup Placed \cup UndoSteps

\* The recovery is about a known operation.
OpSet == boot.pc \in Recovering \cup {"wait", "failing"} => boot.op \in Ops

\* Whoever moves files holds the lock, and the journal is unsettled.
Holds(o) == worker[o].pc \in Steps => lock = o /\ Unsettled(o)
HoldsBoot ==
  /\ boot.pc \in Recovering => lock = "boot" /\ Unsettled(boot.op)
  /\ lock = "boot" => boot.pc \in Recovering

\* The recovery knows nothing of an operation that has not begun.
Unborn(o) ==
  /\ worker[o].pc = "new"
       => journal[o].stage = "none" /\ o \notin boot.found /\ o \notin boot.todo /\ boot.op # o
  /\ worker[o].pc # "new" => journal[o].stage # "none"

\* A place is empty when something is put there, and only a switched upgrade
\* has its database taken away.
Vacant(o) ==
  /\ worker[o].pc \in NotBuilt => pshadow[o] = NONE
  /\ worker[o].pc \in NotFilled => shadow[o] = NONE
  /\ worker[o].pc \in NotMoved => rollback[o] = NONE
  /\ worker[o].pc \in NotMovedDir => prollback[o] = NONE
  /\ worker[o].pc \in NotKept => kept[o] = NONE
  /\ worker[o].pc \in NotKeptDir => pkept[o] = NONE
  /\ worker[o].pc \in {"move_dir", "place_db", "undo_shadow", "undo_dir", "redo_db"}
       => active = NONE
  /\ worker[o].pc \in {"place_db", "place_dir", "redo_db", "redo_dir"} => parsed = NONE
  /\ worker[o].pc \in Switching => worker[o].started
  /\ worker[o].pc = "raised" /\ ~worker[o].started => rollback[o] = NONE
VacantBoot ==
  /\ boot.pc \in {"away_dir", "take_dir", "recopy", "back", "copy"} => active = NONE
  /\ boot.pc = "take_dir" /\ boot.current.adapter => parsed = NONE
  /\ boot.pc = "back_dir" /\ boot.current.adapter /\ prollback[boot.op] # NONE => parsed = NONE
  /\ boot.pc \in {"away_db", "away_dir", "take_dir", "recopy"} => boot.current.switched

\* A starting backend still has every unsettled journal it found on its list,
\* unless it is going to refuse, and the recovery ends with the stage it has
\* chosen.
Undecided == {"choose", "away_db", "away_dir", "take_dir", "recopy"}
Listed ==
  /\ boot.pc \notin {"up", "down"} /\ ~boot.blocked
       => \A o \in boot.found : Unsettled(o) => o \in boot.todo
  /\ boot.pc \in Recovering \ Undecided => boot.result \in Settled

\* Where the database is, or the copy that it can be restored from.
Backed(o, j) == (j.switched => j.backup) /\ (j.backup => backup[o] # NONE)
Found(o) ==
  /\ worker[o].pc \in (NotMoved \ {"new"}) \cup Placed \cup
       {"closing", "discard_db", "discard_dir", "discarded", "undiscarded", "abort"}
       => active # NONE
  /\ worker[o].pc = "raised" /\ ~worker[o].started => active # NONE
  /\ worker[o].pc \in {"validate", "ready", "move_db", "move_dir", "place_db"} => shadow[o] # NONE
  /\ worker[o].existed => backup[o] # NONE
  /\ worker[o].started => worker[o].existed /\ worker[o].data.backup
  /\ worker[o].pc \in {"record", "prepare", "build", "fill", "validate", "ready"}
       => worker[o].existed
  /\ worker[o].pc \in {"prepare", "build", "fill", "validate", "ready"} => worker[o].data.backup
  /\ Backed(o, worker[o].data) /\ Backed(o, journal[o])
FoundBoot ==
  /\ boot.pc \in Recovering \cup {"wait", "failing"} => Backed(boot.op, boot.value)
  /\ boot.pc \in Recovering => Backed(boot.op, boot.current)
  /\ boot.pc = "finish" => active # NONE
Watched == hist.clean /\ hist.start # NONE

IInv ==
  /\ TypeOK /\ OpSet /\ HoldsBoot /\ VacantBoot /\ Listed
  /\ \A o \in Ops : Holds(o) /\ Unborn(o) /\ Vacant(o)
  /\ Watched => (AtRest => active # NONE) /\ (\A o \in Ops : Found(o)) /\ FoundBoot

-----------------------------------------------------------------------------
(* What a step of a worker does to the state of the workers.               *)

\* The operations other than o keep their files, journal and process.
Alone(o) == \A p \in Ops \ {o} :
  /\ shadow'[p] = shadow[p] /\ rollback'[p] = rollback[p] /\ kept'[p] = kept[p]
  /\ pshadow'[p] = pshadow[p] /\ prollback'[p] = prollback[p] /\ pkept'[p] = pkept[p]
  /\ backup'[p] = backup[p] /\ journal'[p] = journal[p] /\ worker'[p] = worker[p]

\* A process changes to w.
LEMMA WorkerBecomes ==
  ASSUME TypeOK, NEW o \in Ops, NEW w \in Worker, worker' = [worker EXCEPT ![o] = w]
  PROVE  /\ worker' \in [Ops -> Worker] /\ worker'[o] = w
         /\ \A p \in Ops \ {o} : worker'[p] = worker[p]
BY DEF TypeOK

\* A step of the coordinator that only goes on to another stage of its code
\* keeps the type of the worker.
LEMMA GotoType ==
  ASSUME TypeOK, NEW o \in Ops, NEW from, NEW to \in Steps, Goto(o, from, to)
  PROVE  /\ worker' \in [Ops -> Worker]
         /\ worker[o].pc = from /\ worker'[o].pc = to
         /\ worker'[o].data = worker[o].data /\ worker'[o].started = worker[o].started
         /\ worker'[o].existed = worker[o].existed /\ worker'[o].moved = worker[o].moved
         /\ \A p \in Ops \ {o} : worker'[p] = worker[p]
BY DEF Goto, TypeOK, Worker

\* A worker that writes its journal remembers what it wrote.
LEMMA UpdateType ==
  ASSUME TypeOK, NEW o \in Ops, NEW from, NEW to \in Steps, NEW d \in Journal,
         Update(o, from, to, d)
  PROVE  /\ worker' \in [Ops -> Worker] /\ journal' \in [Ops -> Journal]
         /\ worker[o].pc = from /\ worker'[o].pc = to
         /\ worker'[o].data = d /\ journal'[o] = d /\ worker'[o].started = worker[o].started
         /\ worker'[o].existed = worker[o].existed /\ worker'[o].moved = worker[o].moved
         /\ \A p \in Ops \ {o} : worker'[p] = worker[p] /\ journal'[p] = journal[p]
BY DEF Update, TypeOK, Worker

\* Changing the stage alone leaves the rest of the journal record.
LEMMA StageType ==
  ASSUME TypeOK, NEW o \in Ops, NEW from, NEW to \in Steps, NEW s \in Stages,
         Stage(o, from, to, s)
  PROVE  /\ worker' \in [Ops -> Worker] /\ journal' \in [Ops -> Journal]
         /\ worker[o].pc = from /\ worker'[o].pc = to
         /\ worker'[o].data.stage = s /\ worker'[o].data.backup = worker[o].data.backup
         /\ worker'[o].data.adapter = worker[o].data.adapter
         /\ worker'[o].data.switched = worker[o].data.switched
         /\ journal'[o] = worker'[o].data
         /\ worker'[o].started = worker[o].started
         /\ worker'[o].existed = worker[o].existed /\ worker'[o].moved = worker[o].moved
         /\ \A p \in Ops \ {o} : worker'[p] = worker[p] /\ journal'[p] = journal[p]
<1> DEFINE d == [worker[o].data EXCEPT !.stage = s]
<1>1. /\ d \in Journal /\ d.stage = s /\ d.backup = worker[o].data.backup
      /\ d.adapter = worker[o].data.adapter /\ d.switched = worker[o].data.switched
  BY DEF TypeOK, Worker, Journal
<1>2. Update(o, from, to, d)
  BY DEF Stage
<1> HIDE DEF d
<1>3. QED
  BY <1>1, <1>2, UpdateType

\* A step of a worker leaves the invariant to its own operation: the others
\* are outside the lock.
LEMMA WorkKeeps ==
  ASSUME IInv, TypeOK', NEW o \in Ops, worker[o].pc \in Steps, worker'[o].pc \in Steps,
         boot' = boot, lock' = lock, hist' = hist \/ hist' = [hist EXCEPT !.calm = FALSE],
         Alone(o), Unsettled(o)', Vacant(o)',
         Watched => Found(o)', Watched => backup'[o] = backup[o] \/ backup'[o] # NONE
  PROVE  IInv'
<1>1. lock = o /\ lock # "boot" /\ lock # "free" /\ boot.pc \notin Recovering /\ Unsettled(o)
  BY LockAssumption DEF IInv, Holds, HoldsBoot
<1>2. \A p \in Ops \ {o} : worker[p].pc \notin Steps
  BY <1>1 DEF IInv, Holds
<1>3. Watched' = Watched
  BY DEF IInv, TypeOK, Watched, Histories
<1>4. OpSet' /\ HoldsBoot' /\ VacantBoot'
  BY <1>1 DEF IInv, OpSet, HoldsBoot, VacantBoot, Recovering
<1>5. \A p \in Ops \ {o} : Holds(p)' /\ Unborn(p)'
  BY <1>2 DEF IInv, Holds, Unborn, Alone, Unsettled
<1>6. \A p \in Ops \ {o} : Vacant(p)'
  <2> SUFFICES ASSUME NEW p \in Ops \ {o} PROVE Vacant(p)'
    OBVIOUS
  <2>1. Vacant(p) /\ worker'[p] = worker[p] /\ worker[p].pc \in {"new", "gone"}
    BY <1>2 DEF IInv, Alone, TypeOK, Worker
  <2> QED BY <2>1 DEF Vacant, Alone, NotBuilt, NotFilled, NotMoved, NotMovedDir, NotKept,
                      NotKeptDir, Switching, Placed, UndoSteps
<1>7. Holds(o)' /\ Unborn(o)'
  BY <1>1 DEF Holds, Unborn, Unsettled, Steps, WorkSteps, UndoSteps
<1>8. Listed'
  <2>1. boot.found \subseteq Ops
    BY DEF IInv, TypeOK, Boots
  <2>2. \A p \in boot.found : Unsettled(p)' => Unsettled(p)
    BY <1>1, <2>1 DEF Unsettled, Alone
  <2> QED BY <2>2 DEF IInv, Listed
<1>9. ~AtRest'
  BY <1>1 DEF AtRest
<1>10. ASSUME Watched PROVE (\A p \in Ops : Found(p)') /\ FoundBoot'
  <2>1. \A p \in Ops : \A j : Backed(p, j) => Backed(p, j)'
    <3> SUFFICES ASSUME NEW p \in Ops, NEW j, Backed(p, j) PROVE Backed(p, j)'
      OBVIOUS
    <3> QED BY <1>10 DEF Backed, Alone
  <2>2. FoundBoot'
    BY <1>1, <1>10, <2>1 DEF IInv, FoundBoot, OpSet, Backed, Alone, Recovering
  <2>3. ASSUME NEW p \in Ops \ {o} PROVE Found(p)'
    <3>1. Found(p) /\ worker'[p] = worker[p] /\ worker[p].pc \in {"new", "gone"}
      BY <1>2, <1>10 DEF IInv, Alone, TypeOK, Worker
    <3> QED BY <3>1 DEF Found, Alone, Backed, NotMoved, NotFilled, NotBuilt, Placed
  <2> QED BY <1>10, <2>2, <2>3
<1> QED BY <1>3, <1>4, <1>5, <1>6, <1>7, <1>8, <1>9, <1>10 DEF IInv

\* What an update of the stage does to process and journal.
Stepped(o, from, to, s) ==
  /\ worker[o].pc = from /\ worker'[o].pc = to
  /\ worker'[o].data.stage = s /\ worker'[o].data.backup = worker[o].data.backup
  /\ worker'[o].data.switched = worker[o].data.switched /\ journal'[o] = worker'[o].data
  /\ worker'[o].started = worker[o].started /\ worker'[o].existed = worker[o].existed

\* A step that only updates the stage.
LEMMA StageKeeps ==
  ASSUME IInv, NEW o \in Ops, NEW from \in Steps, NEW to \in Steps,
         NEW s \in Stages, s \notin Settled \cup {"none"},
         Stage(o, from, to, s), UNCHANGED <<dbs, dirs, others>>
  PROVE  Vacant(o)' /\ (Watched => Found(o)') => IInv'
<1>1. TypeOK
  BY DEF IInv
<1>2. /\ worker' \in [Ops -> Worker] /\ journal' \in [Ops -> Journal]
      /\ worker[o].pc = from /\ worker'[o].pc = to
      /\ worker'[o].data.stage = s /\ journal'[o] = worker'[o].data
      /\ \A p \in Ops \ {o} : worker'[p] = worker[p] /\ journal'[p] = journal[p]
  BY <1>1, StageType
<1>3. TypeOK' /\ Alone(o) /\ boot' = boot /\ lock' = lock /\ hist' = hist /\ backup' = backup
  BY <1>1, <1>2 DEF TypeOK, Alone, dbs, dirs, others
<1>4. Unsettled(o)'
  BY <1>2 DEF Unsettled
<1> QED BY <1>2, <1>3, <1>4, WorkKeeps

\* The steps of a worker that move one file.
LEMMA WorkSimple ==
  ASSUME IInv, NEW o \in Ops,
         \/ BuildParsed(o) \/ BuildShadow(o) \/ MoveActive(o) \/ PlaceShadow(o) \/ PlaceParsed(o)
         \/ RewritePaths(o) \/ KeepRollback(o) \/ KeepParsed(o) \/ UndoActive(o) \/ UndoShadow(o)
         \/ UndoParsed(o) \/ RedoActive(o) \/ RedoParsed(o) \/ DiscardShadow(o) \/ DiscardParsed(o)
  PROVE  IInv'
<1> USE DEF others, dbs, dirs
<1>0. /\ TypeOK /\ worker[o] \in Worker /\ worker[o].data \in Journal
      /\ NONE \in Content /\ o \in Content /\ o # NONE
      /\ Holds(o) /\ Vacant(o) /\ (Watched => Found(o)) /\ IInv
  BY ContentAssumption DEF IInv, TypeOK, Worker, Content
<1>1. CASE BuildParsed(o)
  <2>1. /\ TypeOK' /\ Alone(o) /\ worker[o].pc = "build" /\ worker'[o].pc = "fill"
        /\ boot' = boot /\ lock' = lock /\ hist' = hist
    BY <1>1, <1>0, GotoType DEF BuildParsed, TypeOK, Alone, Steps, WorkSteps, UndoSteps, Stages, Slots
  <2>2. Vacant(o)'
    BY <1>1, <1>0, <2>1, GotoType DEF BuildParsed, Steps, WorkSteps, Stages, TypeOK, Slots, Vacant,
                   NotBuilt, NotFilled, NotMoved, NotMovedDir, NotKept,
                   NotKeptDir, Switching, Placed, UndoSteps
  <2>3. Watched => Found(o)' /\ (backup'[o] = backup[o] \/ backup'[o] # NONE)
    BY <1>1, <1>0, <2>1, GotoType DEF BuildParsed, Steps, WorkSteps, Stages, TypeOK, Slots, Found, Backed,
                   NotBuilt, NotFilled, NotMoved, NotMovedDir, NotKept,
                   NotKeptDir, Switching, Placed, UndoSteps
  <2>4. Unsettled(o)'
    BY <1>1, <1>0, <2>1, GotoType DEF BuildParsed, Steps, WorkSteps, UndoSteps, Unsettled, Holds
  <2> QED BY <1>0, <2>1, <2>2, <2>3, <2>4, WorkKeeps DEF Steps, WorkSteps, UndoSteps
<1>2. CASE BuildShadow(o)
  <2>1. /\ TypeOK' /\ Alone(o) /\ worker[o].pc = "fill" /\ worker'[o].pc = "validate"
        /\ boot' = boot /\ lock' = lock /\ hist' = hist
    BY <1>2, <1>0, GotoType DEF BuildShadow, TypeOK, Alone, Steps, WorkSteps, UndoSteps, Stages, Slots
  <2>2. Vacant(o)'
    BY <1>2, <1>0, <2>1, GotoType DEF BuildShadow, Steps, WorkSteps, Stages, TypeOK, Slots, Vacant,
                   NotBuilt, NotFilled, NotMoved, NotMovedDir, NotKept,
                   NotKeptDir, Switching, Placed, UndoSteps
  <2>3. Watched => Found(o)' /\ (backup'[o] = backup[o] \/ backup'[o] # NONE)
    BY <1>2, <1>0, <2>1, GotoType DEF BuildShadow, Steps, WorkSteps, Stages, TypeOK, Slots, Found, Backed,
                   NotBuilt, NotFilled, NotMoved, NotMovedDir, NotKept,
                   NotKeptDir, Switching, Placed, UndoSteps
  <2>4. Unsettled(o)'
    BY <1>2, <1>0, <2>1, GotoType DEF BuildShadow, Steps, WorkSteps, UndoSteps, Unsettled, Holds
  <2> QED BY <1>0, <2>1, <2>2, <2>3, <2>4, WorkKeeps DEF Steps, WorkSteps, UndoSteps
<1>3. CASE MoveActive(o)
  <2>1. /\ TypeOK' /\ Alone(o) /\ worker[o].pc = "move_db" /\ worker'[o].pc = "move_dir"
        /\ boot' = boot /\ lock' = lock /\ hist' = hist
    BY <1>3, <1>0, GotoType DEF MoveActive, TypeOK, Alone, Steps, WorkSteps, UndoSteps, Stages, Slots
  <2>2. Vacant(o)'
    BY <1>3, <1>0, <2>1, GotoType DEF MoveActive, Steps, WorkSteps, Stages, TypeOK, Slots, Vacant,
                   NotBuilt, NotFilled, NotMoved, NotMovedDir, NotKept,
                   NotKeptDir, Switching, Placed, UndoSteps
  <2>3. Watched => Found(o)' /\ (backup'[o] = backup[o] \/ backup'[o] # NONE)
    BY <1>3, <1>0, <2>1, GotoType DEF MoveActive, Steps, WorkSteps, Stages, TypeOK, Slots, Found, Backed,
                   NotBuilt, NotFilled, NotMoved, NotMovedDir, NotKept,
                   NotKeptDir, Switching, Placed, UndoSteps
  <2>4. Unsettled(o)'
    BY <1>3, <1>0, <2>1, GotoType DEF MoveActive, Steps, WorkSteps, UndoSteps, Unsettled, Holds
  <2> QED BY <1>0, <2>1, <2>2, <2>3, <2>4, WorkKeeps DEF Steps, WorkSteps, UndoSteps
<1>4. CASE PlaceShadow(o)
  <2>1. /\ TypeOK' /\ Alone(o) /\ worker[o].pc = "place_db" /\ worker'[o].pc = "place_dir"
        /\ boot' = boot /\ lock' = lock /\ hist' = hist
    BY <1>4, <1>0, GotoType DEF PlaceShadow, TypeOK, Alone, Steps, WorkSteps, UndoSteps, Stages, Slots
  <2>2. Vacant(o)'
    BY <1>4, <1>0, <2>1, GotoType DEF PlaceShadow, Steps, WorkSteps, Stages, TypeOK, Slots, Vacant,
                   NotBuilt, NotFilled, NotMoved, NotMovedDir, NotKept,
                   NotKeptDir, Switching, Placed, UndoSteps
  <2>3. Watched => Found(o)' /\ (backup'[o] = backup[o] \/ backup'[o] # NONE)
    BY <1>4, <1>0, <2>1, GotoType DEF PlaceShadow, Steps, WorkSteps, Stages, TypeOK, Slots, Found, Backed,
                   NotBuilt, NotFilled, NotMoved, NotMovedDir, NotKept,
                   NotKeptDir, Switching, Placed, UndoSteps
  <2>4. Unsettled(o)'
    BY <1>4, <1>0, <2>1, GotoType DEF PlaceShadow, Steps, WorkSteps, UndoSteps, Unsettled, Holds
  <2> QED BY <1>0, <2>1, <2>2, <2>3, <2>4, WorkKeeps DEF Steps, WorkSteps, UndoSteps
<1>5. CASE PlaceParsed(o)
  <2>1. /\ TypeOK' /\ Alone(o) /\ worker[o].pc = "place_dir" /\ worker'[o].pc = "rewrite"
        /\ boot' = boot /\ lock' = lock /\ hist' = hist
    BY <1>5, <1>0, GotoType DEF PlaceParsed, TypeOK, Alone, Steps, WorkSteps, UndoSteps, Stages, Slots
  <2>2. Vacant(o)'
    BY <1>5, <1>0, <2>1, GotoType DEF PlaceParsed, Steps, WorkSteps, Stages, TypeOK, Slots, Vacant,
                   NotBuilt, NotFilled, NotMoved, NotMovedDir, NotKept,
                   NotKeptDir, Switching, Placed, UndoSteps
  <2>3. Watched => Found(o)' /\ (backup'[o] = backup[o] \/ backup'[o] # NONE)
    BY <1>5, <1>0, <2>1, GotoType DEF PlaceParsed, Steps, WorkSteps, Stages, TypeOK, Slots, Found, Backed,
                   NotBuilt, NotFilled, NotMoved, NotMovedDir, NotKept,
                   NotKeptDir, Switching, Placed, UndoSteps
  <2>4. Unsettled(o)'
    BY <1>5, <1>0, <2>1, GotoType DEF PlaceParsed, Steps, WorkSteps, UndoSteps, Unsettled, Holds
  <2> QED BY <1>0, <2>1, <2>2, <2>3, <2>4, WorkKeeps DEF Steps, WorkSteps, UndoSteps
<1>6. CASE RewritePaths(o)
  <2>1. /\ TypeOK' /\ Alone(o) /\ worker[o].pc = "rewrite" /\ worker'[o].pc = "announce"
        /\ boot' = boot /\ lock' = lock /\ hist' = hist
    BY <1>6, <1>0, GotoType DEF RewritePaths, TypeOK, Alone, Steps, WorkSteps, UndoSteps, Stages, Slots
  <2>2. Vacant(o)'
    BY <1>6, <1>0, <2>1, GotoType DEF RewritePaths, Steps, WorkSteps, Stages, TypeOK, Slots, Vacant,
                   NotBuilt, NotFilled, NotMoved, NotMovedDir, NotKept,
                   NotKeptDir, Switching, Placed, UndoSteps
  <2>3. Watched => Found(o)' /\ (backup'[o] = backup[o] \/ backup'[o] # NONE)
    BY <1>6, <1>0, <2>1, GotoType DEF RewritePaths, Steps, WorkSteps, Stages, TypeOK, Slots, Found, Backed,
                   NotBuilt, NotFilled, NotMoved, NotMovedDir, NotKept,
                   NotKeptDir, Switching, Placed, UndoSteps
  <2>4. Unsettled(o)'
    BY <1>6, <1>0, <2>1, GotoType DEF RewritePaths, Steps, WorkSteps, UndoSteps, Unsettled, Holds
  <2> QED BY <1>0, <2>1, <2>2, <2>3, <2>4, WorkKeeps DEF Steps, WorkSteps, UndoSteps
<1>7. CASE KeepRollback(o)
  <2>1. /\ TypeOK' /\ Alone(o) /\ worker[o].pc = "keep_db" /\ worker'[o].pc = "keep_dir"
        /\ boot' = boot /\ lock' = lock /\ hist' = hist
    BY <1>7, <1>0, GotoType DEF KeepRollback, TypeOK, Alone, Steps, WorkSteps, UndoSteps, Stages, Slots
  <2>2. Vacant(o)'
    BY <1>7, <1>0, <2>1, GotoType DEF KeepRollback, Steps, WorkSteps, Stages, TypeOK, Slots, Vacant,
                   NotBuilt, NotFilled, NotMoved, NotMovedDir, NotKept,
                   NotKeptDir, Switching, Placed, UndoSteps
  <2>3. Watched => Found(o)' /\ (backup'[o] = backup[o] \/ backup'[o] # NONE)
    BY <1>7, <1>0, <2>1, GotoType DEF KeepRollback, Steps, WorkSteps, Stages, TypeOK, Slots, Found, Backed,
                   NotBuilt, NotFilled, NotMoved, NotMovedDir, NotKept,
                   NotKeptDir, Switching, Placed, UndoSteps
  <2>4. Unsettled(o)'
    BY <1>7, <1>0, <2>1, GotoType DEF KeepRollback, Steps, WorkSteps, UndoSteps, Unsettled, Holds
  <2> QED BY <1>0, <2>1, <2>2, <2>3, <2>4, WorkKeeps DEF Steps, WorkSteps, UndoSteps
<1>8. CASE KeepParsed(o)
  <2>1. /\ TypeOK' /\ Alone(o) /\ worker[o].pc = "keep_dir" /\ worker'[o].pc = "complete"
        /\ boot' = boot /\ lock' = lock /\ hist' = hist
    BY <1>8, <1>0, GotoType DEF KeepParsed, TypeOK, Alone, Steps, WorkSteps, UndoSteps, Stages, Slots
  <2>2. Vacant(o)'
    BY <1>8, <1>0, <2>1, GotoType DEF KeepParsed, Steps, WorkSteps, Stages, TypeOK, Slots, Vacant,
                   NotBuilt, NotFilled, NotMoved, NotMovedDir, NotKept,
                   NotKeptDir, Switching, Placed, UndoSteps
  <2>3. Watched => Found(o)' /\ (backup'[o] = backup[o] \/ backup'[o] # NONE)
    BY <1>8, <1>0, <2>1, GotoType DEF KeepParsed, Steps, WorkSteps, Stages, TypeOK, Slots, Found, Backed,
                   NotBuilt, NotFilled, NotMoved, NotMovedDir, NotKept,
                   NotKeptDir, Switching, Placed, UndoSteps
  <2>4. Unsettled(o)'
    BY <1>8, <1>0, <2>1, GotoType DEF KeepParsed, Steps, WorkSteps, UndoSteps, Unsettled, Holds
  <2> QED BY <1>0, <2>1, <2>2, <2>3, <2>4, WorkKeeps DEF Steps, WorkSteps, UndoSteps
<1>9. CASE UndoActive(o)
  <2>1. /\ TypeOK' /\ Alone(o) /\ worker[o].pc = "undo_db" /\ worker'[o].pc = "undo_shadow"
        /\ boot' = boot /\ lock' = lock /\ hist' = hist
    BY <1>9, <1>0, GotoType DEF UndoActive, TypeOK, Alone, Steps, WorkSteps, UndoSteps, Stages, Slots, Retained
  <2>2. Vacant(o)'
    BY <1>9, <1>0, <2>1, GotoType DEF UndoActive, Steps, WorkSteps, Stages, TypeOK, Slots, Vacant,
                   NotBuilt, NotFilled, NotMoved, NotMovedDir, NotKept,
                   NotKeptDir, Switching, Placed, UndoSteps
  <2>3. Watched => Found(o)' /\ (backup'[o] = backup[o] \/ backup'[o] # NONE)
    BY <1>9, <1>0, <2>1, GotoType DEF UndoActive, Steps, WorkSteps, Stages, TypeOK, Slots, Found, Backed,
                   NotBuilt, NotFilled, NotMoved, NotMovedDir, NotKept,
                   NotKeptDir, Switching, Placed, UndoSteps
  <2>4. Unsettled(o)'
    BY <1>9, <1>0, <2>1, GotoType DEF UndoActive, Steps, WorkSteps, UndoSteps, Unsettled, Holds
  <2> QED BY <1>0, <2>1, <2>2, <2>3, <2>4, WorkKeeps DEF Steps, WorkSteps, UndoSteps
<1>10. CASE UndoShadow(o)
  <2>1. /\ TypeOK' /\ Alone(o) /\ worker[o].pc = "undo_shadow" /\ worker'[o].pc = "undo_dir"
        /\ boot' = boot /\ lock' = lock /\ hist' = hist
    BY <1>10, <1>0, GotoType DEF UndoShadow, TypeOK, Alone, Steps, WorkSteps, UndoSteps, Stages, Slots, Retained
  <2>2. Vacant(o)'
    BY <1>10, <1>0, <2>1, GotoType DEF UndoShadow, Steps, WorkSteps, Stages, TypeOK, Slots, Vacant,
                   NotBuilt, NotFilled, NotMoved, NotMovedDir, NotKept,
                   NotKeptDir, Switching, Placed, UndoSteps
  <2>3. Watched => Found(o)' /\ (backup'[o] = backup[o] \/ backup'[o] # NONE)
    BY <1>10, <1>0, <2>1, GotoType DEF UndoShadow, Steps, WorkSteps, Stages, TypeOK, Slots, Found, Backed,
                   NotBuilt, NotFilled, NotMoved, NotMovedDir, NotKept,
                   NotKeptDir, Switching, Placed, UndoSteps
  <2>4. Unsettled(o)'
    BY <1>10, <1>0, <2>1, GotoType DEF UndoShadow, Steps, WorkSteps, UndoSteps, Unsettled, Holds
  <2> QED BY <1>0, <2>1, <2>2, <2>3, <2>4, WorkKeeps DEF Steps, WorkSteps, UndoSteps
<1>11. CASE UndoParsed(o)
  <2>1. /\ TypeOK' /\ Alone(o) /\ worker[o].pc = "undo_dir" /\ worker'[o].pc = "redo_db"
        /\ boot' = boot /\ lock' = lock /\ hist' = hist
    BY <1>11, <1>0, GotoType DEF UndoParsed, TypeOK, Alone, Steps, WorkSteps, UndoSteps, Stages, Slots, Retained
  <2>2. Vacant(o)'
    BY <1>11, <1>0, <2>1, GotoType DEF UndoParsed, Steps, WorkSteps, Stages, TypeOK, Slots, Vacant,
                   NotBuilt, NotFilled, NotMoved, NotMovedDir, NotKept,
                   NotKeptDir, Switching, Placed, UndoSteps
  <2>3. Watched => Found(o)' /\ (backup'[o] = backup[o] \/ backup'[o] # NONE)
    BY <1>11, <1>0, <2>1, GotoType DEF UndoParsed, Steps, WorkSteps, Stages, TypeOK, Slots, Found, Backed,
                   NotBuilt, NotFilled, NotMoved, NotMovedDir, NotKept,
                   NotKeptDir, Switching, Placed, UndoSteps
  <2>4. Unsettled(o)'
    BY <1>11, <1>0, <2>1, GotoType DEF UndoParsed, Steps, WorkSteps, UndoSteps, Unsettled, Holds
  <2> QED BY <1>0, <2>1, <2>2, <2>3, <2>4, WorkKeeps DEF Steps, WorkSteps, UndoSteps
<1>12. CASE RedoActive(o)
  <2>1. /\ TypeOK' /\ Alone(o) /\ worker[o].pc = "redo_db" /\ worker'[o].pc = "redo_dir"
        /\ boot' = boot /\ lock' = lock /\ hist' = hist
    BY <1>12, <1>0, GotoType DEF RedoActive, TypeOK, Alone, Steps, WorkSteps, UndoSteps, Stages, Slots
  <2>2. Vacant(o)'
    BY <1>12, <1>0, <2>1, GotoType DEF RedoActive, Steps, WorkSteps, Stages, TypeOK, Slots, Vacant,
                   NotBuilt, NotFilled, NotMoved, NotMovedDir, NotKept,
                   NotKeptDir, Switching, Placed, UndoSteps
  <2>3. Watched => Found(o)' /\ (backup'[o] = backup[o] \/ backup'[o] # NONE)
    BY <1>12, <1>0, <2>1, GotoType DEF RedoActive, Steps, WorkSteps, Stages, TypeOK, Slots, Found, Backed,
                   NotBuilt, NotFilled, NotMoved, NotMovedDir, NotKept,
                   NotKeptDir, Switching, Placed, UndoSteps
  <2>4. Unsettled(o)'
    BY <1>12, <1>0, <2>1, GotoType DEF RedoActive, Steps, WorkSteps, UndoSteps, Unsettled, Holds
  <2> QED BY <1>0, <2>1, <2>2, <2>3, <2>4, WorkKeeps DEF Steps, WorkSteps, UndoSteps
<1>13. CASE RedoParsed(o)
  <2>1. /\ TypeOK' /\ Alone(o) /\ worker[o].pc = "redo_dir" /\ worker'[o].pc = "restore"
        /\ boot' = boot /\ lock' = lock /\ hist' = hist
    BY <1>13, <1>0, GotoType DEF RedoParsed, TypeOK, Alone, Steps, WorkSteps, UndoSteps, Stages, Slots
  <2>2. Vacant(o)'
    BY <1>13, <1>0, <2>1, GotoType DEF RedoParsed, Steps, WorkSteps, Stages, TypeOK, Slots, Vacant,
                   NotBuilt, NotFilled, NotMoved, NotMovedDir, NotKept,
                   NotKeptDir, Switching, Placed, UndoSteps
  <2>3. Watched => Found(o)' /\ (backup'[o] = backup[o] \/ backup'[o] # NONE)
    BY <1>13, <1>0, <2>1, GotoType DEF RedoParsed, Steps, WorkSteps, Stages, TypeOK, Slots, Found, Backed,
                   NotBuilt, NotFilled, NotMoved, NotMovedDir, NotKept,
                   NotKeptDir, Switching, Placed, UndoSteps
  <2>4. Unsettled(o)'
    BY <1>13, <1>0, <2>1, GotoType DEF RedoParsed, Steps, WorkSteps, UndoSteps, Unsettled, Holds
  <2> QED BY <1>0, <2>1, <2>2, <2>3, <2>4, WorkKeeps DEF Steps, WorkSteps, UndoSteps
<1>14. CASE DiscardShadow(o)
  <2>1. /\ TypeOK' /\ Alone(o) /\ worker[o].pc = "discard_db" /\ worker'[o].pc = "discard_dir"
        /\ boot' = boot /\ lock' = lock /\ hist' = hist
    BY <1>14, <1>0, GotoType DEF DiscardShadow, TypeOK, Alone, Steps, WorkSteps, UndoSteps, Stages, Slots, Retained
  <2>2. Vacant(o)'
    BY <1>14, <1>0, <2>1, GotoType DEF DiscardShadow, Steps, WorkSteps, Stages, TypeOK, Slots, Vacant,
                   NotBuilt, NotFilled, NotMoved, NotMovedDir, NotKept,
                   NotKeptDir, Switching, Placed, UndoSteps
  <2>3. Watched => Found(o)' /\ (backup'[o] = backup[o] \/ backup'[o] # NONE)
    BY <1>14, <1>0, <2>1, GotoType DEF DiscardShadow, Steps, WorkSteps, Stages, TypeOK, Slots, Found, Backed,
                   NotBuilt, NotFilled, NotMoved, NotMovedDir, NotKept,
                   NotKeptDir, Switching, Placed, UndoSteps
  <2>4. Unsettled(o)'
    BY <1>14, <1>0, <2>1, GotoType DEF DiscardShadow, Steps, WorkSteps, UndoSteps, Unsettled, Holds
  <2> QED BY <1>0, <2>1, <2>2, <2>3, <2>4, WorkKeeps DEF Steps, WorkSteps, UndoSteps
<1>15. CASE DiscardParsed(o)
  <2>1. /\ TypeOK' /\ Alone(o) /\ worker[o].pc = "discard_dir" /\ worker'[o].pc = "discarded"
        /\ boot' = boot /\ lock' = lock /\ hist' = hist
    BY <1>15, <1>0, GotoType DEF DiscardParsed, TypeOK, Alone, Steps, WorkSteps, UndoSteps, Stages, Slots, Retained
  <2>2. Vacant(o)'
    BY <1>15, <1>0, <2>1, GotoType DEF DiscardParsed, Steps, WorkSteps, Stages, TypeOK, Slots, Vacant,
                   NotBuilt, NotFilled, NotMoved, NotMovedDir, NotKept,
                   NotKeptDir, Switching, Placed, UndoSteps
  <2>3. Watched => Found(o)' /\ (backup'[o] = backup[o] \/ backup'[o] # NONE)
    BY <1>15, <1>0, <2>1, GotoType DEF DiscardParsed, Steps, WorkSteps, Stages, TypeOK, Slots, Found, Backed,
                   NotBuilt, NotFilled, NotMoved, NotMovedDir, NotKept,
                   NotKeptDir, Switching, Placed, UndoSteps
  <2>4. Unsettled(o)'
    BY <1>15, <1>0, <2>1, GotoType DEF DiscardParsed, Steps, WorkSteps, UndoSteps, Unsettled, Holds
  <2> QED BY <1>0, <2>1, <2>2, <2>3, <2>4, WorkKeeps DEF Steps, WorkSteps, UndoSteps
<1> QED BY <1>1, <1>2, <1>3, <1>4, <1>5, <1>6, <1>7, <1>8, <1>9, <1>10, <1>11, <1>12, <1>13, <1>14, <1>15

\* The steps of a worker that update the stage only.
LEMMA WorkStages ==
  ASSUME IInv, NEW o \in Ops, Pause(o) \/ Prepare(o) \/ SmokeTest(o) \/ Failed(o)
  PROVE  IInv'
<1>0. /\ TypeOK /\ worker[o] \in Worker /\ worker[o].data \in Journal
      /\ NONE \in Content /\ o \in Content /\ o # NONE
      /\ Holds(o) /\ Vacant(o) /\ (Watched => Found(o)) /\ IInv
  BY ContentAssumption DEF IInv, TypeOK, Worker, Content
<1>1. CASE Pause(o)
  <2>1. /\ Stage(o, "pause", "backup", "checkpoint") /\ UNCHANGED <<dbs, dirs, others>>
        /\ "pause" \in Steps /\ "backup" \in Steps /\ "checkpoint" \in Stages \ (Settled \cup {"none"})
    BY <1>1 DEF Pause, Steps, WorkSteps, UndoSteps, Stages, Settled
  <2>2. Stepped(o, "pause", "backup", "checkpoint")
    BY <2>1, <1>0, StageType DEF Stepped
  <2>3. Vacant(o)' /\ (Watched => Found(o)')
    BY <1>0, <2>1, <2>2 DEF dbs, dirs, Stepped, Vacant, Found, Backed, NotBuilt, NotFilled, NotMoved, NotMovedDir, NotKept,
                   NotKeptDir, Switching, Placed, UndoSteps
  <2> QED BY <1>0, <2>1, <2>2, <2>3, StageKeeps
<1>2. CASE Prepare(o)
  <2>1. /\ Stage(o, "prepare", "build", "shadow_building") /\ UNCHANGED <<dbs, dirs, others>>
        /\ "prepare" \in Steps /\ "build" \in Steps /\ "shadow_building" \in Stages \ (Settled \cup {"none"})
    BY <1>2 DEF Prepare, Steps, WorkSteps, UndoSteps, Stages, Settled
  <2>2. Stepped(o, "prepare", "build", "shadow_building")
    BY <2>1, <1>0, StageType DEF Stepped
  <2>3. Vacant(o)' /\ (Watched => Found(o)')
    BY <1>0, <2>1, <2>2 DEF dbs, dirs, Stepped, Vacant, Found, Backed, NotBuilt, NotFilled, NotMoved, NotMovedDir, NotKept,
                   NotKeptDir, Switching, Placed, UndoSteps
  <2> QED BY <1>0, <2>1, <2>2, <2>3, StageKeeps
<1>3. CASE SmokeTest(o)
  <2>1. UNCHANGED <<dbs, dirs, others>>
    BY <1>3 DEF SmokeTest
  <2>2. CASE Stage(o, "smoke", "keep_db", "smoke_validated")
    <3>1. /\ "smoke" \in Steps /\ "keep_db" \in Steps
          /\ "smoke_validated" \in Stages /\ "smoke_validated" \notin Settled \cup {"none"}
      BY DEF Steps, WorkSteps, Stages, Settled
    <3>2. Stepped(o, "smoke", "keep_db", "smoke_validated")
      BY <1>0, <2>2, <3>1, StageType DEF Stepped
    <3>3. Vacant(o)' /\ (Watched => Found(o)')
      BY <1>0, <2>1, <3>2 DEF dbs, dirs, Stepped, Vacant, Found, Backed, NotBuilt, NotFilled, NotMoved, NotMovedDir, NotKept,
                   NotKeptDir, Switching, Placed, UndoSteps
    <3> QED BY <1>0, <2>1, <2>2, <3>1, <3>3, StageKeeps
  <2>3. CASE Stage(o, "smoke", "raised", "smoke_failed")
    <3>1. /\ "smoke" \in Steps /\ "raised" \in Steps
          /\ "smoke_failed" \in Stages /\ "smoke_failed" \notin Settled \cup {"none"}
      BY DEF Steps, WorkSteps, Stages, Settled
    <3>2. Stepped(o, "smoke", "raised", "smoke_failed")
      BY <1>0, <2>3, <3>1, StageType DEF Stepped
    <3>3. Vacant(o)' /\ (Watched => Found(o)')
      BY <1>0, <2>1, <3>2 DEF dbs, dirs, Stepped, Vacant, Found, Backed, NotBuilt, NotFilled, NotMoved, NotMovedDir, NotKept,
                   NotKeptDir, Switching, Placed, UndoSteps
    <3> QED BY <1>0, <2>1, <2>3, <3>1, <3>3, StageKeeps
  <2> QED BY <1>3, <2>2, <2>3 DEF SmokeTest
<1>4. CASE Failed(o)
  <2> DEFINE to == IF worker[o].started \/ rollback[o] # NONE THEN "undo_db"
                   ELSE IF shadow[o] # NONE \/ pshadow[o] # NONE THEN "discard_db" ELSE "abort"
  <2>1. /\ UNCHANGED <<dbs, dirs, others>> /\ Stage(o, "raised", to, "failed")
        /\ to \in Steps /\ "raised" \in Steps
        /\ "failed" \in Stages /\ "failed" \notin Settled \cup {"none"}
    BY <1>4 DEF Failed, Steps, UndoSteps, Stages, Settled
  <2>2. /\ to \in {"undo_db", "discard_db", "abort"}
        /\ to = "undo_db" <=> (worker[o].started \/ rollback[o] # NONE)
    OBVIOUS
  <2> HIDE DEF to
  <2>3. Stepped(o, "raised", to, "failed")
    BY <1>0, <2>1, StageType DEF Stepped
  <2>4. Vacant(o)' /\ (Watched => Found(o)')
    BY <1>0, <2>1, <2>2, <2>3 DEF dbs, dirs, Stepped, Vacant, Found, Backed, NotBuilt, NotFilled, NotMoved, NotMovedDir, NotKept,
                   NotKeptDir, Switching, Placed, UndoSteps
  <2> QED BY <1>0, <2>1, <2>4, StageKeeps
<1> QED BY <1>1, <1>2, <1>3, <1>4

Open(j) == j.stage \notin Settled \cup {"none"}

\* A step that only updates the journal.
LEMMA UpdateKeeps ==
  ASSUME IInv, NEW o \in Ops, NEW from \in Steps, NEW to \in Steps,
         NEW d \in Journal, Open(d),
         Update(o, from, to, d), UNCHANGED <<dbs, dirs, others>>
  PROVE  Vacant(o)' /\ (Watched => Found(o)') => IInv'
<1>1. TypeOK
  BY DEF IInv
<1>2. /\ worker' \in [Ops -> Worker] /\ journal' \in [Ops -> Journal]
      /\ worker[o].pc = from /\ worker'[o].pc = to
      /\ worker'[o].data = d /\ journal'[o] = d
      /\ \A p \in Ops \ {o} : worker'[p] = worker[p] /\ journal'[p] = journal[p]
  BY <1>1, UpdateType
<1>3. TypeOK' /\ Alone(o) /\ boot' = boot /\ lock' = lock /\ hist' = hist /\ backup' = backup
  BY <1>1, <1>2 DEF TypeOK, Alone, dbs, dirs, others
<1>4. Unsettled(o)'
  BY <1>2 DEF Unsettled, Open
<1> QED BY <1>2, <1>3, <1>4, WorkKeeps

\* The steps of a worker that record more than the stage.
LEMMA WorkUpdates ==
  ASSUME IInv, NEW o \in Ops, RecordBackup(o) \/ Validated(o) \/ Announce(o)
  PROVE  IInv'
<1>0. /\ TypeOK /\ worker[o] \in Worker /\ worker[o].data \in Journal
      /\ NONE \in Content /\ o \in Content /\ o # NONE
      /\ Holds(o) /\ Vacant(o) /\ (Watched => Found(o)) /\ IInv
  BY ContentAssumption DEF IInv, TypeOK, Worker, Content
<1>1. CASE Validated(o)
  <2> DEFINE d == [worker[o].data EXCEPT !.stage = "shadow_validated", !.adapter = TRUE]
  <2>1. /\ d \in Journal /\ d.stage = "shadow_validated" /\ d.adapter
        /\ d.backup = worker[o].data.backup /\ d.switched = worker[o].data.switched
        /\ "validate" \in Steps /\ "ready" \in Steps /\ Open(d)
    BY <1>0 DEF Open, Journal, Stages, Settled, Steps, WorkSteps
  <2>2. Update(o, "validate", "ready", d) /\ UNCHANGED <<dbs, dirs, others>>
    BY <1>1 DEF Validated
  <2> HIDE DEF d
  <2>3. /\ worker[o].pc = "validate" /\ worker'[o].pc = "ready" /\ worker'[o].data = d
        /\ journal'[o] = d /\ worker'[o].started = worker[o].started
        /\ worker'[o].existed = worker[o].existed
    BY <1>0, <2>1, <2>2, UpdateType
  <2>4. Vacant(o)' /\ (Watched => Found(o)')
    BY <1>0, <2>1, <2>2, <2>3 DEF dbs, dirs, Vacant, Found, Backed, NotBuilt, NotFilled, NotMoved, NotMovedDir, NotKept,
                   NotKeptDir, Switching, Placed, UndoSteps
  <2> QED BY <1>0, <2>1, <2>2, <2>4, UpdateKeeps
<1>2. CASE Announce(o)
  <2> DEFINE d == [worker[o].data EXCEPT !.stage = "switched", !.switched = TRUE]
  <2>1. /\ d \in Journal /\ d.stage = "switched" /\ d.switched
        /\ d.backup = worker[o].data.backup
        /\ "announce" \in Steps /\ "smoke" \in Steps /\ Open(d)
    BY <1>0 DEF Open, Journal, Stages, Settled, Steps, WorkSteps
  <2>2. Update(o, "announce", "smoke", d) /\ UNCHANGED <<dbs, dirs, others>>
    BY <1>2 DEF Announce
  <2> HIDE DEF d
  <2>3. /\ worker[o].pc = "announce" /\ worker'[o].pc = "smoke" /\ worker'[o].data = d
        /\ journal'[o] = d /\ worker'[o].started = worker[o].started
        /\ worker'[o].existed = worker[o].existed
    BY <1>0, <2>1, <2>2, UpdateType
  <2>4. Vacant(o)' /\ (Watched => Found(o)')
    BY <1>0, <2>1, <2>2, <2>3 DEF dbs, dirs, Vacant, Found, Backed, NotBuilt, NotFilled, NotMoved, NotMovedDir, NotKept,
                   NotKeptDir, Switching, Placed, UndoSteps
  <2> QED BY <1>0, <2>1, <2>2, <2>4, UpdateKeeps
<1>3. CASE RecordBackup(o)
  <2>1. UNCHANGED <<dbs, dirs, others>>
    BY <1>3 DEF RecordBackup
  <2>2. CASE Update(o, "record", "prepare",
                    [worker[o].data EXCEPT !.stage = "backup_validated", !.backup = TRUE])
    <3> DEFINE d == [worker[o].data EXCEPT !.stage = "backup_validated", !.backup = TRUE]
    <3>1. /\ d \in Journal /\ d.stage = "backup_validated" /\ d.backup
          /\ d.switched = worker[o].data.switched
          /\ "record" \in Steps /\ "prepare" \in Steps /\ Open(d)
      BY <1>0 DEF Open, Journal, Stages, Settled, Steps, WorkSteps
    <3>2. Update(o, "record", "prepare", d) /\ UNCHANGED <<dbs, dirs, others>>
      BY <2>1, <2>2
    <3> HIDE DEF d
    <3>3. /\ worker[o].pc = "record" /\ worker'[o].pc = "prepare" /\ worker'[o].data = d
          /\ journal'[o] = d /\ worker'[o].started = worker[o].started
          /\ worker'[o].existed = worker[o].existed
      BY <1>0, <3>1, <3>2, UpdateType
    <3>4. Vacant(o)' /\ (Watched => Found(o)')
      BY <1>0, <3>1, <3>2, <3>3 DEF dbs, dirs, Vacant, Found, Backed, NotBuilt, NotFilled, NotMoved, NotMovedDir, NotKept,
                   NotKeptDir, Switching, Placed, UndoSteps
    <3> QED BY <1>0, <3>1, <3>2, <3>4, UpdateKeeps
  <2>3. CASE Update(o, "record", "raised",
                    [worker[o].data EXCEPT !.stage = "backup_failed", !.backup = TRUE])
    <3> DEFINE d == [worker[o].data EXCEPT !.stage = "backup_failed", !.backup = TRUE]
    <3>1. /\ d \in Journal /\ d.stage = "backup_failed" /\ d.backup
          /\ d.switched = worker[o].data.switched
          /\ "record" \in Steps /\ "raised" \in Steps /\ Open(d)
      BY <1>0 DEF Open, Journal, Stages, Settled, Steps, WorkSteps
    <3>2. Update(o, "record", "raised", d) /\ UNCHANGED <<dbs, dirs, others>>
      BY <2>1, <2>3
    <3> HIDE DEF d
    <3>3. /\ worker[o].pc = "record" /\ worker'[o].pc = "raised" /\ worker'[o].data = d
          /\ journal'[o] = d /\ worker'[o].started = worker[o].started
          /\ worker'[o].existed = worker[o].existed
      BY <1>0, <3>1, <3>2, UpdateType
    <3>4. Vacant(o)' /\ (Watched => Found(o)')
      BY <1>0, <3>1, <3>2, <3>3 DEF dbs, dirs, Vacant, Found, Backed, NotBuilt, NotFilled, NotMoved, NotMovedDir, NotKept,
                   NotKeptDir, Switching, Placed, UndoSteps
    <3> QED BY <1>0, <3>1, <3>2, <3>4, UpdateKeeps
  <2> QED BY <1>3, <2>2, <2>3 DEF RecordBackup
<1> QED BY <1>1, <1>2, <1>3

\* The steps of a worker that change what it remembers.
LEMMA WorkRemembers ==
  ASSUME IInv, NEW o \in Ops, Backup(o) \/ StartSwitch(o) \/ MoveParsed(o) \/ Restore(o)
  PROVE  IInv'
<1> USE DEF others, dbs, dirs
<1>0. /\ TypeOK /\ worker[o] \in Worker /\ worker[o].data \in Journal
      /\ NONE \in Content /\ o \in Content /\ o # NONE
      /\ Holds(o) /\ Vacant(o) /\ (Watched => Found(o)) /\ IInv
  BY ContentAssumption DEF IInv, TypeOK, Worker, Content
<1>1. CASE Backup(o)
  <2> DEFINE w == [worker[o] EXCEPT !.pc = "record", !.existed = active # NONE]
  <2>1. /\ w \in Worker /\ worker[o].pc = "backup" /\ worker' = [worker EXCEPT ![o] = w]
        /\ w.pc = "record" /\ w.existed = (active # NONE) /\ w.started = worker[o].started
        /\ w.data = worker[o].data
    BY <1>1, <1>0 DEF Backup, Worker, Steps, WorkSteps
  <2> HIDE DEF w
  <2>2. /\ worker' \in [Ops -> Worker] /\ worker'[o] = w
        /\ \A p \in Ops \ {o} : worker'[p] = worker[p]
    BY <1>0, <2>1, WorkerBecomes
  <2>3. /\ TypeOK' /\ Alone(o) /\ boot' = boot /\ lock' = lock /\ hist' = hist
        /\ worker[o].pc \in Steps /\ worker'[o].pc \in Steps
    BY <1>1, <1>0, <2>1, <2>2 DEF Backup, TypeOK, Alone, Slots, Steps, WorkSteps
  <2>4. Vacant(o)'
    BY <1>1, <1>0, <2>1, <2>2, <2>3 DEF Backup, TypeOK, Slots, Vacant, NotBuilt, NotFilled, NotMoved, NotMovedDir, NotKept,
                   NotKeptDir, Switching, Placed, UndoSteps
  <2>5. Watched => Found(o)' /\ (backup'[o] = backup[o] \/ backup'[o] # NONE)
    BY <1>1, <1>0, <2>1, <2>2, <2>3 DEF Backup, TypeOK, Slots, Found, Backed,
                   NotBuilt, NotFilled, NotMoved, NotMovedDir, NotKept,
                   NotKeptDir, Switching, Placed, UndoSteps
  <2>6. Unsettled(o)'
    BY <1>1, <1>0, <2>3 DEF Backup, Holds, Unsettled
  <2> QED BY <1>0, <2>3, <2>4, <2>5, <2>6, WorkKeeps
<1>2. CASE StartSwitch(o)
  <2> DEFINE w == [worker[o] EXCEPT !.pc = "move_db", !.started = TRUE]
  <2>1. /\ w \in Worker /\ worker[o].pc = "ready" /\ worker' = [worker EXCEPT ![o] = w]
        /\ w.pc = "move_db" /\ w.existed = worker[o].existed /\ w.started
        /\ w.data = worker[o].data
    BY <1>2, <1>0 DEF StartSwitch, Worker, Steps, WorkSteps
  <2> HIDE DEF w
  <2>2. /\ worker' \in [Ops -> Worker] /\ worker'[o] = w
        /\ \A p \in Ops \ {o} : worker'[p] = worker[p]
    BY <1>0, <2>1, WorkerBecomes
  <2>3. /\ TypeOK' /\ Alone(o) /\ boot' = boot /\ lock' = lock /\ hist' = hist
        /\ worker[o].pc \in Steps /\ worker'[o].pc \in Steps
    BY <1>2, <1>0, <2>1, <2>2 DEF StartSwitch, TypeOK, Alone, Slots, Steps, WorkSteps
  <2>4. Vacant(o)'
    BY <1>2, <1>0, <2>1, <2>2, <2>3 DEF StartSwitch, TypeOK, Slots, Vacant, NotBuilt, NotFilled, NotMoved, NotMovedDir, NotKept,
                   NotKeptDir, Switching, Placed, UndoSteps
  <2>5. Watched => Found(o)' /\ (backup'[o] = backup[o] \/ backup'[o] # NONE)
    BY <1>2, <1>0, <2>1, <2>2, <2>3 DEF StartSwitch, TypeOK, Slots, Found, Backed,
                   NotBuilt, NotFilled, NotMoved, NotMovedDir, NotKept,
                   NotKeptDir, Switching, Placed, UndoSteps
  <2>6. Unsettled(o)'
    BY <1>2, <1>0, <2>3 DEF StartSwitch, Holds, Unsettled
  <2> QED BY <1>0, <2>3, <2>4, <2>5, <2>6, WorkKeeps
<1>3. CASE MoveParsed(o)
  <2> DEFINE w == [worker[o] EXCEPT !.pc = "place_db", !.moved = parsed # NONE]
  <2>1. /\ w \in Worker /\ worker[o].pc = "move_dir" /\ worker' = [worker EXCEPT ![o] = w]
        /\ w.pc = "place_db" /\ w.existed = worker[o].existed /\ w.started = worker[o].started
        /\ w.data = worker[o].data
    BY <1>3, <1>0 DEF MoveParsed, Worker, Steps, WorkSteps
  <2> HIDE DEF w
  <2>2. /\ worker' \in [Ops -> Worker] /\ worker'[o] = w
        /\ \A p \in Ops \ {o} : worker'[p] = worker[p]
    BY <1>0, <2>1, WorkerBecomes
  <2>3. /\ TypeOK' /\ Alone(o) /\ boot' = boot /\ lock' = lock /\ hist' = hist
        /\ worker[o].pc \in Steps /\ worker'[o].pc \in Steps
    BY <1>3, <1>0, <2>1, <2>2 DEF MoveParsed, TypeOK, Alone, Slots, Steps, WorkSteps
  <2>4. Vacant(o)'
    BY <1>3, <1>0, <2>1, <2>2, <2>3 DEF MoveParsed, TypeOK, Slots, Vacant, NotBuilt, NotFilled, NotMoved, NotMovedDir, NotKept,
                   NotKeptDir, Switching, Placed, UndoSteps
  <2>5. Watched => Found(o)' /\ (backup'[o] = backup[o] \/ backup'[o] # NONE)
    BY <1>3, <1>0, <2>1, <2>2, <2>3 DEF MoveParsed, TypeOK, Slots, Found, Backed,
                   NotBuilt, NotFilled, NotMoved, NotMovedDir, NotKept,
                   NotKeptDir, Switching, Placed, UndoSteps
  <2>6. Unsettled(o)'
    BY <1>3, <1>0, <2>3 DEF MoveParsed, Holds, Unsettled
  <2> QED BY <1>0, <2>3, <2>4, <2>5, <2>6, WorkKeeps
<1>4. CASE Restore(o)
  <2> DEFINE to == IF worker[o].existed = (active' # NONE) THEN "closing" ELSE "stuck"
  <2>1. /\ Goto(o, "restore", to) /\ to \in Steps /\ "restore" \in Steps
        /\ active' = IF worker[o].existed /\ active = NONE THEN backup[o] ELSE active
        /\ to \in {"closing", "stuck"} /\ (to = "closing" => worker[o].existed = (active' # NONE))
    BY <1>4 DEF Restore, Steps
  <2> HIDE DEF to
  <2>2. /\ worker' \in [Ops -> Worker] /\ worker[o].pc = "restore" /\ worker'[o].pc = to
        /\ worker'[o].data = worker[o].data /\ worker'[o].started = worker[o].started
        /\ worker'[o].existed = worker[o].existed
        /\ \A p \in Ops \ {o} : worker'[p] = worker[p]
    BY <1>0, <2>1, GotoType
  <2>3. TypeOK' /\ Alone(o) /\ boot' = boot /\ lock' = lock /\ hist' = hist
    BY <1>4, <1>0, <2>1, <2>2 DEF Restore, TypeOK, Alone, Slots
  <2>4. Vacant(o)'
    BY <1>4, <1>0, <2>1, <2>2 DEF Restore, Vacant, NotBuilt, NotFilled, NotMoved, NotMovedDir, NotKept,
                   NotKeptDir, Switching, Placed, UndoSteps
  <2>5. Watched => Found(o)' /\ (backup'[o] = backup[o] \/ backup'[o] # NONE)
    BY <1>4, <1>0, <2>1, <2>2 DEF Restore, Vacant, Found, Backed, NotBuilt, NotFilled, NotMoved, NotMovedDir, NotKept,
                   NotKeptDir, Switching, Placed, UndoSteps
  <2>6. Unsettled(o)'
    BY <1>4, <1>0, <2>1, <2>2 DEF Restore, Holds, Unsettled
  <2> QED BY <1>0, <2>1, <2>2, <2>3, <2>4, <2>5, <2>6, WorkKeeps
<1> QED BY <1>1, <1>2, <1>3, <1>4

-----------------------------------------------------------------------------
(* How a worker begins, fails and ends.                                    *)

\* A process that ends leaves its files as they are.
LEMMA EndKeeps ==
  ASSUME IInv, TypeOK', NEW o \in Ops, worker[o].pc \in Steps, worker'[o] = Gone,
         boot' = boot, lock' = "free", hist' = hist, UNCHANGED <<dbs, dirs>>,
         \A p \in Ops \ {o} : worker'[p] = worker[p] /\ journal'[p] = journal[p],
         journal'[o].stage # "none",
         Watched => Backed(o, journal'[o]) /\ (Unsettled(o)' \/ active # NONE)
  PROVE  IInv'
<1> USE DEF dbs, dirs
<1>1. lock = o /\ lock # "boot" /\ boot.pc \notin Recovering /\ Unsettled(o)
  BY LockAssumption DEF IInv, Holds, HoldsBoot
<1>2. \A p \in Ops \ {o} : worker[p].pc \notin Steps
  BY <1>1 DEF IInv, Holds
<1>3. worker'[o].pc = "gone" /\ "gone" \notin Steps /\ Watched' = Watched
  BY DEF Gone, Idle, Steps, WorkSteps, UndoSteps, Watched
<1>4. OpSet' /\ HoldsBoot' /\ VacantBoot'
  BY <1>1 DEF IInv, OpSet, HoldsBoot, VacantBoot, Recovering
<1>5. \A p \in Ops : Holds(p)' /\ Unborn(p)'
  BY <1>2, <1>3 DEF IInv, Holds, Unborn
<1>6. \A p \in Ops : Vacant(p)'
  <2>1. Vacant(o)'
    BY <1>3 DEF Vacant, NotBuilt, NotFilled, NotMoved, NotMovedDir, NotKept, NotKeptDir,
                Switching, Placed, UndoSteps
  <2>2. ASSUME NEW p \in Ops \ {o} PROVE Vacant(p)'
    <3>1. Vacant(p) /\ worker'[p] = worker[p]
      BY DEF IInv
    <3> QED BY <3>1 DEF Vacant
  <2> QED BY <2>1, <2>2
<1>7. Listed'
  <2>1. boot.found \subseteq Ops
    BY DEF IInv, TypeOK, Boots
  <2>2. \A p \in boot.found : Unsettled(p)' => Unsettled(p)
    BY <1>1, <2>1 DEF Unsettled
  <2> QED BY <1>1, <2>2 DEF IInv, Listed
<1>8. ASSUME Watched PROVE (AtRest' => active' # NONE) /\ (\A p \in Ops : Found(p)') /\ FoundBoot'
  <2>1. AtRest' => active' # NONE
    BY <1>8 DEF AtRest
  <2>2. FoundBoot'
    BY <1>1, <1>8 DEF IInv, FoundBoot, Backed, Recovering
  <2>3. Found(o)'
    BY <1>3, <1>8 DEF Found, Backed, Gone, Idle, Blank, NotMoved, NotFilled, NotBuilt, Placed
  <2>4. ASSUME NEW p \in Ops \ {o} PROVE Found(p)'
    <3>1. Found(p) /\ worker'[p] = worker[p] /\ journal'[p] = journal[p]
      BY <1>8 DEF IInv
    <3> QED BY <3>1 DEF Found, Backed
  <2> QED BY <2>1, <2>2, <2>3, <2>4
<1> QED BY <1>3, <1>4, <1>5, <1>6, <1>7, <1>8 DEF IInv

\* A worker process that has ended, and a journal not yet written, have their
\* types.
LEMMA GoneType == Gone \in Worker /\ Blank \in Journal
BY DEF Gone, Idle, Blank, Worker, Journal, Stages

\* The last update: a settled stage needs a database in place.
LEMMA CloseKeeps ==
  ASSUME IInv, NEW o \in Ops, NEW from \in Steps, NEW s \in Stages, s # "none",
         Close(o, from, s)
  PROVE  (Watched => s \notin Settled \cup {"none"} \/ active # NONE) => IInv'
<1> DEFINE d == [worker[o].data EXCEPT !.stage = s]
<1>0. TypeOK /\ (Watched => Found(o)) /\ worker[o] \in Worker /\ worker[o].data \in Journal
  BY DEF IInv, TypeOK, Worker
<1>1. /\ d \in Journal /\ d.stage = s /\ d.backup = worker[o].data.backup
      /\ d.switched = worker[o].data.switched
  BY <1>0 DEF Journal
<1>2. /\ worker[o].pc = from /\ worker' = [worker EXCEPT ![o] = Gone]
      /\ journal' = [journal EXCEPT ![o] = d] /\ lock' = "free" /\ boot' = boot /\ hist' = hist
      /\ UNCHANGED <<dbs, dirs, crashes, errors>>
  BY DEF Close
<1> HIDE DEF d
<1>3. /\ worker' \in [Ops -> Worker] /\ worker'[o] = Gone /\ journal' \in [Ops -> Journal]
      /\ journal'[o] = d
      /\ \A p \in Ops \ {o} : worker'[p] = worker[p] /\ journal'[p] = journal[p]
  BY <1>0, <1>1, <1>2, GoneType DEF TypeOK
<1>4. TypeOK'
  BY <1>0, <1>2, <1>3 DEF TypeOK, dbs, dirs
<1>5. Watched => Backed(o, journal'[o])
  BY <1>0, <1>1, <1>3 DEF Found, Backed
<1>6. ((s \notin Settled \cup {"none"}) => Unsettled(o)') /\ journal'[o].stage # "none"
  BY <1>1, <1>3 DEF Unsettled
<1> QED BY <1>2, <1>3, <1>4, <1>5, <1>6, EndKeeps

\* The last update of an upgrade, on each of the ways it can end, keeps the
\* invariant.
LEMMA WorkEnds ==
  ASSUME IInv, NEW o \in Ops,
         \/ Complete(o) \/ RolledBack(o) \/ RollbackFailed(o) \/ Discarded(o) \/ Aborted(o)
         \/ NotDiscarded(o)
  PROVE  IInv'
<1>0. Watched => Found(o)
  BY DEF IInv
<1>1. CASE Complete(o)
  <2>1. /\ Close(o, "complete", "completed") /\ "complete" \in Steps /\ "completed" \in Stages
        /\ "completed" # "none" /\ worker[o].pc = "complete"
    BY <1>1 DEF Complete, Close, Steps, WorkSteps, Stages, Settled
  <2>2. Watched => "completed" \notin Settled \cup {"none"} \/ active # NONE
    BY <1>0, <2>1 DEF Found, Placed, Settled
  <2> QED BY <2>1, <2>2, CloseKeeps
<1>2. CASE RolledBack(o)
  <2>1. /\ Close(o, "closing", "failed_rolled_back") /\ "closing" \in Steps /\ "failed_rolled_back" \in Stages
        /\ "failed_rolled_back" # "none" /\ worker[o].pc = "closing"
    BY <1>2 DEF RolledBack, Close, Steps, WorkSteps, Stages, Settled
  <2>2. Watched => "failed_rolled_back" \notin Settled \cup {"none"} \/ active # NONE
    BY <1>0, <2>1 DEF Found, Placed, Settled
  <2> QED BY <2>1, <2>2, CloseKeeps
<1>3. CASE RollbackFailed(o)
  <2>1. /\ Close(o, "stuck", "rollback_failed") /\ "stuck" \in Steps /\ "rollback_failed" \in Stages
        /\ "rollback_failed" # "none" /\ worker[o].pc = "stuck"
    BY <1>3 DEF RollbackFailed, Close, Steps, WorkSteps, Stages, Settled
  <2>2. Watched => "rollback_failed" \notin Settled \cup {"none"} \/ active # NONE
    BY <1>0, <2>1 DEF Found, Placed, Settled
  <2> QED BY <2>1, <2>2, CloseKeeps
<1>4. CASE Discarded(o)
  <2>1. /\ Close(o, "discarded", "failed_before_switch") /\ "discarded" \in Steps /\ "failed_before_switch" \in Stages
        /\ "failed_before_switch" # "none" /\ worker[o].pc = "discarded"
    BY <1>4 DEF Discarded, Close, Steps, WorkSteps, Stages, Settled
  <2>2. Watched => "failed_before_switch" \notin Settled \cup {"none"} \/ active # NONE
    BY <1>0, <2>1 DEF Found, Placed, Settled
  <2> QED BY <2>1, <2>2, CloseKeeps
<1>5. CASE Aborted(o)
  <2>1. /\ Close(o, "abort", "failed_before_switch") /\ "abort" \in Steps /\ "failed_before_switch" \in Stages
        /\ "failed_before_switch" # "none" /\ worker[o].pc = "abort"
    BY <1>5 DEF Aborted, Close, Steps, WorkSteps, Stages, Settled
  <2>2. Watched => "failed_before_switch" \notin Settled \cup {"none"} \/ active # NONE
    BY <1>0, <2>1 DEF Found, Placed, Settled
  <2> QED BY <2>1, <2>2, CloseKeeps
<1>6. CASE NotDiscarded(o)
  <2>1. /\ Close(o, "undiscarded", "diagnostic_retention_failed") /\ "undiscarded" \in Steps /\ "diagnostic_retention_failed" \in Stages
        /\ "diagnostic_retention_failed" # "none" /\ worker[o].pc = "undiscarded"
    BY <1>6 DEF NotDiscarded, Close, Steps, WorkSteps, Stages, Settled
  <2>2. Watched => "diagnostic_retention_failed" \notin Settled \cup {"none"} \/ active # NONE
    BY <1>0, <2>1 DEF Found, Placed, Settled
  <2> QED BY <2>1, <2>2, CloseKeeps
<1> QED BY <1>1, <1>2, <1>3, <1>4, <1>5, <1>6

\* The death of the worker process at any step, which frees the maintenance
\* lock, keeps the invariant.
LEMMA WorkerDiesKeeps ==
  ASSUME IInv, NEW o \in Ops, WorkerDies(o)
  PROVE  IInv'
<1>0. TypeOK /\ worker[o].pc \in Steps /\ Unsettled(o) /\ (Watched => Backed(o, journal[o]))
  BY DEF IInv, WorkerDies, Holds, Found
<1>1. /\ worker' = [worker EXCEPT ![o] = Gone] /\ lock' = "free" /\ journal' = journal
      /\ boot' = boot /\ hist' = hist /\ UNCHANGED <<dbs, dirs, errors>> /\ crashes' = crashes + 1
  BY DEF WorkerDies
<1>2. /\ worker' \in [Ops -> Worker] /\ worker'[o] = Gone
      /\ \A p \in Ops \ {o} : worker'[p] = worker[p]
  BY <1>0, <1>1, GoneType, WorkerBecomes
<1>3. TypeOK'
  BY <1>0, <1>1, <1>2 DEF TypeOK, dbs, dirs
<1>4. Unsettled(o)' /\ journal'[o] = journal[o] /\ journal'[o].stage # "none"
  BY <1>0, <1>1 DEF Unsettled
<1> QED BY <1>0, <1>1, <1>2, <1>3, <1>4, EndKeeps

\* A first update under the lock.
LEMMA BeginKeeps ==
  ASSUME IInv, NEW o \in Ops, Begin(o)
  PROVE  IInv'
<1> USE DEF dbs, dirs
<1>a. TypeOK
  BY DEF IInv
<1>b. Stage(o, "new", "pause", "created") /\ "pause" \in Steps /\ "created" \in Stages
  BY DEF Begin, Steps, WorkSteps, Stages
<1>0. /\ TypeOK /\ Vacant(o) /\ Unborn(o) /\ (Watched => Found(o))
      /\ lock = "free" /\ lock # "boot" /\ boot.pc \notin Recovering
      /\ OpSet /\ VacantBoot /\ Listed
  BY DEF IInv, Begin, HoldsBoot
<1>1. /\ "pause" \in Steps /\ "created" \notin Settled \cup {"none"} /\ lock' = o /\ boot' = boot
      /\ UNCHANGED <<dbs, dirs, crashes, errors>>
  BY DEF Begin, Steps, WorkSteps, Stages, Settled
<1>2. /\ worker' \in [Ops -> Worker] /\ journal' \in [Ops -> Journal]
      /\ worker[o].pc = "new" /\ worker'[o].pc = "pause"
      /\ worker'[o].data.stage = "created" /\ worker'[o].data.backup = worker[o].data.backup
      /\ worker'[o].data.switched = worker[o].data.switched
      /\ journal'[o] = worker'[o].data /\ worker'[o].started = worker[o].started
      /\ worker'[o].existed = worker[o].existed
      /\ \A p \in Ops \ {o} : worker'[p] = worker[p] /\ journal'[p] = journal[p]
  BY <1>a, <1>b, StageType
<1>3. /\ hist' \in Histories
      /\ Watched' => Watched /\ AtRest
  BY <1>0 DEF Begin, TypeOK, Histories, Watched, AtRest, Unsettled
<1>4. TypeOK'
  BY <1>0, <1>1, <1>2, <1>3 DEF TypeOK
<1>5. \A p \in Ops : worker[p].pc \notin Steps
  BY <1>0, LockAssumption DEF IInv, Holds
<1>6. OpSet' /\ HoldsBoot' /\ VacantBoot' /\ Listed'
  <2>1. OpSet' /\ HoldsBoot' /\ VacantBoot'
    BY <1>0, <1>1, LockAssumption DEF OpSet, HoldsBoot, VacantBoot, Recovering
  <2>2. o \notin boot.found
    BY <1>0, <1>2 DEF Unborn
  <2>3. boot.found \subseteq Ops
    BY <1>a DEF TypeOK, Boots
  <2>4. \A p \in boot.found : Unsettled(p)' => Unsettled(p)
    BY <1>2, <2>2, <2>3 DEF Unsettled
  <2> QED BY <1>0, <1>1, <2>1, <2>4 DEF Listed
<1>7. Unsettled(o)'
  BY <1>1, <1>2 DEF Unsettled
<1>8. \A p \in Ops : Holds(p)' /\ Unborn(p)'
  BY <1>0, <1>1, <1>2, <1>5, <1>7 DEF IInv, Holds, Unborn, Unsettled
<1>9. ASSUME NEW p \in Ops PROVE Vacant(p)'
  <2>1. CASE p = o
    BY <1>0, <1>1, <1>2, <2>1 DEF Vacant, NotBuilt, NotFilled, NotMoved, NotMovedDir, NotKept,
                                  NotKeptDir, Switching, Placed, UndoSteps
  <2>2. CASE p # o
    <3>1. Vacant(p) /\ worker'[p] = worker[p] /\ worker[p].pc \in {"new", "gone"}
      BY <1>0, <1>2, <1>5, <2>2 DEF IInv, TypeOK, Worker
    <3> QED BY <1>1, <3>1 DEF Vacant
  <2> QED BY <2>1, <2>2
<1>10. ASSUME Watched' PROVE (~AtRest') /\ (\A p \in Ops : Found(p)') /\ FoundBoot'
  <2>1. Watched /\ active # NONE
    BY <1>3, <1>10 DEF IInv
  <2>2. FoundBoot' /\ ~AtRest'
    <3>1. FoundBoot
      BY <2>1 DEF IInv
    <3> QED BY <1>0, <1>1, <3>1, LockAssumption DEF FoundBoot, Backed, AtRest, Recovering
  <2>3. Found(o)'
    BY <1>0, <1>1, <1>2, <2>1 DEF Found, Backed, NotMoved, NotFilled, NotBuilt, Placed
  <2>4. ASSUME NEW p \in Ops \ {o} PROVE Found(p)'
    <3>1. Found(p) /\ worker'[p] = worker[p] /\ journal'[p] = journal[p]
      BY <1>2, <2>1 DEF IInv
    <3> QED BY <1>1, <3>1 DEF Found, Backed
  <2> QED BY <2>2, <2>3, <2>4
<1> QED BY <1>4, <1>6, <1>8, <1>9, <1>10 DEF IInv

\* What the record may hold when the write of it failed.
LEMMA RememberedType ==
  ASSUME NEW o \in Ops, worker[o].data \in Journal, NEW d \in Remembered(o)
  PROVE  /\ d \in Journal
         /\ worker[o].data.backup => d.backup
         /\ d.backup => worker[o].data.backup \/ worker[o].pc = "record"
         /\ d.switched => worker[o].data.switched \/ worker[o].pc = "announce"
<1>1. CASE worker[o].pc = "record"
  <2>1. d = [worker[o].data EXCEPT !.backup = TRUE]
    BY <1>1 DEF Remembered
  <2> QED BY <1>1, <2>1 DEF Journal
<1>2. CASE worker[o].pc = "validate"
  <2>1. d = worker[o].data \/ d = [worker[o].data EXCEPT !.adapter = TRUE]
    BY <1>2 DEF Remembered
  <2> QED BY <1>2, <2>1 DEF Journal
<1>3. CASE worker[o].pc = "announce"
  <2>1. d = [worker[o].data EXCEPT !.switched = TRUE]
    BY <1>3 DEF Remembered
  <2> QED BY <1>3, <2>1 DEF Journal
<1>4. CASE worker[o].pc \notin {"record", "validate", "announce"}
  <2>1. d = worker[o].data
    BY <1>4 DEF Remembered
  <2> QED BY <2>1
<1> QED BY <1>1, <1>2, <1>3, <1>4

\* An exception or a cancellation between two steps of the upgrade keeps the
\* invariant: the except branch finds the files as they are.
LEMMA RaiseKeeps ==
  ASSUME IInv, NEW o \in Ops, Raise(o)
  PROVE  IInv'
<1>0. /\ TypeOK /\ worker[o] \in Worker /\ worker[o].data \in Journal
      /\ NONE \in Content /\ o \in Content /\ o # NONE
      /\ Holds(o) /\ Vacant(o) /\ (Watched => Found(o)) /\ IInv
  BY ContentAssumption DEF IInv, TypeOK, Worker, Content
<1>1. worker[o].pc \in WorkSteps /\ worker[o].pc \in Steps
  BY DEF Raise, Steps
<1>2. PICK d \in Remembered(o) :
        worker' = [worker EXCEPT ![o] = [@ EXCEPT !.pc = "raised", !.data = d]]
  BY DEF Raise
<1>3. /\ d \in Journal
      /\ worker[o].data.backup => d.backup
      /\ d.backup => worker[o].data.backup \/ worker[o].pc = "record"
      /\ d.switched => worker[o].data.switched \/ worker[o].pc = "announce"
  BY <1>0, RememberedType
<1> DEFINE w == [worker[o] EXCEPT !.pc = "raised", !.data = d]
<1>4. /\ w \in Worker /\ w.pc = "raised" /\ w.data = d /\ w.started = worker[o].started
      /\ w.existed = worker[o].existed /\ worker' = [worker EXCEPT ![o] = w]
  BY <1>0, <1>2, <1>3 DEF Worker, Steps
<1> HIDE DEF w
<1>5. /\ worker' \in [Ops -> Worker] /\ worker'[o] = w
      /\ \A p \in Ops \ {o} : worker'[p] = worker[p]
  BY <1>0, <1>4, WorkerBecomes
<1>6. /\ UNCHANGED <<dbs, dirs, journal>> /\ boot' = boot /\ lock' = lock /\ hist' = hist
      /\ errors' = errors + 1 /\ crashes' = crashes
  BY DEF Raise
<1>7. TypeOK' /\ Alone(o)
  BY <1>0, <1>5, <1>6 DEF TypeOK, Alone, dbs, dirs
<1>8. Vacant(o)'
  BY <1>0, <1>1, <1>4, <1>5, <1>6 DEF dbs, dirs, Vacant, WorkSteps, NotBuilt, NotFilled, NotMoved, NotMovedDir, NotKept,
                   NotKeptDir, Switching, Placed, UndoSteps
<1>9. Watched => Found(o)'
  BY <1>0, <1>1, <1>3, <1>4, <1>5, <1>6 DEF dbs, dirs, Vacant, Found, Backed, WorkSteps,
                   NotBuilt, NotFilled, NotMoved, NotMovedDir, NotKept,
                   NotKeptDir, Switching, Placed, UndoSteps
<1>10. Unsettled(o)' /\ worker'[o].pc \in Steps /\ backup' = backup
  BY <1>0, <1>1, <1>4, <1>5, <1>6 DEF Holds, Unsettled, Steps, dbs
<1> QED BY <1>1, <1>6, <1>7, <1>8, <1>9, <1>10, WorkKeeps

\* An exception while the upgrade is being undone or ended.
LEMMA FailsKeeps ==
  ASSUME IInv, NEW o \in Ops, UndoFails(o) \/ EndFails(o)
  PROVE  IInv'
<1>0. /\ TypeOK /\ worker[o] \in Worker /\ worker[o].data \in Journal
      /\ NONE \in Content /\ o \in Content /\ o # NONE
      /\ Holds(o) /\ Vacant(o) /\ (Watched => Found(o)) /\ IInv
  BY ContentAssumption DEF IInv, TypeOK, Worker, Content
<1>1. \E from \in UndoSteps \cup {"restore", "closing", "abort", "undiscarded", "discard_db",
                                   "discard_dir", "discarded"} :
      \E to \in {"restore", "stuck", "undiscarded"} :
        /\ Goto(o, from, to)
        /\ to = "restore" => from \in UndoSteps
        /\ to = "undiscarded" => from \in {"discard_db", "discard_dir", "discarded"}
  BY DEF UndoFails, EndFails
<1>2. PICK from \in UndoSteps \cup {"restore", "closing", "abort", "undiscarded", "discard_db",
                                   "discard_dir", "discarded"},
           to \in {"restore", "stuck", "undiscarded"} :
        /\ Goto(o, from, to)
        /\ to = "restore" => from \in UndoSteps
        /\ to = "undiscarded" => from \in {"discard_db", "discard_dir", "discarded"}
  BY <1>1
<1>3. from \in Steps /\ to \in Steps
  BY DEF Steps, UndoSteps
<1>4. /\ worker' \in [Ops -> Worker] /\ worker[o].pc = from /\ worker'[o].pc = to
      /\ worker'[o].data = worker[o].data /\ worker'[o].started = worker[o].started
      /\ worker'[o].existed = worker[o].existed
      /\ \A p \in Ops \ {o} : worker'[p] = worker[p]
  BY <1>0, <1>2, <1>3, GotoType
<1>5. /\ UNCHANGED <<dbs, dirs, journal>> /\ boot' = boot /\ lock' = lock
      /\ hist' = [hist EXCEPT !.calm = FALSE]
      /\ errors' = errors + 1 /\ crashes' = crashes
  BY DEF UndoFails, EndFails
<1>6. TypeOK' /\ Alone(o)
  <2>1. hist' \in Histories
    BY <1>0, <1>5 DEF TypeOK, Histories
  <2> QED BY <1>0, <1>4, <1>5, <2>1 DEF TypeOK, Alone, dbs, dirs
<1>7. Vacant(o)'
  BY <1>0, <1>2, <1>4, <1>5 DEF dbs, dirs, Vacant, NotBuilt, NotFilled, NotMoved, NotMovedDir, NotKept,
                   NotKeptDir, Switching, Placed, UndoSteps
<1>8. Watched => Found(o)'
  BY <1>0, <1>2, <1>4, <1>5 DEF dbs, dirs, Vacant, Found, Backed, NotBuilt, NotFilled, NotMoved, NotMovedDir, NotKept,
                   NotKeptDir, Switching, Placed, UndoSteps
<1>9. Unsettled(o)' /\ backup' = backup
  BY <1>0, <1>3, <1>4, <1>5 DEF Holds, Unsettled, dbs
<1> QED BY <1>3, <1>4, <1>5, <1>6, <1>7, <1>8, <1>9, WorkKeeps

-----------------------------------------------------------------------------
(* The recovery under the lock.                                            *)

\* A step of the recovery that only goes on to another stage keeps the type
\* of the starting backend.
LEMMA BGotoType ==
  ASSUME TypeOK, NEW from, NEW to \in BootSteps, BGoto(from, to)
  PROVE  /\ boot' \in Boots /\ boot.pc = from /\ boot'.pc = to /\ boot'.found = boot.found
         /\ boot'.op = boot.op /\ boot'.todo = boot.todo /\ boot'.value = boot.value
         /\ boot'.current = boot.current /\ boot'.blocked = boot.blocked
         /\ boot'.result = boot.result
BY DEF BGoto, TypeOK, Boots

\* The recovery of boot.op leaves the other operations' files alone.
Apart == \A p \in Ops \ {boot.op} :
  /\ shadow'[p] = shadow[p] /\ rollback'[p] = rollback[p] /\ kept'[p] = kept[p]
  /\ pshadow'[p] = pshadow[p] /\ prollback'[p] = prollback[p] /\ pkept'[p] = pkept[p]

\* A step of the recovery: no worker holds the lock.
LEMMA RecoverKeeps ==
  ASSUME IInv, TypeOK', boot.pc \in Recovering, boot'.pc \in Recovering,
         boot'.op = boot.op, boot'.found = boot.found, boot'.todo = boot.todo,
         boot'.value = boot.value, boot'.current = boot.current, boot'.blocked = boot.blocked,
         lock' = lock, hist' = hist, worker' = worker, journal' = journal, backup' = backup,
         Apart, VacantBoot', boot'.pc \notin Undecided => boot'.result \in Settled,
         Watched => (boot'.pc = "finish" => active' # NONE)
  PROVE  IInv'
<1>1. lock = "boot" /\ lock \notin Ops /\ Unsettled(boot.op) /\ boot.op \in Ops
  BY LockAssumption DEF IInv, HoldsBoot, OpSet
<1>2. \A p \in Ops : worker[p].pc \notin Steps
  BY <1>1 DEF IInv, Holds
<1>3. Watched' = Watched /\ ~AtRest'
  BY <1>1 DEF Watched, AtRest
<1>4. OpSet' /\ HoldsBoot'
  BY <1>1 DEF OpSet, HoldsBoot, Unsettled
<1>5. \A p \in Ops : Holds(p)' /\ Unborn(p)'
  BY <1>2 DEF IInv, Holds, Unborn
<1>6. ASSUME NEW p \in Ops PROVE Vacant(p)'
  <2>1. Vacant(p) /\ Unborn(p) /\ worker[p].pc \in {"new", "gone"}
    BY <1>2 DEF IInv, TypeOK, Worker
  <2>2. CASE p = boot.op
    BY <2>1, <2>2 DEF Vacant, Unborn, NotBuilt, NotFilled, NotMoved, NotMovedDir, NotKept,
                      NotKeptDir, Switching, Placed, UndoSteps
  <2>3. CASE p # boot.op
    BY <2>1, <2>3 DEF Vacant, Apart, NotBuilt, NotFilled, NotMoved, NotMovedDir, NotKept,
                      NotKeptDir, Switching, Placed, UndoSteps
  <2> QED BY <2>2, <2>3
<1>7. Listed'
  BY DEF IInv, Listed, Unsettled, Recovering
<1>8. ASSUME Watched PROVE (\A p \in Ops : Found(p)') /\ FoundBoot'
  <2>1. FoundBoot'
    BY <1>8 DEF IInv, FoundBoot, Backed
  <2>2. ASSUME NEW p \in Ops PROVE Found(p)'
    <3>1. Found(p) /\ worker[p].pc \in {"new", "gone"}
      BY <1>2, <1>8 DEF IInv, TypeOK, Worker
    <3> QED BY <3>1 DEF Found, Backed, NotMoved, NotFilled, NotBuilt, Placed
  <2> QED BY <2>1, <2>2
<1> QED BY <1>3, <1>4, <1>5, <1>6, <1>7, <1>8 DEF IInv

\* A recovery that gives up leaves the lock and an unsettled journal.
LEMMA GiveUpKeeps ==
  ASSUME IInv, boot.pc \in Recovering, BGoto(boot.pc, "failing"), lock' = "free",
         hist' = hist \/ hist' = [hist EXCEPT !.calm = FALSE],
         UNCHANGED <<dbs, dirs, journal, worker>>, crashes' \in Nat, errors' \in Nat
  PROVE  IInv'
<1> USE DEF dbs, dirs
<1>1. lock = "boot" /\ lock \notin Ops /\ Unsettled(boot.op) /\ boot.op \in Ops /\ TypeOK
  BY LockAssumption DEF IInv, HoldsBoot, OpSet
<1>2. \A p \in Ops : worker[p].pc \notin Steps
  BY <1>1 DEF IInv, Holds
<1>3. /\ boot' \in Boots /\ boot'.pc = "failing" /\ boot'.op = boot.op /\ boot'.found = boot.found /\ boot'.todo = boot.todo
      /\ boot'.value = boot.value /\ boot'.blocked = boot.blocked
      /\ "failing" \in BootSteps \ (Recovering \cup {"up", "down"})
  BY <1>1, BGotoType DEF BootSteps, Recovering
<1>4. Watched' = Watched /\ hist' \in Histories
  BY <1>1 DEF Watched, TypeOK, Histories
<1>5. TypeOK'
  BY <1>1, <1>3, <1>4 DEF TypeOK
<1>6. OpSet' /\ HoldsBoot' /\ VacantBoot'
  BY <1>1, <1>3 DEF OpSet, HoldsBoot, VacantBoot, Recovering
<1>7. \A p \in Ops : Holds(p)' /\ Unborn(p)' /\ Vacant(p)'
  BY <1>2, <1>3 DEF IInv, Holds, Unborn, Vacant
<1>8. Listed'
  BY <1>3 DEF IInv, Listed, Unsettled, Recovering
<1>9. ~AtRest'
  BY <1>1 DEF AtRest, Unsettled
<1>10. ASSUME Watched PROVE (\A p \in Ops : Found(p)') /\ FoundBoot'
  <2>1. FoundBoot'
    BY <1>3, <1>10 DEF IInv, FoundBoot, Backed
  <2>2. ASSUME NEW p \in Ops PROVE Found(p)'
    <3>1. Found(p)
      BY <1>10 DEF IInv
    <3> QED BY <3>1 DEF Found, Backed
  <2> QED BY <2>1, <2>2
<1> QED BY <1>4, <1>5, <1>6, <1>7, <1>8, <1>9, <1>10 DEF IInv

\* The moves of the recovery.
LEMMA RecoverMoves ==
  ASSUME IInv,
         \/ KeepDb \/ KeepDir \/ AwayDb \/ AwayDir \/ TakeDir \/ Aside \/ Back \/ ClearDir
         \/ BackDir \/ TidyDb \/ TidyDir
  PROVE  IInv'
<1> USE DEF Rest, workers, dbs, dirs
<1>0. /\ TypeOK /\ VacantBoot /\ NONE \in Content /\ (boot.pc \in Recovering => boot.op \in Ops)
      /\ boot.pc \in Recovering \ Undecided => boot.result \in Settled
  BY DEF IInv, Content, OpSet, Listed
<1>1. CASE KeepDb
  <2>1. BGoto("keep_db", "keep_dir") /\ "keep_db" \in Recovering /\ "keep_dir" \in Recovering /\ "keep_dir" \in BootSteps
    BY <1>1 DEF KeepDb, Recovering, BootSteps
  <2>2. /\ boot' \in Boots /\ boot.pc = "keep_db" /\ boot'.pc = "keep_dir"
        /\ boot'.op = boot.op /\ boot'.found = boot.found /\ boot'.todo = boot.todo /\ boot'.value = boot.value
        /\ boot'.current = boot.current /\ boot'.blocked = boot.blocked
        /\ boot'.result = boot.result
    BY <1>0, <2>1, BGotoType
  <2>3. TypeOK' /\ Apart /\ VacantBoot'
    BY <1>0, <1>1, <2>1, <2>2 DEF KeepDb, TypeOK, Slots, Retained, Apart, VacantBoot
  <2>4. "keep_dir" \notin Undecided => boot'.result \in Settled
    BY <1>0, <2>1, <2>2 DEF Undecided, Recovering
  <2> QED BY <1>1, <2>1, <2>2, <2>3, <2>4, RecoverKeeps DEF KeepDb
<1>2. CASE KeepDir
  <2>1. BGoto("keep_dir", "tidy_db") /\ "keep_dir" \in Recovering /\ "tidy_db" \in Recovering /\ "tidy_db" \in BootSteps
    BY <1>2 DEF KeepDir, Recovering, BootSteps
  <2>2. /\ boot' \in Boots /\ boot.pc = "keep_dir" /\ boot'.pc = "tidy_db"
        /\ boot'.op = boot.op /\ boot'.found = boot.found /\ boot'.todo = boot.todo /\ boot'.value = boot.value
        /\ boot'.current = boot.current /\ boot'.blocked = boot.blocked
        /\ boot'.result = boot.result
    BY <1>0, <2>1, BGotoType
  <2>3. TypeOK' /\ Apart /\ VacantBoot'
    BY <1>0, <1>2, <2>1, <2>2 DEF KeepDir, TypeOK, Slots, Retained, Apart, VacantBoot
  <2>4. "tidy_db" \notin Undecided => boot'.result \in Settled
    BY <1>0, <2>1, <2>2 DEF Undecided, Recovering
  <2> QED BY <1>2, <2>1, <2>2, <2>3, <2>4, RecoverKeeps DEF KeepDir
<1>3. CASE AwayDb
  <2>1. BGoto("away_db", "away_dir") /\ "away_db" \in Recovering /\ "away_dir" \in Recovering /\ "away_dir" \in BootSteps
    BY <1>3 DEF AwayDb, Recovering, BootSteps
  <2>2. /\ boot' \in Boots /\ boot.pc = "away_db" /\ boot'.pc = "away_dir"
        /\ boot'.op = boot.op /\ boot'.found = boot.found /\ boot'.todo = boot.todo /\ boot'.value = boot.value
        /\ boot'.current = boot.current /\ boot'.blocked = boot.blocked
        /\ boot'.result = boot.result
    BY <1>0, <2>1, BGotoType
  <2>3. TypeOK' /\ Apart /\ VacantBoot'
    BY <1>0, <1>3, <2>1, <2>2 DEF AwayDb, TypeOK, Slots, Retained, Apart, VacantBoot
  <2>4. "away_dir" \notin Undecided => boot'.result \in Settled
    BY <1>0, <2>1, <2>2 DEF Undecided, Recovering
  <2> QED BY <1>3, <2>1, <2>2, <2>3, <2>4, RecoverKeeps DEF AwayDb
<1>4. CASE AwayDir
  <2>1. BGoto("away_dir", "take_dir") /\ "away_dir" \in Recovering /\ "take_dir" \in Recovering /\ "take_dir" \in BootSteps
    BY <1>4 DEF AwayDir, Recovering, BootSteps
  <2>2. /\ boot' \in Boots /\ boot.pc = "away_dir" /\ boot'.pc = "take_dir"
        /\ boot'.op = boot.op /\ boot'.found = boot.found /\ boot'.todo = boot.todo /\ boot'.value = boot.value
        /\ boot'.current = boot.current /\ boot'.blocked = boot.blocked
        /\ boot'.result = boot.result
    BY <1>0, <2>1, BGotoType
  <2>3. TypeOK' /\ Apart /\ VacantBoot'
    BY <1>0, <1>4, <2>1, <2>2 DEF AwayDir, TypeOK, Slots, Retained, Apart, VacantBoot
  <2>4. "take_dir" \notin Undecided => boot'.result \in Settled
    BY <1>0, <2>1, <2>2 DEF Undecided, Recovering
  <2> QED BY <1>4, <2>1, <2>2, <2>3, <2>4, RecoverKeeps DEF AwayDir
<1>5. CASE TakeDir
  <2>1. BGoto("take_dir", "recopy") /\ "take_dir" \in Recovering /\ "recopy" \in Recovering /\ "recopy" \in BootSteps
    BY <1>5 DEF TakeDir, Recovering, BootSteps
  <2>2. /\ boot' \in Boots /\ boot.pc = "take_dir" /\ boot'.pc = "recopy"
        /\ boot'.op = boot.op /\ boot'.found = boot.found /\ boot'.todo = boot.todo /\ boot'.value = boot.value
        /\ boot'.current = boot.current /\ boot'.blocked = boot.blocked
        /\ boot'.result = boot.result
    BY <1>0, <2>1, BGotoType
  <2>3. TypeOK' /\ Apart /\ VacantBoot'
    BY <1>0, <1>5, <2>1, <2>2 DEF TakeDir, TypeOK, Slots, Retained, Apart, VacantBoot
  <2>4. "recopy" \notin Undecided => boot'.result \in Settled
    BY <1>0, <2>1, <2>2 DEF Undecided, Recovering
  <2> QED BY <1>5, <2>1, <2>2, <2>3, <2>4, RecoverKeeps DEF TakeDir
<1>6. CASE Aside
  <2>1. BGoto("aside", "back") /\ "aside" \in Recovering /\ "back" \in Recovering /\ "back" \in BootSteps
    BY <1>6 DEF Aside, Recovering, BootSteps
  <2>2. /\ boot' \in Boots /\ boot.pc = "aside" /\ boot'.pc = "back"
        /\ boot'.op = boot.op /\ boot'.found = boot.found /\ boot'.todo = boot.todo /\ boot'.value = boot.value
        /\ boot'.current = boot.current /\ boot'.blocked = boot.blocked
        /\ boot'.result = boot.result
    BY <1>0, <2>1, BGotoType
  <2>3. TypeOK' /\ Apart /\ VacantBoot'
    BY <1>0, <1>6, <2>1, <2>2 DEF Aside, TypeOK, Slots, Retained, Apart, VacantBoot
  <2>4. "back" \notin Undecided => boot'.result \in Settled
    BY <1>0, <2>1, <2>2 DEF Undecided, Recovering
  <2> QED BY <1>6, <2>1, <2>2, <2>3, <2>4, RecoverKeeps DEF Aside
<1>7. CASE Back
  <2>1. BGoto("back", "clear_dir") /\ "back" \in Recovering /\ "clear_dir" \in Recovering /\ "clear_dir" \in BootSteps
    BY <1>7 DEF Back, Recovering, BootSteps
  <2>2. /\ boot' \in Boots /\ boot.pc = "back" /\ boot'.pc = "clear_dir"
        /\ boot'.op = boot.op /\ boot'.found = boot.found /\ boot'.todo = boot.todo /\ boot'.value = boot.value
        /\ boot'.current = boot.current /\ boot'.blocked = boot.blocked
        /\ boot'.result = boot.result
    BY <1>0, <2>1, BGotoType
  <2>3. TypeOK' /\ Apart /\ VacantBoot'
    BY <1>0, <1>7, <2>1, <2>2 DEF Back, TypeOK, Slots, Retained, Apart, VacantBoot
  <2>4. "clear_dir" \notin Undecided => boot'.result \in Settled
    BY <1>0, <2>1, <2>2 DEF Undecided, Recovering
  <2> QED BY <1>7, <2>1, <2>2, <2>3, <2>4, RecoverKeeps DEF Back
<1>8. CASE ClearDir
  <2>1. BGoto("clear_dir", "back_dir") /\ "clear_dir" \in Recovering /\ "back_dir" \in Recovering /\ "back_dir" \in BootSteps
    BY <1>8 DEF ClearDir, Recovering, BootSteps
  <2>2. /\ boot' \in Boots /\ boot.pc = "clear_dir" /\ boot'.pc = "back_dir"
        /\ boot'.op = boot.op /\ boot'.found = boot.found /\ boot'.todo = boot.todo /\ boot'.value = boot.value
        /\ boot'.current = boot.current /\ boot'.blocked = boot.blocked
        /\ boot'.result = boot.result
    BY <1>0, <2>1, BGotoType
  <2>3. TypeOK' /\ Apart /\ VacantBoot'
    BY <1>0, <1>8, <2>1, <2>2 DEF ClearDir, TypeOK, Slots, Retained, Apart, VacantBoot
  <2>4. "back_dir" \notin Undecided => boot'.result \in Settled
    BY <1>0, <2>1, <2>2 DEF Undecided, Recovering
  <2> QED BY <1>8, <2>1, <2>2, <2>3, <2>4, RecoverKeeps DEF ClearDir
<1>9. CASE BackDir
  <2>1. BGoto("back_dir", "tidy_db") /\ "back_dir" \in Recovering /\ "tidy_db" \in Recovering /\ "tidy_db" \in BootSteps
    BY <1>9 DEF BackDir, Recovering, BootSteps
  <2>2. /\ boot' \in Boots /\ boot.pc = "back_dir" /\ boot'.pc = "tidy_db"
        /\ boot'.op = boot.op /\ boot'.found = boot.found /\ boot'.todo = boot.todo /\ boot'.value = boot.value
        /\ boot'.current = boot.current /\ boot'.blocked = boot.blocked
        /\ boot'.result = boot.result
    BY <1>0, <2>1, BGotoType
  <2>3. TypeOK' /\ Apart /\ VacantBoot'
    BY <1>0, <1>9, <2>1, <2>2 DEF BackDir, TypeOK, Slots, Retained, Apart, VacantBoot
  <2>4. "tidy_db" \notin Undecided => boot'.result \in Settled
    BY <1>0, <2>1, <2>2 DEF Undecided, Recovering
  <2> QED BY <1>9, <2>1, <2>2, <2>3, <2>4, RecoverKeeps DEF BackDir
<1>10. CASE TidyDb
  <2>1. BGoto("tidy_db", "tidy_dir") /\ "tidy_db" \in Recovering /\ "tidy_dir" \in Recovering /\ "tidy_dir" \in BootSteps
    BY <1>10 DEF TidyDb, Recovering, BootSteps
  <2>2. /\ boot' \in Boots /\ boot.pc = "tidy_db" /\ boot'.pc = "tidy_dir"
        /\ boot'.op = boot.op /\ boot'.found = boot.found /\ boot'.todo = boot.todo /\ boot'.value = boot.value
        /\ boot'.current = boot.current /\ boot'.blocked = boot.blocked
        /\ boot'.result = boot.result
    BY <1>0, <2>1, BGotoType
  <2>3. TypeOK' /\ Apart /\ VacantBoot'
    BY <1>0, <1>10, <2>1, <2>2 DEF TidyDb, TypeOK, Slots, Retained, Apart, VacantBoot
  <2>4. "tidy_dir" \notin Undecided => boot'.result \in Settled
    BY <1>0, <2>1, <2>2 DEF Undecided, Recovering
  <2> QED BY <1>10, <2>1, <2>2, <2>3, <2>4, RecoverKeeps DEF TidyDb
<1>11. CASE TidyDir
  <2>1. BGoto("tidy_dir", "check") /\ "tidy_dir" \in Recovering /\ "check" \in Recovering /\ "check" \in BootSteps
    BY <1>11 DEF TidyDir, Recovering, BootSteps
  <2>2. /\ boot' \in Boots /\ boot.pc = "tidy_dir" /\ boot'.pc = "check"
        /\ boot'.op = boot.op /\ boot'.found = boot.found /\ boot'.todo = boot.todo /\ boot'.value = boot.value
        /\ boot'.current = boot.current /\ boot'.blocked = boot.blocked
        /\ boot'.result = boot.result
    BY <1>0, <2>1, BGotoType
  <2>3. TypeOK' /\ Apart /\ VacantBoot'
    BY <1>0, <1>11, <2>1, <2>2 DEF TidyDir, TypeOK, Slots, Retained, Apart, VacantBoot
  <2>4. "check" \notin Undecided => boot'.result \in Settled
    BY <1>0, <2>1, <2>2 DEF Undecided, Recovering
  <2> QED BY <1>11, <2>1, <2>2, <2>3, <2>4, RecoverKeeps DEF TidyDir
<1> QED BY <1>1, <1>2, <1>3, <1>4, <1>5, <1>6, <1>7, <1>8, <1>9, <1>10, <1>11

\* The decisions of the recovery.  When a database was found before the
\* upgrade, the switched journal names a copy of it.
LEMMA ChooseKeeps ==
  ASSUME IInv, Choose
  PROVE  IInv'
<1> USE DEF Rest, workers, dbs, dirs
<1>0. TypeOK /\ boot \in Boots /\ boot.pc = "choose" /\ boot.pc \in Recovering
  BY DEF IInv, TypeOK, Choose, Recovering
<1>1. \E to \in {"keep_db", "away_db", "aside", "copy", "clear_dir"} :
      \E r \in Settled \cup {"none"} :
        /\ boot' = [boot EXCEPT !.pc = to, !.result = r]
        /\ to # "away_db" => r \in Settled
        /\ to = "copy" => active = NONE
        /\ to = "away_db" => boot.current.switched
  <2>1. boot' = [boot EXCEPT !.pc = "away_db"] => boot' = [boot EXCEPT !.pc = "away_db", !.result = boot.result]
    BY <1>0 DEF Boots
  <2>2. boot.result \in Settled \cup {"none"}
    BY <1>0 DEF Boots
  <2> QED BY <2>1, <2>2 DEF Choose, Settled
<1>2. PICK to \in {"keep_db", "away_db", "aside", "copy", "clear_dir"}, r \in Settled \cup {"none"} :
        /\ boot' = [boot EXCEPT !.pc = to, !.result = r]
        /\ to # "away_db" => r \in Settled
        /\ to = "copy" => active = NONE
        /\ to = "away_db" => boot.current.switched
  BY <1>1
<1>3. to \in BootSteps /\ to \in Recovering /\ to # "finish" /\ (to \in Undecided => to = "away_db")
  BY DEF BootSteps, Recovering, Undecided
<1>4. /\ boot' \in Boots /\ boot'.pc = to /\ boot'.result = r
      /\ boot'.op = boot.op /\ boot'.found = boot.found /\ boot'.todo = boot.todo /\ boot'.value = boot.value
      /\ boot'.current = boot.current /\ boot'.blocked = boot.blocked
  BY <1>0, <1>2, <1>3 DEF Boots
<1>5. UNCHANGED <<dbs, dirs, Rest>>
  BY DEF Choose
<1>6. TypeOK' /\ Apart
  BY <1>0, <1>4, <1>5 DEF TypeOK, Apart
<1>7. VacantBoot'
  BY <1>2, <1>4, <1>5 DEF VacantBoot
<1>8. boot'.pc \notin Undecided => boot'.result \in Settled
  BY <1>2, <1>3, <1>4 DEF Undecided
<1> QED BY <1>0, <1>3, <1>4, <1>5, <1>6, <1>7, <1>8, RecoverKeeps

\* Copying the verified backup into the place of a switched database that was
\* moved away.
LEMMA RecopyKeeps ==
  ASSUME IInv, Recopy
  PROVE  IInv'
<1> USE DEF Rest, workers, dbs, dirs
<1>0. /\ TypeOK /\ boot \in Boots /\ boot.pc = "recopy" /\ boot.pc \in Recovering
      /\ boot.op \in Ops /\ VacantBoot /\ boot.current \in Journal
      /\ Watched => FoundBoot
  BY DEF IInv, TypeOK, Recopy, Recovering, OpSet, Boots
<1> DEFINE c == BackupCopy(boot.op)
           r == IF c # NONE THEN "recovered_from_backup" ELSE "recovered_no_existing_database"
           to == IF c # NONE THEN "clear_dir" ELSE "finish"
<1>1. c \in Content
  BY <1>0 DEF BackupCopy, TypeOK, Slots, Content
<1>2. boot' = [boot EXCEPT !.pc = to, !.result = r] /\ active' = c
  BY DEF Recopy
<1>3. /\ to \in BootSteps /\ to \in Recovering /\ to \notin Undecided /\ r \in Settled
      /\ to \in {"clear_dir", "finish"} /\ (to = "finish" => c = NONE)
  BY DEF BootSteps, Recovering, Undecided, Settled
<1> HIDE DEF c, r, to
<1>4. /\ boot' \in Boots /\ boot'.pc = to /\ boot'.result = r
      /\ boot'.op = boot.op /\ boot'.found = boot.found /\ boot'.todo = boot.todo /\ boot'.value = boot.value
      /\ boot'.current = boot.current /\ boot'.blocked = boot.blocked
  BY <1>0, <1>2, <1>3 DEF Boots
<1>5. /\ UNCHANGED <<shadow, rollback, backup, kept, attic, dirs, Rest>>
  BY DEF Recopy
<1>6. TypeOK' /\ Apart
  BY <1>0, <1>1, <1>2, <1>4, <1>5 DEF TypeOK, Apart
<1>7. VacantBoot'
  BY <1>3, <1>4 DEF VacantBoot
<1>8. Watched => (to = "finish" => active' # NONE)
  <2>1. ASSUME Watched, c = NONE PROVE FALSE
    <3>1. boot.current.switched /\ Backed(boot.op, boot.current)
      BY <1>0, <2>1 DEF VacantBoot, FoundBoot
    <3>2. boot.current.backup /\ backup[boot.op] # NONE
      BY <3>1 DEF Backed
    <3> QED BY <2>1, <3>2 DEF c, BackupCopy
  <2> QED BY <1>3, <2>1
<1> QED BY <1>0, <1>3, <1>4, <1>5, <1>6, <1>7, <1>8, RecoverKeeps

\* Copying the backup when neither the database nor its rollback is there;
\* without a copy the recovery raises.
LEMMA CopyKeeps ==
  ASSUME IInv, Copy
  PROVE  IInv'
<1> USE DEF workers, dbs, dirs
<1>0. /\ TypeOK /\ boot \in Boots /\ boot.pc = "copy" /\ boot.pc \in Recovering
      /\ boot.op \in Ops /\ active = NONE /\ boot.current \in Journal
      /\ boot.result \in Settled
  BY DEF IInv, TypeOK, Copy, Recovering, Undecided, OpSet, Boots, VacantBoot, Listed
<1> DEFINE c == BackupCopy(boot.op)
<1>1. c \in Content /\ active' = c
  BY <1>0 DEF Copy, BackupCopy, TypeOK, Slots, Content
<1>2. UNCHANGED <<shadow, rollback, backup, kept, attic, dirs, journal, hist, workers>>
  BY DEF Copy
<1>3. CASE c = NONE
  <2>1. BGoto("copy", "failing") /\ lock' = "free"
    BY <1>3 DEF Copy
  <2>2. UNCHANGED <<dbs, dirs, journal, worker>> /\ crashes' \in Nat /\ errors' \in Nat
    BY <1>0, <1>1, <1>2, <1>3 DEF TypeOK
  <2> QED BY <1>0, <1>2, <2>1, <2>2, GiveUpKeeps
<1>4. CASE c # NONE
  <2>1. /\ BGoto("copy", "clear_dir") /\ lock' = lock
        /\ "clear_dir" \in BootSteps /\ "clear_dir" \in Recovering /\ "clear_dir" \notin Undecided
    BY <1>4 DEF Copy, BootSteps, Recovering, Undecided
  <2>2. /\ boot' \in Boots /\ boot'.pc = "clear_dir"
        /\ boot'.op = boot.op /\ boot'.found = boot.found /\ boot'.todo = boot.todo /\ boot'.value = boot.value
        /\ boot'.current = boot.current /\ boot'.blocked = boot.blocked
        /\ boot'.result = boot.result
    BY <1>0, <2>1, BGotoType
  <2> HIDE DEF c
  <2>3. TypeOK' /\ Apart /\ VacantBoot'
    BY <1>0, <1>1, <1>2, <2>1, <2>2 DEF TypeOK, Apart, VacantBoot
  <2> QED BY <1>0, <1>2, <2>1, <2>2, <2>3, RecoverKeeps
<1> QED BY <1>3, <1>4

\* The recovery checks that a database is in place before it settles the
\* journal.
LEMMA CheckKeeps ==
  ASSUME IInv, Check
  PROVE  IInv'
<1> USE DEF workers, dbs, dirs
<1>0. /\ TypeOK /\ boot \in Boots /\ boot.pc = "check" /\ boot.pc \in Recovering
      /\ boot.result \in Settled
      /\ UNCHANGED <<dbs, dirs, journal, hist, workers>>
  BY DEF IInv, TypeOK, Check, BGoto, Recovering, Undecided, Listed
<1>1. CASE active = NONE
  <2>1. BGoto("check", "failing") /\ lock' = "free"
    BY <1>1 DEF Check
  <2>2. crashes' \in Nat /\ errors' \in Nat
    BY <1>0 DEF TypeOK
  <2> QED BY <1>0, <2>1, <2>2, GiveUpKeeps
<1>2. CASE active # NONE
  <2>1. /\ BGoto("check", "finish") /\ lock' = lock
        /\ "finish" \in BootSteps /\ "finish" \in Recovering /\ "finish" \notin Undecided
    BY <1>2 DEF Check, BootSteps, Recovering, Undecided
  <2>2. /\ boot' \in Boots /\ boot'.pc = "finish"
        /\ boot'.op = boot.op /\ boot'.found = boot.found /\ boot'.todo = boot.todo /\ boot'.value = boot.value
        /\ boot'.current = boot.current /\ boot'.blocked = boot.blocked
        /\ boot'.result = boot.result
    BY <1>0, <2>1, BGotoType
  <2>3. TypeOK' /\ Apart /\ VacantBoot'
    BY <1>0, <2>1, <2>2 DEF TypeOK, Apart, VacantBoot
  <2> QED BY <1>0, <1>2, <2>1, <2>2, <2>3, RecoverKeeps
<1> QED BY <1>1, <1>2

\* An exception in _recover_journal leaves the lock and the files as they
\* are.
LEMMA RecoveryRaisesKeeps ==
  ASSUME IInv, RecoveryRaises
  PROVE  IInv'
<1>1. /\ boot.pc \in Recovering /\ BGoto(boot.pc, "failing") /\ lock' = "free"
      /\ hist' = [hist EXCEPT !.calm = FALSE] /\ UNCHANGED <<dbs, dirs, journal, worker>>
  BY DEF RecoveryRaises
<1>2. crashes' \in Nat /\ errors' \in Nat
  BY DEF IInv, TypeOK, RecoveryRaises
<1> QED BY <1>1, <1>2, GiveUpKeeps

\* The recovery settles the journal: a database is in place.
LEMMA FinishKeeps ==
  ASSUME IInv, Finish
  PROVE  IInv'
<1> USE DEF workers, dbs, dirs
<1> DEFINE o == boot.op
           j == [boot.current EXCEPT !.stage = boot.result]
<1>1. /\ TypeOK /\ boot \in Boots /\ boot.pc = "finish" /\ boot.pc \in Recovering /\ o \in Ops
      /\ boot.result \in Settled /\ boot.current \in Journal /\ Listed
      /\ (Watched => active # NONE /\ Backed(o, boot.current)) /\ lock = "boot"
  BY DEF IInv, TypeOK, Finish, Recovering, Undecided, OpSet, Boots, Listed, HoldsBoot, FoundBoot
<1>2. j \in Journal /\ j.stage \in Settled /\ (Watched => Backed(o, j))
  BY <1>1 DEF Journal, Stages, Backed
<1>3. /\ journal' = [journal EXCEPT ![o] = j] /\ lock' = "free"
      /\ boot' = [boot EXCEPT !.pc = "scan", !.todo = @ \ {o}]
      /\ UNCHANGED <<dbs, dirs, hist, workers>>
  BY DEF Finish
<1> HIDE DEF j
<1>4. /\ journal' \in [Ops -> Journal] /\ journal'[o] = j
      /\ \A p \in Ops \ {o} : journal'[p] = journal[p]
  BY <1>1, <1>2, <1>3 DEF TypeOK
<1>5. /\ boot' \in Boots /\ boot'.pc = "scan" /\ boot'.todo = boot.todo \ {o} /\ boot'.op = o
      /\ boot'.blocked = boot.blocked /\ boot'.found = boot.found /\ boot.found \subseteq Ops
      /\ "scan" \notin Recovering \cup {"wait", "failing", "up", "down"}
  BY <1>1, <1>3 DEF Boots, BootSteps, Recovering
<1>6. \A p \in Ops : worker[p].pc \notin Steps
  BY <1>1, LockAssumption DEF IInv, Holds
<1>7. TypeOK'
  BY <1>1, <1>3, <1>4, <1>5 DEF TypeOK
<1>8. OpSet' /\ HoldsBoot' /\ VacantBoot'
  BY <1>3, <1>5 DEF OpSet, HoldsBoot, VacantBoot, Recovering
<1>9. \A p \in Ops : Holds(p)' /\ Unborn(p)'
  BY <1>1, <1>2, <1>3, <1>4, <1>5, <1>6 DEF IInv, Holds, Unborn, Settled
<1>10. ASSUME NEW p \in Ops PROVE Vacant(p)'
  <2>1. Vacant(p)
    BY DEF IInv
  <2> QED BY <1>3, <2>1 DEF Vacant
<1>11. Listed'
  <2>1. journal'[o].stage \in Settled
    BY <1>2, <1>4
  <2>2. \A p \in Ops \ {o} : Unsettled(p)' => Unsettled(p)
    BY <1>4 DEF Unsettled
  <2> QED BY <1>1, <1>5, <2>1, <2>2 DEF Listed, Recovering, Unsettled
<1>12. ASSUME Watched' PROVE active' # NONE /\ (\A p \in Ops : Found(p)') /\ FoundBoot'
  <2>1. Watched
    BY <1>3, <1>12 DEF Watched
  <2>2. FoundBoot'
    BY <1>5 DEF FoundBoot
  <2>3. ASSUME NEW p \in Ops PROVE Found(p)'
    <3>1. Found(p) /\ Backed(p, journal'[p])
      BY <1>2, <1>4, <2>1 DEF IInv, Found
    <3> QED BY <1>3, <3>1 DEF Found, Backed
  <2> QED BY <1>1, <1>3, <2>1, <2>2, <2>3
<1> QED BY <1>7, <1>8, <1>9, <1>10, <1>11, <1>12 DEF IInv

-----------------------------------------------------------------------------
(* The backend outside the recovery of one journal.                        *)

\* A step of the backend that moves no file and is not under the lock
\* afterwards.
BootMove ==
  /\ boot'.pc \notin Recovering /\ UNCHANGED <<dbs, dirs, journal, worker>>
  /\ hist' = hist \/ hist' = [hist EXCEPT !.calm = FALSE]
  /\ lock' = lock \/ (lock = "boot" /\ lock' = "free")
  /\ \A p \in boot'.found : p \in boot.found \/ journal[p].stage # "none"
  /\ \A p \in boot'.todo : p \in boot.todo \/ journal[p].stage # "none"
  /\ boot'.op = boot.op \/ boot'.op \in boot.todo \/ boot'.op = NONE
  /\ boot'.pc \in {"wait", "failing"} =>
       /\ boot'.op \in Ops
       /\ Watched => Backed(boot'.op, boot'.value)
  /\ boot'.pc \notin {"up", "down"} /\ ~boot'.blocked
       => \A o \in boot'.found : Unsettled(o) => o \in boot'.todo
  /\ boot.pc \in Recovering => lock' = "free"

\* A step of the starting backend that touches no file, journal or lock.
LEMMA BootKeeps ==
  ASSUME IInv, TypeOK', BootMove
  PROVE  IInv'
<1> USE DEF dbs, dirs, BootMove
<1>1. Watched' = Watched
  BY DEF IInv, TypeOK, Watched, Histories
<1>2. OpSet' /\ HoldsBoot'
  BY DEF IInv, OpSet, HoldsBoot
<1>3. VacantBoot'
  BY DEF VacantBoot, Recovering
<1>4. Listed'
  BY DEF Listed, Unsettled
<1>5. ASSUME NEW p \in Ops PROVE Holds(p)' /\ Unborn(p)' /\ Vacant(p)'
  <2>1. Holds(p) /\ Unborn(p) /\ Vacant(p) /\ p # NONE
    BY ContentAssumption DEF IInv
  <2>2. Holds(p)'
    BY <2>1, LockAssumption DEF Holds, Unsettled
  <2>3. Unborn(p)'
    BY <2>1 DEF Unborn
  <2>4. Vacant(p)'
    BY <2>1 DEF Vacant
  <2> QED BY <2>2, <2>3, <2>4
<1>6. AtRest' => AtRest
  BY DEF IInv, AtRest, Unsettled, HoldsBoot, OpSet
<1>7. ASSUME Watched PROVE (AtRest' => active' # NONE) /\ (\A p \in Ops : Found(p)') /\ FoundBoot'
  <2>1. FoundBoot'
    BY <1>7 DEF FoundBoot, Backed, Recovering
  <2>2. ASSUME NEW p \in Ops PROVE Found(p)'
    <3>1. Found(p)
      BY <1>7 DEF IInv
    <3> QED BY <3>1 DEF Found, Backed
  <2> QED BY <1>6, <1>7, <2>1, <2>2 DEF IInv
<1> QED BY <1>1, <1>2, <1>3, <1>4, <1>5, <1>7 DEF IInv

\* A backend that is down, scanning or serving has its type.
LEMMA QuietType ==
  ASSUME NEW pc \in BootSteps
  PROVE  /\ Quiet(pc) \in Boots /\ Quiet(pc).pc = pc /\ Quiet(pc).todo = {} /\ Quiet(pc).op = NONE
         /\ Quiet(pc).blocked = FALSE /\ Quiet(pc).found = {}
BY GoneType DEF Quiet, Boots

\* The backend is closed; a worker may outlive it.
LEMMA BackendStopsKeeps ==
  ASSUME IInv, BackendStops \/ BackendDies
  PROVE  IInv'
<1>0. TypeOK /\ (boot.pc \in Recovering => lock = "boot") /\ "down" \in BootSteps
  BY DEF IInv, HoldsBoot, BootSteps
<1>1. CASE BackendStops
  <2>1. /\ boot' \in Boots /\ boot'.pc = "down" /\ boot'.op = boot.op /\ boot'.todo = boot.todo
        /\ boot'.found = boot.found /\ "down" \notin Recovering /\ UNCHANGED <<dbs, dirs, Rest>>
    BY <1>0, <1>1, BGotoType DEF BackendStops, Recovering
  <2>2. TypeOK'
    BY <1>0, <2>1 DEF TypeOK, dbs, dirs, Rest, workers
  <2>3. UNCHANGED <<dbs, dirs, journal, worker>> /\ hist' = hist /\ lock' = lock
    BY <2>1 DEF Rest, workers
  <2>4. BootMove
    BY <1>0, <1>1, <2>1, <2>3 DEF BootMove, BackendStops, BGoto, Recovering
  <2> QED BY <2>2, <2>4, BootKeeps
<1>2. CASE BackendDies
  <2>1. /\ boot' = Quiet("down") /\ UNCHANGED <<dbs, dirs, journal, worker, hist>>
        /\ lock' = (IF lock = "boot" THEN "free" ELSE lock) /\ crashes' = crashes + 1 /\ errors' = errors
        /\ "down" \notin Recovering
    BY <1>2 DEF BackendDies, Recovering
  <2>2. boot' \in Boots /\ boot'.pc = "down" /\ boot'.found = {} /\ boot'.todo = {} /\ boot'.op = NONE
    BY <1>0, <2>1, QuietType
  <2>3. TypeOK'
    BY <1>0, <2>1, <2>2 DEF TypeOK, dbs, dirs
  <2>4. BootMove
    BY <1>0, <2>1, <2>2 DEF BootMove
  <2> QED BY <2>3, <2>4, BootKeeps
<1> QED BY <1>1, <1>2

\* The backend starts and lists the journals.
LEMMA BackendStartsKeeps ==
  ASSUME IInv, BackendStarts \/ Serve
  PROVE  IInv'
<1>0. TypeOK /\ Listed /\ {"scan", "up", "down"} \subseteq BootSteps \ Recovering
  BY DEF IInv, BootSteps, Recovering
<1>1. CASE BackendStarts
  <2>1. /\ boot.pc = "down" /\ UNCHANGED <<dbs, dirs, Rest>>
        /\ boot' = [Quiet("scan") EXCEPT !.found = {o \in Ops : journal[o].stage # "none"},
                                        !.todo = {o \in Ops : journal[o].stage # "none"}]
    BY <1>1 DEF BackendStarts
  <2>2. /\ boot' \in Boots /\ boot'.pc = "scan" /\ boot'.op = NONE /\ boot'.blocked = FALSE
        /\ boot'.found = {o \in Ops : journal[o].stage # "none"}
        /\ boot'.todo = {o \in Ops : journal[o].stage # "none"}
    <3> DEFINE q == Quiet("scan")
    <3>1. q \in Boots /\ q.pc = "scan" /\ q.op = NONE /\ q.blocked = FALSE
      BY <1>0, QuietType
    <3>2. boot' = [q EXCEPT !.found = {o \in Ops : journal[o].stage # "none"},
                              !.todo = {o \in Ops : journal[o].stage # "none"}]
      BY <2>1
    <3> HIDE DEF q
    <3> QED BY <3>1, <3>2 DEF Boots
  <2>3. TypeOK'
    BY <1>0, <2>1, <2>2 DEF TypeOK, dbs, dirs, Rest, workers
  <2>4. BootMove
    BY <1>0, <2>1, <2>2 DEF BootMove, Rest, workers, Unsettled, Recovering
  <2> QED BY <2>3, <2>4, BootKeeps
<1>2. CASE Serve
  <2>1. PICK to \in {"up", "down"} : boot' = Quiet(to)
    BY <1>2 DEF Serve
  <2>2. /\ boot' \in Boots /\ boot'.pc = to /\ boot'.op = NONE /\ boot'.todo = {} /\ boot'.found = {}
    BY <1>0, <2>1, QuietType
  <2>3. UNCHANGED <<dbs, dirs, Rest>> /\ boot.pc = "scan"
    BY <1>2 DEF Serve
  <2>4. TypeOK'
    BY <1>0, <2>2, <2>3 DEF TypeOK, dbs, dirs, Rest, workers
  <2>5. BootMove
    BY <1>0, <2>2, <2>3 DEF BootMove, Rest, workers, Recovering
  <2> QED BY <2>4, <2>5, BootKeeps
<1> QED BY <1>1, <1>2

\* The first look at a journal, without the lock.
LEMMA LookKeeps ==
  ASSUME IInv, NEW o \in Ops, Look(o)
  PROVE  IInv'
<1>0. /\ TypeOK /\ Listed /\ boot \in Boots /\ journal[o] \in Journal
      /\ {"scan", "wait"} \subseteq BootSteps \ Recovering
      /\ Watched => Backed(o, journal[o])
  BY DEF IInv, BootSteps, Recovering, TypeOK, Found
<1>1. boot.pc = "scan" /\ o \in boot.todo /\ UNCHANGED <<dbs, dirs, Rest>>
  BY DEF Look
<1>2. CASE journal[o].stage \in Settled
  <2>1. boot' = [boot EXCEPT !.todo = @ \ {o}]
    BY <1>2 DEF Look
  <2>2. /\ boot' \in Boots /\ boot'.pc = "scan" /\ boot'.op = boot.op
        /\ boot'.found = boot.found /\ boot'.blocked = boot.blocked /\ boot'.todo = boot.todo \ {o}
    BY <1>0, <1>1, <2>1 DEF Boots
  <2>3. TypeOK'
    BY <1>0, <1>1, <2>2 DEF TypeOK, dbs, dirs, Rest, workers
  <2>4. BootMove
    BY <1>0, <1>1, <1>2, <2>2 DEF BootMove, Rest, workers, Listed, Unsettled
  <2> QED BY <2>3, <2>4, BootKeeps
<1>3. CASE journal[o].stage \notin Settled
  <2>1. boot' = [boot EXCEPT !.pc = "wait", !.op = o, !.value = journal[o]]
    BY <1>3 DEF Look
  <2>2. /\ boot' \in Boots /\ boot'.pc = "wait" /\ boot'.op = o /\ boot'.value = journal[o]
        /\ boot'.found = boot.found /\ boot'.blocked = boot.blocked /\ boot'.todo = boot.todo
    BY <1>0, <1>1, <2>1 DEF Boots
  <2>3. TypeOK'
    BY <1>0, <1>1, <2>2 DEF TypeOK, dbs, dirs, Rest, workers
  <2>4. BootMove
    BY <1>0, <1>1, <2>2 DEF BootMove, Rest, workers, Listed
  <2> QED BY <2>3, <2>4, BootKeeps
<1> QED BY <1>2, <1>3

\* A living worker keeps the lock past the timeout of the recovery.
LEMMA LockTimesOutKeeps ==
  ASSUME IInv, LockTimesOut
  PROVE  IInv'
<1>0. /\ TypeOK /\ Listed /\ {"wait", "failing"} \subseteq BootSteps \ Recovering
      /\ boot.pc = "wait" /\ boot.op \in Ops /\ (Watched => Backed(boot.op, boot.value))
  BY DEF IInv, BootSteps, Recovering, TypeOK, OpSet, FoundBoot, LockTimesOut, BGoto
<1>1. BGoto("wait", "failing") /\ "failing" \in BootSteps
  BY <1>0 DEF LockTimesOut
<1>2. /\ boot' \in Boots /\ boot'.pc = "failing" /\ boot'.op = boot.op
      /\ boot'.value = boot.value /\ boot'.found = boot.found /\ boot'.blocked = boot.blocked /\ boot'.todo = boot.todo
  BY <1>0, <1>1, BGotoType
<1>3. /\ UNCHANGED <<dbs, dirs, journal, lock, workers>> /\ hist' = [hist EXCEPT !.calm = FALSE]
  BY DEF LockTimesOut
<1>4. hist' \in Histories
  BY <1>0, <1>3 DEF TypeOK, Histories
<1>5. TypeOK'
  BY <1>0, <1>2, <1>3, <1>4 DEF TypeOK, dbs, dirs, workers
<1>6. BootMove
  BY <1>0, <1>2, <1>3 DEF BootMove, workers, Listed
<1> QED BY <1>5, <1>6, BootKeeps

\* Taking the lock: no worker is at work, and the journal is read again.
LEMMA LockAndReadKeeps ==
  ASSUME IInv, LockAndRead
  PROVE  IInv'
<1> DEFINE o == boot.op
<1>0. /\ TypeOK /\ Listed /\ boot \in Boots /\ boot.pc = "wait" /\ o \in Ops /\ lock = "free"
      /\ journal[o] \in Journal /\ (Watched => Found(o) /\ FoundBoot) /\ Unborn(o)
      /\ {"scan", "choose", "wait"} \subseteq BootSteps /\ "choose" \in Recovering
      /\ {"scan", "wait"} \cap Recovering = {} /\ "choose" \in Undecided
      /\ UNCHANGED <<dbs, dirs, journal, hist, workers>>
  BY DEF IInv, BootSteps, Recovering, TypeOK, OpSet, LockAndRead, Undecided
<1>1. CASE journal[o].stage \in Settled
  <2>1. boot' = [boot EXCEPT !.pc = "scan", !.todo = @ \ {o}] /\ lock' = lock
    BY <1>1 DEF LockAndRead
  <2>2. /\ boot' \in Boots /\ boot'.pc = "scan" /\ boot'.op = o
        /\ boot'.found = boot.found /\ boot'.blocked = boot.blocked /\ boot'.todo = boot.todo \ {o}
    BY <1>0, <2>1 DEF Boots
  <2>3. TypeOK'
    BY <1>0, <2>1, <2>2 DEF TypeOK, dbs, dirs, workers
  <2>4. BootMove
    BY <1>0, <1>1, <2>1, <2>2 DEF BootMove, workers, Listed, Unsettled
  <2> QED BY <2>3, <2>4, BootKeeps
<1>2. CASE journal[o].stage \notin Settled
  <2>1. boot' = [boot EXCEPT !.pc = "choose", !.current = journal[o]] /\ lock' = "boot"
    BY <1>2 DEF LockAndRead
  <2>2. /\ boot' \in Boots /\ boot'.pc = "choose" /\ boot'.op = o /\ boot'.current = journal[o]
        /\ boot'.value = boot.value /\ boot'.found = boot.found /\ boot'.blocked = boot.blocked /\ boot'.todo = boot.todo
    BY <1>0, <2>1 DEF Boots
  <2>3. TypeOK'
    BY <1>0, <2>1, <2>2 DEF TypeOK, dbs, dirs, workers
  <2>4. \A p \in Ops : worker[p].pc \notin Steps
    BY <1>0, LockAssumption DEF IInv, Holds
  <2>5. journal[o].stage # "none"
    BY <1>0 DEF Unborn
  <2>6. OpSet' /\ VacantBoot' /\ HoldsBoot'
    BY <1>0, <1>2, <2>1, <2>2, <2>5 DEF OpSet, VacantBoot, HoldsBoot, Unsettled
  <2>7. ASSUME NEW p \in Ops PROVE Holds(p)' /\ Unborn(p)' /\ Vacant(p)'
    <3>1. Holds(p) /\ Unborn(p) /\ Vacant(p)
      BY DEF IInv
    <3> QED BY <1>0, <2>2, <2>4, <3>1 DEF Holds, Unborn, Vacant, workers, dbs, dirs
  <2>8. Listed'
    BY <1>0, <2>2 DEF Listed, Unsettled
  <2>9. ASSUME Watched' PROVE ~AtRest' /\ (\A p \in Ops : Found(p)') /\ FoundBoot'
    <3>1. Watched /\ ~AtRest'
      BY <1>0, <2>1, <2>9 DEF Watched, AtRest
    <3>2. FoundBoot'
      BY <1>0, <2>2, <3>1 DEF FoundBoot, Found, Backed, dbs
    <3>3. ASSUME NEW p \in Ops PROVE Found(p)'
      <4>1. Found(p)
        BY <3>1 DEF IInv
      <4> QED BY <1>0, <4>1 DEF Found, Backed, workers, dbs, dirs
    <3> QED BY <3>1, <3>2, <3>3
  <2> QED BY <2>3, <2>6, <2>7, <2>8, <2>9 DEF IInv
<1> QED BY <1>1, <1>2

\* A failed recovery writes back what its first look saw.
LEMMA RecordFailureKeeps ==
  ASSUME IInv, RecordFailure
  PROVE  IInv'
<1> USE DEF workers, dbs, dirs
<1> DEFINE o == boot.op
           j == [boot.value EXCEPT !.stage = "recovery_failed"]
<1>1. /\ TypeOK /\ boot \in Boots /\ boot.pc = "failing" /\ boot.pc \notin Recovering /\ o \in Ops
      /\ boot.value \in Journal /\ Listed /\ Unborn(o)
      /\ Watched => Backed(o, boot.value)
  BY DEF IInv, TypeOK, RecordFailure, Recovering, OpSet, Boots, FoundBoot
<1>2. j \in Journal /\ j.stage = "recovery_failed" /\ (Watched => Backed(o, j))
      /\ "recovery_failed" \notin Settled \cup {"none"}
  BY <1>1 DEF Journal, Stages, Settled, Backed
<1>3. /\ journal' = [journal EXCEPT ![o] = j]
      /\ boot' = [boot EXCEPT !.pc = "scan", !.todo = @ \ {o}, !.blocked = TRUE]
      /\ UNCHANGED <<dbs, dirs, lock, hist, workers>>
  BY DEF RecordFailure
<1> HIDE DEF j
<1>4. /\ journal' \in [Ops -> Journal] /\ journal'[o] = j
      /\ \A p \in Ops \ {o} : journal'[p] = journal[p]
  BY <1>1, <1>2, <1>3 DEF TypeOK
<1>5. /\ boot' \in Boots /\ boot'.pc = "scan" /\ boot'.todo = boot.todo \ {o} /\ boot'.op = o
      /\ boot'.found = boot.found /\ boot'.blocked /\ "scan" \notin Recovering \cup {"wait", "failing", "up", "down"}
  BY <1>1, <1>3 DEF Boots, BootSteps, Recovering
<1>6. lock # "boot"
  BY <1>1 DEF IInv, HoldsBoot
<1>7. TypeOK'
  BY <1>1, <1>3, <1>4, <1>5 DEF TypeOK
<1>8. OpSet' /\ HoldsBoot' /\ VacantBoot' /\ Listed'
  BY <1>3, <1>5, <1>6 DEF OpSet, HoldsBoot, VacantBoot, Recovering, Listed
<1>9. ASSUME NEW p \in Ops PROVE Holds(p)' /\ Unborn(p)' /\ Vacant(p)'
  <2>1. Holds(p) /\ Unborn(p) /\ Vacant(p)
    BY DEF IInv
  <2>2. Holds(p)'
    BY <1>2, <1>3, <1>4, <2>1 DEF Holds, Unsettled
  <2>3. Unborn(p)'
    BY <1>1, <1>2, <1>3, <1>4, <1>5, <2>1 DEF Unborn
  <2>4. Vacant(p)'
    BY <1>3, <2>1 DEF Vacant
  <2> QED BY <2>2, <2>3, <2>4
<1>10. ~AtRest'
  <2>1. journal'[o].stage \notin Settled \cup {"none"}
    BY <1>2, <1>4
  <2> QED BY <1>1, <2>1 DEF AtRest, Unsettled
<1>11. ASSUME Watched' PROVE (\A p \in Ops : Found(p)') /\ FoundBoot'
  <2>1. Watched
    BY <1>3, <1>11 DEF Watched
  <2>2. FoundBoot'
    BY <1>5 DEF FoundBoot
  <2>3. ASSUME NEW p \in Ops PROVE Found(p)'
    <3>1. Found(p) /\ Backed(p, journal'[p])
      BY <1>2, <1>4, <2>1 DEF IInv, Found
    <3> QED BY <1>3, <3>1 DEF Found, Backed
  <2> QED BY <2>2, <2>3
<1> QED BY <1>7, <1>8, <1>9, <1>10, <1>11 DEF IInv

-----------------------------------------------------------------------------
(* The theorems.                                                           *)

\* The invariant holds before the first upgrade.
LEMMA InitOK == Init => IInv
<1> SUFFICES ASSUME Init PROVE IInv
  OBVIOUS
<1>0. NONE \in Content /\ HOME \in Content /\ Idle \in Worker /\ Blank \in Journal
      /\ "up" \in BootSteps \ Recovering /\ "new" \notin Steps
  BY GoneType DEF Content, Idle, Worker, BootSteps, Recovering, Steps, WorkSteps, UndoSteps
<1>1. PICK c \in Initial : active = c /\ parsed = c
        /\ hist = [start |-> c, before |-> c, last |-> NONE, clean |-> TRUE, calm |-> TRUE]
  BY DEF Init
<1>2. /\ \A o \in Ops : worker[o] = Idle /\ worker[o].pc = "new" /\ journal[o] = Blank
      /\ \A o \in Ops : journal[o].stage = "none" /\ ~journal[o].backup /\ ~journal[o].switched
      /\ \A o \in Ops : worker[o].data = Blank /\ ~worker[o].started /\ ~worker[o].existed
      /\ \A o \in Ops : ~Unsettled(o)
  BY DEF Init, Idle, Blank, Unsettled
<1>3. boot = Quiet("up") /\ boot \in Boots /\ boot.pc = "up" /\ boot.found = {} /\ boot.todo = {} /\ boot.op = NONE
  BY <1>0, QuietType DEF Init
<1>4. TypeOK
  <2>1. hist \in Histories /\ active \in Content /\ parsed \in Content
    BY <1>0, <1>1, InitialAssumption DEF Histories, Content
  <2> QED BY <1>0, <1>3, <2>1 DEF Init, TypeOK, Slots
<1>5. OpSet /\ HoldsBoot /\ VacantBoot /\ Listed
  BY <1>0, <1>3 DEF OpSet, HoldsBoot, VacantBoot, Listed, Recovering, Init
<1>6. \A o \in Ops : Holds(o) /\ Unborn(o)
  BY <1>0, <1>2, <1>3, ContentAssumption DEF Holds, Unborn
<1>7. \A o \in Ops : Vacant(o)
  BY <1>2 DEF Init, Vacant, Switching, Placed, UndoSteps
<1>8. Watched => active # NONE
  BY <1>1 DEF Watched
<1>9. (\A o \in Ops : Found(o)) /\ FoundBoot
  BY <1>0, <1>2, <1>3 DEF Found, FoundBoot, Backed, Blank, NotMoved, NotFilled, NotBuilt, Placed, Recovering
<1> QED BY <1>4, <1>5, <1>6, <1>7, <1>8, <1>9 DEF IInv

\* A step that changes nothing keeps the invariant.
LEMMA StutterKeeps == IInv /\ UNCHANGED vars => IInv'
<1> SUFFICES ASSUME IInv, UNCHANGED vars PROVE IInv'
  OBVIOUS
<1> USE DEF vars, dbs, dirs
<1>1. TypeOK' /\ OpSet' /\ HoldsBoot' /\ VacantBoot' /\ Listed'
  BY DEF IInv, TypeOK, OpSet, HoldsBoot, VacantBoot, Listed, Unsettled
<1>2. \A o \in Ops : Holds(o)' /\ Unborn(o)' /\ Vacant(o)'
  BY DEF IInv, Holds, Unborn, Vacant, Unsettled
<1>3. Watched' = Watched /\ AtRest' = AtRest
  BY DEF Watched, AtRest, Unsettled
<1>4. Watched => (\A o \in Ops : Found(o)') /\ FoundBoot'
  BY DEF IInv, Found, FoundBoot, Backed
<1> QED BY <1>1, <1>2, <1>3, <1>4 DEF IInv

\* Every step of a worker process keeps the invariant.
LEMMA WorkKeepsInv == ASSUME IInv, NEW o \in Ops, Work(o) PROVE IInv'
BY WorkSimple, WorkStages, WorkUpdates, WorkRemembers, WorkEnds DEF Work

\* Every step of _recover_journal keeps the invariant.
LEMMA RecoverKeepsInv == ASSUME IInv, Recover PROVE IInv'
BY RecoverMoves, ChooseKeeps, RecopyKeeps, CopyKeeps, CheckKeeps, FinishKeeps DEF Recover

\* IInv is inductive: every step of workers, backend and recovery keeps it.
LEMMA NextOK == IInv /\ [Next]_vars => IInv'
<1> SUFFICES ASSUME IInv, [Next]_vars PROVE IInv'
  OBVIOUS
<1>1. ASSUME NEW o \in Ops,
             Begin(o) \/ Raise(o) \/ UndoFails(o) \/ EndFails(o) \/ WorkerDies(o) PROVE IInv'
  BY <1>1, BeginKeeps, RaiseKeeps, FailsKeeps, WorkerDiesKeeps
<1>2. CASE Boot
  BY <1>2, BackendStartsKeeps, LookKeeps, LockAndReadKeeps, RecordFailureKeeps DEF Boot
<1>3. CASE BackendStops \/ BackendDies \/ LockTimesOut \/ RecoveryRaises
  BY <1>3, BackendStopsKeeps, LockTimesOutKeeps, RecoveryRaisesKeeps
<1> QED BY <1>1, <1>2, <1>3, WorkKeepsInv, RecoverKeepsInv, StutterKeeps DEF Next

\* IInv is an invariant of the upgrade.
THEOREM Invariance == Spec => []IInv
<1>1. QED BY InitOK, NextOK, PTL DEF Spec

\* Every file slot, journal, worker and stage of the recovery has its type in
\* every reachable state.
THEOREM TypeCorrect == Spec => []TypeOK
<1>1. IInv => TypeOK
  BY DEF IInv
<1>2. QED BY <1>1, Invariance, PTL

\* At rest a profile that began with a database has one in place, whatever
\* raised and whoever died, unless an upgrade was begun over a journal nobody
\* had recovered.
THEOREM AlwaysUsable == Spec => []Usable
<1>1. IInv => Usable
  BY DEF IInv, Usable, Watched
<1>2. QED BY <1>1, Invariance, PTL

-----------------------------------------------------------------------------
(* Nothing is lost.                                                        *)

InDb(c) == c = active \/ c \in attic \/ \E o \in Ops : c \in {shadow[o], rollback[o], kept[o]}
InDir(c) == c = parsed \/ c \in pattic \/ \E o \in Ops : c \in {pshadow[o], prollback[o], pkept[o]}
DbSafe == \A c : c # NONE /\ InDb(c) => InDb(c)'
DirSafe == \A c : c # NONE /\ InDir(c) => InDir(c)'
Kept == DbHeld \ {NONE} \subseteq DbHeld' /\ DirHeld \ {NONE} \subseteq DirHeld'

\* Safety of the database places and of the directory places together is the
\* action property.
LEMMA HeldIsIn == DbSafe /\ DirSafe => Kept
<1>1. \A c : (c \in DbHeld <=> InDb(c)) /\ (c \in DbHeld' <=> InDb(c)')
  BY DEF DbHeld, InDb
<1>2. \A c : (c \in DirHeld <=> InDir(c)) /\ (c \in DirHeld' <=> InDir(c)')
  BY DEF DirHeld, InDir
<1> QED BY <1>1, <1>2 DEF DbSafe, DirSafe, Kept

\* A place that is not touched keeps what it holds.
LEMMA Untouched ==
  /\ UNCHANGED dbs => DbSafe
  /\ UNCHANGED dirs => DirSafe
BY DEF DbSafe, DirSafe, InDb, InDir, dbs, dirs

\* A worker fills only empty places, and empties one only into another.
LEMMA WorkDbs ==
  ASSUME IInv, NEW o \in Ops,
         \/ BuildShadow(o) \/ MoveActive(o) \/ PlaceShadow(o) \/ KeepRollback(o) \/ UndoActive(o)
         \/ UndoShadow(o) \/ RedoActive(o) \/ Restore(o) \/ DiscardShadow(o)
  PROVE  DbSafe
<1>0. TypeOK /\ Vacant(o)
  BY DEF IInv
<1>1. CASE BuildShadow(o)
  BY <1>0, <1>1 DEF BuildShadow, Goto, Vacant, Retained, DbSafe, InDb, TypeOK, Slots, NotBuilt, NotFilled, NotMoved,
     NotMovedDir, NotKept, NotKeptDir, Placed
<1>2. CASE MoveActive(o)
  BY <1>0, <1>2 DEF MoveActive, Goto, Vacant, Retained, DbSafe, InDb, TypeOK, Slots, NotBuilt, NotFilled, NotMoved,
     NotMovedDir, NotKept, NotKeptDir, Placed
<1>3. CASE PlaceShadow(o)
  BY <1>0, <1>3 DEF PlaceShadow, Goto, Vacant, Retained, DbSafe, InDb, TypeOK, Slots, NotBuilt, NotFilled, NotMoved,
     NotMovedDir, NotKept, NotKeptDir, Placed
<1>4. CASE KeepRollback(o)
  BY <1>0, <1>4 DEF KeepRollback, Goto, Vacant, Retained, DbSafe, InDb, TypeOK, Slots, NotBuilt, NotFilled, NotMoved,
     NotMovedDir, NotKept, NotKeptDir, Placed
<1>5. CASE UndoActive(o)
  BY <1>0, <1>5 DEF UndoActive, Goto, Vacant, Retained, DbSafe, InDb, TypeOK, Slots, NotBuilt, NotFilled, NotMoved,
     NotMovedDir, NotKept, NotKeptDir, Placed
<1>6. CASE UndoShadow(o)
  BY <1>0, <1>6 DEF UndoShadow, Goto, Vacant, Retained, DbSafe, InDb, TypeOK, Slots, NotBuilt, NotFilled, NotMoved,
     NotMovedDir, NotKept, NotKeptDir, Placed
<1>7. CASE RedoActive(o)
  BY <1>0, <1>7 DEF RedoActive, Goto, Vacant, Retained, DbSafe, InDb, TypeOK, Slots, NotBuilt, NotFilled, NotMoved,
     NotMovedDir, NotKept, NotKeptDir, Placed
<1>8. CASE Restore(o)
  BY <1>0, <1>8 DEF Restore, Goto, Vacant, Retained, DbSafe, InDb, TypeOK, Slots, NotBuilt, NotFilled, NotMoved,
     NotMovedDir, NotKept, NotKeptDir, Placed
<1>9. CASE DiscardShadow(o)
  BY <1>0, <1>9 DEF DiscardShadow, Goto, Vacant, Retained, DbSafe, InDb, TypeOK, Slots, NotBuilt, NotFilled, NotMoved,
     NotMovedDir, NotKept, NotKeptDir, Placed
<1> QED BY <1>1, <1>2, <1>3, <1>4, <1>5, <1>6, <1>7, <1>8, <1>9

\* A worker fills only empty places, and empties one only into another.
LEMMA WorkDirs ==
  ASSUME IInv, NEW o \in Ops,
         \/ BuildParsed(o) \/ MoveParsed(o) \/ PlaceParsed(o) \/ KeepParsed(o) \/ UndoParsed(o)
         \/ RedoParsed(o) \/ DiscardParsed(o)
  PROVE  DirSafe
<1>0. TypeOK /\ Vacant(o)
  BY DEF IInv
<1>1. CASE BuildParsed(o)
  BY <1>0, <1>1 DEF BuildParsed, Goto, Vacant, Retained, DirSafe, InDir, TypeOK, Slots, NotBuilt, NotFilled, NotMoved,
     NotMovedDir, NotKept, NotKeptDir, Placed
<1>2. CASE MoveParsed(o)
  BY <1>0, <1>2 DEF MoveParsed, Goto, Vacant, Retained, DirSafe, InDir, TypeOK, Slots, NotBuilt, NotFilled, NotMoved,
     NotMovedDir, NotKept, NotKeptDir, Placed
<1>3. CASE PlaceParsed(o)
  BY <1>0, <1>3 DEF PlaceParsed, Goto, Vacant, Retained, DirSafe, InDir, TypeOK, Slots, NotBuilt, NotFilled, NotMoved,
     NotMovedDir, NotKept, NotKeptDir, Placed
<1>4. CASE KeepParsed(o)
  BY <1>0, <1>4 DEF KeepParsed, Goto, Vacant, Retained, DirSafe, InDir, TypeOK, Slots, NotBuilt, NotFilled, NotMoved,
     NotMovedDir, NotKept, NotKeptDir, Placed
<1>5. CASE UndoParsed(o)
  BY <1>0, <1>5 DEF UndoParsed, Goto, Vacant, Retained, DirSafe, InDir, TypeOK, Slots, NotBuilt, NotFilled, NotMoved,
     NotMovedDir, NotKept, NotKeptDir, Placed
<1>6. CASE RedoParsed(o)
  BY <1>0, <1>6 DEF RedoParsed, Goto, Vacant, Retained, DirSafe, InDir, TypeOK, Slots, NotBuilt, NotFilled, NotMoved,
     NotMovedDir, NotKept, NotKeptDir, Placed
<1>7. CASE DiscardParsed(o)
  BY <1>0, <1>7 DEF DiscardParsed, Goto, Vacant, Retained, DirSafe, InDir, TypeOK, Slots, NotBuilt, NotFilled, NotMoved,
     NotMovedDir, NotKept, NotKeptDir, Placed
<1> QED BY <1>1, <1>2, <1>3, <1>4, <1>5, <1>6, <1>7

\* The recovery overwrites no database: it copies only into an empty place
\* and moves the others away first.
LEMMA RecoverDbs ==
  ASSUME IInv, KeepDb \/ AwayDb \/ Aside \/ Recopy \/ Back \/ Copy \/ TidyDb
  PROVE  DbSafe
<1>0. TypeOK /\ VacantBoot /\ (boot.pc \in Recovering => boot.op \in Ops)
  BY DEF IInv, OpSet
<1>1. CASE KeepDb
  BY <1>0, <1>1 DEF KeepDb, BGoto, VacantBoot, Retained, DbSafe, InDb, TypeOK, Slots, Recovering
<1>2. CASE AwayDb
  BY <1>0, <1>2 DEF AwayDb, BGoto, VacantBoot, Retained, DbSafe, InDb, TypeOK, Slots, Recovering
<1>3. CASE Aside
  BY <1>0, <1>3 DEF Aside, BGoto, VacantBoot, Retained, DbSafe, InDb, TypeOK, Slots, Recovering
<1>4. CASE Recopy
  BY <1>0, <1>4 DEF Recopy, BGoto, VacantBoot, Retained, DbSafe, InDb, TypeOK, Slots, Recovering
<1>5. CASE Back
  BY <1>0, <1>5 DEF Back, BGoto, VacantBoot, Retained, DbSafe, InDb, TypeOK, Slots, Recovering
<1>6. CASE Copy
  BY <1>0, <1>6 DEF Copy, BGoto, VacantBoot, Retained, DbSafe, InDb, TypeOK, Slots, Recovering
<1>7. CASE TidyDb
  BY <1>0, <1>7 DEF TidyDb, BGoto, VacantBoot, Retained, DbSafe, InDb, TypeOK, Slots, Recovering
<1> QED BY <1>1, <1>2, <1>3, <1>4, <1>5, <1>6, <1>7

\* The recovery overwrites no parsed directory.
LEMMA RecoverDirs ==
  ASSUME IInv, KeepDir \/ AwayDir \/ TakeDir \/ ClearDir \/ BackDir \/ TidyDir
  PROVE  DirSafe
<1>0. TypeOK /\ VacantBoot /\ (boot.pc \in Recovering => boot.op \in Ops)
  BY DEF IInv, OpSet
<1>1. CASE KeepDir
  BY <1>0, <1>1 DEF KeepDir, BGoto, VacantBoot, Retained, DirSafe, InDir, TypeOK, Slots, Recovering
<1>2. CASE AwayDir
  BY <1>0, <1>2 DEF AwayDir, BGoto, VacantBoot, Retained, DirSafe, InDir, TypeOK, Slots, Recovering
<1>3. CASE TakeDir
  BY <1>0, <1>3 DEF TakeDir, BGoto, VacantBoot, Retained, DirSafe, InDir, TypeOK, Slots, Recovering
<1>4. CASE ClearDir
  BY <1>0, <1>4 DEF ClearDir, BGoto, VacantBoot, Retained, DirSafe, InDir, TypeOK, Slots, Recovering
<1>5. CASE BackDir
  BY <1>0, <1>5 DEF BackDir, BGoto, VacantBoot, Retained, DirSafe, InDir, TypeOK, Slots, Recovering
<1>6. CASE TidyDir
  BY <1>0, <1>6 DEF TidyDir, BGoto, VacantBoot, Retained, DirSafe, InDir, TypeOK, Slots, Recovering
<1> QED BY <1>1, <1>2, <1>3, <1>4, <1>5, <1>6

\* Taking the backup moves no database.
LEMMA BackupDbs == ASSUME NEW o \in Ops, Backup(o) PROVE DbSafe
BY DEF Backup, DbSafe, InDb

\* No step of a worker process destroys a database or a parsed directory.
LEMMA WorkKept == ASSUME IInv, NEW o \in Ops, Work(o) PROVE Kept
<1>1. CASE \/ BuildShadow(o) \/ MoveActive(o) \/ PlaceShadow(o) \/ KeepRollback(o) \/ UndoActive(o)
           \/ UndoShadow(o) \/ RedoActive(o) \/ Restore(o) \/ DiscardShadow(o)
  <2>1. UNCHANGED dirs
    BY <1>1 DEF BuildShadow, MoveActive, PlaceShadow, KeepRollback, UndoActive, UndoShadow,
                RedoActive, Restore, DiscardShadow
  <2> QED BY <1>1, <2>1, WorkDbs, Untouched, HeldIsIn
<1>2. CASE \/ BuildParsed(o) \/ MoveParsed(o) \/ PlaceParsed(o) \/ KeepParsed(o) \/ UndoParsed(o)
           \/ RedoParsed(o) \/ DiscardParsed(o)
  <2>1. UNCHANGED dbs
    BY <1>2 DEF BuildParsed, MoveParsed, PlaceParsed, KeepParsed, UndoParsed, RedoParsed,
                DiscardParsed
  <2> QED BY <1>2, <2>1, WorkDirs, Untouched, HeldIsIn
<1>3. CASE Backup(o)
  <2>1. UNCHANGED dirs
    BY <1>3 DEF Backup
  <2> QED BY <1>3, <2>1, BackupDbs, Untouched, HeldIsIn
<1>4. CASE \/ Pause(o) \/ RecordBackup(o) \/ Prepare(o) \/ Validated(o) \/ StartSwitch(o)
           \/ RewritePaths(o) \/ Announce(o) \/ SmokeTest(o) \/ Complete(o) \/ Failed(o)
           \/ RolledBack(o) \/ RollbackFailed(o) \/ Discarded(o) \/ Aborted(o) \/ NotDiscarded(o)
  <2>1. UNCHANGED dbs /\ UNCHANGED dirs
    BY <1>4 DEF Pause, RecordBackup, Prepare, Validated, StartSwitch, RewritePaths, Announce,
                SmokeTest, Complete, Failed, RolledBack, RollbackFailed, Discarded, Aborted,
                NotDiscarded, Close
  <2> QED BY <2>1, Untouched, HeldIsIn
<1> QED BY <1>1, <1>2, <1>3, <1>4 DEF Work

\* No step of the recovery destroys a database or a parsed directory.
LEMMA RecoverKept == ASSUME IInv, Recover PROVE Kept
<1>1. CASE KeepDb \/ AwayDb \/ Aside \/ Recopy \/ Back \/ Copy \/ TidyDb
  <2>1. UNCHANGED dirs
    BY <1>1 DEF KeepDb, AwayDb, Aside, Recopy, Back, Copy, TidyDb
  <2> QED BY <1>1, <2>1, RecoverDbs, Untouched, HeldIsIn
<1>2. CASE KeepDir \/ AwayDir \/ TakeDir \/ ClearDir \/ BackDir \/ TidyDir
  <2>1. UNCHANGED dbs
    BY <1>2 DEF KeepDir, AwayDir, TakeDir, ClearDir, BackDir, TidyDir
  <2> QED BY <1>2, <2>1, RecoverDirs, Untouched, HeldIsIn
<1>3. CASE Choose \/ Check \/ Finish
  <2>1. UNCHANGED dbs /\ UNCHANGED dirs
    BY <1>3 DEF Choose, Check, Finish
  <2> QED BY <2>1, Untouched, HeldIsIn
<1> QED BY <1>1, <1>2, <1>3 DEF Recover

\* No step at all destroys a database or a parsed directory.
LEMMA NextKept == IInv /\ [Next]_vars => Kept
<1> SUFFICES ASSUME IInv, [Next]_vars PROVE Kept
  OBVIOUS
<1>1. ASSUME NEW o \in Ops,
             Begin(o) \/ Raise(o) \/ UndoFails(o) \/ EndFails(o) \/ WorkerDies(o) PROVE Kept
  <2>1. UNCHANGED dbs /\ UNCHANGED dirs
    BY <1>1 DEF Begin, Raise, UndoFails, EndFails, WorkerDies
  <2> QED BY <2>1, Untouched, HeldIsIn
<1>2. CASE \/ Boot \/ BackendStops \/ BackendDies \/ LockTimesOut \/ RecoveryRaises
           \/ UNCHANGED vars
  <2>1. UNCHANGED dbs /\ UNCHANGED dirs
    BY <1>2 DEF Boot, BackendStarts, Look, LockAndRead, RecordFailure, Serve, BackendStops,
                BackendDies, LockTimesOut, RecoveryRaises, vars
  <2> QED BY <2>1, Untouched, HeldIsIn
<1> QED BY <1>1, <1>2, WorkKept, RecoverKept DEF Next

\* No step of an upgrade, of its rollback or of the recovery destroys a
\* database or a parsed directory, for any number of operations, deaths and
\* exceptions.
THEOREM NothingIsLost == Spec => NothingLost
<1>1. IInv /\ [Next]_vars => [Kept]_vars
  BY NextKept
<1>2. QED BY <1>1, Invariance, PTL DEF Spec, NothingLost, Kept

-----------------------------------------------------------------------------
(* A backend serves with every journal it found settled.                   *)

Settles == (boot.pc # "up" /\ boot.pc' = "up") => \A o \in boot.found : ~Unsettled(o)'

\* A backend begins to serve only when its scan is empty and nothing was
\* blocked, and then every journal it found is settled.
LEMMA NextSettles == IInv /\ [Next]_vars => Settles
<1> SUFFICES ASSUME IInv, [Next]_vars, boot.pc # "up", boot'.pc = "up"
             PROVE  \A o \in boot.found : ~Unsettled(o)'
  BY DEF Settles
<1>0. TypeOK /\ boot \in Boots /\ Listed
  BY DEF IInv, TypeOK
<1>1. CASE Serve
  <2>1. boot.pc = "scan" /\ boot.todo = {} /\ journal' = journal
        /\ boot' = Quiet(IF boot.blocked THEN "down" ELSE "up")
    BY <1>1 DEF Serve, Rest
  <2>2. ~boot.blocked
    BY <2>1 DEF Quiet
  <2> QED BY <1>0, <2>1, <2>2 DEF Listed, Unsettled
<1>2. ASSUME NEW o \in Ops,
             \/ Begin(o) \/ Work(o) \/ Raise(o) \/ UndoFails(o) \/ EndFails(o) \/ WorkerDies(o)
      PROVE  boot' = boot
  BY <1>2 DEF Begin, Raise, UndoFails, EndFails, WorkerDies, Work, others, Close,
     Pause, Backup, RecordBackup, Prepare, BuildParsed, BuildShadow, Validated, StartSwitch,
     MoveActive, MoveParsed, PlaceShadow, PlaceParsed, RewritePaths, Announce, SmokeTest,
     KeepRollback, KeepParsed, Complete, Failed, UndoActive, UndoShadow, UndoParsed, RedoActive,
     RedoParsed, Restore, RolledBack, RollbackFailed, DiscardShadow, DiscardParsed, Discarded,
     Aborted, NotDiscarded
<1>3. \A from, to : BGoto(from, to) => boot'.pc = to
  BY <1>0 DEF BGoto, Boots
<1>4. CASE Recover \/ BackendStops \/ LockTimesOut \/ RecoveryRaises
  <2>1. CASE Choose \/ Recopy \/ Finish
    BY <1>0, <2>1 DEF Choose, Recopy, Finish, Boots
  <2>2. CASE \/ KeepDb \/ KeepDir \/ AwayDb \/ AwayDir \/ TakeDir \/ Aside \/ Back \/ ClearDir
             \/ BackDir \/ TidyDb \/ TidyDir \/ Copy \/ Check
             \/ BackendStops \/ LockTimesOut \/ RecoveryRaises
    BY <1>3, <2>2 DEF KeepDb, KeepDir, AwayDb, AwayDir, TakeDir, Aside, Back, ClearDir, BackDir,
       TidyDb, TidyDir, Copy, Check, BackendStops, LockTimesOut, RecoveryRaises
  <2> QED BY <1>4, <2>1, <2>2 DEF Recover
<1>5. CASE BackendDies
  BY <1>5 DEF BackendDies, Quiet
<1>6. CASE BackendStarts \/ LockAndRead \/ RecordFailure \/ \E o \in Ops : Look(o)
  BY <1>0, <1>6 DEF BackendStarts, LockAndRead, RecordFailure, Look, Quiet, Boots
<1>7. CASE UNCHANGED vars
  BY <1>7 DEF vars
<1> QED BY <1>1, <1>2, <1>4, <1>5, <1>6, <1>7 DEF Next, Boot

\* create_app serves only when every journal that recover_incomplete_upgrades
\* listed is settled, whatever upgrades were begun or settled by their workers
\* since; one begun after the listing is not waited for.
THEOREM OnlySettledServes == Spec => ServesSettled
<1>1. IInv /\ [Next]_vars => [Settles]_vars
  BY NextSettles
<1>2. QED BY <1>1, Invariance, PTL DEF Spec, ServesSettled, Settles

-----------------------------------------------------------------------------
(***************************************************************************)
(* The journal tells the truth (Trusted): the second inductive invariant   *)
(* follows the content the last upgrade found, before, and the one it has  *)
(* built, which goes by the name of the operation, through every move.     *)
(***************************************************************************)
Observed == hist.clean /\ hist.calm /\ hist.last # NONE /\ hist.before # NONE

\* What the recovery takes for a switch that must be undone from the backup.
Switched(j) == j.switched /\ j.stage \in {"switched", "smoke_failed", "failed"}

\* The journal record j of o has a backup of the old database behind it.
Copied(o, j) == (j.switched => j.backup) /\ (j.backup => backup[o] = hist.before)

\* The files of an unsettled upgrade, whoever has died: what its journal makes
\* the recovery do leads back to the old database, or on to the tested one.
Files(o) ==
  /\ rollback[o] \in {NONE, hist.before} /\ kept[o] \in {NONE, hist.before}
  /\ Copied(o, journal[o])
  /\ journal[o].stage = "smoke_validated" => active = o
  /\ journal[o].stage # "smoke_validated" /\ ~Switched(journal[o]) /\ rollback[o] = NONE
       => active \in {NONE, hist.before}
  /\ active = NONE /\ rollback[o] = NONE => journal[o].backup

\* What the worker knows at each of its steps.
Kinds == {"keep_db", "keep_dir", "complete"}
Backing == {"record", "prepare", "build", "fill", "validate", "ready"}
Working(o) ==
  /\ worker[o].pc \in (NotMoved \ {"new"}) \cup
       {"closing", "discard_db", "discard_dir", "discarded", "abort"} => active = hist.before
  /\ worker[o].pc \in {"validate", "ready", "move_db", "move_dir", "place_db"} => shadow[o] = o
  /\ worker[o].pc \in {"move_dir", "place_db"} \cup (Placed \ {"keep_dir", "complete"})
       => rollback[o] = hist.before
  /\ worker[o].pc \in Placed => active = o
  /\ worker[o].pc \in Kinds \cup {"smoke"} => worker[o].data.switched
  /\ worker[o].pc \in Kinds => journal[o].stage = "smoke_validated"
  /\ worker[o].pc \in Steps \ (Kinds \cup {"raised"}) => journal[o].stage # "smoke_validated"
  /\ worker[o].pc = "raised" =>
       /\ ~worker[o].started => active = hist.before
       /\ worker[o].data.switched \/ rollback[o] # NONE \/ active = hist.before
  /\ worker[o].existed => backup[o] = hist.before
  /\ worker[o].started => worker[o].existed /\ worker[o].data.backup
  /\ worker[o].pc \in Backing => worker[o].existed
  /\ worker[o].pc \in Backing \ {"record"} => worker[o].data.backup
  /\ Copied(o, worker[o].data)
  /\ worker[o].pc \in UndoSteps \cup {"restore"} => journal[o].backup
  /\ worker[o].pc \in {"redo_dir", "restore"} => active \in {NONE, hist.before} /\ rollback[o] = NONE
  /\ worker[o].pc \notin {"stuck", "undiscarded"}

\* What the recovery of o knows at each of its steps.
OldResults == {"recovered_no_switch", "recovered_rollback", "recovered_from_backup"}
Ending == {"tidy_db", "tidy_dir", "check", "finish"}
Restoring(o) ==
  /\ boot.pc \in {"keep_db", "keep_dir"} => boot.result = "recovered_new_database"
  /\ boot.pc \in {"aside", "back", "copy", "clear_dir", "back_dir"} => boot.result \in OldResults
  /\ boot.pc \in Ending => boot.result \in OldResults \cup {"recovered_new_database"}
  /\ boot.pc \in {"keep_db", "keep_dir"} \cup Ending /\ boot.result \notin OldResults
       => journal[o].stage = "smoke_validated"
  /\ boot.pc \in {"aside", "back", "copy"} => journal[o].stage # "smoke_validated"
  /\ boot.pc \in {"clear_dir", "back_dir"} \cup Ending /\ boot.result \in OldResults
       => active = hist.before /\ journal[o].stage # "smoke_validated"
  /\ boot.pc \in {"aside", "back"} => rollback[o] = hist.before
  /\ boot.pc = "copy" => rollback[o] = NONE
  /\ boot.pc \in {"away_db", "away_dir", "take_dir", "recopy"}
       => Switched(journal[o]) /\ rollback[o] = NONE

\* A process that has not begun has nothing, and the recovery works on the
\* journal it has read under the lock.
Fresh(o) == worker[o].pc = "new" => worker[o] = Idle
Reread == boot.pc \in Recovering => boot.current = journal[boot.op]

\* With every earlier journal settled, the last upgrade is the only one that
\* can be unsettled; once it is settled, its journal says which database it is.
Truth ==
  LET o == hist.last IN
  /\ boot.pc # "failing"
  /\ \A p \in Ops : Unsettled(p) => p = o
  /\ Unsettled(o) => Files(o)
  /\ worker[o].pc \in Steps => Working(o)
  /\ boot.pc \in Recovering => Restoring(o)
  /\ ~Unsettled(o) => active = IF journal[o].stage \in Success THEN o ELSE hist.before

TInv == (\A o \in Ops : Fresh(o)) /\ Reread /\ (Observed => Truth)

\* A recovery that found no way forward, without an exception or a timeout,
\* leaves its journal unsettled: no upgrade begun now is a clean one.
GaveUp == boot.pc = "failing" /\ hist.calm => Unsettled(boot.op) /\ worker[boot.op].pc = "gone"

\* What holds of the operation whose worker is at work, when it is observed.
LEMMA Mine ==
  ASSUME IInv, TInv, NEW o \in Ops, worker[o].pc \in Steps
  PROVE  /\ lock = o /\ boot.pc \notin Recovering /\ Unsettled(o)
         /\ Observed => hist.last = o /\ Files(o) /\ Working(o)
<1>1. lock = o /\ Unsettled(o) /\ lock # "boot"
  BY LockAssumption DEF IInv, Holds
<1>2. boot.pc \notin Recovering
  BY <1>1 DEF IInv, HoldsBoot
<1> QED BY <1>1, <1>2 DEF TInv, Truth

\* A step of a worker that stays at work concerns its own operation only.
LEMMA TWorkKeeps ==
  ASSUME IInv, TInv, IInv', NEW o \in Ops, worker[o].pc \in Steps, worker'[o].pc \in Steps,
         boot' = boot, Alone(o), hist' = hist \/ ~hist'.calm,
         Observed /\ hist' = hist => Files(o)' /\ Working(o)'
  PROVE  TInv'
<1>1. /\ boot.pc \notin Recovering /\ Unsettled(o)
      /\ Observed => hist.last = o /\ Files(o) /\ Working(o)
  BY Mine
<1>2. Unsettled(o)'
  BY DEF IInv, Holds
<1>3. \A p \in Ops : Fresh(p)'
  <2> SUFFICES ASSUME NEW p \in Ops PROVE Fresh(p)'
    OBVIOUS
  <2>1. CASE p = o
    BY <2>1 DEF Fresh, Steps, WorkSteps, UndoSteps
  <2>2. CASE p # o
    BY <2>2 DEF TInv, Fresh, Alone
  <2> QED BY <2>1, <2>2
<1>4. Reread'
  BY <1>1 DEF Reread
<1>5. ASSUME Observed' PROVE Truth'
  <2>1. hist' = hist /\ Observed
    BY <1>5 DEF Observed
  <2>2. Truth /\ hist.last = o /\ Files(o)' /\ Working(o)'
    BY <1>1, <2>1 DEF TInv
  <2>3. \A p \in Ops : Unsettled(p)' => p = o
    BY <2>2 DEF Truth, Unsettled, Alone
  <2> QED BY <1>1, <1>2, <2>1, <2>2, <2>3 DEF Truth
<1> QED BY <1>3, <1>4, <1>5 DEF TInv

\* The steps of a worker that move one file keep the truth.
LEMMA TWorkSimple ==
  ASSUME IInv, TInv, NEW o \in Ops,
         \/ BuildParsed(o) \/ BuildShadow(o) \/ MoveActive(o) \/ PlaceShadow(o) \/ PlaceParsed(o)
         \/ RewritePaths(o) \/ KeepRollback(o) \/ KeepParsed(o) \/ UndoActive(o) \/ UndoShadow(o)
         \/ UndoParsed(o) \/ RedoActive(o) \/ RedoParsed(o) \/ DiscardShadow(o) \/ DiscardParsed(o)
  PROVE  TInv'
<1> USE DEF others, dbs, dirs
<1>0. /\ TypeOK /\ Vacant(o) /\ IInv' /\ o # NONE
      /\ rollback \in [Ops -> Content] /\ shadow \in [Ops -> Content] /\ kept \in [Ops -> Content]
  BY WorkKeepsInv, ContentAssumption DEF IInv, TypeOK, Work, Slots
<1>1. CASE BuildParsed(o)
  <2>1. /\ worker[o].pc = "build" /\ worker'[o].pc = "fill" /\ worker'[o].data = worker[o].data
        /\ worker'[o].started = worker[o].started /\ worker'[o].existed = worker[o].existed
        /\ Alone(o) /\ UNCHANGED <<journal, backup, boot, hist>>
    BY <1>1, <1>0, GotoType DEF BuildParsed, TypeOK, Alone, Steps, WorkSteps, UndoSteps, Slots
  <2>2. worker[o].pc \in Steps /\ worker'[o].pc \in Steps
    BY <2>1 DEF Steps, WorkSteps, UndoSteps
  <2>3. ASSUME Observed PROVE Files(o)' /\ Working(o)'
    <3>1. Files(o) /\ Working(o) /\ hist.last = o /\ hist.before # NONE
      BY <2>2, <2>3, Mine DEF Observed
    <3>2. Files(o)'
      BY <1>1, <1>0, <2>1, <3>1 DEF BuildParsed, Files, Working, Copied, Switched, Vacant,
         Steps, WorkSteps, UndoSteps, NotBuilt, NotFilled, NotMoved, Placed, Kinds, Backing
    <3>3. Working(o)'
      BY <1>1, <1>0, <2>1, <3>1 DEF BuildParsed, Files, Working, Copied, Switched, Vacant,
         Steps, WorkSteps, UndoSteps, NotBuilt, NotFilled, NotMoved, Placed, Kinds, Backing
    <3> QED BY <3>2, <3>3
  <2> QED BY <1>0, <2>1, <2>2, <2>3, TWorkKeeps
<1>2. CASE BuildShadow(o)
  <2>1. /\ worker[o].pc = "fill" /\ worker'[o].pc = "validate" /\ worker'[o].data = worker[o].data
        /\ worker'[o].started = worker[o].started /\ worker'[o].existed = worker[o].existed
        /\ Alone(o) /\ UNCHANGED <<journal, backup, boot, hist>>
    BY <1>2, <1>0, GotoType DEF BuildShadow, TypeOK, Alone, Steps, WorkSteps, UndoSteps, Slots
  <2>2. worker[o].pc \in Steps /\ worker'[o].pc \in Steps
    BY <2>1 DEF Steps, WorkSteps, UndoSteps
  <2>3. ASSUME Observed PROVE Files(o)' /\ Working(o)'
    <3>1. Files(o) /\ Working(o) /\ hist.last = o /\ hist.before # NONE
      BY <2>2, <2>3, Mine DEF Observed
    <3>2. Files(o)'
      BY <1>2, <1>0, <2>1, <3>1 DEF BuildShadow, Files, Working, Copied, Switched, Vacant,
         Steps, WorkSteps, UndoSteps, NotBuilt, NotFilled, NotMoved, Placed, Kinds, Backing
    <3>3. Working(o)'
      BY <1>2, <1>0, <2>1, <3>1 DEF BuildShadow, Files, Working, Copied, Switched, Vacant,
         Steps, WorkSteps, UndoSteps, NotBuilt, NotFilled, NotMoved, Placed, Kinds, Backing
    <3> QED BY <3>2, <3>3
  <2> QED BY <1>0, <2>1, <2>2, <2>3, TWorkKeeps
<1>3. CASE MoveActive(o)
  <2>1. /\ worker[o].pc = "move_db" /\ worker'[o].pc = "move_dir" /\ worker'[o].data = worker[o].data
        /\ worker'[o].started = worker[o].started /\ worker'[o].existed = worker[o].existed
        /\ Alone(o) /\ UNCHANGED <<journal, backup, boot, hist>>
    BY <1>3, <1>0, GotoType DEF MoveActive, TypeOK, Alone, Steps, WorkSteps, UndoSteps, Slots
  <2>2. worker[o].pc \in Steps /\ worker'[o].pc \in Steps
    BY <2>1 DEF Steps, WorkSteps, UndoSteps
  <2>3. ASSUME Observed PROVE Files(o)' /\ Working(o)'
    <3>1. Files(o) /\ Working(o) /\ hist.last = o /\ hist.before # NONE
      BY <2>2, <2>3, Mine DEF Observed
    <3>2. Files(o)'
      BY <1>3, <1>0, <2>1, <3>1 DEF MoveActive, Files, Working, Copied, Switched, Vacant,
         Steps, WorkSteps, UndoSteps, NotBuilt, NotFilled, NotMoved, Placed, Kinds, Backing
    <3>3. Working(o)'
      BY <1>3, <1>0, <2>1, <3>1 DEF MoveActive, Files, Working, Copied, Switched, Vacant,
         Steps, WorkSteps, UndoSteps, NotBuilt, NotFilled, NotMoved, Placed, Kinds, Backing
    <3> QED BY <3>2, <3>3
  <2> QED BY <1>0, <2>1, <2>2, <2>3, TWorkKeeps
<1>4. CASE PlaceShadow(o)
  <2>1. /\ worker[o].pc = "place_db" /\ worker'[o].pc = "place_dir" /\ worker'[o].data = worker[o].data
        /\ worker'[o].started = worker[o].started /\ worker'[o].existed = worker[o].existed
        /\ Alone(o) /\ UNCHANGED <<journal, backup, boot, hist>>
    BY <1>4, <1>0, GotoType DEF PlaceShadow, TypeOK, Alone, Steps, WorkSteps, UndoSteps, Slots
  <2>2. worker[o].pc \in Steps /\ worker'[o].pc \in Steps
    BY <2>1 DEF Steps, WorkSteps, UndoSteps
  <2>3. ASSUME Observed PROVE Files(o)' /\ Working(o)'
    <3>1. Files(o) /\ Working(o) /\ hist.last = o /\ hist.before # NONE
      BY <2>2, <2>3, Mine DEF Observed
    <3>2. Files(o)'
      BY <1>4, <1>0, <2>1, <3>1 DEF PlaceShadow, Files, Working, Copied, Switched, Vacant,
         Steps, WorkSteps, UndoSteps, NotBuilt, NotFilled, NotMoved, Placed, Kinds, Backing
    <3>3. Working(o)'
      BY <1>4, <1>0, <2>1, <3>1 DEF PlaceShadow, Files, Working, Copied, Switched, Vacant,
         Steps, WorkSteps, UndoSteps, NotBuilt, NotFilled, NotMoved, Placed, Kinds, Backing
    <3> QED BY <3>2, <3>3
  <2> QED BY <1>0, <2>1, <2>2, <2>3, TWorkKeeps
<1>5. CASE PlaceParsed(o)
  <2>1. /\ worker[o].pc = "place_dir" /\ worker'[o].pc = "rewrite" /\ worker'[o].data = worker[o].data
        /\ worker'[o].started = worker[o].started /\ worker'[o].existed = worker[o].existed
        /\ Alone(o) /\ UNCHANGED <<journal, backup, boot, hist>>
    BY <1>5, <1>0, GotoType DEF PlaceParsed, TypeOK, Alone, Steps, WorkSteps, UndoSteps, Slots
  <2>2. worker[o].pc \in Steps /\ worker'[o].pc \in Steps
    BY <2>1 DEF Steps, WorkSteps, UndoSteps
  <2>3. ASSUME Observed PROVE Files(o)' /\ Working(o)'
    <3>1. Files(o) /\ Working(o) /\ hist.last = o /\ hist.before # NONE
      BY <2>2, <2>3, Mine DEF Observed
    <3>2. Files(o)'
      BY <1>5, <1>0, <2>1, <3>1 DEF PlaceParsed, Files, Working, Copied, Switched, Vacant,
         Steps, WorkSteps, UndoSteps, NotBuilt, NotFilled, NotMoved, Placed, Kinds, Backing
    <3>3. Working(o)'
      BY <1>5, <1>0, <2>1, <3>1 DEF PlaceParsed, Files, Working, Copied, Switched, Vacant,
         Steps, WorkSteps, UndoSteps, NotBuilt, NotFilled, NotMoved, Placed, Kinds, Backing
    <3> QED BY <3>2, <3>3
  <2> QED BY <1>0, <2>1, <2>2, <2>3, TWorkKeeps
<1>6. CASE RewritePaths(o)
  <2>1. /\ worker[o].pc = "rewrite" /\ worker'[o].pc = "announce" /\ worker'[o].data = worker[o].data
        /\ worker'[o].started = worker[o].started /\ worker'[o].existed = worker[o].existed
        /\ Alone(o) /\ UNCHANGED <<journal, backup, boot, hist>>
    BY <1>6, <1>0, GotoType DEF RewritePaths, TypeOK, Alone, Steps, WorkSteps, UndoSteps, Slots
  <2>2. worker[o].pc \in Steps /\ worker'[o].pc \in Steps
    BY <2>1 DEF Steps, WorkSteps, UndoSteps
  <2>3. ASSUME Observed PROVE Files(o)' /\ Working(o)'
    <3>1. Files(o) /\ Working(o) /\ hist.last = o /\ hist.before # NONE
      BY <2>2, <2>3, Mine DEF Observed
    <3>2. Files(o)'
      BY <1>6, <1>0, <2>1, <3>1 DEF RewritePaths, Files, Working, Copied, Switched, Vacant,
         Steps, WorkSteps, UndoSteps, NotBuilt, NotFilled, NotMoved, Placed, Kinds, Backing
    <3>3. Working(o)'
      BY <1>6, <1>0, <2>1, <3>1 DEF RewritePaths, Files, Working, Copied, Switched, Vacant,
         Steps, WorkSteps, UndoSteps, NotBuilt, NotFilled, NotMoved, Placed, Kinds, Backing
    <3> QED BY <3>2, <3>3
  <2> QED BY <1>0, <2>1, <2>2, <2>3, TWorkKeeps
<1>7. CASE KeepRollback(o)
  <2>1. /\ worker[o].pc = "keep_db" /\ worker'[o].pc = "keep_dir" /\ worker'[o].data = worker[o].data
        /\ worker'[o].started = worker[o].started /\ worker'[o].existed = worker[o].existed
        /\ Alone(o) /\ UNCHANGED <<journal, backup, boot, hist>>
    BY <1>7, <1>0, GotoType DEF KeepRollback, TypeOK, Alone, Steps, WorkSteps, UndoSteps, Slots
  <2>2. worker[o].pc \in Steps /\ worker'[o].pc \in Steps
    BY <2>1 DEF Steps, WorkSteps, UndoSteps
  <2>3. ASSUME Observed PROVE Files(o)' /\ Working(o)'
    <3>1. Files(o) /\ Working(o) /\ hist.last = o /\ hist.before # NONE
      BY <2>2, <2>3, Mine DEF Observed
    <3>2. Files(o)'
      BY <1>7, <1>0, <2>1, <3>1 DEF KeepRollback, Files, Working, Copied, Switched, Vacant,
         Steps, WorkSteps, UndoSteps, NotBuilt, NotFilled, NotMoved, Placed, Kinds, Backing
    <3>3. Working(o)'
      BY <1>7, <1>0, <2>1, <3>1 DEF KeepRollback, Files, Working, Copied, Switched, Vacant,
         Steps, WorkSteps, UndoSteps, NotBuilt, NotFilled, NotMoved, Placed, Kinds, Backing
    <3> QED BY <3>2, <3>3
  <2> QED BY <1>0, <2>1, <2>2, <2>3, TWorkKeeps
<1>8. CASE KeepParsed(o)
  <2>1. /\ worker[o].pc = "keep_dir" /\ worker'[o].pc = "complete" /\ worker'[o].data = worker[o].data
        /\ worker'[o].started = worker[o].started /\ worker'[o].existed = worker[o].existed
        /\ Alone(o) /\ UNCHANGED <<journal, backup, boot, hist>>
    BY <1>8, <1>0, GotoType DEF KeepParsed, TypeOK, Alone, Steps, WorkSteps, UndoSteps, Slots
  <2>2. worker[o].pc \in Steps /\ worker'[o].pc \in Steps
    BY <2>1 DEF Steps, WorkSteps, UndoSteps
  <2>3. ASSUME Observed PROVE Files(o)' /\ Working(o)'
    <3>1. Files(o) /\ Working(o) /\ hist.last = o /\ hist.before # NONE
      BY <2>2, <2>3, Mine DEF Observed
    <3>2. Files(o)'
      BY <1>8, <1>0, <2>1, <3>1 DEF KeepParsed, Files, Working, Copied, Switched, Vacant,
         Steps, WorkSteps, UndoSteps, NotBuilt, NotFilled, NotMoved, Placed, Kinds, Backing
    <3>3. Working(o)'
      BY <1>8, <1>0, <2>1, <3>1 DEF KeepParsed, Files, Working, Copied, Switched, Vacant,
         Steps, WorkSteps, UndoSteps, NotBuilt, NotFilled, NotMoved, Placed, Kinds, Backing
    <3> QED BY <3>2, <3>3
  <2> QED BY <1>0, <2>1, <2>2, <2>3, TWorkKeeps
<1>9. CASE UndoActive(o)
  <2>1. /\ worker[o].pc = "undo_db" /\ worker'[o].pc = "undo_shadow" /\ worker'[o].data = worker[o].data
        /\ worker'[o].started = worker[o].started /\ worker'[o].existed = worker[o].existed
        /\ Alone(o) /\ UNCHANGED <<journal, backup, boot, hist>>
    BY <1>9, <1>0, GotoType DEF UndoActive, TypeOK, Alone, Steps, WorkSteps, UndoSteps, Slots
  <2>2. worker[o].pc \in Steps /\ worker'[o].pc \in Steps
    BY <2>1 DEF Steps, WorkSteps, UndoSteps
  <2>3. ASSUME Observed PROVE Files(o)' /\ Working(o)'
    <3>1. Files(o) /\ Working(o) /\ hist.last = o /\ hist.before # NONE
      BY <2>2, <2>3, Mine DEF Observed
    <3>2. Files(o)'
      BY <1>9, <1>0, <2>1, <3>1 DEF UndoActive, Files, Working, Copied, Switched, Vacant,
         Steps, WorkSteps, UndoSteps, NotBuilt, NotFilled, NotMoved, Placed, Kinds, Backing
    <3>3. Working(o)'
      BY <1>9, <1>0, <2>1, <3>1 DEF UndoActive, Files, Working, Copied, Switched, Vacant,
         Steps, WorkSteps, UndoSteps, NotBuilt, NotFilled, NotMoved, Placed, Kinds, Backing
    <3> QED BY <3>2, <3>3
  <2> QED BY <1>0, <2>1, <2>2, <2>3, TWorkKeeps
<1>10. CASE UndoShadow(o)
  <2>1. /\ worker[o].pc = "undo_shadow" /\ worker'[o].pc = "undo_dir" /\ worker'[o].data = worker[o].data
        /\ worker'[o].started = worker[o].started /\ worker'[o].existed = worker[o].existed
        /\ Alone(o) /\ UNCHANGED <<journal, backup, boot, hist>>
    BY <1>10, <1>0, GotoType DEF UndoShadow, TypeOK, Alone, Steps, WorkSteps, UndoSteps, Slots
  <2>2. worker[o].pc \in Steps /\ worker'[o].pc \in Steps
    BY <2>1 DEF Steps, WorkSteps, UndoSteps
  <2>3. ASSUME Observed PROVE Files(o)' /\ Working(o)'
    <3>1. Files(o) /\ Working(o) /\ hist.last = o /\ hist.before # NONE
      BY <2>2, <2>3, Mine DEF Observed
    <3>2. Files(o)'
      BY <1>10, <1>0, <2>1, <3>1 DEF UndoShadow, Files, Working, Copied, Switched, Vacant,
         Steps, WorkSteps, UndoSteps, NotBuilt, NotFilled, NotMoved, Placed, Kinds, Backing
    <3>3. Working(o)'
      BY <1>10, <1>0, <2>1, <3>1 DEF UndoShadow, Files, Working, Copied, Switched, Vacant,
         Steps, WorkSteps, UndoSteps, NotBuilt, NotFilled, NotMoved, Placed, Kinds, Backing
    <3> QED BY <3>2, <3>3
  <2> QED BY <1>0, <2>1, <2>2, <2>3, TWorkKeeps
<1>11. CASE UndoParsed(o)
  <2>1. /\ worker[o].pc = "undo_dir" /\ worker'[o].pc = "redo_db" /\ worker'[o].data = worker[o].data
        /\ worker'[o].started = worker[o].started /\ worker'[o].existed = worker[o].existed
        /\ Alone(o) /\ UNCHANGED <<journal, backup, boot, hist>>
    BY <1>11, <1>0, GotoType DEF UndoParsed, TypeOK, Alone, Steps, WorkSteps, UndoSteps, Slots
  <2>2. worker[o].pc \in Steps /\ worker'[o].pc \in Steps
    BY <2>1 DEF Steps, WorkSteps, UndoSteps
  <2>3. ASSUME Observed PROVE Files(o)' /\ Working(o)'
    <3>1. Files(o) /\ Working(o) /\ hist.last = o /\ hist.before # NONE
      BY <2>2, <2>3, Mine DEF Observed
    <3>2. Files(o)'
      BY <1>11, <1>0, <2>1, <3>1 DEF UndoParsed, Files, Working, Copied, Switched, Vacant,
         Steps, WorkSteps, UndoSteps, NotBuilt, NotFilled, NotMoved, Placed, Kinds, Backing
    <3>3. Working(o)'
      BY <1>11, <1>0, <2>1, <3>1 DEF UndoParsed, Files, Working, Copied, Switched, Vacant,
         Steps, WorkSteps, UndoSteps, NotBuilt, NotFilled, NotMoved, Placed, Kinds, Backing
    <3> QED BY <3>2, <3>3
  <2> QED BY <1>0, <2>1, <2>2, <2>3, TWorkKeeps
<1>12. CASE RedoActive(o)
  <2>1. /\ worker[o].pc = "redo_db" /\ worker'[o].pc = "redo_dir" /\ worker'[o].data = worker[o].data
        /\ worker'[o].started = worker[o].started /\ worker'[o].existed = worker[o].existed
        /\ Alone(o) /\ UNCHANGED <<journal, backup, boot, hist>>
    BY <1>12, <1>0, GotoType DEF RedoActive, TypeOK, Alone, Steps, WorkSteps, UndoSteps, Slots
  <2>2. worker[o].pc \in Steps /\ worker'[o].pc \in Steps
    BY <2>1 DEF Steps, WorkSteps, UndoSteps
  <2>3. ASSUME Observed PROVE Files(o)' /\ Working(o)'
    <3>1. Files(o) /\ Working(o) /\ hist.last = o /\ hist.before # NONE
      BY <2>2, <2>3, Mine DEF Observed
    <3>2. Files(o)'
      BY <1>12, <1>0, <2>1, <3>1 DEF RedoActive, Files, Working, Copied, Switched, Vacant,
         Steps, WorkSteps, UndoSteps, NotBuilt, NotFilled, NotMoved, Placed, Kinds, Backing
    <3>3. Working(o)'
      BY <1>12, <1>0, <2>1, <3>1 DEF RedoActive, Files, Working, Copied, Switched, Vacant,
         Steps, WorkSteps, UndoSteps, NotBuilt, NotFilled, NotMoved, Placed, Kinds, Backing
    <3> QED BY <3>2, <3>3
  <2> QED BY <1>0, <2>1, <2>2, <2>3, TWorkKeeps
<1>13. CASE RedoParsed(o)
  <2>1. /\ worker[o].pc = "redo_dir" /\ worker'[o].pc = "restore" /\ worker'[o].data = worker[o].data
        /\ worker'[o].started = worker[o].started /\ worker'[o].existed = worker[o].existed
        /\ Alone(o) /\ UNCHANGED <<journal, backup, boot, hist>>
    BY <1>13, <1>0, GotoType DEF RedoParsed, TypeOK, Alone, Steps, WorkSteps, UndoSteps, Slots
  <2>2. worker[o].pc \in Steps /\ worker'[o].pc \in Steps
    BY <2>1 DEF Steps, WorkSteps, UndoSteps
  <2>3. ASSUME Observed PROVE Files(o)' /\ Working(o)'
    <3>1. Files(o) /\ Working(o) /\ hist.last = o /\ hist.before # NONE
      BY <2>2, <2>3, Mine DEF Observed
    <3>2. Files(o)'
      BY <1>13, <1>0, <2>1, <3>1 DEF RedoParsed, Files, Working, Copied, Switched, Vacant,
         Steps, WorkSteps, UndoSteps, NotBuilt, NotFilled, NotMoved, Placed, Kinds, Backing
    <3>3. Working(o)'
      BY <1>13, <1>0, <2>1, <3>1 DEF RedoParsed, Files, Working, Copied, Switched, Vacant,
         Steps, WorkSteps, UndoSteps, NotBuilt, NotFilled, NotMoved, Placed, Kinds, Backing
    <3> QED BY <3>2, <3>3
  <2> QED BY <1>0, <2>1, <2>2, <2>3, TWorkKeeps
<1>14. CASE DiscardShadow(o)
  <2>1. /\ worker[o].pc = "discard_db" /\ worker'[o].pc = "discard_dir" /\ worker'[o].data = worker[o].data
        /\ worker'[o].started = worker[o].started /\ worker'[o].existed = worker[o].existed
        /\ Alone(o) /\ UNCHANGED <<journal, backup, boot, hist>>
    BY <1>14, <1>0, GotoType DEF DiscardShadow, TypeOK, Alone, Steps, WorkSteps, UndoSteps, Slots
  <2>2. worker[o].pc \in Steps /\ worker'[o].pc \in Steps
    BY <2>1 DEF Steps, WorkSteps, UndoSteps
  <2>3. ASSUME Observed PROVE Files(o)' /\ Working(o)'
    <3>1. Files(o) /\ Working(o) /\ hist.last = o /\ hist.before # NONE
      BY <2>2, <2>3, Mine DEF Observed
    <3>2. Files(o)'
      BY <1>14, <1>0, <2>1, <3>1 DEF DiscardShadow, Files, Working, Copied, Switched, Vacant,
         Steps, WorkSteps, UndoSteps, NotBuilt, NotFilled, NotMoved, Placed, Kinds, Backing
    <3>3. Working(o)'
      BY <1>14, <1>0, <2>1, <3>1 DEF DiscardShadow, Files, Working, Copied, Switched, Vacant,
         Steps, WorkSteps, UndoSteps, NotBuilt, NotFilled, NotMoved, Placed, Kinds, Backing
    <3> QED BY <3>2, <3>3
  <2> QED BY <1>0, <2>1, <2>2, <2>3, TWorkKeeps
<1>15. CASE DiscardParsed(o)
  <2>1. /\ worker[o].pc = "discard_dir" /\ worker'[o].pc = "discarded" /\ worker'[o].data = worker[o].data
        /\ worker'[o].started = worker[o].started /\ worker'[o].existed = worker[o].existed
        /\ Alone(o) /\ UNCHANGED <<journal, backup, boot, hist>>
    BY <1>15, <1>0, GotoType DEF DiscardParsed, TypeOK, Alone, Steps, WorkSteps, UndoSteps, Slots
  <2>2. worker[o].pc \in Steps /\ worker'[o].pc \in Steps
    BY <2>1 DEF Steps, WorkSteps, UndoSteps
  <2>3. ASSUME Observed PROVE Files(o)' /\ Working(o)'
    <3>1. Files(o) /\ Working(o) /\ hist.last = o /\ hist.before # NONE
      BY <2>2, <2>3, Mine DEF Observed
    <3>2. Files(o)'
      BY <1>15, <1>0, <2>1, <3>1 DEF DiscardParsed, Files, Working, Copied, Switched, Vacant,
         Steps, WorkSteps, UndoSteps, NotBuilt, NotFilled, NotMoved, Placed, Kinds, Backing
    <3>3. Working(o)'
      BY <1>15, <1>0, <2>1, <3>1 DEF DiscardParsed, Files, Working, Copied, Switched, Vacant,
         Steps, WorkSteps, UndoSteps, NotBuilt, NotFilled, NotMoved, Placed, Kinds, Backing
    <3> QED BY <3>2, <3>3
  <2> QED BY <1>0, <2>1, <2>2, <2>3, TWorkKeeps
<1> QED BY <1>1, <1>2, <1>3, <1>4, <1>5, <1>6, <1>7, <1>8, <1>9, <1>10, <1>11, <1>12, <1>13, <1>14, <1>15

\* An update of the stage, with files and the other operations left alone.
LEMMA TStageKeeps ==
  ASSUME IInv, TInv, IInv', NEW o \in Ops, NEW from \in Steps, NEW to \in Steps,
         NEW s \in Stages, Stage(o, from, to, s), UNCHANGED <<dbs, dirs, others>>,
         Observed => Files(o)' /\ Working(o)'
  PROVE  TInv'
<1>1. /\ worker[o].pc = from /\ worker'[o].pc = to
      /\ \A p \in Ops \ {o} : worker'[p] = worker[p] /\ journal'[p] = journal[p]
  BY StageType DEF IInv
<1>2. Alone(o) /\ boot' = boot /\ hist' = hist
  BY <1>1 DEF Alone, dbs, dirs, others
<1> QED BY <1>1, <1>2, TWorkKeeps

\* The steps of a worker that update the stage keep the truth.
LEMMA TWorkStages ==
  ASSUME IInv, TInv, NEW o \in Ops, Pause(o) \/ Prepare(o) \/ SmokeTest(o) \/ Failed(o)
  PROVE  TInv'
<1> USE DEF others, dbs, dirs
<1>0. TypeOK /\ Vacant(o) /\ IInv' /\ o # NONE
  BY WorkKeepsInv, ContentAssumption DEF IInv, Work
<1>1. CASE Pause(o)
  <2>1. /\ Stage(o, "pause", "backup", "checkpoint") /\ UNCHANGED <<dbs, dirs, others>>
        /\ "pause" \in Steps /\ "backup" \in Steps /\ "checkpoint" \in Stages
    BY <1>1 DEF Pause, Steps, WorkSteps, UndoSteps, Stages, Settled
  <2>2. Stepped(o, "pause", "backup", "checkpoint")
    BY <2>1, <1>0, StageType, SMTT(30) DEF Stepped
  <2>3. ASSUME Observed PROVE Files(o)' /\ Working(o)'
    <3>1. Files(o) /\ Working(o) /\ hist.last = o /\ hist.before # NONE
      BY <2>1, <2>2, <2>3, Mine DEF Observed, Stepped
    <3>2. Files(o)'
      BY <1>0, <2>1, <2>2, <3>1 DEF Stepped, Files, Working, Copied, Switched, Vacant,
         Steps, WorkSteps, UndoSteps, NotBuilt, NotFilled, NotMoved, Placed, Kinds, Backing, Switching
    <3>3. Working(o)'
      BY <1>0, <2>1, <2>2, <3>1 DEF Stepped, Files, Working, Copied, Switched, Vacant,
         Steps, WorkSteps, UndoSteps, NotBuilt, NotFilled, NotMoved, Placed, Kinds, Backing, Switching
    <3> QED BY <3>2, <3>3
  <2> QED BY <1>0, <2>1, <2>3, TStageKeeps
<1>2. CASE Prepare(o)
  <2>1. /\ Stage(o, "prepare", "build", "shadow_building") /\ UNCHANGED <<dbs, dirs, others>>
        /\ "prepare" \in Steps /\ "build" \in Steps /\ "shadow_building" \in Stages
    BY <1>2 DEF Prepare, Steps, WorkSteps, UndoSteps, Stages, Settled
  <2>2. Stepped(o, "prepare", "build", "shadow_building")
    BY <2>1, <1>0, StageType, SMTT(30) DEF Stepped
  <2>3. ASSUME Observed PROVE Files(o)' /\ Working(o)'
    <3>1. Files(o) /\ Working(o) /\ hist.last = o /\ hist.before # NONE
      BY <2>1, <2>2, <2>3, Mine DEF Observed, Stepped
    <3>2. Files(o)'
      BY <1>0, <2>1, <2>2, <3>1 DEF Stepped, Files, Working, Copied, Switched, Vacant,
         Steps, WorkSteps, UndoSteps, NotBuilt, NotFilled, NotMoved, Placed, Kinds, Backing, Switching
    <3>3. Working(o)'
      BY <1>0, <2>1, <2>2, <3>1 DEF Stepped, Files, Working, Copied, Switched, Vacant,
         Steps, WorkSteps, UndoSteps, NotBuilt, NotFilled, NotMoved, Placed, Kinds, Backing, Switching
    <3> QED BY <3>2, <3>3
  <2> QED BY <1>0, <2>1, <2>3, TStageKeeps
<1>3. CASE SmokeTest(o) /\ Stage(o, "smoke", "keep_db", "smoke_validated")
  <2>1. /\ Stage(o, "smoke", "keep_db", "smoke_validated") /\ UNCHANGED <<dbs, dirs, others>>
        /\ "smoke" \in Steps /\ "keep_db" \in Steps /\ "smoke_validated" \in Stages
    BY <1>3 DEF SmokeTest, Steps, WorkSteps, UndoSteps, Stages, Settled
  <2>2. Stepped(o, "smoke", "keep_db", "smoke_validated")
    BY <2>1, <1>0, StageType, SMTT(30) DEF Stepped
  <2>3. ASSUME Observed PROVE Files(o)' /\ Working(o)'
    <3>1. Files(o) /\ Working(o) /\ hist.last = o /\ hist.before # NONE
      BY <2>1, <2>2, <2>3, Mine DEF Observed, Stepped
    <3>2. Files(o)'
      BY <1>0, <2>1, <2>2, <3>1 DEF Stepped, Files, Working, Copied, Switched, Vacant,
         Steps, WorkSteps, UndoSteps, NotBuilt, NotFilled, NotMoved, Placed, Kinds, Backing, Switching
    <3>3. Working(o)'
      BY <1>0, <2>1, <2>2, <3>1 DEF Stepped, Files, Working, Copied, Switched, Vacant,
         Steps, WorkSteps, UndoSteps, NotBuilt, NotFilled, NotMoved, Placed, Kinds, Backing, Switching
    <3> QED BY <3>2, <3>3
  <2> QED BY <1>0, <2>1, <2>3, TStageKeeps
<1>4. CASE SmokeTest(o) /\ Stage(o, "smoke", "raised", "smoke_failed")
  <2>1. /\ Stage(o, "smoke", "raised", "smoke_failed") /\ UNCHANGED <<dbs, dirs, others>>
        /\ "smoke" \in Steps /\ "raised" \in Steps /\ "smoke_failed" \in Stages
    BY <1>4 DEF SmokeTest, Steps, WorkSteps, UndoSteps, Stages, Settled
  <2>2. Stepped(o, "smoke", "raised", "smoke_failed")
    BY <2>1, <1>0, StageType, SMTT(30) DEF Stepped
  <2>3. ASSUME Observed PROVE Files(o)' /\ Working(o)'
    <3>1. Files(o) /\ Working(o) /\ hist.last = o /\ hist.before # NONE
      BY <2>1, <2>2, <2>3, Mine DEF Observed, Stepped
    <3>2. Files(o)'
      BY <1>0, <2>1, <2>2, <3>1 DEF Stepped, Files, Working, Copied, Switched, Vacant,
         Steps, WorkSteps, UndoSteps, NotBuilt, NotFilled, NotMoved, Placed, Kinds, Backing, Switching
    <3>3. Working(o)'
      BY <1>0, <2>1, <2>2, <3>1 DEF Stepped, Files, Working, Copied, Switched, Vacant,
         Steps, WorkSteps, UndoSteps, NotBuilt, NotFilled, NotMoved, Placed, Kinds, Backing, Switching
    <3> QED BY <3>2, <3>3
  <2> QED BY <1>0, <2>1, <2>3, TStageKeeps
<1>5. CASE Failed(o)
  <2> DEFINE to == IF worker[o].started \/ rollback[o] # NONE THEN "undo_db"
                   ELSE IF shadow[o] # NONE \/ pshadow[o] # NONE THEN "discard_db" ELSE "abort"
  <2>1. /\ UNCHANGED <<dbs, dirs, others>> /\ Stage(o, "raised", to, "failed")
        /\ to \in Steps /\ "raised" \in Steps /\ "failed" \in Stages
    BY <1>5 DEF Failed, Steps, UndoSteps, Stages, Settled
  <2>2. /\ to \in {"undo_db", "discard_db", "abort"}
        /\ to = "undo_db" <=> (worker[o].started \/ rollback[o] # NONE)
    OBVIOUS
  <2> HIDE DEF to
  <2>3. Stepped(o, "raised", to, "failed")
    BY <1>0, <2>1, StageType DEF Stepped
  <2>4. ASSUME Observed PROVE Files(o)' /\ Working(o)'
    <3>1. Files(o) /\ Working(o) /\ hist.last = o /\ hist.before # NONE
      BY <2>1, <2>3, <2>4, Mine DEF Observed, Stepped
    <3>2. Files(o)'
      BY <1>0, <2>1, <2>2, <2>3, <3>1 DEF Stepped, Files, Working, Copied, Switched, Vacant,
         Steps, WorkSteps, UndoSteps, NotBuilt, NotFilled, NotMoved, Placed, Kinds, Backing, Switching
    <3>3. Working(o)'
      BY <1>0, <2>1, <2>2, <2>3, <3>1 DEF Stepped, Files, Working, Copied, Switched, Vacant,
         Steps, WorkSteps, UndoSteps, NotBuilt, NotFilled, NotMoved, Placed, Kinds, Backing, Switching
    <3> QED BY <3>2, <3>3
  <2> QED BY <1>0, <2>1, <2>4, TStageKeeps
<1> QED BY <1>1, <1>2, <1>3, <1>4, <1>5 DEF SmokeTest

\* An update of the whole record, with the files left alone.
LEMMA TUpdateKeeps ==
  ASSUME IInv, TInv, IInv', NEW o \in Ops, NEW from \in Steps, NEW to \in Steps,
         NEW d \in Journal, Update(o, from, to, d), UNCHANGED <<dbs, dirs, others>>,
         Observed => Files(o)' /\ Working(o)'
  PROVE  TInv'
<1>1. /\ worker[o].pc = from /\ worker'[o].pc = to
      /\ \A p \in Ops \ {o} : worker'[p] = worker[p] /\ journal'[p] = journal[p]
  BY UpdateType DEF IInv
<1>2. Alone(o) /\ boot' = boot /\ hist' = hist
  BY <1>1 DEF Alone, dbs, dirs, others
<1> QED BY <1>1, <1>2, TWorkKeeps

\* The steps of a worker that record more than the stage keep the truth.
LEMMA TWorkUpdates ==
  ASSUME IInv, TInv, NEW o \in Ops, RecordBackup(o) \/ Validated(o) \/ Announce(o)
  PROVE  TInv'
<1> USE DEF others, dbs, dirs
<1>0. TypeOK /\ Vacant(o) /\ IInv' /\ o # NONE /\ worker[o].data \in Journal
  BY WorkKeepsInv, ContentAssumption DEF IInv, Work, TypeOK, Worker
<1>1. CASE Validated(o)
  <2> DEFINE d == [worker[o].data EXCEPT !.stage = "shadow_validated", !.adapter = TRUE]
  <2>1. /\ d \in Journal /\ d.stage = "shadow_validated" /\ d.adapter
        /\ d.backup = worker[o].data.backup /\ d.switched = worker[o].data.switched
        /\ "validate" \in Steps /\ "ready" \in Steps
    BY <1>0 DEF Journal, Stages, Settled, Steps, WorkSteps
  <2>2. Update(o, "validate", "ready", d) /\ UNCHANGED <<dbs, dirs, others>>
    BY <1>1 DEF Validated
  <2> HIDE DEF d
  <2>3. /\ worker[o].pc = "validate" /\ worker'[o].pc = "ready" /\ worker'[o].data = d
        /\ journal'[o] = d /\ worker'[o].started = worker[o].started
        /\ worker'[o].existed = worker[o].existed
    BY <1>0, <2>1, <2>2, UpdateType
  <2>4. ASSUME Observed PROVE Files(o)' /\ Working(o)'
    <3>1. Files(o) /\ Working(o) /\ hist.last = o /\ hist.before # NONE
      BY <2>1, <2>3, <2>4, Mine DEF Observed
    <3>2. Files(o)'
      BY <1>0, <2>1, <2>2, <2>3, <3>1 DEF Files, Working, Copied, Switched, Vacant,
         Steps, WorkSteps, UndoSteps, NotBuilt, NotFilled, NotMoved, Placed, Kinds, Backing, Switching
    <3>3. Working(o)'
      BY <1>0, <2>1, <2>2, <2>3, <3>1 DEF Files, Working, Copied, Switched, Vacant,
         Steps, WorkSteps, UndoSteps, NotBuilt, NotFilled, NotMoved, Placed, Kinds, Backing, Switching
    <3> QED BY <3>2, <3>3
  <2> QED BY <1>0, <2>1, <2>2, <2>4, TUpdateKeeps
<1>2. CASE Announce(o)
  <2> DEFINE d == [worker[o].data EXCEPT !.stage = "switched", !.switched = TRUE]
  <2>1. /\ d \in Journal /\ d.stage = "switched" /\ d.switched
        /\ d.backup = worker[o].data.backup
        /\ "announce" \in Steps /\ "smoke" \in Steps
    BY <1>0 DEF Journal, Stages, Settled, Steps, WorkSteps
  <2>2. Update(o, "announce", "smoke", d) /\ UNCHANGED <<dbs, dirs, others>>
    BY <1>2 DEF Announce
  <2> HIDE DEF d
  <2>3. /\ worker[o].pc = "announce" /\ worker'[o].pc = "smoke" /\ worker'[o].data = d
        /\ journal'[o] = d /\ worker'[o].started = worker[o].started
        /\ worker'[o].existed = worker[o].existed
    BY <1>0, <2>1, <2>2, UpdateType
  <2>4. ASSUME Observed PROVE Files(o)' /\ Working(o)'
    <3>1. Files(o) /\ Working(o) /\ hist.last = o /\ hist.before # NONE
      BY <2>1, <2>3, <2>4, Mine DEF Observed
    <3>2. Files(o)'
      BY <1>0, <2>1, <2>2, <2>3, <3>1 DEF Files, Working, Copied, Switched, Vacant,
         Steps, WorkSteps, UndoSteps, NotBuilt, NotFilled, NotMoved, Placed, Kinds, Backing, Switching
    <3>3. Working(o)'
      BY <1>0, <2>1, <2>2, <2>3, <3>1 DEF Files, Working, Copied, Switched, Vacant,
         Steps, WorkSteps, UndoSteps, NotBuilt, NotFilled, NotMoved, Placed, Kinds, Backing, Switching
    <3> QED BY <3>2, <3>3
  <2> QED BY <1>0, <2>1, <2>2, <2>4, TUpdateKeeps
<1>3. CASE /\ RecordBackup(o)
          /\ Update(o, "record", "prepare",
                    [worker[o].data EXCEPT !.stage = "backup_validated", !.backup = TRUE])
  <2> DEFINE d == [worker[o].data EXCEPT !.stage = "backup_validated", !.backup = TRUE]
  <2>1. /\ d \in Journal /\ d.stage = "backup_validated" /\ d.backup
        /\ d.switched = worker[o].data.switched
        /\ "record" \in Steps /\ "prepare" \in Steps
    BY <1>0 DEF Journal, Stages, Settled, Steps, WorkSteps
  <2>2. Update(o, "record", "prepare", d) /\ UNCHANGED <<dbs, dirs, others>>
    BY <1>3 DEF RecordBackup
  <2> HIDE DEF d
  <2>3. /\ worker[o].pc = "record" /\ worker'[o].pc = "prepare" /\ worker'[o].data = d
        /\ journal'[o] = d /\ worker'[o].started = worker[o].started
        /\ worker'[o].existed = worker[o].existed
    BY <1>0, <2>1, <2>2, UpdateType
  <2>4. ASSUME Observed PROVE Files(o)' /\ Working(o)'
    <3>1. Files(o) /\ Working(o) /\ hist.last = o /\ hist.before # NONE
      BY <2>1, <2>3, <2>4, Mine DEF Observed
    <3>2. Files(o)'
      BY <1>0, <2>1, <2>2, <2>3, <3>1 DEF Files, Working, Copied, Switched, Vacant,
         Steps, WorkSteps, UndoSteps, NotBuilt, NotFilled, NotMoved, Placed, Kinds, Backing, Switching
    <3>3. Working(o)'
      BY <1>0, <2>1, <2>2, <2>3, <3>1 DEF Files, Working, Copied, Switched, Vacant,
         Steps, WorkSteps, UndoSteps, NotBuilt, NotFilled, NotMoved, Placed, Kinds, Backing, Switching
    <3> QED BY <3>2, <3>3
  <2> QED BY <1>0, <2>1, <2>2, <2>4, TUpdateKeeps
<1>4. CASE /\ RecordBackup(o)
          /\ Update(o, "record", "raised",
                    [worker[o].data EXCEPT !.stage = "backup_failed", !.backup = TRUE])
  <2> DEFINE d == [worker[o].data EXCEPT !.stage = "backup_failed", !.backup = TRUE]
  <2>1. /\ d \in Journal /\ d.stage = "backup_failed" /\ d.backup
        /\ d.switched = worker[o].data.switched
        /\ "record" \in Steps /\ "raised" \in Steps
    BY <1>0 DEF Journal, Stages, Settled, Steps, WorkSteps
  <2>2. Update(o, "record", "raised", d) /\ UNCHANGED <<dbs, dirs, others>>
    BY <1>4 DEF RecordBackup
  <2> HIDE DEF d
  <2>3. /\ worker[o].pc = "record" /\ worker'[o].pc = "raised" /\ worker'[o].data = d
        /\ journal'[o] = d /\ worker'[o].started = worker[o].started
        /\ worker'[o].existed = worker[o].existed
    BY <1>0, <2>1, <2>2, UpdateType
  <2>4. ASSUME Observed PROVE Files(o)' /\ Working(o)'
    <3>1. Files(o) /\ Working(o) /\ hist.last = o /\ hist.before # NONE
      BY <2>1, <2>3, <2>4, Mine DEF Observed
    <3>2. Files(o)'
      BY <1>0, <2>1, <2>2, <2>3, <3>1 DEF Files, Working, Copied, Switched, Vacant,
         Steps, WorkSteps, UndoSteps, NotBuilt, NotFilled, NotMoved, Placed, Kinds, Backing, Switching
    <3>3. Working(o)'
      BY <1>0, <2>1, <2>2, <2>3, <3>1 DEF Files, Working, Copied, Switched, Vacant,
         Steps, WorkSteps, UndoSteps, NotBuilt, NotFilled, NotMoved, Placed, Kinds, Backing, Switching
    <3> QED BY <3>2, <3>3
  <2> QED BY <1>0, <2>1, <2>2, <2>4, TUpdateKeeps
<1> QED BY <1>1, <1>2, <1>3, <1>4 DEF RecordBackup

\* The steps of a worker that change what it remembers keep the truth.  In a
\* calm upgrade the undoing ends with the old database in place.
LEMMA TWorkRemembers ==
  ASSUME IInv, TInv, NEW o \in Ops, Backup(o) \/ StartSwitch(o) \/ MoveParsed(o) \/ Restore(o)
  PROVE  TInv'
<1> USE DEF others, dbs, dirs
<1>0. /\ TypeOK /\ Vacant(o) /\ IInv' /\ o # NONE /\ worker[o] \in Worker
      /\ backup \in [Ops -> Content]
  BY WorkKeepsInv, ContentAssumption DEF IInv, Work, TypeOK, Slots
<1>1. CASE Backup(o)
  <2> DEFINE w == [worker[o] EXCEPT !.pc = "record", !.existed = active # NONE]
  <2>1. /\ w \in Worker /\ worker[o].pc = "backup" /\ worker' = [worker EXCEPT ![o] = w]
        /\ w.pc = "record" /\ w.existed = (active # NONE) /\ w.started = worker[o].started
        /\ w.data = worker[o].data
    BY <1>1, <1>0 DEF Backup, Worker, Steps, WorkSteps
  <2> HIDE DEF w
  <2>2. /\ worker' \in [Ops -> Worker] /\ worker'[o] = w
        /\ \A p \in Ops \ {o} : worker'[p] = worker[p]
    BY <1>0, <2>1, WorkerBecomes
  <2>3. /\ Alone(o) /\ boot' = boot /\ hist' = hist /\ journal' = journal
        /\ worker[o].pc \in Steps /\ worker'[o].pc \in Steps
    BY <1>1, <1>0, <2>1, <2>2 DEF Backup, TypeOK, Alone, Slots, Steps, WorkSteps
  <2>4. ASSUME Observed PROVE Files(o)' /\ Working(o)'
    <3>1. Files(o) /\ Working(o) /\ hist.last = o /\ hist.before # NONE
      BY <2>3, <2>4, Mine DEF Observed
    <3>2. Files(o)'
      BY <1>1, <1>0, <2>1, <2>2, <2>3, <3>1 DEF Backup, Files, Working, Copied, Switched, Vacant, Steps, WorkSteps,
         UndoSteps, NotBuilt, NotFilled, NotMoved, Placed, Kinds, Backing, Switching
    <3>3. Working(o)'
      BY <1>1, <1>0, <2>1, <2>2, <2>3, <3>1 DEF Backup, Files, Working, Copied, Switched, Vacant, Steps, WorkSteps,
         UndoSteps, NotBuilt, NotFilled, NotMoved, Placed, Kinds, Backing, Switching
    <3> QED BY <3>2, <3>3
  <2> QED BY <1>0, <2>3, <2>4, TWorkKeeps
<1>2. CASE StartSwitch(o)
  <2> DEFINE w == [worker[o] EXCEPT !.pc = "move_db", !.started = TRUE]
  <2>1. /\ w \in Worker /\ worker[o].pc = "ready" /\ worker' = [worker EXCEPT ![o] = w]
        /\ w.pc = "move_db" /\ w.existed = worker[o].existed /\ w.started
        /\ w.data = worker[o].data
    BY <1>2, <1>0 DEF StartSwitch, Worker, Steps, WorkSteps
  <2> HIDE DEF w
  <2>2. /\ worker' \in [Ops -> Worker] /\ worker'[o] = w
        /\ \A p \in Ops \ {o} : worker'[p] = worker[p]
    BY <1>0, <2>1, WorkerBecomes
  <2>3. /\ Alone(o) /\ boot' = boot /\ hist' = hist /\ journal' = journal
        /\ worker[o].pc \in Steps /\ worker'[o].pc \in Steps
    BY <1>2, <1>0, <2>1, <2>2 DEF StartSwitch, TypeOK, Alone, Slots, Steps, WorkSteps
  <2>4. ASSUME Observed PROVE Files(o)' /\ Working(o)'
    <3>1. Files(o) /\ Working(o) /\ hist.last = o /\ hist.before # NONE
      BY <2>3, <2>4, Mine DEF Observed
    <3>2. Files(o)'
      BY <1>2, <1>0, <2>1, <2>2, <2>3, <3>1 DEF StartSwitch, Files, Working, Copied, Switched, Vacant, Steps, WorkSteps,
         UndoSteps, NotBuilt, NotFilled, NotMoved, Placed, Kinds, Backing, Switching
    <3>3. Working(o)'
      BY <1>2, <1>0, <2>1, <2>2, <2>3, <3>1 DEF StartSwitch, Files, Working, Copied, Switched, Vacant, Steps, WorkSteps,
         UndoSteps, NotBuilt, NotFilled, NotMoved, Placed, Kinds, Backing, Switching
    <3> QED BY <3>2, <3>3
  <2> QED BY <1>0, <2>3, <2>4, TWorkKeeps
<1>3. CASE MoveParsed(o)
  <2> DEFINE w == [worker[o] EXCEPT !.pc = "place_db", !.moved = parsed # NONE]
  <2>1. /\ w \in Worker /\ worker[o].pc = "move_dir" /\ worker' = [worker EXCEPT ![o] = w]
        /\ w.pc = "place_db" /\ w.existed = worker[o].existed /\ w.started = worker[o].started
        /\ w.data = worker[o].data
    BY <1>3, <1>0 DEF MoveParsed, Worker, Steps, WorkSteps
  <2> HIDE DEF w
  <2>2. /\ worker' \in [Ops -> Worker] /\ worker'[o] = w
        /\ \A p \in Ops \ {o} : worker'[p] = worker[p]
    BY <1>0, <2>1, WorkerBecomes
  <2>3. /\ Alone(o) /\ boot' = boot /\ hist' = hist /\ journal' = journal
        /\ worker[o].pc \in Steps /\ worker'[o].pc \in Steps
    BY <1>3, <1>0, <2>1, <2>2 DEF MoveParsed, TypeOK, Alone, Slots, Steps, WorkSteps
  <2>4. ASSUME Observed PROVE Files(o)' /\ Working(o)'
    <3>1. Files(o) /\ Working(o) /\ hist.last = o /\ hist.before # NONE
      BY <2>3, <2>4, Mine DEF Observed
    <3>2. Files(o)'
      BY <1>3, <1>0, <2>1, <2>2, <2>3, <3>1 DEF MoveParsed, Files, Working, Copied, Switched, Vacant, Steps, WorkSteps,
         UndoSteps, NotBuilt, NotFilled, NotMoved, Placed, Kinds, Backing, Switching
    <3>3. Working(o)'
      BY <1>3, <1>0, <2>1, <2>2, <2>3, <3>1 DEF MoveParsed, Files, Working, Copied, Switched, Vacant, Steps, WorkSteps,
         UndoSteps, NotBuilt, NotFilled, NotMoved, Placed, Kinds, Backing, Switching
    <3> QED BY <3>2, <3>3
  <2> QED BY <1>0, <2>3, <2>4, TWorkKeeps
<1>4. CASE Restore(o)
  <2> DEFINE to == IF worker[o].existed = (active' # NONE) THEN "closing" ELSE "stuck"
  <2>1. /\ Goto(o, "restore", to) /\ to \in Steps /\ "restore" \in Steps
        /\ active' = IF worker[o].existed /\ active = NONE THEN backup[o] ELSE active
        /\ to = "closing" <=> worker[o].existed = (active' # NONE)
        /\ to \in {"closing", "stuck"}
    BY <1>4 DEF Restore, Steps
  <2> HIDE DEF to
  <2>2. /\ worker' \in [Ops -> Worker] /\ worker[o].pc = "restore" /\ worker'[o].pc = to
        /\ worker'[o].data = worker[o].data /\ worker'[o].started = worker[o].started
        /\ worker'[o].existed = worker[o].existed
        /\ \A p \in Ops \ {o} : worker'[p] = worker[p]
    BY <1>0, <2>1, GotoType
  <2>3. /\ Alone(o) /\ UNCHANGED <<boot, hist, journal, rollback, kept, backup, shadow>>
        /\ worker[o].pc \in Steps /\ worker'[o].pc \in Steps
    BY <1>4, <2>1, <2>2 DEF Restore, Alone
  <2>4. ASSUME Observed PROVE Files(o)' /\ Working(o)'
    <3>1. Files(o) /\ Working(o) /\ hist.last = o /\ hist.before # NONE
      BY <2>3, <2>4, Mine DEF Observed
    <3>2. worker[o].started /\ worker[o].existed /\ backup[o] = hist.before
      BY <1>0, <2>2, <3>1 DEF Vacant, Switching, Working
    <3>3. active' = hist.before /\ to = "closing"
      BY <2>1, <2>2, <3>1, <3>2 DEF Working
    <3>4. Files(o)'
      BY <2>2, <2>3, <3>1, <3>3 DEF Files, Working, Copied, Switched, Steps, Kinds
    <3>5. Working(o)'
      BY <1>0, <2>2, <2>3, <3>1, <3>2, <3>3 DEF Files, Working, Copied, Switched, Vacant, Steps, WorkSteps,
         UndoSteps, NotBuilt, NotFilled, NotMoved, Placed, Kinds, Backing, Switching
    <3> QED BY <3>4, <3>5
  <2> QED BY <1>0, <2>3, <2>4, TWorkKeeps
<1> QED BY <1>1, <1>2, <1>3, <1>4

\* What has been recorded stays recorded in the record the process remembers.
LEMMA RememberedMore ==
  ASSUME NEW o \in Ops, worker[o].data \in Journal, NEW d \in Remembered(o)
  PROVE  /\ worker[o].data.switched => d.switched
         /\ worker[o].pc = "announce" => d.switched
<1>1. \/ d = worker[o].data /\ worker[o].pc # "announce"
      \/ d = [worker[o].data EXCEPT !.backup = TRUE] /\ worker[o].pc # "announce"
      \/ d = [worker[o].data EXCEPT !.adapter = TRUE] /\ worker[o].pc # "announce"
      \/ d = [worker[o].data EXCEPT !.switched = TRUE]
  BY DEF Remembered
<1> QED BY <1>1 DEF Journal

\* An exception or a cancellation keeps the truth: the except branch, or the
\* recovery if it dies, still finds the old database.
LEMMA TRaise ==
  ASSUME IInv, TInv, NEW o \in Ops, Raise(o)
  PROVE  TInv'
<1> USE DEF dbs, dirs
<1>0. /\ TypeOK /\ Vacant(o) /\ IInv' /\ o # NONE /\ worker[o] \in Worker
      /\ worker[o].data \in Journal
  BY RaiseKeeps, ContentAssumption DEF IInv, TypeOK, Worker
<1>1. worker[o].pc \in WorkSteps /\ worker[o].pc \in Steps
  BY DEF Raise, Steps
<1>2. PICK d \in Remembered(o) :
        worker' = [worker EXCEPT ![o] = [@ EXCEPT !.pc = "raised", !.data = d]]
  BY DEF Raise
<1>3. /\ d \in Journal
      /\ worker[o].data.backup => d.backup
      /\ d.backup => worker[o].data.backup \/ worker[o].pc = "record"
      /\ d.switched => worker[o].data.switched \/ worker[o].pc = "announce"
      /\ worker[o].data.switched \/ worker[o].pc = "announce" => d.switched
  BY <1>0, RememberedType, RememberedMore
<1> DEFINE w == [worker[o] EXCEPT !.pc = "raised", !.data = d]
<1>4. /\ w \in Worker /\ w.pc = "raised" /\ w.data = d /\ w.started = worker[o].started
      /\ w.existed = worker[o].existed /\ worker' = [worker EXCEPT ![o] = w]
  BY <1>0, <1>2, <1>3 DEF Worker, Steps
<1> HIDE DEF w
<1>5. /\ worker' \in [Ops -> Worker] /\ worker'[o] = w
      /\ \A p \in Ops \ {o} : worker'[p] = worker[p]
  BY <1>0, <1>4, WorkerBecomes
<1>6. UNCHANGED <<dbs, dirs, journal, boot, hist>>
  BY DEF Raise
<1>7. Alone(o) /\ worker'[o].pc \in Steps
  BY <1>4, <1>5, <1>6 DEF Alone, Steps
<1>8. ASSUME Observed PROVE Files(o)' /\ Working(o)'
  <2>1. Files(o) /\ Working(o) /\ hist.last = o /\ hist.before # NONE
    BY <1>1, <1>8, Mine DEF Observed
  <2>2. Files(o)'
    BY <1>6, <2>1 DEF Files, Copied, Switched
  <2>3. worker[o].started \/ active = hist.before
    BY <1>0, <1>1, <2>1 DEF Vacant, Working, WorkSteps, Switching, NotMoved, NotFilled, NotBuilt,
                            Placed
  <2>4. d.switched \/ rollback[o] # NONE \/ active = hist.before
    BY <1>1, <1>3, <2>1 DEF Working, WorkSteps, NotMoved, NotFilled, NotBuilt, Placed, Kinds
  <2>5. Copied(o, d)
    BY <1>0, <1>1, <1>3, <2>1 DEF Working, Copied, Backing, Vacant, Switching, Placed
  <2>6. worker[o].started => worker[o].existed /\ d.backup
    BY <1>3, <2>1 DEF Working
  <2>7. Working(o)'
    BY <1>4, <1>5, <1>6, <2>1, <2>3, <2>4, <2>5, <2>6 DEF Working, Copied, NotMoved, NotFilled,
       NotBuilt, Placed, Kinds, Backing, UndoSteps
  <2> QED BY <2>2, <2>7
<1> QED BY <1>0, <1>1, <1>6, <1>7, <1>8, TWorkKeeps

\* An exception while the upgrade is undone or ended is not a calm one.
LEMMA TFails ==
  ASSUME IInv, TInv, NEW o \in Ops, UndoFails(o) \/ EndFails(o)
  PROVE  TInv'
<1>1. \E from \in Steps, to \in Steps : Goto(o, from, to)
  BY DEF UndoFails, EndFails, Steps, UndoSteps
<1>2. PICK from \in Steps, to \in Steps : Goto(o, from, to)
  BY <1>1
<1>3. /\ worker[o].pc = from /\ worker'[o].pc = to
      /\ \A p \in Ops \ {o} : worker'[p] = worker[p]
  BY <1>2, GotoType DEF IInv
<1>4. /\ UNCHANGED <<dbs, dirs, journal>> /\ boot' = boot
      /\ hist' = [hist EXCEPT !.calm = FALSE]
  BY DEF UndoFails, EndFails
<1>5. Alone(o) /\ ~hist'.calm
  BY <1>3, <1>4 DEF Alone, dbs, dirs, IInv, TypeOK, Histories
<1>6. ASSUME Observed, hist' = hist PROVE FALSE
  BY <1>5, <1>6 DEF Observed
<1> QED BY <1>3, <1>4, <1>5, <1>6, FailsKeeps, TWorkKeeps


\* The end of the process: the journal is settled with the database it names,
\* or stays unsettled with the files as they are.
LEMMA TEndKeeps ==
  ASSUME IInv, TInv, IInv', NEW o \in Ops, worker[o].pc \in Steps, worker'[o].pc = "gone",
         \A p \in Ops \ {o} : worker'[p] = worker[p] /\ journal'[p] = journal[p],
         UNCHANGED <<dbs, boot, hist>>,
         Observed => \/ journal'[o] = journal[o]
                     \/ /\ journal'[o].stage \in Settled
                        /\ active = IF journal'[o].stage \in Success THEN o ELSE hist.before
  PROVE  TInv'
<1>1. /\ boot.pc \notin Recovering /\ Unsettled(o)
      /\ Observed => hist.last = o /\ Files(o)
  BY Mine
<1>2. ASSUME NEW p \in Ops PROVE Fresh(p)'
  BY DEF TInv, Fresh
<1>3. Reread'
  BY <1>1 DEF Reread
<1>4. ASSUME Observed' PROVE Truth'
  <2>1. Truth /\ hist.last = o /\ Files(o) /\ Observed
    BY <1>1, <1>4 DEF TInv, Observed
  <2>2. \A p \in Ops : Unsettled(p)' => p = o
    BY <2>1 DEF Truth, Unsettled
  <2>3. worker'[o].pc \notin Steps
    BY DEF Steps, WorkSteps, UndoSteps
  <2>4. CASE journal'[o] = journal[o]
    <3>1. Unsettled(o)' /\ Files(o)'
      BY <1>1, <2>1, <2>4 DEF Unsettled, Files, Copied, Switched, dbs
    <3> QED BY <1>1, <2>1, <2>2, <2>3, <3>1 DEF Truth
  <2>5. CASE /\ journal'[o].stage \in Settled
             /\ active = IF journal'[o].stage \in Success THEN o ELSE hist.before
    <3>1. ~Unsettled(o)' /\ active' = active
      BY <2>5 DEF Unsettled, dbs
    <3> QED BY <1>1, <2>1, <2>2, <2>3, <2>5, <3>1 DEF Truth
  <2> QED BY <2>1, <2>4, <2>5
<1> QED BY <1>2, <1>3, <1>4 DEF TInv

\* The last update of a worker.
LEMMA TCloseKeeps ==
  ASSUME IInv, TInv, IInv', NEW o \in Ops, NEW from \in Steps, NEW s \in Stages,
         Close(o, from, s),
         Observed => s \in Settled /\ active = IF s \in Success THEN o ELSE hist.before
  PROVE  TInv'
<1>1. /\ TypeOK /\ worker[o].pc = from /\ worker' = [worker EXCEPT ![o] = Gone]
      /\ journal' = [journal EXCEPT ![o] = [worker[o].data EXCEPT !.stage = s]]
      /\ UNCHANGED <<dbs, boot, hist>>
  BY DEF Close, IInv
<1>2. Gone.pc = "gone"
  BY DEF Gone, Idle
<1>3. worker'[o].pc = "gone" /\ \A p \in Ops \ {o} : worker'[p] = worker[p]
  BY <1>1, <1>2, GoneType, WorkerBecomes
<1>4. journal'[o].stage = s /\ \A p \in Ops \ {o} : journal'[p] = journal[p]
  BY <1>1 DEF TypeOK, Worker, Journal
<1> QED BY <1>1, <1>3, <1>4, TEndKeeps

\* The ends of a worker, which settle the journal, keep the truth.
LEMMA TWorkEnds ==
  ASSUME IInv, TInv, NEW o \in Ops,
         \/ Complete(o) \/ RolledBack(o) \/ RollbackFailed(o) \/ Discarded(o) \/ Aborted(o)
         \/ NotDiscarded(o)
  PROVE  TInv'
<1>0. IInv'
  BY WorkKeepsInv DEF Work
<1>1. CASE Complete(o)
  <2>1. /\ Close(o, "complete", "completed") /\ "complete" \in Steps
        /\ "completed" \in Stages /\ worker[o].pc = "complete"
    BY <1>1 DEF Complete, Close, Steps, WorkSteps, Stages, Settled
  <2>2. ASSUME Observed
        PROVE  "completed" \in Settled
               /\ active = IF "completed" \in Success THEN o ELSE hist.before
    <3>1. Working(o)
      BY <2>1, <2>2, Mine
    <3> QED BY <2>1, <3>1 DEF Working, Placed, Success, Settled
  <2> QED BY <1>0, <2>1, <2>2, TCloseKeeps
<1>2. CASE RolledBack(o)
  <2>1. /\ Close(o, "closing", "failed_rolled_back") /\ "closing" \in Steps
        /\ "failed_rolled_back" \in Stages /\ worker[o].pc = "closing"
    BY <1>2 DEF RolledBack, Close, Steps, WorkSteps, Stages, Settled
  <2>2. ASSUME Observed
        PROVE  "failed_rolled_back" \in Settled
               /\ active = IF "failed_rolled_back" \in Success THEN o ELSE hist.before
    <3>1. Working(o)
      BY <2>1, <2>2, Mine
    <3> QED BY <2>1, <3>1 DEF Working, Placed, Success, Settled
  <2> QED BY <1>0, <2>1, <2>2, TCloseKeeps
<1>3. CASE RollbackFailed(o)
  <2>1. /\ Close(o, "stuck", "rollback_failed") /\ "stuck" \in Steps
        /\ "rollback_failed" \in Stages /\ worker[o].pc = "stuck"
    BY <1>3 DEF RollbackFailed, Close, Steps, WorkSteps, Stages, Settled
  <2>2. ASSUME Observed
        PROVE  "rollback_failed" \in Settled
               /\ active = IF "rollback_failed" \in Success THEN o ELSE hist.before
    <3>1. Working(o)
      BY <2>1, <2>2, Mine
    <3> QED BY <2>1, <3>1 DEF Working, Placed, Success, Settled
  <2> QED BY <1>0, <2>1, <2>2, TCloseKeeps
<1>4. CASE Discarded(o)
  <2>1. /\ Close(o, "discarded", "failed_before_switch") /\ "discarded" \in Steps
        /\ "failed_before_switch" \in Stages /\ worker[o].pc = "discarded"
    BY <1>4 DEF Discarded, Close, Steps, WorkSteps, Stages, Settled
  <2>2. ASSUME Observed
        PROVE  "failed_before_switch" \in Settled
               /\ active = IF "failed_before_switch" \in Success THEN o ELSE hist.before
    <3>1. Working(o)
      BY <2>1, <2>2, Mine
    <3> QED BY <2>1, <3>1 DEF Working, Placed, Success, Settled
  <2> QED BY <1>0, <2>1, <2>2, TCloseKeeps
<1>5. CASE Aborted(o)
  <2>1. /\ Close(o, "abort", "failed_before_switch") /\ "abort" \in Steps
        /\ "failed_before_switch" \in Stages /\ worker[o].pc = "abort"
    BY <1>5 DEF Aborted, Close, Steps, WorkSteps, Stages, Settled
  <2>2. ASSUME Observed
        PROVE  "failed_before_switch" \in Settled
               /\ active = IF "failed_before_switch" \in Success THEN o ELSE hist.before
    <3>1. Working(o)
      BY <2>1, <2>2, Mine
    <3> QED BY <2>1, <3>1 DEF Working, Placed, Success, Settled
  <2> QED BY <1>0, <2>1, <2>2, TCloseKeeps
<1>6. CASE NotDiscarded(o)
  <2>1. /\ Close(o, "undiscarded", "diagnostic_retention_failed") /\ "undiscarded" \in Steps
        /\ "diagnostic_retention_failed" \in Stages /\ worker[o].pc = "undiscarded"
    BY <1>6 DEF NotDiscarded, Close, Steps, WorkSteps, Stages, Settled
  <2>2. ASSUME Observed
        PROVE  "diagnostic_retention_failed" \in Settled
               /\ active = IF "diagnostic_retention_failed" \in Success THEN o ELSE hist.before
    <3>1. Working(o)
      BY <2>1, <2>2, Mine
    <3> QED BY <2>1, <3>1 DEF Working, Placed, Success, Settled
  <2> QED BY <1>0, <2>1, <2>2, TCloseKeeps
<1> QED BY <1>1, <1>2, <1>3, <1>4, <1>5, <1>6

\* The death of the worker at any step keeps the truth.
LEMMA TWorkerDies ==
  ASSUME IInv, TInv, NEW o \in Ops, WorkerDies(o)
  PROVE  TInv'
<1>1. /\ TypeOK /\ worker[o].pc \in Steps /\ worker' = [worker EXCEPT ![o] = Gone]
      /\ UNCHANGED <<dbs, boot, hist, journal>>
  BY DEF WorkerDies, IInv
<1>2. Gone.pc = "gone"
  BY DEF Gone, Idle
<1>3. worker'[o].pc = "gone" /\ \A p \in Ops \ {o} : worker'[p] = worker[p]
  BY <1>1, <1>2, GoneType, WorkerBecomes
<1> QED BY <1>1, <1>3, WorkerDiesKeeps, TEndKeeps

\* A new upgrade is observed from the database it finds, with every earlier
\* journal settled.
LEMMA TBegin ==
  ASSUME IInv, TInv, GaveUp, NEW o \in Ops, Begin(o)
  PROVE  TInv'
<1>a. Stage(o, "new", "pause", "created") /\ "pause" \in Steps /\ "created" \in Stages
  BY DEF Begin, Steps, WorkSteps, Stages
<1>0. /\ TypeOK /\ Vacant(o) /\ o # NONE /\ boot.pc \notin Recovering
      /\ worker[o].pc = "new" /\ Fresh(o) /\ hist \in Histories
  BY ContentAssumption DEF IInv, TInv, Begin, Stage, Update, HoldsBoot, TypeOK
<1>1. /\ UNCHANGED <<dbs, dirs, boot>>
      /\ hist' = [hist EXCEPT !.before = active, !.last = o,
                     !.clean = @ /\ \A p \in Ops : journal[p].stage \in Settled \cup {"none"}]
  BY DEF Begin
<1>2. worker[o].data = Blank /\ ~worker[o].started /\ ~worker[o].existed
  BY <1>0 DEF Fresh, Idle
<1>3. /\ worker'[o].pc = "pause"
      /\ worker'[o].data.stage = "created" /\ worker'[o].data.backup = worker[o].data.backup
      /\ worker'[o].data.switched = worker[o].data.switched
      /\ journal'[o] = worker'[o].data /\ worker'[o].started = worker[o].started
      /\ worker'[o].existed = worker[o].existed
      /\ \A p \in Ops \ {o} : worker'[p] = worker[p] /\ journal'[p] = journal[p]
  BY <1>0, <1>a, StageType
<1>4. ~journal'[o].backup /\ ~journal'[o].switched /\ journal'[o].stage = "created"
  <2>1. Blank.backup = FALSE /\ Blank.switched = FALSE
    BY DEF Blank
  <2>2. journal'[o].backup = FALSE /\ journal'[o].switched = FALSE
    BY <1>2, <1>3, <2>1
  <2> QED BY <1>3, <2>2
<1>5. /\ hist'.before = active /\ hist'.last = o /\ hist'.calm = hist.calm
      /\ hist'.clean => \A p \in Ops : ~Unsettled(p)
  BY <1>0, <1>1 DEF Histories, Unsettled
<1>6. \A p \in Ops : Fresh(p)'
  BY <1>3 DEF TInv, Fresh
<1>7. Reread'
  BY <1>0, <1>1 DEF Reread
<1>8. ASSUME Observed' PROVE Truth'
  <2>1. active # NONE /\ \A p \in Ops : Unsettled(p)' => p = o
    BY <1>3, <1>5, <1>8 DEF Observed, Unsettled
  <2>2. rollback[o] = NONE /\ kept[o] = NONE /\ shadow[o] = NONE
    BY <1>0 DEF Vacant, NotBuilt, NotFilled, NotMoved, NotMovedDir, NotKept
  <2>3. Files(o)'
    BY <1>1, <1>4, <1>5, <2>1, <2>2 DEF Files, Copied, Switched, dbs
  <2>4. Working(o)'
    BY <1>1, <1>2, <1>3, <1>4, <1>5, <2>1, <2>2 DEF Working, Copied, NotMoved, NotFilled, NotBuilt,
       Placed, Kinds, Backing, UndoSteps, dbs
  <2>5. Unsettled(o)'
    BY <1>4 DEF Unsettled, Settled
  <2>6. boot.pc # "failing"
    <3>1. hist.calm /\ \A p \in Ops : ~Unsettled(p)
      BY <1>5, <1>8 DEF Observed
    <3> QED BY <3>1 DEF GaveUp, IInv, OpSet
  <2> QED BY <1>0, <1>1, <1>5, <2>1, <2>3, <2>4, <2>5, <2>6 DEF Truth
<1> QED BY <1>6, <1>7, <1>8 DEF TInv


\* What the recovery knows of the journal it works on.
LEMMA Recovered ==
  ASSUME IInv, TInv, NEW o \in Ops, boot.op = o, boot.pc \in Recovering
  PROVE  /\ Unsettled(o) /\ boot.current = journal[o]
         /\ \A p \in Ops : worker[p].pc \notin Steps
         /\ Observed => hist.last = o /\ hist.before # NONE /\ Files(o) /\ Restoring(o)
<1>1. Unsettled(o) /\ lock = "boot" /\ lock \notin Ops
  BY LockAssumption DEF IInv, HoldsBoot
<1>2. \A p \in Ops : worker[p].pc \notin Steps
  BY <1>1 DEF IInv, Holds
<1>3. boot.current = journal[o]
  BY DEF TInv, Reread
<1> QED BY <1>1, <1>2, <1>3 DEF TInv, Truth, Observed

\* A step of the recovery of one journal.
LEMMA TRecoverKeeps ==
  ASSUME IInv, TInv, NEW o \in Ops, boot.op = o, boot.pc \in Recovering, boot'.pc \in Recovering,
         boot'.op = o, boot'.current = boot.current, UNCHANGED <<hist, worker, journal>>,
         Observed => Files(o)' /\ Restoring(o)'
  PROVE  TInv'
<1>1. /\ Unsettled(o) /\ boot.current = journal[o] /\ \A p \in Ops : worker[p].pc \notin Steps
      /\ Observed => hist.last = o
  BY Recovered
<1>2. (\A p \in Ops : Fresh(p)') /\ Reread'
  BY <1>1 DEF TInv, Fresh, Reread
<1>3. ASSUME Observed' PROVE Truth'
  <2>1. Observed /\ Truth /\ hist.last = o /\ Files(o)' /\ Restoring(o)'
    BY <1>1, <1>3 DEF TInv, Observed
  <2>2. Unsettled(o)' /\ (\A p \in Ops : Unsettled(p)' => p = o) /\ boot'.pc # "failing"
    BY <1>1, <2>1 DEF Truth, Unsettled, Recovering
  <2> QED BY <1>1, <2>1, <2>2 DEF Truth
<1> QED BY <1>2, <1>3 DEF TInv

\* The moves of the recovery keep the truth.
LEMMA TRecoverMoves ==
  ASSUME IInv, TInv,
         \/ KeepDb \/ KeepDir \/ AwayDb \/ AwayDir \/ TakeDir \/ Aside \/ Back \/ ClearDir
         \/ BackDir \/ TidyDb \/ TidyDir
  PROVE  TInv'
<1> USE DEF Rest, workers, dbs, dirs
<1>0. TypeOK /\ rollback \in [Ops -> Content] /\ \A p \in Ops : p # NONE
  BY ContentAssumption DEF IInv, TypeOK, Slots
<1>1. CASE KeepDb
  <2>1. /\ BGoto("keep_db", "keep_dir") /\ {"keep_db", "keep_dir"} \subseteq Recovering /\ "keep_dir" \in BootSteps
        /\ UNCHANGED <<hist, worker, journal, backup, kept>>
    BY <1>1 DEF KeepDb, Recovering, BootSteps
  <2>2. /\ boot.pc = "keep_db" /\ boot'.pc = "keep_dir" /\ boot'.op = boot.op
        /\ boot'.current = boot.current /\ boot'.result = boot.result
    BY <1>0, <2>1, BGotoType
  <2>3. PICK o \in Ops : boot.op = o
    BY <2>1, <2>2 DEF IInv, OpSet
  <2>4. ASSUME Observed PROVE Files(o)' /\ Restoring(o)'
    <3>1. hist.last = o /\ hist.before # NONE /\ Files(o) /\ Restoring(o)
      BY <2>1, <2>2, <2>3, <2>4, Recovered
    <3>2. Files(o)'
      BY <1>0, <1>1, <2>1, <2>2, <2>3, <3>1 DEF KeepDb, Files, Restoring, Copied,
       Switched, OldResults, Ending
    <3>3. Restoring(o)'
      BY <1>0, <1>1, <2>1, <2>2, <2>3, <3>1 DEF KeepDb, Files, Restoring, Copied,
       Switched, OldResults, Ending
    <3> QED BY <3>2, <3>3
  <2> QED BY <2>1, <2>2, <2>3, <2>4, TRecoverKeeps
<1>2. CASE KeepDir
  <2>1. /\ BGoto("keep_dir", "tidy_db") /\ {"keep_dir", "tidy_db"} \subseteq Recovering /\ "tidy_db" \in BootSteps
        /\ UNCHANGED <<hist, worker, journal, backup, kept>>
    BY <1>2 DEF KeepDir, Recovering, BootSteps
  <2>2. /\ boot.pc = "keep_dir" /\ boot'.pc = "tidy_db" /\ boot'.op = boot.op
        /\ boot'.current = boot.current /\ boot'.result = boot.result
    BY <1>0, <2>1, BGotoType
  <2>3. PICK o \in Ops : boot.op = o
    BY <2>1, <2>2 DEF IInv, OpSet
  <2>4. ASSUME Observed PROVE Files(o)' /\ Restoring(o)'
    <3>1. hist.last = o /\ hist.before # NONE /\ Files(o) /\ Restoring(o)
      BY <2>1, <2>2, <2>3, <2>4, Recovered
    <3>2. Files(o)'
      BY <1>0, <1>2, <2>1, <2>2, <2>3, <3>1 DEF KeepDir, Files, Restoring, Copied,
       Switched, OldResults, Ending
    <3>3. Restoring(o)'
      BY <1>0, <1>2, <2>1, <2>2, <2>3, <3>1 DEF KeepDir, Files, Restoring, Copied,
       Switched, OldResults, Ending
    <3> QED BY <3>2, <3>3
  <2> QED BY <2>1, <2>2, <2>3, <2>4, TRecoverKeeps
<1>3. CASE AwayDb
  <2>1. /\ BGoto("away_db", "away_dir") /\ {"away_db", "away_dir"} \subseteq Recovering /\ "away_dir" \in BootSteps
        /\ UNCHANGED <<hist, worker, journal, backup, kept>>
    BY <1>3 DEF AwayDb, Recovering, BootSteps
  <2>2. /\ boot.pc = "away_db" /\ boot'.pc = "away_dir" /\ boot'.op = boot.op
        /\ boot'.current = boot.current /\ boot'.result = boot.result
    BY <1>0, <2>1, BGotoType
  <2>3. PICK o \in Ops : boot.op = o
    BY <2>1, <2>2 DEF IInv, OpSet
  <2>4. ASSUME Observed PROVE Files(o)' /\ Restoring(o)'
    <3>1. hist.last = o /\ hist.before # NONE /\ Files(o) /\ Restoring(o)
      BY <2>1, <2>2, <2>3, <2>4, Recovered
    <3>2. Files(o)'
      BY <1>0, <1>3, <2>1, <2>2, <2>3, <3>1 DEF AwayDb, Files, Restoring, Copied,
       Switched, OldResults, Ending
    <3>3. Restoring(o)'
      BY <1>0, <1>3, <2>1, <2>2, <2>3, <3>1 DEF AwayDb, Files, Restoring, Copied,
       Switched, OldResults, Ending
    <3> QED BY <3>2, <3>3
  <2> QED BY <2>1, <2>2, <2>3, <2>4, TRecoverKeeps
<1>4. CASE AwayDir
  <2>1. /\ BGoto("away_dir", "take_dir") /\ {"away_dir", "take_dir"} \subseteq Recovering /\ "take_dir" \in BootSteps
        /\ UNCHANGED <<hist, worker, journal, backup, kept>>
    BY <1>4 DEF AwayDir, Recovering, BootSteps
  <2>2. /\ boot.pc = "away_dir" /\ boot'.pc = "take_dir" /\ boot'.op = boot.op
        /\ boot'.current = boot.current /\ boot'.result = boot.result
    BY <1>0, <2>1, BGotoType
  <2>3. PICK o \in Ops : boot.op = o
    BY <2>1, <2>2 DEF IInv, OpSet
  <2>4. ASSUME Observed PROVE Files(o)' /\ Restoring(o)'
    <3>1. hist.last = o /\ hist.before # NONE /\ Files(o) /\ Restoring(o)
      BY <2>1, <2>2, <2>3, <2>4, Recovered
    <3>2. Files(o)'
      BY <1>0, <1>4, <2>1, <2>2, <2>3, <3>1 DEF AwayDir, Files, Restoring, Copied,
       Switched, OldResults, Ending
    <3>3. Restoring(o)'
      BY <1>0, <1>4, <2>1, <2>2, <2>3, <3>1 DEF AwayDir, Files, Restoring, Copied,
       Switched, OldResults, Ending
    <3> QED BY <3>2, <3>3
  <2> QED BY <2>1, <2>2, <2>3, <2>4, TRecoverKeeps
<1>5. CASE TakeDir
  <2>1. /\ BGoto("take_dir", "recopy") /\ {"take_dir", "recopy"} \subseteq Recovering /\ "recopy" \in BootSteps
        /\ UNCHANGED <<hist, worker, journal, backup, kept>>
    BY <1>5 DEF TakeDir, Recovering, BootSteps
  <2>2. /\ boot.pc = "take_dir" /\ boot'.pc = "recopy" /\ boot'.op = boot.op
        /\ boot'.current = boot.current /\ boot'.result = boot.result
    BY <1>0, <2>1, BGotoType
  <2>3. PICK o \in Ops : boot.op = o
    BY <2>1, <2>2 DEF IInv, OpSet
  <2>4. ASSUME Observed PROVE Files(o)' /\ Restoring(o)'
    <3>1. hist.last = o /\ hist.before # NONE /\ Files(o) /\ Restoring(o)
      BY <2>1, <2>2, <2>3, <2>4, Recovered
    <3>2. Files(o)'
      BY <1>0, <1>5, <2>1, <2>2, <2>3, <3>1 DEF TakeDir, Files, Restoring, Copied,
       Switched, OldResults, Ending
    <3>3. Restoring(o)'
      BY <1>0, <1>5, <2>1, <2>2, <2>3, <3>1 DEF TakeDir, Files, Restoring, Copied,
       Switched, OldResults, Ending
    <3> QED BY <3>2, <3>3
  <2> QED BY <2>1, <2>2, <2>3, <2>4, TRecoverKeeps
<1>6. CASE Aside
  <2>1. /\ BGoto("aside", "back") /\ {"aside", "back"} \subseteq Recovering /\ "back" \in BootSteps
        /\ UNCHANGED <<hist, worker, journal, backup, kept>>
    BY <1>6 DEF Aside, Recovering, BootSteps
  <2>2. /\ boot.pc = "aside" /\ boot'.pc = "back" /\ boot'.op = boot.op
        /\ boot'.current = boot.current /\ boot'.result = boot.result
    BY <1>0, <2>1, BGotoType
  <2>3. PICK o \in Ops : boot.op = o
    BY <2>1, <2>2 DEF IInv, OpSet
  <2>4. ASSUME Observed PROVE Files(o)' /\ Restoring(o)'
    <3>1. hist.last = o /\ hist.before # NONE /\ Files(o) /\ Restoring(o)
      BY <2>1, <2>2, <2>3, <2>4, Recovered
    <3>2. Files(o)'
      BY <1>0, <1>6, <2>1, <2>2, <2>3, <3>1 DEF Aside, Files, Restoring, Copied,
       Switched, OldResults, Ending
    <3>3. Restoring(o)'
      BY <1>0, <1>6, <2>1, <2>2, <2>3, <3>1 DEF Aside, Files, Restoring, Copied,
       Switched, OldResults, Ending
    <3> QED BY <3>2, <3>3
  <2> QED BY <2>1, <2>2, <2>3, <2>4, TRecoverKeeps
<1>7. CASE Back
  <2>1. /\ BGoto("back", "clear_dir") /\ {"back", "clear_dir"} \subseteq Recovering /\ "clear_dir" \in BootSteps
        /\ UNCHANGED <<hist, worker, journal, backup, kept>>
    BY <1>7 DEF Back, Recovering, BootSteps
  <2>2. /\ boot.pc = "back" /\ boot'.pc = "clear_dir" /\ boot'.op = boot.op
        /\ boot'.current = boot.current /\ boot'.result = boot.result
    BY <1>0, <2>1, BGotoType
  <2>3. PICK o \in Ops : boot.op = o
    BY <2>1, <2>2 DEF IInv, OpSet
  <2>4. ASSUME Observed PROVE Files(o)' /\ Restoring(o)'
    <3>1. hist.last = o /\ hist.before # NONE /\ Files(o) /\ Restoring(o)
      BY <2>1, <2>2, <2>3, <2>4, Recovered
    <3>2. Files(o)'
      BY <1>0, <1>7, <2>1, <2>2, <2>3, <3>1 DEF Back, Files, Restoring, Copied,
       Switched, OldResults, Ending
    <3>3. Restoring(o)'
      BY <1>0, <1>7, <2>1, <2>2, <2>3, <3>1 DEF Back, Files, Restoring, Copied,
       Switched, OldResults, Ending
    <3> QED BY <3>2, <3>3
  <2> QED BY <2>1, <2>2, <2>3, <2>4, TRecoverKeeps
<1>8. CASE ClearDir
  <2>1. /\ BGoto("clear_dir", "back_dir") /\ {"clear_dir", "back_dir"} \subseteq Recovering /\ "back_dir" \in BootSteps
        /\ UNCHANGED <<hist, worker, journal, backup, kept>>
    BY <1>8 DEF ClearDir, Recovering, BootSteps
  <2>2. /\ boot.pc = "clear_dir" /\ boot'.pc = "back_dir" /\ boot'.op = boot.op
        /\ boot'.current = boot.current /\ boot'.result = boot.result
    BY <1>0, <2>1, BGotoType
  <2>3. PICK o \in Ops : boot.op = o
    BY <2>1, <2>2 DEF IInv, OpSet
  <2>4. ASSUME Observed PROVE Files(o)' /\ Restoring(o)'
    <3>1. hist.last = o /\ hist.before # NONE /\ Files(o) /\ Restoring(o)
      BY <2>1, <2>2, <2>3, <2>4, Recovered
    <3>2. Files(o)'
      BY <1>0, <1>8, <2>1, <2>2, <2>3, <3>1 DEF ClearDir, Files, Restoring, Copied,
       Switched, OldResults, Ending
    <3>3. Restoring(o)'
      BY <1>0, <1>8, <2>1, <2>2, <2>3, <3>1 DEF ClearDir, Files, Restoring, Copied,
       Switched, OldResults, Ending
    <3> QED BY <3>2, <3>3
  <2> QED BY <2>1, <2>2, <2>3, <2>4, TRecoverKeeps
<1>9. CASE BackDir
  <2>1. /\ BGoto("back_dir", "tidy_db") /\ {"back_dir", "tidy_db"} \subseteq Recovering /\ "tidy_db" \in BootSteps
        /\ UNCHANGED <<hist, worker, journal, backup, kept>>
    BY <1>9 DEF BackDir, Recovering, BootSteps
  <2>2. /\ boot.pc = "back_dir" /\ boot'.pc = "tidy_db" /\ boot'.op = boot.op
        /\ boot'.current = boot.current /\ boot'.result = boot.result
    BY <1>0, <2>1, BGotoType
  <2>3. PICK o \in Ops : boot.op = o
    BY <2>1, <2>2 DEF IInv, OpSet
  <2>4. ASSUME Observed PROVE Files(o)' /\ Restoring(o)'
    <3>1. hist.last = o /\ hist.before # NONE /\ Files(o) /\ Restoring(o)
      BY <2>1, <2>2, <2>3, <2>4, Recovered
    <3>2. Files(o)'
      BY <1>0, <1>9, <2>1, <2>2, <2>3, <3>1 DEF BackDir, Files, Restoring, Copied,
       Switched, OldResults, Ending
    <3>3. Restoring(o)'
      BY <1>0, <1>9, <2>1, <2>2, <2>3, <3>1 DEF BackDir, Files, Restoring, Copied,
       Switched, OldResults, Ending
    <3> QED BY <3>2, <3>3
  <2> QED BY <2>1, <2>2, <2>3, <2>4, TRecoverKeeps
<1>10. CASE TidyDb
  <2>1. /\ BGoto("tidy_db", "tidy_dir") /\ {"tidy_db", "tidy_dir"} \subseteq Recovering /\ "tidy_dir" \in BootSteps
        /\ UNCHANGED <<hist, worker, journal, backup, kept>>
    BY <1>10 DEF TidyDb, Recovering, BootSteps
  <2>2. /\ boot.pc = "tidy_db" /\ boot'.pc = "tidy_dir" /\ boot'.op = boot.op
        /\ boot'.current = boot.current /\ boot'.result = boot.result
    BY <1>0, <2>1, BGotoType
  <2>3. PICK o \in Ops : boot.op = o
    BY <2>1, <2>2 DEF IInv, OpSet
  <2>4. ASSUME Observed PROVE Files(o)' /\ Restoring(o)'
    <3>1. hist.last = o /\ hist.before # NONE /\ Files(o) /\ Restoring(o)
      BY <2>1, <2>2, <2>3, <2>4, Recovered
    <3>2. Files(o)'
      BY <1>0, <1>10, <2>1, <2>2, <2>3, <3>1 DEF TidyDb, Files, Restoring, Copied,
       Switched, OldResults, Ending
    <3>3. Restoring(o)'
      BY <1>0, <1>10, <2>1, <2>2, <2>3, <3>1 DEF TidyDb, Files, Restoring, Copied,
       Switched, OldResults, Ending
    <3> QED BY <3>2, <3>3
  <2> QED BY <2>1, <2>2, <2>3, <2>4, TRecoverKeeps
<1>11. CASE TidyDir
  <2>1. /\ BGoto("tidy_dir", "check") /\ {"tidy_dir", "check"} \subseteq Recovering /\ "check" \in BootSteps
        /\ UNCHANGED <<hist, worker, journal, backup, kept>>
    BY <1>11 DEF TidyDir, Recovering, BootSteps
  <2>2. /\ boot.pc = "tidy_dir" /\ boot'.pc = "check" /\ boot'.op = boot.op
        /\ boot'.current = boot.current /\ boot'.result = boot.result
    BY <1>0, <2>1, BGotoType
  <2>3. PICK o \in Ops : boot.op = o
    BY <2>1, <2>2 DEF IInv, OpSet
  <2>4. ASSUME Observed PROVE Files(o)' /\ Restoring(o)'
    <3>1. hist.last = o /\ hist.before # NONE /\ Files(o) /\ Restoring(o)
      BY <2>1, <2>2, <2>3, <2>4, Recovered
    <3>2. Files(o)'
      BY <1>0, <1>11, <2>1, <2>2, <2>3, <3>1 DEF TidyDir, Files, Restoring, Copied,
       Switched, OldResults, Ending
    <3>3. Restoring(o)'
      BY <1>0, <1>11, <2>1, <2>2, <2>3, <3>1 DEF TidyDir, Files, Restoring, Copied,
       Switched, OldResults, Ending
    <3> QED BY <3>2, <3>3
  <2> QED BY <2>1, <2>2, <2>3, <2>4, TRecoverKeeps
<1> QED BY <1>1, <1>2, <1>3, <1>4, <1>5, <1>6, <1>7, <1>8, <1>9, <1>10, <1>11

\* The decision of the recovery keeps the truth: a database in place is kept
\* only when the smoke test has passed or when it is the old one.
LEMMA TChoose ==
  ASSUME IInv, TInv, Choose
  PROVE  TInv'
<1> USE DEF Rest, workers, dbs, dirs
<1>0. /\ TypeOK /\ boot \in Boots /\ boot.pc = "choose" /\ boot.pc \in Recovering
      /\ \A p \in Ops : p # NONE
  BY ContentAssumption DEF IInv, TypeOK, Choose, Recovering
<1>1. PICK o \in Ops : boot.op = o
  BY <1>0 DEF IInv, OpSet
<1>2. boot.current = journal[o] /\ (Observed => hist.last = o /\ hist.before # NONE /\ Files(o))
  BY <1>0, <1>1, Recovered
<1>3. UNCHANGED <<dbs, dirs, Rest>>
  BY DEF Choose
<1>4. \/ /\ boot' = [boot EXCEPT !.pc = "keep_db", !.result = "recovered_new_database"]
         /\ journal[o].stage = "smoke_validated"
      \/ /\ boot' = [boot EXCEPT !.pc = "away_db"]
         /\ Switched(journal[o]) /\ rollback[o] = NONE
      \/ /\ boot' = [boot EXCEPT !.pc = "aside", !.result = "recovered_rollback"]
         /\ rollback[o] # NONE /\ (journal[o].stage = "smoke_validated" => active = NONE)
      \/ /\ boot' = [boot EXCEPT !.pc = "copy", !.result = "recovered_from_backup"]
         /\ rollback[o] = NONE /\ active = NONE
      \/ /\ boot' = [boot EXCEPT !.pc = "clear_dir", !.result = "recovered_no_switch"]
         /\ rollback[o] = NONE /\ active # NONE /\ ~Switched(journal[o])
         /\ journal[o].stage # "smoke_validated"
  BY <1>0, <1>1, <1>2 DEF Choose, Switched
<1>5. PICK to \in {"keep_db", "away_db", "aside", "copy", "clear_dir"} :
        /\ boot'.pc = to /\ boot'.op = boot.op /\ boot'.current = boot.current
        /\ to = "keep_db" => boot'.result = "recovered_new_database"
                              /\ journal[o].stage = "smoke_validated"
        /\ to = "away_db" => Switched(journal[o]) /\ rollback[o] = NONE
        /\ to = "aside" => /\ boot'.result = "recovered_rollback" /\ rollback[o] # NONE
                           /\ journal[o].stage = "smoke_validated" => active = NONE
        /\ to = "copy" => boot'.result = "recovered_from_backup" /\ rollback[o] = NONE
                           /\ active = NONE
        /\ to = "clear_dir" => /\ boot'.result = "recovered_no_switch" /\ rollback[o] = NONE
                               /\ active # NONE /\ ~Switched(journal[o])
                               /\ journal[o].stage # "smoke_validated"
  BY <1>0, <1>4 DEF Boots
<1>6. ASSUME Observed PROVE Files(o)' /\ Restoring(o)'
  <2>1. Files(o)'
    BY <1>2, <1>3, <1>6 DEF Files, Copied, Switched
  <2>2. Restoring(o)'
    BY <1>0, <1>2, <1>3, <1>5, <1>6 DEF Files, Restoring, Copied,
       Switched, OldResults, Ending
  <2> QED BY <2>1, <2>2
<1>7. to \in Recovering
  BY DEF Recovering
<1> QED BY <1>0, <1>1, <1>3, <1>5, <1>6, <1>7, TRecoverKeeps

\* The backup that the recovery copies is the old database.
LEMMA TCopies ==
  ASSUME IInv, TInv, Recopy \/ Copy
  PROVE  TInv'
<1> USE DEF Rest, workers, dbs, dirs
<1>0. /\ TypeOK /\ boot \in Boots /\ boot.pc \in {"recopy", "copy"} /\ boot.pc \in Recovering
      /\ \A p \in Ops : p # NONE
  BY ContentAssumption DEF IInv, TypeOK, Recopy, Copy, Recovering
<1>1. PICK o \in Ops : boot.op = o
  BY <1>0 DEF IInv, OpSet
<1>2. /\ boot.current = journal[o] /\ VacantBoot
      /\ Observed => hist.last = o /\ hist.before # NONE /\ Files(o) /\ Restoring(o)
  BY <1>0, <1>1, Recovered DEF IInv
<1>3. UNCHANGED <<shadow, rollback, backup, kept, attic, dirs, journal, hist, worker>>
  BY DEF Recopy, Copy
<1>4. active = NONE
  BY <1>0, <1>2 DEF VacantBoot
<1>5. ASSUME Observed PROVE BackupCopy(o) = hist.before
  <2>1. journal[o].backup
    BY <1>0, <1>2, <1>4, <1>5 DEF Files, Restoring, Copied, Switched
  <2> QED BY <1>1, <1>2, <1>5, <2>1 DEF BackupCopy, Files, Copied
<1>6. CASE BackupCopy(o) # NONE
  <2>1. active' = BackupCopy(o)
    BY <1>1 DEF Recopy, Copy
  <2>2. /\ boot'.pc = "clear_dir" /\ boot'.op = boot.op /\ boot'.current = boot.current
        /\ boot.pc = "recopy" => boot'.result = "recovered_from_backup"
        /\ boot.pc = "copy" => boot'.result = boot.result
    <3>1. CASE Recopy
      BY <1>0, <1>1, <1>6, <3>1 DEF Recopy, Boots
    <3>2. CASE Copy
      BY <1>0, <1>1, <1>6, <3>2 DEF Copy, BGoto, Boots
    <3> QED BY <3>1, <3>2
  <2>3. ASSUME Observed PROVE Files(o)' /\ Restoring(o)'
    <3>1. Files(o) /\ Restoring(o) /\ hist.before # NONE /\ active' = hist.before
      BY <1>2, <1>5, <2>1, <2>3
    <3>2. journal[o].stage # "smoke_validated"
      BY <1>0, <3>1 DEF Restoring, Switched
    <3>3. Files(o)'
      BY <1>3, <3>1, <3>2 DEF Files, Copied, Switched
    <3>4. Restoring(o)'
      BY <1>0, <1>3, <2>2, <3>1, <3>2 DEF Files, Restoring, Copied,
       Switched, OldResults, Ending
    <3> QED BY <3>3, <3>4
  <2>4. "clear_dir" \in Recovering
    BY DEF Recovering
  <2> QED BY <1>0, <1>1, <1>3, <2>2, <2>3, <2>4, TRecoverKeeps
<1>7. CASE BackupCopy(o) = NONE
  <2>1. ~Observed
    BY <1>2, <1>5, <1>7
  <2>2. CASE Recopy
    <3>1. /\ boot'.pc = "finish" /\ boot'.op = boot.op /\ boot'.current = boot.current
          /\ "finish" \in Recovering
      BY <1>0, <1>1, <1>7, <2>2 DEF Recopy, Boots, Recovering
    <3> QED BY <1>0, <1>1, <1>3, <2>1, <3>1, TRecoverKeeps
  <2>3. CASE Copy
    <3>1. boot'.pc = "failing" /\ "failing" \notin Recovering
      BY <1>0, <1>1, <1>7, <2>3 DEF Copy, BGoto, Boots, Recovering
    <3> QED BY <1>3, <2>1, <3>1 DEF TInv, Fresh, Reread, Observed
  <2> QED BY <2>2, <2>3
<1> QED BY <1>6, <1>7

\* The check before the end finds a database.
LEMMA TCheck ==
  ASSUME IInv, TInv, Check
  PROVE  TInv'
<1> USE DEF workers, dbs, dirs
<1>0. /\ TypeOK /\ boot \in Boots /\ boot.pc = "check" /\ boot.pc \in Recovering
      /\ UNCHANGED <<dbs, dirs, journal, hist, workers>> /\ \A p \in Ops : p # NONE
  BY ContentAssumption DEF IInv, TypeOK, Check, BGoto, Recovering
<1>1. PICK o \in Ops : boot.op = o
  BY <1>0 DEF IInv, OpSet
<1>2. Observed => hist.last = o /\ hist.before # NONE /\ Files(o) /\ Restoring(o)
  BY <1>0, <1>1, Recovered
<1>3. CASE active # NONE
  <2>1. BGoto("check", "finish") /\ "finish" \in Recovering /\ "finish" \in BootSteps
    BY <1>3 DEF Check, Recovering, BootSteps
  <2>2. /\ boot'.pc = "finish" /\ boot'.op = boot.op
        /\ boot'.current = boot.current /\ boot'.result = boot.result
    BY <1>0, <2>1, BGotoType
  <2>3. ASSUME Observed PROVE Files(o)' /\ Restoring(o)'
    BY <1>0, <1>2, <2>2, <2>3 DEF Files, Restoring, Copied,
       Switched, OldResults, Ending
  <2> QED BY <1>0, <1>1, <2>1, <2>2, <2>3, TRecoverKeeps
<1>4. CASE active = NONE
  <2>1. ~Observed
    BY <1>0, <1>1, <1>2, <1>4 DEF Files, Restoring, Copied,
       Switched, OldResults, Ending
  <2>2. boot'.pc = "failing" /\ "failing" \notin Recovering
    BY <1>0, <1>4 DEF Check, BGoto, Boots, Recovering
  <2> QED BY <1>0, <2>1, <2>2 DEF TInv, Fresh, Reread, Observed
<1> QED BY <1>3, <1>4

\* The stage the recovery settles the journal with names the database.
LEMMA TFinish ==
  ASSUME IInv, TInv, Finish
  PROVE  TInv'
<1> USE DEF workers, dbs, dirs
<1>0. /\ TypeOK /\ boot \in Boots /\ boot.pc = "finish" /\ boot.pc \in Recovering
      /\ boot.result \in Settled /\ UNCHANGED <<dbs, dirs, hist, workers>>
  BY DEF IInv, TypeOK, Finish, Recovering, Undecided, Listed
<1>1. PICK o \in Ops : boot.op = o
  BY <1>0 DEF IInv, OpSet
<1>2. /\ \A p \in Ops : worker[p].pc \notin Steps
      /\ Observed => hist.last = o /\ hist.before # NONE /\ Files(o) /\ Restoring(o)
  BY <1>0, <1>1, Recovered
<1>3. journal' = [journal EXCEPT ![o] = [boot.current EXCEPT !.stage = boot.result]]
  BY <1>1 DEF Finish
<1>4. journal'[o].stage = boot.result /\ \A p \in Ops \ {o} : journal'[p] = journal[p]
  BY <1>0, <1>3 DEF TypeOK, Boots, Journal
<1>5. boot'.pc = "scan" /\ "scan" \notin Recovering
  BY <1>0 DEF Finish, Boots, Recovering
<1>6. (\A p \in Ops : Fresh(p)') /\ Reread'
  BY <1>0, <1>5 DEF TInv, Fresh, Reread
<1>7. ASSUME Observed' PROVE Truth'
  <2>1. Observed /\ Truth /\ hist.last = o /\ Files(o) /\ Restoring(o)
    BY <1>0, <1>2, <1>7 DEF TInv, Observed
  <2>2. ~Unsettled(o)' /\ \A p \in Ops : Unsettled(p)' => p = o
    BY <1>0, <1>4, <2>1 DEF Truth, Unsettled
  <2>3. active = IF boot.result \in Success THEN o ELSE hist.before
    BY <1>0, <2>1 DEF Files, Restoring, OldResults, Ending, Success
  <2> QED BY <1>0, <1>2, <1>4, <1>5, <2>1, <2>2, <2>3 DEF Truth
<1> QED BY <1>6, <1>7 DEF TInv


\* A step of the backend outside the recovery of one journal.
LEMMA TBootKeeps ==
  ASSUME IInv, TInv, boot'.pc \notin Recovering, boot'.pc # "failing",
         UNCHANGED <<dbs, journal, worker, hist>>
  PROVE  TInv'
<1>1. (\A p \in Ops : Fresh(p)') /\ Reread'
  BY DEF TInv, Fresh, Reread
<1>2. ASSUME Observed' PROVE Truth'
  <2>1. Truth
    BY <1>2 DEF TInv, Observed
  <2>2. \A p \in Ops : Unsettled(p)' = Unsettled(p)
    BY DEF Unsettled
  <2>3. hist.last \in Ops
    BY <1>2 DEF IInv, TypeOK, Histories, Observed
  <2>4. Files(hist.last) => Files(hist.last)'
    BY DEF Files, Copied, Switched, dbs
  <2>5. Working(hist.last) => Working(hist.last)'
    BY DEF Working, Copied, dbs
  <2> QED BY <2>1, <2>2, <2>3, <2>4, <2>5 DEF Truth, dbs
<1> QED BY <1>1, <1>2 DEF TInv

\* Reading the journal under the lock: it is the one of the last upgrade.
LEMMA TLockAndRead ==
  ASSUME IInv, TInv, LockAndRead
  PROVE  TInv'
<1>0. /\ TypeOK /\ boot \in Boots /\ boot.pc = "wait" /\ lock = "free"
      /\ UNCHANGED <<dbs, dirs, journal, hist, workers>>
  BY DEF IInv, TypeOK, LockAndRead
<1>1. PICK o \in Ops : boot.op = o
  BY <1>0 DEF IInv, OpSet
<1>2. CASE journal[o].stage \in Settled
  <2>1. boot'.pc = "scan" /\ "scan" \notin Recovering
    BY <1>0, <1>1, <1>2 DEF LockAndRead, Boots, Recovering
  <2> QED BY <1>0, <2>1, TBootKeeps DEF workers
<1>3. CASE journal[o].stage \notin Settled
  <2>1. boot'.pc = "choose" /\ boot'.op = o /\ boot'.current = journal[o]
    BY <1>0, <1>1, <1>3 DEF LockAndRead, Boots
  <2>2. journal[o].stage # "none" /\ Unsettled(o)
    BY <1>1, <1>3 DEF IInv, Unborn, Unsettled
  <2>3. \A p \in Ops : worker[p].pc \notin Steps
    BY <1>0, LockAssumption DEF IInv, Holds
  <2>4. (\A p \in Ops : Fresh(p)') /\ Reread'
    BY <1>0, <2>1 DEF TInv, Fresh, Reread, workers
  <2>5. ASSUME Observed' PROVE Truth'
    <3>1. Truth /\ hist.last = o /\ Files(o)
      BY <1>0, <2>2, <2>5 DEF TInv, Observed, Truth
    <3>2. \A p \in Ops : Unsettled(p)' = Unsettled(p)
      BY <1>0 DEF Unsettled
    <3>3. Files(o)'
      BY <1>0, <3>1 DEF Files, Copied, Switched, dbs
    <3>4. Restoring(o)'
      BY <2>1 DEF Restoring, Ending
    <3>5. worker'[o].pc \notin Steps /\ hist'.last = o
      BY <1>0, <2>3, <3>1 DEF workers
    <3> QED BY <1>0, <2>1, <2>2, <3>1, <3>2, <3>3, <3>4, <3>5 DEF Truth
  <2> QED BY <2>4, <2>5 DEF TInv
<1> QED BY <1>2, <1>3

\* The other steps of the backend keep the truth; a failed recovery is not
\* observed.
LEMMA TBoots ==
  ASSUME IInv, TInv,
         \/ BackendStarts \/ (\E o \in Ops : Look(o)) \/ RecordFailure \/ Serve
         \/ BackendStops \/ BackendDies \/ LockTimesOut \/ RecoveryRaises
  PROVE  TInv'
<1> USE DEF Rest, workers
<1>0. /\ TypeOK /\ boot \in Boots /\ hist \in Histories
      /\ {"up", "down", "scan", "wait", "failing"} \subseteq BootSteps \ Recovering
  BY DEF IInv, TypeOK, BootSteps, Recovering
<1>1. CASE BackendStarts \/ Serve \/ BackendStops \/ BackendDies
  <2>1. boot'.pc \in {"scan", "up", "down"}
    <3>1. CASE BackendStarts
      BY <3>1 DEF BackendStarts, Quiet
    <3>2. CASE Serve \/ BackendStops \/ BackendDies
      BY <1>0, <3>2 DEF Serve, BackendStops, BackendDies, BGoto, Quiet, Boots
    <3> QED BY <1>1, <3>1, <3>2
  <2>2. UNCHANGED <<dbs, journal, worker, hist>>
    BY <1>1 DEF BackendStarts, Serve, BackendStops, BackendDies
  <2> QED BY <1>0, <2>1, <2>2, TBootKeeps
<1>2. ASSUME NEW o \in Ops, Look(o) PROVE TInv'
  <2>1. boot'.pc \in {"scan", "wait"} /\ UNCHANGED <<dbs, journal, worker, hist>>
    BY <1>0, <1>2 DEF Look, Boots
  <2> QED BY <1>0, <2>1, TBootKeeps
<1>3. CASE RecordFailure
  <2>1. boot.pc = "failing" /\ boot'.pc = "scan" /\ UNCHANGED <<worker, hist>>
    BY <1>0, <1>3 DEF RecordFailure, Boots
  <2>2. ~Observed
    BY <2>1 DEF TInv, Truth
  <2> QED BY <1>0, <2>1, <2>2 DEF TInv, Fresh, Reread, Observed
<1>4. CASE LockTimesOut \/ RecoveryRaises
  <2>1. boot'.pc = "failing" /\ worker' = worker /\ hist' = [hist EXCEPT !.calm = FALSE]
    BY <1>0, <1>4 DEF LockTimesOut, RecoveryRaises, BGoto, Boots
  <2>2. ~hist'.calm
    BY <1>0, <2>1 DEF Histories
  <2> QED BY <1>0, <2>1, <2>2 DEF TInv, Fresh, Reread, Observed
<1> QED BY <1>1, <1>2, <1>3, <1>4

\* Every step of a worker keeps the truth.
LEMMA TWorkOK == ASSUME IInv, TInv, NEW o \in Ops, Work(o) PROVE TInv'
BY TWorkSimple, TWorkStages, TWorkUpdates, TWorkRemembers, TWorkEnds DEF Work

\* Every step of the recovery keeps the truth.
LEMMA TRecoverOK == ASSUME IInv, TInv, Recover PROVE TInv'
BY TRecoverMoves, TChoose, TCopies, TCheck, TFinish DEF Recover

\* A step that changes nothing keeps the truth.
LEMMA TStutter == ASSUME IInv, TInv, UNCHANGED vars PROVE TInv'
<1>1. (\A p \in Ops : Fresh(p)') /\ Reread'
  BY DEF vars, TInv, Fresh, Reread
<1>2. ASSUME Observed' PROVE Truth'
  <2>1. Truth
    BY <1>2 DEF vars, TInv, Observed
  <2> QED BY <2>1 DEF vars, dbs, Truth, Files, Working, Restoring, Copied, Switched, Unsettled
<1> QED BY <1>1, <1>2 DEF TInv

\* A step of a worker leaves the backend alone, and what went wrong went wrong.
LEMMA WorkBoot ==
  ASSUME TypeOK, NEW o \in Ops,
         Begin(o) \/ Work(o) \/ Raise(o) \/ UndoFails(o) \/ EndFails(o) \/ WorkerDies(o)
  PROVE  boot' = boot /\ (hist'.calm => hist.calm)
<1>0. hist \in Histories
  BY DEF TypeOK
<1>1. CASE Begin(o)
  BY <1>0, <1>1 DEF Begin, Histories
<1>2. CASE Raise(o) \/ UndoFails(o) \/ EndFails(o) \/ WorkerDies(o)
  BY <1>0, <1>2 DEF Raise, UndoFails, EndFails, WorkerDies, Histories
<1>3. CASE Work(o)
  BY <1>3 DEF Work, others, Close,
     Pause, Backup, RecordBackup, Prepare, BuildParsed, BuildShadow, Validated, StartSwitch,
     MoveActive, MoveParsed, PlaceShadow, PlaceParsed, RewritePaths, Announce, SmokeTest,
     KeepRollback, KeepParsed, Complete, Failed, UndoActive, UndoShadow, UndoParsed, RedoActive,
     RedoParsed, Restore, RolledBack, RollbackFailed, DiscardShadow, DiscardParsed, Discarded,
     Aborted, NotDiscarded
<1> QED BY <1>1, <1>2, <1>3

\* What a step of a process does to the journal and the process of an operation
\* whose own process is gone: nothing.
LEMMA WorkApart ==
  ASSUME TypeOK, NEW o \in Ops, NEW p \in Ops, worker[p].pc = "gone",
         Begin(o) \/ Work(o) \/ Raise(o) \/ UndoFails(o) \/ EndFails(o) \/ WorkerDies(o)
  PROVE  journal'[p] = journal[p] /\ worker'[p] = worker[p]
<1>0. worker \in [Ops -> Worker] /\ journal \in [Ops -> Journal]
  BY DEF TypeOK
<1>1. CASE Begin(o)
  BY <1>0, <1>1 DEF Begin, Stage, Update
<1>2. CASE Raise(o) \/ UndoFails(o) \/ EndFails(o) \/ WorkerDies(o)
  <2>1. p # o
    BY <1>2 DEF Raise, UndoFails, EndFails, WorkerDies, Goto, Steps, WorkSteps, UndoSteps
  <2> QED BY <1>0, <1>2, <2>1 DEF Raise, UndoFails, EndFails, WorkerDies, Goto
<1>3. CASE Work(o)
  <2>1. p # o
    BY <1>3 DEF Work, Close, Goto, Stage, Update,
       Pause, Backup, RecordBackup, Prepare, BuildParsed, BuildShadow, Validated, StartSwitch,
       MoveActive, MoveParsed, PlaceShadow, PlaceParsed, RewritePaths, Announce, SmokeTest,
       KeepRollback, KeepParsed, Complete, Failed, UndoActive, UndoShadow, UndoParsed, RedoActive,
       RedoParsed, Restore, RolledBack, RollbackFailed, DiscardShadow, DiscardParsed, Discarded,
       Aborted, NotDiscarded
  <2>2. journal'[p] = journal[p] /\ worker'[p] = worker[p]
    BY <1>0, <1>3, <2>1 DEF Work, Close, Goto, Stage, Update,
       Pause, Backup, RecordBackup, Prepare, BuildParsed, BuildShadow, Validated, StartSwitch,
       MoveActive, MoveParsed, PlaceShadow, PlaceParsed, RewritePaths, Announce, SmokeTest,
       KeepRollback, KeepParsed, Complete, Failed, UndoActive, UndoShadow, UndoParsed, RedoActive,
       RedoParsed, Restore, RolledBack, RollbackFailed, DiscardShadow, DiscardParsed, Discarded,
       Aborted, NotDiscarded
  <2> QED BY <2>2
<1> QED BY <1>1, <1>2, <1>3

\* Every step keeps GaveUp: a recovery that gives up had the lock, so the
\* process of its operation is gone, and nobody writes that journal before the
\* failure is recorded.
LEMMA GaveUpOK == IInv /\ GaveUp /\ [Next]_vars => GaveUp'
<1> SUFFICES ASSUME IInv, GaveUp, [Next]_vars, boot'.pc = "failing", hist'.calm
             PROVE  (Unsettled(boot.op) /\ worker[boot.op].pc = "gone")'
  BY DEF GaveUp
<1>0. TypeOK /\ boot \in Boots /\ hist \in Histories
  BY DEF IInv, TypeOK
<1>1. ASSUME NEW o \in Ops,
             Begin(o) \/ Work(o) \/ Raise(o) \/ UndoFails(o) \/ EndFails(o) \/ WorkerDies(o)
      PROVE  (Unsettled(boot.op) /\ worker[boot.op].pc = "gone")'
  <2>1. boot' = boot
    BY <1>0, <1>1, WorkBoot
  <2>2. PICK p \in Ops : boot.op = p
    BY <2>1 DEF IInv, OpSet
  <2>3. CASE worker[p].pc = "gone"
    <3>1. journal'[p] = journal[p] /\ worker'[p] = worker[p] /\ hist.calm
      BY <1>0, <1>1, <2>3, WorkApart, WorkBoot
    <3> QED BY <2>1, <2>2, <3>1 DEF GaveUp, Unsettled
  <2>4. CASE worker[p].pc # "gone"
    <3>1. ~hist.calm
      BY <2>1, <2>2, <2>4 DEF GaveUp
    <3> QED BY <1>0, <1>1, <3>1, WorkBoot
  <2> QED BY <2>3, <2>4
<1>2. ASSUME boot.pc \in Recovering, boot'.op = boot.op, UNCHANGED <<journal, worker>>
      PROVE  (Unsettled(boot.op) /\ worker[boot.op].pc = "gone")'
  <2>1. Unsettled(boot.op) /\ boot.op \in Ops /\ lock = "boot"
    BY <1>2 DEF IInv, HoldsBoot, OpSet
  <2>2. worker[boot.op].pc \notin Steps /\ Unborn(boot.op)
    BY <2>1, LockAssumption DEF IInv, Holds
  <2>3. worker[boot.op].pc = "gone"
    BY <1>0, <2>1, <2>2 DEF Unborn, TypeOK, Worker
  <2> QED BY <1>2, <2>1, <2>3 DEF Unsettled
<1>3. CASE Copy \/ Check
  BY <1>0, <1>2, <1>3 DEF Copy, Check, BGoto, Boots, workers, Recovering
<1>4. CASE LockTimesOut \/ RecoveryRaises
  BY <1>0, <1>4 DEF LockTimesOut, RecoveryRaises, Histories
<1>5. CASE Choose \/ Recopy \/ Finish \/ LockAndRead \/ RecordFailure \/ \E o \in Ops : Look(o)
  <2>1. CASE Choose
    BY <1>0, <2>1 DEF Choose, Boots
  <2>2. CASE Recopy
    <3>1. boot'.pc \in {"clear_dir", "finish"}
      BY <1>0, <2>2 DEF Recopy, Boots
    <3> QED BY <3>1
  <2>3. CASE Finish \/ RecordFailure
    <3>1. boot'.pc = "scan"
      BY <1>0, <2>3 DEF Finish, RecordFailure, Boots
    <3> QED BY <3>1
  <2>5. CASE LockAndRead
    <3>1. boot'.pc \in {"scan", "choose"}
      BY <1>0, <2>5 DEF LockAndRead, Boots
    <3> QED BY <3>1
  <2>4. ASSUME NEW o \in Ops, Look(o) PROVE FALSE
    BY <1>0, <2>4 DEF Look, Boots
  <2> QED BY <1>5, <2>1, <2>2, <2>3, <2>4, <2>5
<1>6. CASE BackendStarts \/ BackendStops \/ BackendDies \/ Serve
  <2>1. CASE BackendStarts
    BY <2>1 DEF BackendStarts, Quiet
  <2>2. CASE BackendStops \/ BackendDies \/ Serve
    BY <1>0, <2>2 DEF BackendStops, BackendDies, Serve, BGoto, Quiet, Boots
  <2> QED BY <1>6, <2>1, <2>2
<1>7. CASE \/ KeepDb \/ KeepDir \/ AwayDb \/ AwayDir \/ TakeDir \/ Aside \/ Back \/ ClearDir
           \/ BackDir \/ TidyDb \/ TidyDir
  <2>1. \A from, to : BGoto(from, to) => boot'.pc = to
    BY <1>0 DEF BGoto, Boots
  <2> QED BY <1>7, <2>1 DEF KeepDb, KeepDir, AwayDb, AwayDir, TakeDir, Aside, Back, ClearDir,
             BackDir, TidyDb, TidyDir
<1>8. CASE UNCHANGED vars
  BY <1>8 DEF vars, GaveUp, Unsettled
<1> QED BY <1>1, <1>3, <1>4, <1>5, <1>6, <1>7, <1>8 DEF Next, Boot, Recover

\* TInv is inductive together with IInv and GaveUp.
LEMMA TNextOK == IInv /\ TInv /\ GaveUp /\ [Next]_vars => TInv'
<1> SUFFICES ASSUME IInv, TInv, GaveUp, [Next]_vars PROVE TInv'
  OBVIOUS
<1>1. ASSUME NEW o \in Ops,
             Begin(o) \/ Work(o) \/ Raise(o) \/ UndoFails(o) \/ EndFails(o) \/ WorkerDies(o)
      PROVE  TInv'
  BY <1>1, TBegin, TWorkOK, TRaise, TFails, TWorkerDies
<1>2. CASE Boot \/ BackendStops \/ BackendDies \/ LockTimesOut \/ RecoveryRaises
  BY <1>2, TBoots, TLockAndRead DEF Boot
<1> QED BY <1>1, <1>2, TRecoverOK, TStutter DEF Next

\* Before the first upgrade nothing is observed.
LEMMA TInitOK == Init => TInv
BY DEF Init, TInv, Fresh, Reread, Observed, Quiet, Recovering, Idle

\* TInv is an invariant: in every reachable state of an observed upgrade the
\* files, the journal and what the living process or the recovery knows agree
\* on where the old and the new database are.
THEOREM TruthInvariance == Spec => []TInv
<1>1. Init => GaveUp
  BY DEF Init, GaveUp, Quiet
<1>2. QED BY <1>1, TInitOK, TNextOK, GaveUpOK, Invariance, PTL DEF Spec

\* At rest the database in use is the one the last upgrade built if its
\* journal reports success, and otherwise the very one it found: for every set
\* of operations, any number of deaths of worker and recovery, and any number
\* of exceptions outside the undoing.
THEOREM JournalTrusted == Spec => []Trusted
<1>1. IInv /\ TInv => Trusted
  BY DEF IInv, TypeOK, Histories, TInv, Truth, Observed, Trusted, AtRest
<1>2. QED BY <1>1, Invariance, TruthInvariance, PTL
=============================================================================
