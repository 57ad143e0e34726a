----------------------------- MODULE AgentTasks -----------------------------
(***************************************************************************)
(* The task manager of the measurement agent (apps/agent/internal/core).   *)
(* A manager keeps the tasks in memory under a mutex; each running task    *)
(* has a goroutine in execute that decides the final status under the      *)
(* mutex, then saves task.json, packages the results, saves task.json      *)
(* again and logs the status without it, and publishes the status under    *)
(* the mutex at last.  Stop runs under the mutex at any time in between.   *)
(* Both save the same task.json through the same temporary file.  After a  *)
(* crash the manager is rebuilt from the task.json files.                  *)
(***************************************************************************)
EXTENDS Naturals

CONSTANTS Tasks,       \* task ids
          Types,       \* task types
          TypeOf,      \* TypeOf[t]: the type of task t
          Collect,     \* the tasks of type mr_realtime_collect
          AutoPackage, \* the tasks that are packaged when they end
          MaxCrash     \* bound: crashes of the agent

ASSUME TasksAssumption == {"free", "no task"} \cap Tasks = {}
ASSUME TypesAssumption == TypeOf \in [Tasks -> Types]
ASSUME CrashAssumption == MaxCrash \in Nat

VARIABLES
  mem,         \* mem[t]: the status the manager shows, "none" for no task
  running,     \* the running map
  activeTypes, \* activeTypes[y]: the active task of type y
  cancelled,   \* tasks whose context is cancelled
  pc,          \* pc[t]: where execute stands
  verdict,     \* verdict[t]: the final status execute has decided
  zip,         \* tasks with a committed package
  logged,      \* logged[t]: the statuses in the state events of t
  disk,        \* disk[t]: the status in task.json
  tmp,         \* tmp[t]: the status in task.json.tmp
  mu,          \* the task whose Stop holds the mutex, or "free"
  crashes

vars == <<mem, running, activeTypes, cancelled, pc, verdict, zip, logged, disk, tmp,
          mu, crashes>>
registry == <<mem, running, activeTypes, cancelled>>
files == <<logged, disk, tmp>>

NoTask == "no task"
Live == {"running", "stopping"}
Collected == {"stopped", "stopped_with_warnings", "completed",
              "completed_with_warnings", "failed"}
Ended == Collected \cup {"cancelled"}
Status == Live \cup Ended
Steps == {"none", "begin", "run", "write1", "move1", "package", "write2", "move2",
          "log", "commit", "done"}
Executing == Steps \ {"none", "done"}
Packaged == {"write2", "move2", "log", "commit"}

Init ==
  /\ mem = [t \in Tasks |-> "none"] /\ running = {}
  /\ activeTypes = [y \in Types |-> NoTask] /\ cancelled = {}
  /\ pc = [t \in Tasks |-> "none"] /\ verdict = [t \in Tasks |-> "none"]
  /\ zip = {} /\ logged = [t \in Tasks |-> {}]
  /\ disk = [t \in Tasks |-> "none"] /\ tmp = [t \in Tasks |-> "none"]
  /\ mu = "free" /\ crashes = 0

Goto(t, s) == pc' = [pc EXCEPT ![t] = s]
Log(t, s) == logged' = [logged EXCEPT ![t] = @ \cup {s}]

\* WriteJSONAtomic: the temporary file is written, then moved over task.json.
\* If another writer has moved it away the move fails, and nobody looks.
WriteTemporary(t, s) == tmp' = [tmp EXCEPT ![t] = s]
ReplaceFile(t) ==
  /\ disk' = [disk EXCEPT ![t] = IF tmp[t] = "none" THEN @ ELSE tmp[t]]
  /\ tmp' = [tmp EXCEPT ![t] = "none"]

-----------------------------------------------------------------------------
(* Starting a task, under the mutex.                                       *)

\* No active task has the type; ids are fresh.
Start(t) ==
  /\ mu = "free"
  /\ mem[t] = "none" /\ disk[t] = "none"
  /\ activeTypes[TypeOf[t]] = NoTask
  /\ mem' = [mem EXCEPT ![t] = "running"]
  /\ running' = running \cup {t}
  /\ activeTypes' = [activeTypes EXCEPT ![TypeOf[t]] = t]
  /\ disk' = [disk EXCEPT ![t] = "running"]
  /\ Goto(t, "begin")
  /\ UNCHANGED <<cancelled, verdict, zip, logged, tmp, mu, crashes>>

\* Saving the target snapshot fails after task.json was saved: the task is
\* forgotten, its task.json is not.
StartFails(t) ==
  /\ mu = "free"
  /\ mem[t] = "none" /\ disk[t] = "none"
  /\ activeTypes[TypeOf[t]] = NoTask
  /\ disk' = [disk EXCEPT ![t] = "running"]
  /\ UNCHANGED <<registry, pc, verdict, zip, logged, tmp, mu, crashes>>

-----------------------------------------------------------------------------
(* The goroutine of a task: execute.                                       *)

LogRunning(t) ==
  /\ pc[t] = "begin"
  /\ Log(t, "running")
  /\ Goto(t, "run")
  /\ UNCHANGED <<registry, verdict, zip, disk, tmp, mu, crashes>>

\* How a runner may end: a cancelled context may make it return Canceled.
RunnerErrors(t) == {"nil", "error"} \cup {e \in {"canceled"} : t \in cancelled}

\* The final status for runner error e.  For a collection it is what
\* session_meta.json says, and otherwise one of the same statuses.
FinalStatus(t, e) ==
  IF t \in Collect THEN Collected
  ELSE {IF mem[t] = "stopping" \/ e = "canceled" THEN "cancelled"
        ELSE IF e = "error" THEN "failed" ELSE "completed"}

\* The runner has returned; the status is decided under the mutex.
Decide(t) ==
  /\ pc[t] = "run"
  /\ mu = "free"
  /\ \E e \in RunnerErrors(t) : \E s \in FinalStatus(t, e) :
       verdict' = [verdict EXCEPT ![t] = s]
  /\ Goto(t, "write1")
  /\ UNCHANGED <<registry, zip, files, mu, crashes>>

\* task.json is saved with the decided status, ...
SaveDecided(t) ==
  /\ \/ pc[t] = "write1" /\ WriteTemporary(t, verdict[t]) /\ UNCHANGED disk /\ Goto(t, "move1")
     \/ pc[t] = "move1" /\ ReplaceFile(t) /\ Goto(t, "package")
  /\ UNCHANGED <<registry, verdict, zip, logged, mu, crashes>>

\* Faulty variant: a failed package does not fail the task.
PackageIgnored(t) ==
  /\ pc[t] = "package"
  /\ zip' \in {zip, zip \cup {t}}
  /\ Goto(t, "write2")
  /\ UNCHANGED <<registry, verdict, files, mu, crashes>>

\* ... the results are packaged, which may fail the task, ...
Package(t) ==
  /\ pc[t] = "package"
  /\ \/ t \notin AutoPackage /\ UNCHANGED <<zip, verdict>>
     \/ t \in AutoPackage /\ zip' = zip \cup {t} /\ UNCHANGED verdict
     \/ /\ t \in AutoPackage
        /\ verdict' = [verdict EXCEPT ![t] = "failed"] /\ UNCHANGED zip
  /\ Goto(t, "write2")
  /\ UNCHANGED <<registry, files, mu, crashes>>

\* ... task.json is saved again, ...
SaveFinal(t) ==
  /\ \/ pc[t] = "write2" /\ WriteTemporary(t, verdict[t]) /\ UNCHANGED disk /\ Goto(t, "move2")
     \/ pc[t] = "move2" /\ ReplaceFile(t) /\ Goto(t, "log")
  /\ UNCHANGED <<registry, verdict, zip, logged, mu, crashes>>

\* ... the state event is logged ...
LogFinal(t) ==
  /\ pc[t] = "log"
  /\ Log(t, verdict[t])
  /\ Goto(t, "commit")
  /\ UNCHANGED <<registry, verdict, zip, disk, tmp, mu, crashes>>

\* Faulty variant: the type stays taken.
CommitKeepsType(t) ==
  /\ pc[t] = "commit"
  /\ mu = "free"
  /\ mem' = [mem EXCEPT ![t] = verdict[t]]
  /\ running' = running \ {t}
  /\ Goto(t, "done")
  /\ UNCHANGED <<activeTypes, cancelled, verdict, zip, files, mu, crashes>>

\* ... and the status is published.
Commit(t) ==
  /\ pc[t] = "commit"
  /\ mu = "free"
  /\ mem' = [mem EXCEPT ![t] = verdict[t]]
  /\ running' = running \ {t}
  /\ activeTypes' = [activeTypes EXCEPT ![TypeOf[t]] = NoTask]
  /\ Goto(t, "done")
  /\ UNCHANGED <<cancelled, verdict, zip, files, mu, crashes>>

-----------------------------------------------------------------------------
(* Stop, StopType and StopAll.                                             *)

\* Faulty variant: any known task may be stopped.
StopKnown(t) ==
  /\ mu = "free"
  /\ mem[t] \notin {"none", "stopping"}
  /\ mem' = [mem EXCEPT ![t] = "stopping"]
  /\ WriteTemporary(t, "stopping")
  /\ mu' = t
  /\ UNCHANGED <<running, activeTypes, cancelled, pc, verdict, zip, logged, disk, crashes>>

\* A running task that is not stopping yet is marked, saved, ...
Stop(t) ==
  /\ mu = "free"
  /\ t \in running /\ mem[t] # "stopping"
  /\ mem' = [mem EXCEPT ![t] = "stopping"]
  /\ WriteTemporary(t, "stopping")
  /\ mu' = t
  /\ UNCHANGED <<running, activeTypes, cancelled, pc, verdict, zip, logged, disk, crashes>>

\* Faulty variant: the context is not cancelled.
StopSilently(t) ==
  /\ mu = t
  /\ ReplaceFile(t)
  /\ Log(t, "stopping")
  /\ mu' = "free"
  /\ UNCHANGED <<registry, pc, verdict, zip, crashes>>

\* ... its state event logged and its context cancelled.
StopCancels(t) ==
  /\ mu = t
  /\ ReplaceFile(t)
  /\ Log(t, "stopping")
  /\ cancelled' = cancelled \cup {t}
  /\ mu' = "free"
  /\ UNCHANGED <<mem, running, activeTypes, pc, verdict, zip, crashes>>

-----------------------------------------------------------------------------

\* The agent ends, by a crash or after StopAll and WaitAll, and is started
\* again: NewManager loads every task.json and fails the interrupted tasks.
Restored(t) == IF disk[t] \in Live THEN "failed" ELSE disk[t]
Restart ==
  /\ crashes < MaxCrash
  /\ crashes' = crashes + 1
  /\ mem' = [t \in Tasks |-> Restored(t)]
  /\ disk' = [t \in Tasks |-> Restored(t)]
  /\ tmp' = [t \in Tasks |-> IF disk[t] \in Live THEN "none" ELSE tmp[t]]
  /\ logged' = [t \in Tasks |-> IF disk[t] \in Live THEN logged[t] \cup {"failed"}
                                ELSE logged[t]]
  /\ running' = {} /\ cancelled' = {}
  /\ activeTypes' = [y \in Types |-> NoTask]
  /\ pc' = [t \in Tasks |-> "none"] /\ verdict' = [t \in Tasks |-> "none"]
  /\ mu' = "free"
  /\ UNCHANGED zip

Execute(t) == \/ LogRunning(t) \/ Decide(t) \/ SaveDecided(t) \/ Package(t)
              \/ SaveFinal(t) \/ LogFinal(t) \/ Commit(t)

Next ==
  \/ \E t \in Tasks : \/ Start(t) \/ StartFails(t) \/ Execute(t)
                      \/ Stop(t) \/ StopCancels(t)
  \/ Restart

Spec == Init /\ [][Next]_vars

\* Goroutines and holders of the mutex go on; a runner returns once its
\* context is cancelled.
FairSpec ==
  /\ Spec
  /\ \A t \in Tasks : /\ WF_vars(Execute(t) /\ (pc[t] = "run" => t \in cancelled))
                      /\ WF_vars(StopCancels(t))

-----------------------------------------------------------------------------
(* Properties.                                                             *)

TypeOK ==
  /\ mem \in [Tasks -> Status \cup {"none"}]
  /\ running \subseteq Tasks /\ cancelled \subseteq Tasks /\ zip \subseteq Tasks
  /\ activeTypes \in [Types -> Tasks \cup {NoTask}]
  /\ pc \in [Tasks -> Steps]
  /\ verdict \in [Tasks -> Ended \cup {"none"}]
  /\ logged \in [Tasks -> SUBSET Status]
  /\ disk \in [Tasks -> Status \cup {"none"}]
  /\ tmp \in [Tasks -> Status \cup {"none"}]
  /\ mu \in Tasks \cup {"free"}
  /\ crashes \in Nat

\* The manager's three views of what is active agree at every step of start,
\* stop, completion and restart: the status shown, the running map and the
\* active task of the type.  In particular one task per type is active.
Registry ==
  \A t \in Tasks :
    /\ mem[t] \in Live <=> t \in running
    /\ t \in running <=> activeTypes[TypeOf[t]] = t

\* Where a goroutine stands and what the manager shows: it executes exactly
\* the running tasks, with an end state decided from "write1" on and the
\* results packaged from "write2" on; Stop holds the mutex for a running task.
ExecuteOK ==
  /\ \A t \in Tasks :
       /\ pc[t] \in Executing <=> t \in running
       /\ pc[t] \in {"write1", "move1", "package"} \cup Packaged => verdict[t] \in Ended
       /\ pc[t] \in Packaged => t \in zip \/ t \notin AutoPackage \/ verdict[t] = "failed"
       /\ pc[t] = "commit" => verdict[t] \in logged[t]
  /\ mu # "free" => mu \in running

\* The inductive invariant behind Registry and EndStays.
IInv == TypeOK /\ Registry /\ ExecuteOK

\* A published end state is final while the agent lives, whenever Stop comes.
EndStays == [][crashes' = crashes =>
                 \A t \in Tasks : mem[t] \in Ended => mem'[t] = mem[t]]_vars

\* The end state execute publishes is logged, and its package committed unless
\* the task failed (apps/agent/README.md on end states).
PublishedLast ==
  \A t \in Tasks : pc[t] = "done" =>
    /\ mem[t] \in logged[t]
    /\ t \in zip \/ t \notin AutoPackage \/ mem[t] = "failed"

\* A stopped task ends, and its type is free again.
StopEnds == \A t \in Tasks : mem[t] = "stopping" ~> mem[t] \in Ended
=============================================================================
