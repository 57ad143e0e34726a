------------------------ MODULE ResidentPollerProofs ------------------------
(***************************************************************************)
(* What ResidentPoller's runs check on small instances, for every number   *)
(* of tasks, requests, faults and restarts.                                *)
(***************************************************************************)
EXTENDS ResidentPoller, TLAPS

\* A task that runs is the registered one and owns both files; a control.json
\* that was rewritten after a failed read is nobody's.
Owned ==
  \A t \in Tasks : Running(t) => active = t /\ control_task \in {t, NONE} /\ status_task = t

\* While a worker is being started there is no other and the files are made.
Starting ==
  sup \in EnsureSteps =>
    /\ phase = "running" /\ active = NONE
    /\ new \in Tasks /\ job[new] = "none"
    /\ sup \in {"status", "start"} => control_task = new
    /\ sup = "start" => status_task = new

\* A stop waits for the only task that may run, and has killed it at the last.
Stopping ==
  sup \in StopSteps =>
    /\ phase = "stopping" /\ waited \in Tasks
    /\ \A t \in Tasks : Running(t) => t = waited
    /\ sup = "last" => job[waited] # "live"

\* A run whose stop is over has no worker.
Over ==
  phase \in {"stopped", "failed"} => sup = "idle" /\ \A t \in Tasks : job[t] # "live"

\* A session belongs to a process, at a step where it may be open.
Sessions ==
  \A t \in Tasks : conn[t] => job[t] = "live" /\ pc[t] \notin {"connect", "report", "end"}

\* The states that say that there is no session.
Truthful == status_state \in {"STOPPED", "BACKOFF"} => \A t \in Tasks : ~conn[t]

\* Requests are numbered in the order they are made; a poll that has begun
\* answers the request it was begun for and all before it.
Numbered ==
  /\ control_request <= requests
  /\ \A t \in Tasks :
       /\ immediate[t] <= requests /\ begun[t] <= requests /\ polled[t] <= requests
       /\ completed[t] <= polled[t]
       /\ pc[t] = "poll" => immediate[t] <= begun[t] /\ polled[t] <= begun[t]
       /\ pc[t] = "mark" => immediate[t] <= polled[t]

IInv ==
  /\ TypeOK /\ Owned /\ Starting /\ Stopping /\ Over /\ Sessions /\ Truthful /\ Numbered

-----------------------------------------------------------------------------
(* Every action keeps the invariant: types, who runs, sessions, numbers.    *)

USE DEF service, control, status, host, locals, bounds, EnsureSteps, StopSteps

\* ensure_poller finds the worker running.
LEMMA EnsureRunningKeeps ==
  ASSUME IInv, NEW ok \in BOOLEAN, EnsureRunning(ok)
  PROVE  IInv'
<1>0. /\ UNCHANGED <<service, status, host, pc, locals, requests, restarts>>
      /\ control_stop' = FALSE /\ control_request' \in {control_request, 0}
      /\ control_task' \in {control_task, NONE} /\ faults' \in {faults, faults + 1}
  BY DEF EnsureRunning, UpdateControl
<1>1. TypeOK'
  <2>1. /\ control_task' \in Tasks \cup {NONE} /\ control_request' \in Nat
        /\ faults' \in Nat
    BY <1>0 DEF IInv, TypeOK
  <2>2. control_stop' \in BOOLEAN
    BY <1>0, Zenon
  <2>. QED  BY <1>0, <2>1, <2>2, Zenon DEF IInv, TypeOK, Running
<1>2. Owned' /\ Starting' /\ Stopping' /\ Over'
  BY PollerConstants DEF EnsureRunning, UpdateControl, HasActive,
     IInv, TypeOK, Owned, Starting, Stopping, Over, Running
<1>3. Sessions' /\ Truthful'
  BY PollerConstants DEF EnsureRunning, UpdateControl, HasActive,
     IInv, TypeOK, Owned, Starting, Over, Running, Sessions, Truthful
<1>4. Numbered'
  BY PollerConstants DEF EnsureRunning, UpdateControl, HasActive,
     IInv, TypeOK, Numbered
<1>. QED  BY <1>1, <1>2, <1>3, <1>4 DEF IInv

\* ensure_poller finds none: nothing runs that _active does not know.
LEMMA EnsureStartsKeeps ==
  ASSUME IInv, EnsureStarts
  PROVE  IInv'
<1>. Fresh \in Tasks /\ job[Fresh] = "none"
  BY DEF EnsureStarts, Unused, Fresh
<1>1. TypeOK'
  BY PollerConstants DEF EnsureStarts, HasActive, Unused,
     IInv, TypeOK, SupSteps, Phases, Jobs, ConnectionStates, Steps
<1>2. Owned' /\ Starting' /\ Stopping' /\ Over'
  BY PollerConstants DEF EnsureStarts, HasActive, Unused,
     IInv, TypeOK, Owned, Starting, Stopping, Over, Running
<1>3. Sessions' /\ Truthful'
  BY PollerConstants DEF EnsureStarts, HasActive, Unused,
     IInv, TypeOK, Owned, Starting, Over, Running, Sessions, Truthful
<1>4. Numbered'
  BY PollerConstants DEF EnsureStarts, HasActive, Unused,
     IInv, TypeOK, Numbered
<1>. QED  BY <1>1, <1>2, <1>3, <1>4 DEF IInv

\* The control file of the task about to be started.
LEMMA WriteControlKeeps ==
  ASSUME IInv, WriteControl
  PROVE  IInv'
<1>1. TypeOK'
  BY PollerConstants DEF WriteControl,
     IInv, TypeOK, SupSteps, Phases, Jobs, ConnectionStates, Steps
<1>2. Owned' /\ Starting' /\ Stopping' /\ Over'
  BY PollerConstants DEF WriteControl,
     IInv, TypeOK, Owned, Starting, Stopping, Over, Running
<1>3. Sessions' /\ Truthful'
  BY PollerConstants DEF WriteControl,
     IInv, TypeOK, Owned, Starting, Over, Running, Sessions, Truthful
<1>4. Numbered'
  BY PollerConstants DEF WriteControl,
     IInv, TypeOK, Numbered
<1>. QED  BY <1>1, <1>2, <1>3, <1>4 DEF IInv

\* Its status file.
LEMMA WriteStatusKeeps ==
  ASSUME IInv, WriteStatus
  PROVE  IInv'
<1>1. TypeOK'
  BY PollerConstants DEF WriteStatus,
     IInv, TypeOK, SupSteps, Phases, Jobs, ConnectionStates, Steps
<1>2. Owned' /\ Starting' /\ Stopping' /\ Over'
  BY PollerConstants DEF WriteStatus,
     IInv, TypeOK, Owned, Starting, Stopping, Over, Running
<1>3. Sessions' /\ Truthful'
  BY PollerConstants DEF WriteStatus,
     IInv, TypeOK, Owned, Starting, Over, Running, Sessions, Truthful
<1>4. Numbered'
  BY PollerConstants DEF WriteStatus,
     IInv, TypeOK, Numbered
<1>. QED  BY <1>1, <1>2, <1>3, <1>4 DEF IInv

\* The only worker is registered and owns both files.
LEMMA StartJobKeeps ==
  ASSUME IInv, StartJob
  PROVE  IInv'
<1>1. TypeOK'
  BY PollerConstants DEF StartJob,
     IInv, TypeOK, SupSteps, Phases, Jobs, ConnectionStates, Steps
<1>2. Owned' /\ Starting' /\ Stopping' /\ Over'
  BY PollerConstants DEF StartJob,
     IInv, TypeOK, Owned, Starting, Stopping, Over, Running
<1>3. Sessions' /\ Truthful'
  BY PollerConstants DEF StartJob,
     IInv, TypeOK, Owned, Starting, Over, Running, Sessions, Truthful
<1>4. Numbered'
  BY PollerConstants DEF StartJob,
     IInv, TypeOK, Numbered
<1>. QED  BY <1>1, <1>2, <1>3, <1>4 DEF IInv

\* start_job raises.
LEMMA StartFailsKeeps ==
  ASSUME IInv, StartFails
  PROVE  IInv'
<1>. new \in Tasks
  BY DEF StartFails, IInv, Starting
<1>1. TypeOK'
  BY PollerConstants DEF StartFails, Fault,
     IInv, TypeOK, SupSteps, Phases, Jobs, ConnectionStates, Steps
<1>2. Owned' /\ Starting' /\ Stopping' /\ Over'
  BY PollerConstants DEF StartFails, Fault,
     IInv, TypeOK, Owned, Starting, Stopping, Over, Running
<1>3. Sessions' /\ Truthful'
  BY PollerConstants DEF StartFails, Fault,
     IInv, TypeOK, Owned, Starting, Over, Running, Sessions, Truthful
<1>4. Numbered'
  BY PollerConstants DEF StartFails, Fault,
     IInv, TypeOK, Numbered
<1>. QED  BY <1>1, <1>2, <1>3, <1>4 DEF IInv

\* An immediate poll is asked for, with a number of its own.
LEMMA RequestImmediateKeeps ==
  ASSUME IInv, NEW ok \in BOOLEAN, RequestImmediate(ok)
  PROVE  IInv'
<1>1. TypeOK'
  BY PollerConstants DEF RequestImmediate, UpdateControl, HasActive, Locked,
     IInv, TypeOK, SupSteps, Phases, Jobs, ConnectionStates, Steps
<1>2. Owned' /\ Starting' /\ Stopping' /\ Over'
  BY PollerConstants DEF RequestImmediate, UpdateControl, HasActive, Locked,
     IInv, TypeOK, Owned, Starting, Stopping, Over, Running
<1>3. Sessions' /\ Truthful'
  BY PollerConstants DEF RequestImmediate, UpdateControl, HasActive, Locked,
     IInv, TypeOK, Owned, Starting, Over, Running, Sessions, Truthful
<1>4. Numbered'
  BY PollerConstants DEF RequestImmediate, UpdateControl, HasActive, Locked,
     IInv, TypeOK, Numbered
<1>. QED  BY <1>1, <1>2, <1>3, <1>4 DEF IInv

\* The entry of a task that is over is dropped.
LEMMA RequestDropsKeeps ==
  ASSUME IInv, RequestDrops
  PROVE  IInv'
<1>1. TypeOK'
  BY PollerConstants DEF RequestDrops, HasActive, Locked,
     IInv, TypeOK, SupSteps, Phases, Jobs, ConnectionStates, Steps
<1>2. Owned' /\ Starting' /\ Stopping' /\ Over'
  BY PollerConstants DEF RequestDrops, HasActive, Locked,
     IInv, TypeOK, Owned, Starting, Stopping, Over, Running
<1>3. Sessions' /\ Truthful'
  BY PollerConstants DEF RequestDrops, HasActive, Locked,
     IInv, TypeOK, Owned, Starting, Over, Running, Sessions, Truthful
<1>4. Numbered'
  BY PollerConstants DEF RequestDrops, HasActive, Locked,
     IInv, TypeOK, Numbered
<1>. QED  BY <1>1, <1>2, <1>3, <1>4 DEF IInv

\* The run is to end.
LEMMA EndRunKeeps ==
  ASSUME IInv, EndRun
  PROVE  IInv'
<1>1. TypeOK'
  BY PollerConstants DEF EndRun,
     IInv, TypeOK, SupSteps, Phases, Jobs, ConnectionStates, Steps
<1>2. Owned' /\ Starting' /\ Stopping' /\ Over'
  BY PollerConstants DEF EndRun,
     IInv, TypeOK, Owned, Starting, Stopping, Over, Running
<1>3. Sessions' /\ Truthful'
  BY PollerConstants DEF EndRun,
     IInv, TypeOK, Owned, Starting, Over, Running, Sessions, Truthful
<1>4. Numbered'
  BY PollerConstants DEF EndRun,
     IInv, TypeOK, Numbered
<1>. QED  BY <1>1, <1>2, <1>3, <1>4 DEF IInv

\* An empty _active means that no worker is left.
LEMMA NothingToStopKeeps ==
  ASSUME IInv, NothingToStop
  PROVE  IInv'
<1>1. TypeOK'
  BY PollerConstants DEF NothingToStop,
     IInv, TypeOK, SupSteps, Phases, Jobs, ConnectionStates, Steps
<1>2. Owned' /\ Starting' /\ Stopping' /\ Over'
  BY PollerConstants DEF NothingToStop,
     IInv, TypeOK, Owned, Starting, Stopping, Over, Running
<1>3. Sessions' /\ Truthful'
  BY PollerConstants DEF NothingToStop,
     IInv, TypeOK, Owned, Starting, Over, Running, Sessions, Truthful
<1>4. Numbered'
  BY PollerConstants DEF NothingToStop,
     IInv, TypeOK, Numbered
<1>. QED  BY <1>1, <1>2, <1>3, <1>4 DEF IInv

\* The registered task is the only one that may run.
LEMMA RequestStopKeeps ==
  ASSUME IInv, NEW ok \in BOOLEAN, RequestStop(ok)
  PROVE  IInv'
<1>1. TypeOK'
  BY PollerConstants DEF RequestStop, UpdateControl,
     IInv, TypeOK, SupSteps, Phases, Jobs, ConnectionStates, Steps
<1>2. Owned' /\ Starting' /\ Stopping' /\ Over'
  BY PollerConstants DEF RequestStop, UpdateControl,
     IInv, TypeOK, Owned, Starting, Stopping, Over, Running
<1>3. Sessions' /\ Truthful'
  BY PollerConstants DEF RequestStop, UpdateControl,
     IInv, TypeOK, Owned, Starting, Over, Running, Sessions, Truthful
<1>4. Numbered'
  BY PollerConstants DEF RequestStop, UpdateControl,
     IInv, TypeOK, Numbered
<1>. QED  BY <1>1, <1>2, <1>3, <1>4 DEF IInv

\* The task waited for is done, and there was no other.
LEMMA StoppedKeeps ==
  ASSUME IInv, NEW from \in {"wait", "last"}, Stopped(from)
  PROVE  IInv'
<1>1. TypeOK'
  BY PollerConstants DEF Stopped,
     IInv, TypeOK, SupSteps, Phases, Jobs, ConnectionStates, Steps
<1>2. Owned' /\ Starting' /\ Stopping' /\ Over'
  BY PollerConstants DEF Stopped,
     IInv, TypeOK, Owned, Starting, Stopping, Over, Running
<1>3. Sessions' /\ Truthful'
  BY PollerConstants DEF Stopped,
     IInv, TypeOK, Owned, Starting, Over, Running, Sessions, Truthful
<1>4. Numbered'
  BY PollerConstants DEF Stopped,
     IInv, TypeOK, Numbered
<1>. QED  BY <1>1, <1>2, <1>3, <1>4 DEF IInv

\* The wait is over before the task is done.
LEMMA StopTimesOutKeeps ==
  ASSUME IInv, StopTimesOut
  PROVE  IInv'
<1>1. TypeOK'
  BY PollerConstants DEF StopTimesOut,
     IInv, TypeOK, SupSteps, Phases, Jobs, ConnectionStates, Steps
<1>2. Owned' /\ Starting' /\ Stopping' /\ Over'
  BY PollerConstants DEF StopTimesOut,
     IInv, TypeOK, Owned, Starting, Stopping, Over, Running
<1>3. Sessions' /\ Truthful'
  BY PollerConstants DEF StopTimesOut,
     IInv, TypeOK, Owned, Starting, Over, Running, Sessions, Truthful
<1>4. Numbered'
  BY PollerConstants DEF StopTimesOut,
     IInv, TypeOK, Numbered
<1>. QED  BY <1>1, <1>2, <1>3, <1>4 DEF IInv

\* The task waited for is killed when it lives.
LEMMA ForceStopKeeps ==
  ASSUME IInv, ForceStop
  PROVE  IInv'
<1>. PICK w \in Tasks : w = waited
  BY DEF ForceStop, IInv, Stopping
<1>0. /\ sup = "force" /\ sup' = "last"
      /\ UNCHANGED <<phase, new, waited, active, control_task, control_stop, control_request,
                     status_task, status_state, requests, faults, restarts>>
  BY DEF ForceStop
<1>a. CASE job[w] = "live"
  <2>0. Dies(w)
    BY <1>a DEF ForceStop, Dies, Forget
  <2>1. TypeOK'
    BY <1>0, <2>0, PollerConstants DEF Dies, Forget,
       IInv, TypeOK, SupSteps, Phases, Jobs, ConnectionStates, Steps
  <2>2. Owned' /\ Starting' /\ Stopping' /\ Over'
    BY <1>0, <1>a, <2>0, PollerConstants DEF Dies, Forget,
       IInv, TypeOK, Owned, Starting, Stopping, Over, Running
  <2>3. Sessions' /\ Truthful'
    BY <1>0, <1>a, <2>0, PollerConstants DEF Dies, Forget,
       IInv, TypeOK, Owned, Starting, Over, Running, Sessions, Truthful
  <2>4. Numbered'
    BY <1>0, <2>0, PollerConstants DEF Dies, Forget,
       IInv, TypeOK, Numbered
  <2>. QED  BY <2>1, <2>2, <2>3, <2>4 DEF IInv
<1>b. CASE job[w] # "live"
  <2>0. UNCHANGED <<host, pc, locals>>
    BY <1>b DEF ForceStop
  <2>1. TypeOK'
    BY <1>0, <2>0, PollerConstants DEF
       IInv, TypeOK, SupSteps, Phases, Jobs, ConnectionStates, Steps
  <2>2. Owned' /\ Starting' /\ Stopping' /\ Over'
    BY <1>0, <1>b, <2>0, PollerConstants DEF
       IInv, TypeOK, Owned, Starting, Stopping, Over, Running
  <2>3. Sessions' /\ Truthful'
    BY <1>0, <1>b, <2>0, PollerConstants DEF
       IInv, TypeOK, Owned, Starting, Over, Running, Sessions, Truthful
  <2>4. Numbered'
    BY <1>0, <2>0 DEF IInv, TypeOK, Numbered
  <2>. QED  BY <2>1, <2>2, <2>3, <2>4 DEF IInv
<1>. QED  BY <1>a, <1>b

\* The stop is given up, after the kill.
LEMMA StopFailsKeeps ==
  ASSUME IInv, StopFails
  PROVE  IInv'
<1>1. TypeOK'
  BY PollerConstants DEF StopFails,
     IInv, TypeOK, SupSteps, Phases, Jobs, ConnectionStates, Steps
<1>2. Owned' /\ Starting' /\ Stopping' /\ Over'
  BY PollerConstants DEF StopFails,
     IInv, TypeOK, Owned, Starting, Stopping, Over, Running
<1>3. Sessions' /\ Truthful'
  BY PollerConstants DEF StopFails,
     IInv, TypeOK, Owned, Starting, Over, Running, Sessions, Truthful
<1>4. Numbered'
  BY PollerConstants DEF StopFails,
     IInv, TypeOK, Numbered
<1>. QED  BY <1>1, <1>2, <1>3, <1>4 DEF IInv

\* A user cancels the task.
LEMMA CancelTaskKeeps ==
  ASSUME IInv, NEW t \in Tasks, CancelTask(t)
  PROVE  IInv'
<1>1. TypeOK'
  BY PollerConstants DEF CancelTask,
     IInv, TypeOK, SupSteps, Phases, Jobs, ConnectionStates, Steps
<1>2. Owned' /\ Starting' /\ Stopping' /\ Over'
  BY PollerConstants DEF CancelTask,
     IInv, TypeOK, Owned, Starting, Stopping, Over, Running
<1>3. Sessions' /\ Truthful'
  BY PollerConstants DEF CancelTask,
     IInv, TypeOK, Owned, Starting, Over, Running, Sessions, Truthful
<1>4. Numbered'
  BY PollerConstants DEF CancelTask,
     IInv, TypeOK, Numbered
<1>. QED  BY <1>1, <1>2, <1>3, <1>4 DEF IInv

\* The host kills a cancelled worker.
LEMMA KillCancelledKeeps ==
  ASSUME IInv, NEW t \in Tasks, KillCancelled(t)
  PROVE  IInv'
<1>1. TypeOK'
  BY PollerConstants DEF KillCancelled, Dies, Forget,
     IInv, TypeOK, SupSteps, Phases, Jobs, ConnectionStates, Steps
<1>2. Owned' /\ Starting' /\ Stopping' /\ Over'
  BY PollerConstants DEF KillCancelled, Dies, Forget,
     IInv, TypeOK, Owned, Starting, Stopping, Over, Running
<1>3. Sessions' /\ Truthful'
  BY PollerConstants DEF KillCancelled, Dies, Forget,
     IInv, TypeOK, Owned, Starting, Over, Running, Sessions, Truthful
<1>4. Numbered'
  BY PollerConstants DEF KillCancelled, Dies, Forget,
     IInv, TypeOK, Numbered
<1>. QED  BY <1>1, <1>2, <1>3, <1>4 DEF IInv

\* The host closes the record of a process that is gone.
LEMMA CloseRecordKeeps ==
  ASSUME IInv, NEW t \in Tasks, CloseRecord(t)
  PROVE  IInv'
<1>1. TypeOK'
  BY PollerConstants DEF CloseRecord,
     IInv, TypeOK, SupSteps, Phases, Jobs, ConnectionStates, Steps
<1>2. Owned' /\ Starting' /\ Stopping' /\ Over'
  BY PollerConstants DEF CloseRecord,
     IInv, TypeOK, Owned, Starting, Stopping, Over, Running
<1>3. Sessions' /\ Truthful'
  BY PollerConstants DEF CloseRecord,
     IInv, TypeOK, Owned, Starting, Over, Running, Sessions, Truthful
<1>4. Numbered'
  BY PollerConstants DEF CloseRecord,
     IInv, TypeOK, Numbered
<1>. QED  BY <1>1, <1>2, <1>3, <1>4 DEF IInv

\* A late callback leaves the entry of another task alone.
LEMMA NotifyKeeps ==
  ASSUME IInv, NEW t \in Tasks, Notify(t)
  PROVE  IInv'
<1>1. TypeOK'
  BY PollerConstants DEF Notify, Locked,
     IInv, TypeOK, SupSteps, Phases, Jobs, ConnectionStates, Steps
<1>2. Owned' /\ Starting' /\ Stopping' /\ Over'
  BY PollerConstants DEF Notify, Locked,
     IInv, TypeOK, Owned, Starting, Stopping, Over, Running
<1>3. Sessions' /\ Truthful'
  BY PollerConstants DEF Notify, Locked,
     IInv, TypeOK, Owned, Starting, Over, Running, Sessions, Truthful
<1>4. Numbered'
  BY PollerConstants DEF Notify, Locked,
     IInv, TypeOK, Numbered
<1>. QED  BY <1>1, <1>2, <1>3, <1>4 DEF IInv

\* The backend is started again and its workers are gone.
LEMMA RestartKeeps ==
  ASSUME IInv, Restart
  PROVE  IInv'
<1>1. TypeOK'
  BY PollerConstants DEF Restart, Forget,
     IInv, TypeOK, SupSteps, Phases, Jobs, ConnectionStates, Steps
<1>2. Owned' /\ Starting' /\ Stopping' /\ Over'
  BY PollerConstants DEF Restart, Forget,
     IInv, TypeOK, Owned, Starting, Stopping, Over, Running
<1>3. Sessions' /\ Truthful'
  BY PollerConstants DEF Restart, Forget,
     IInv, TypeOK, Owned, Starting, Over, Running, Sessions, Truthful
<1>4. Numbered'
  BY PollerConstants DEF Restart, Forget,
     IInv, TypeOK, Numbered
<1>. QED  BY <1>1, <1>2, <1>3, <1>4 DEF IInv

\* The worker sees the cancel.
LEMMA CancelledKeeps ==
  ASSUME IInv, NEW t \in Tasks, NEW from \in {"loop", "wait", "poll"}, Cancelled(t, from)
  PROVE  IInv'
<1>1. TypeOK'
  BY PollerConstants DEF Cancelled, Goto, At, Publish, Alone,
     IInv, TypeOK, SupSteps, Phases, Jobs, ConnectionStates, Steps
<1>2. Owned' /\ Starting' /\ Stopping' /\ Over'
  BY PollerConstants DEF Cancelled, Goto, At, Publish, Alone,
     IInv, TypeOK, Owned, Starting, Stopping, Over, Running
<1>3. Sessions' /\ Truthful'
  BY PollerConstants DEF Cancelled, Goto, At, Publish, Alone,
     IInv, TypeOK, Owned, Starting, Over, Running, Sessions, Truthful
<1>4. Numbered'
  BY PollerConstants DEF Cancelled, Goto, At, Publish, Alone,
     IInv, TypeOK, Numbered
<1>. QED  BY <1>1, <1>2, <1>3, <1>4 DEF IInv

\* The worker sees the stop.
LEMMA SeesStopKeeps ==
  ASSUME IInv, NEW t \in Tasks, NEW from \in {"loop", "wait"}, SeesStop(t, from)
  PROVE  IInv'
<1>1. TypeOK'
  BY PollerConstants DEF SeesStop, Goto, At, Publish, Alone,
     IInv, TypeOK, SupSteps, Phases, Jobs, ConnectionStates, Steps
<1>2. Owned' /\ Starting' /\ Stopping' /\ Over'
  BY PollerConstants DEF SeesStop, Goto, At, Publish, Alone,
     IInv, TypeOK, Owned, Starting, Stopping, Over, Running
<1>3. Sessions' /\ Truthful'
  BY PollerConstants DEF SeesStop, Goto, At, Publish, Alone,
     IInv, TypeOK, Owned, Starting, Over, Running, Sessions, Truthful
<1>4. Numbered'
  BY PollerConstants DEF SeesStop, Goto, At, Publish, Alone,
     IInv, TypeOK, Numbered
<1>. QED  BY <1>1, <1>2, <1>3, <1>4 DEF IInv

\* The worker reads the control file.
LEMMA ReadControlKeeps ==
  ASSUME IInv, NEW t \in Tasks, ReadControl(t)
  PROVE  IInv'
<1>1. TypeOK'
  BY PollerConstants DEF ReadControl, GoOn, Goto, At, Publish, Alone,
     IInv, TypeOK, SupSteps, Phases, Jobs, ConnectionStates, Steps
<1>2. Owned' /\ Starting' /\ Stopping' /\ Over'
  BY PollerConstants DEF ReadControl, GoOn, Goto, At, Publish, Alone,
     IInv, TypeOK, Owned, Starting, Stopping, Over, Running
<1>3. Sessions' /\ Truthful'
  BY PollerConstants DEF ReadControl, GoOn, Goto, At, Publish, Alone,
     IInv, TypeOK, Owned, Starting, Over, Running, Sessions, Truthful
<1>4. Numbered'
  BY PollerConstants DEF ReadControl, GoOn, Goto, At, Publish, Alone,
     IInv, TypeOK, Numbered
<1>. QED  BY <1>1, <1>2, <1>3, <1>4 DEF IInv

\* The worker cannot read it.
LEMMA MissControlKeeps ==
  ASSUME IInv, NEW t \in Tasks, MissControl(t)
  PROVE  IInv'
<1>1. TypeOK'
  BY PollerConstants DEF MissControl, GoOn, Fault, Goto, At, Publish, Alone,
     IInv, TypeOK, SupSteps, Phases, Jobs, ConnectionStates, Steps
<1>2. Owned' /\ Starting' /\ Stopping' /\ Over'
  BY PollerConstants DEF MissControl, GoOn, Fault, Goto, At, Publish, Alone,
     IInv, TypeOK, Owned, Starting, Stopping, Over, Running
<1>3. Sessions' /\ Truthful'
  BY PollerConstants DEF MissControl, GoOn, Fault, Goto, At, Publish, Alone,
     IInv, TypeOK, Owned, Starting, Over, Running, Sessions, Truthful
<1>4. Numbered'
  BY PollerConstants DEF MissControl, GoOn, Fault, Goto, At, Publish, Alone,
     IInv, TypeOK, Numbered
<1>. QED  BY <1>1, <1>2, <1>3, <1>4 DEF IInv

\* The session is opened.
LEMMA ConnectKeeps ==
  ASSUME IInv, NEW t \in Tasks, Connect(t)
  PROVE  IInv'
<1>1. TypeOK'
  BY PollerConstants DEF Connect, Goto, At, Publish, Alone,
     IInv, TypeOK, SupSteps, Phases, Jobs, ConnectionStates, Steps
<1>2. Owned' /\ Starting' /\ Stopping' /\ Over'
  BY PollerConstants DEF Connect, Goto, At, Publish, Alone,
     IInv, TypeOK, Owned, Starting, Stopping, Over, Running
<1>3. Sessions' /\ Truthful'
  BY PollerConstants DEF Connect, Goto, At, Publish, Alone,
     IInv, TypeOK, Owned, Starting, Over, Running, Sessions, Truthful
<1>4. Numbered'
  BY PollerConstants DEF Connect, Goto, At, Publish, Alone,
     IInv, TypeOK, Numbered
<1>. QED  BY <1>1, <1>2, <1>3, <1>4 DEF IInv

\* BACKOFF is published when there is no session.
LEMMA ConnectFailsKeeps ==
  ASSUME IInv, NEW t \in Tasks, ConnectFails(t)
  PROVE  IInv'
<1>1. TypeOK'
  BY PollerConstants DEF ConnectFails, Fault, Goto, At, Publish, Alone,
     IInv, TypeOK, SupSteps, Phases, Jobs, ConnectionStates, Steps
<1>2. Owned' /\ Starting' /\ Stopping' /\ Over'
  BY PollerConstants DEF ConnectFails, Fault, Goto, At, Publish, Alone,
     IInv, TypeOK, Owned, Starting, Stopping, Over, Running
<1>3. Sessions' /\ Truthful'
  BY PollerConstants DEF ConnectFails, Fault, Goto, At, Publish, Alone,
     IInv, TypeOK, Owned, Starting, Over, Running, Sessions, Truthful
<1>4. Numbered'
  BY PollerConstants DEF ConnectFails, Fault, Goto, At, Publish, Alone,
     IInv, TypeOK, Numbered
<1>. QED  BY <1>1, <1>2, <1>3, <1>4 DEF IInv

\* The worker gives up.
LEMMA ConfigInvalidKeeps ==
  ASSUME IInv, NEW t \in Tasks, ConfigInvalid(t)
  PROVE  IInv'
<1>1. TypeOK'
  BY PollerConstants DEF ConfigInvalid, Fault, Goto, At, Publish, Alone,
     IInv, TypeOK, SupSteps, Phases, Jobs, ConnectionStates, Steps
<1>2. Owned' /\ Starting' /\ Stopping' /\ Over'
  BY PollerConstants DEF ConfigInvalid, Fault, Goto, At, Publish, Alone,
     IInv, TypeOK, Owned, Starting, Stopping, Over, Running
<1>3. Sessions' /\ Truthful'
  BY PollerConstants DEF ConfigInvalid, Fault, Goto, At, Publish, Alone,
     IInv, TypeOK, Owned, Starting, Over, Running, Sessions, Truthful
<1>4. Numbered'
  BY PollerConstants DEF ConfigInvalid, Fault, Goto, At, Publish, Alone,
     IInv, TypeOK, Numbered
<1>. QED  BY <1>1, <1>2, <1>3, <1>4 DEF IInv

\* The session is lost.
LEMMA DisconnectedKeeps ==
  ASSUME IInv, NEW t \in Tasks, NEW from \in {"alive", "poll"}, Disconnected(t, from)
  PROVE  IInv'
<1>1. TypeOK'
  BY PollerConstants DEF Disconnected, Fault, Goto, At, Publish, Alone,
     IInv, TypeOK, SupSteps, Phases, Jobs, ConnectionStates, Steps
<1>2. Owned' /\ Starting' /\ Stopping' /\ Over'
  BY PollerConstants DEF Disconnected, Fault, Goto, At, Publish, Alone,
     IInv, TypeOK, Owned, Starting, Stopping, Over, Running
<1>3. Sessions' /\ Truthful'
  BY PollerConstants DEF Disconnected, Fault, Goto, At, Publish, Alone,
     IInv, TypeOK, Owned, Starting, Over, Running, Sessions, Truthful
<1>4. Numbered'
  BY PollerConstants DEF Disconnected, Fault, Goto, At, Publish, Alone,
     IInv, TypeOK, Numbered
<1>. QED  BY <1>1, <1>2, <1>3, <1>4 DEF IInv

\* A poll begins: it answers every request made so far.
LEMMA StartPollKeeps ==
  ASSUME IInv, NEW t \in Tasks, StartPoll(t)
  PROVE  IInv'
<1>1. TypeOK'
  BY PollerConstants DEF StartPoll, Goto, At, Publish, Alone,
     IInv, TypeOK, SupSteps, Phases, Jobs, ConnectionStates, Steps
<1>2. Owned' /\ Starting' /\ Stopping' /\ Over'
  BY PollerConstants DEF StartPoll, Goto, At, Publish, Alone,
     IInv, TypeOK, Owned, Starting, Stopping, Over, Running
<1>3. Sessions' /\ Truthful'
  BY PollerConstants DEF StartPoll, Goto, At, Publish, Alone,
     IInv, TypeOK, Owned, Starting, Over, Running, Sessions, Truthful
<1>4. Numbered'
  BY PollerConstants DEF StartPoll, Goto, At, Publish, Alone,
     IInv, TypeOK, Numbered
<1>. QED  BY <1>1, <1>2, <1>3, <1>4 DEF IInv

\* The next poll is not due.
LEMMA WaitKeeps ==
  ASSUME IInv, NEW t \in Tasks, Wait(t)
  PROVE  IInv'
<1>1. TypeOK'
  BY PollerConstants DEF Wait, Goto, At, Publish, Alone,
     IInv, TypeOK, SupSteps, Phases, Jobs, ConnectionStates, Steps
<1>2. Owned' /\ Starting' /\ Stopping' /\ Over'
  BY PollerConstants DEF Wait, Goto, At, Publish, Alone,
     IInv, TypeOK, Owned, Starting, Stopping, Over, Running
<1>3. Sessions' /\ Truthful'
  BY PollerConstants DEF Wait, Goto, At, Publish, Alone,
     IInv, TypeOK, Owned, Starting, Over, Running, Sessions, Truthful
<1>4. Numbered'
  BY PollerConstants DEF Wait, Goto, At, Publish, Alone,
     IInv, TypeOK, Numbered
<1>. QED  BY <1>1, <1>2, <1>3, <1>4 DEF IInv

\* The wait is over.
LEMMA WaitEndsKeeps ==
  ASSUME IInv, NEW t \in Tasks, WaitEnds(t)
  PROVE  IInv'
<1>1. TypeOK'
  BY PollerConstants DEF WaitEnds, Goto, At, Publish, Alone,
     IInv, TypeOK, SupSteps, Phases, Jobs, ConnectionStates, Steps
<1>2. Owned' /\ Starting' /\ Stopping' /\ Over'
  BY PollerConstants DEF WaitEnds, Goto, At, Publish, Alone,
     IInv, TypeOK, Owned, Starting, Stopping, Over, Running
<1>3. Sessions' /\ Truthful'
  BY PollerConstants DEF WaitEnds, Goto, At, Publish, Alone,
     IInv, TypeOK, Owned, Starting, Over, Running, Sessions, Truthful
<1>4. Numbered'
  BY PollerConstants DEF WaitEnds, Goto, At, Publish, Alone,
     IInv, TypeOK, Numbered
<1>. QED  BY <1>1, <1>2, <1>3, <1>4 DEF IInv

\* A poll ends.
LEMMA PollEndsKeeps ==
  ASSUME IInv, NEW t \in Tasks, PollEnds(t)
  PROVE  IInv'
<1>1. TypeOK'
  BY PollerConstants DEF PollEnds, Goto, At, Publish, Alone,
     IInv, TypeOK, SupSteps, Phases, Jobs, ConnectionStates, Steps
<1>2. Owned' /\ Starting' /\ Stopping' /\ Over'
  BY PollerConstants DEF PollEnds, Goto, At, Publish, Alone,
     IInv, TypeOK, Owned, Starting, Stopping, Over, Running
<1>3. Sessions' /\ Truthful'
  BY PollerConstants DEF PollEnds, Goto, At, Publish, Alone,
     IInv, TypeOK, Owned, Starting, Over, Running, Sessions, Truthful
<1>4. Numbered'
  BY PollerConstants DEF PollEnds, Goto, At, Publish, Alone,
     IInv, TypeOK, Numbered
<1>. QED  BY <1>1, <1>2, <1>3, <1>4 DEF IInv

\* The request read before the poll is still there, and is answered.
LEMMA MarkReadKeeps ==
  ASSUME IInv, NEW t \in Tasks, MarkRead(t)
  PROVE  IInv'
<1>1. TypeOK'
  BY PollerConstants DEF MarkRead, Mark, Goto, At, Publish, Alone,
     IInv, TypeOK, SupSteps, Phases, Jobs, ConnectionStates, Steps
<1>2. Owned' /\ Starting' /\ Stopping' /\ Over'
  BY PollerConstants DEF MarkRead, Mark, Goto, At, Publish, Alone,
     IInv, TypeOK, Owned, Starting, Stopping, Over, Running
<1>3. Sessions' /\ Truthful'
  BY PollerConstants DEF MarkRead, Mark, Goto, At, Publish, Alone,
     IInv, TypeOK, Owned, Starting, Over, Running, Sessions, Truthful
<1>4. Numbered'
  BY PollerConstants DEF MarkRead, Mark, Goto, At, Publish, Alone,
     IInv, TypeOK, Numbered
<1>. QED  BY <1>1, <1>2, <1>3, <1>4 DEF IInv

\* The control file cannot be read after the poll: nothing is answered.
LEMMA MarkMissedKeeps ==
  ASSUME IInv, NEW t \in Tasks, MarkMissed(t)
  PROVE  IInv'
<1>1. TypeOK'
  BY PollerConstants DEF MarkMissed, Mark, Fault, Goto, At, Publish, Alone,
     IInv, TypeOK, SupSteps, Phases, Jobs, ConnectionStates, Steps
<1>2. Owned' /\ Starting' /\ Stopping' /\ Over'
  BY PollerConstants DEF MarkMissed, Mark, Fault, Goto, At, Publish, Alone,
     IInv, TypeOK, Owned, Starting, Stopping, Over, Running
<1>3. Sessions' /\ Truthful'
  BY PollerConstants DEF MarkMissed, Mark, Fault, Goto, At, Publish, Alone,
     IInv, TypeOK, Owned, Starting, Over, Running, Sessions, Truthful
<1>4. Numbered'
  BY PollerConstants DEF MarkMissed, Mark, Fault, Goto, At, Publish, Alone,
     IInv, TypeOK, Numbered
<1>. QED  BY <1>1, <1>2, <1>3, <1>4 DEF IInv

\* The session is closed.
LEMMA CloseKeeps ==
  ASSUME IInv, NEW t \in Tasks, Close(t)
  PROVE  IInv'
<1>1. TypeOK'
  BY PollerConstants DEF Close, Goto, At, Publish, Alone,
     IInv, TypeOK, SupSteps, Phases, Jobs, ConnectionStates, Steps
<1>2. Owned' /\ Starting' /\ Stopping' /\ Over'
  BY PollerConstants DEF Close, Goto, At, Publish, Alone,
     IInv, TypeOK, Owned, Starting, Stopping, Over, Running
<1>3. Sessions' /\ Truthful'
  BY PollerConstants DEF Close, Goto, At, Publish, Alone,
     IInv, TypeOK, Owned, Starting, Over, Running, Sessions, Truthful
<1>4. Numbered'
  BY PollerConstants DEF Close, Goto, At, Publish, Alone,
     IInv, TypeOK, Numbered
<1>. QED  BY <1>1, <1>2, <1>3, <1>4 DEF IInv

\* STOPPED is published when there is no session.
LEMMA ReportKeeps ==
  ASSUME IInv, NEW t \in Tasks, Report(t)
  PROVE  IInv'
<1>1. TypeOK'
  BY PollerConstants DEF Report, Goto, At, Publish, Alone,
     IInv, TypeOK, SupSteps, Phases, Jobs, ConnectionStates, Steps
<1>2. Owned' /\ Starting' /\ Stopping' /\ Over'
  BY PollerConstants DEF Report, Goto, At, Publish, Alone,
     IInv, TypeOK, Owned, Starting, Stopping, Over, Running
<1>3. Sessions' /\ Truthful'
  BY PollerConstants DEF Report, Goto, At, Publish, Alone,
     IInv, TypeOK, Owned, Starting, Over, Running, Sessions, Truthful
<1>4. Numbered'
  BY PollerConstants DEF Report, Goto, At, Publish, Alone,
     IInv, TypeOK, Numbered
<1>. QED  BY <1>1, <1>2, <1>3, <1>4 DEF IInv

\* Any other exception leads to the finally clause.
LEMMA RaisesKeeps ==
  ASSUME IInv, NEW t \in Tasks, Raises(t)
  PROVE  IInv'
<1>1. TypeOK'
  BY PollerConstants DEF Raises, Fault, Alone,
     IInv, TypeOK, SupSteps, Phases, Jobs, ConnectionStates, Steps
<1>2. Owned' /\ Starting' /\ Stopping' /\ Over'
  BY PollerConstants DEF Raises, Fault, Alone,
     IInv, TypeOK, Owned, Starting, Stopping, Over, Running
<1>3. Sessions' /\ Truthful'
  BY PollerConstants DEF Raises, Fault, Alone,
     IInv, TypeOK, Owned, Starting, Over, Running, Sessions, Truthful
<1>4. Numbered'
  BY PollerConstants DEF Raises, Fault, Alone,
     IInv, TypeOK, Numbered
<1>. QED  BY <1>1, <1>2, <1>3, <1>4 DEF IInv

\* A command does not return.
LEMMA HangsKeeps ==
  ASSUME IInv, NEW t \in Tasks, Hangs(t)
  PROVE  IInv'
<1>1. TypeOK'
  BY PollerConstants DEF Hangs, Fault, Alone,
     IInv, TypeOK, SupSteps, Phases, Jobs, ConnectionStates, Steps
<1>2. Owned' /\ Starting' /\ Stopping' /\ Over'
  BY PollerConstants DEF Hangs, Fault, Alone,
     IInv, TypeOK, Owned, Starting, Stopping, Over, Running
<1>3. Sessions' /\ Truthful'
  BY PollerConstants DEF Hangs, Fault, Alone,
     IInv, TypeOK, Owned, Starting, Over, Running, Sessions, Truthful
<1>4. Numbered'
  BY PollerConstants DEF Hangs, Fault, Alone,
     IInv, TypeOK, Numbered
<1>. QED  BY <1>1, <1>2, <1>3, <1>4 DEF IInv

\* The process ends by itself.
LEMMA ExitKeeps ==
  ASSUME IInv, NEW t \in Tasks, Exit(t)
  PROVE  IInv'
<1>1. TypeOK'
  BY PollerConstants DEF Exit, At, Dies, Forget,
     IInv, TypeOK, SupSteps, Phases, Jobs, ConnectionStates, Steps
<1>2. Owned' /\ Starting' /\ Stopping' /\ Over'
  BY PollerConstants DEF Exit, At, Dies, Forget,
     IInv, TypeOK, Owned, Starting, Stopping, Over, Running
<1>3. Sessions' /\ Truthful'
  BY PollerConstants DEF Exit, At, Dies, Forget,
     IInv, TypeOK, Owned, Starting, Over, Running, Sessions, Truthful
<1>4. Numbered'
  BY PollerConstants DEF Exit, At, Dies, Forget,
     IInv, TypeOK, Numbered
<1>. QED  BY <1>1, <1>2, <1>3, <1>4 DEF IInv

-----------------------------------------------------------------------------
\* The initial state.
LEMMA InitHolds ==
  ASSUME Init
  PROVE  IInv
<1>1. TypeOK
  BY PollerConstants DEF Init, TypeOK, SupSteps, Phases, Jobs, ConnectionStates, Steps
<1>2. Owned /\ Starting /\ Stopping /\ Over
  BY DEF Init, Owned, Starting, Stopping, Over, Running
<1>3. Sessions /\ Truthful
  BY DEF Init, Sessions, Truthful
<1>4. Numbered
  BY DEF Init, Numbered
<1>. QED  BY <1>1, <1>2, <1>3, <1>4 DEF IInv

\* A step that changes nothing.
LEMMA StutterKeeps ==
  ASSUME IInv, UNCHANGED vars
  PROVE  IInv'
<1>1. TypeOK'
  BY DEF vars, IInv, TypeOK
<1>2. Owned' /\ Starting' /\ Stopping' /\ Over'
  BY DEF vars, IInv, Owned, Starting, Stopping, Over, Running
<1>3. Sessions' /\ Truthful' /\ Numbered'
  BY DEF vars, IInv, Sessions, Truthful, Numbered
<1>. QED  BY <1>1, <1>2, <1>3 DEF IInv

\* A step of the supervisor's thread.
LEMMA SuperviseKeeps ==
  ASSUME IInv, Supervise
  PROVE  IInv'
  BY EnsureRunningKeeps, EnsureStartsKeeps, WriteControlKeeps, WriteStatusKeeps, StartJobKeeps,
     StartFailsKeeps, NothingToStopKeeps, RequestStopKeeps, StoppedKeeps, StopTimesOutKeeps,
     ForceStopKeeps, StopFailsKeeps
  DEF Supervise

\* An update over a control.json that cannot be read.
LEMMA ForgetsKeeps ==
  ASSUME IInv, Forgets
  PROVE  IInv'
  BY EnsureRunningKeeps, RequestStopKeeps DEF Forgets

\* A step of the process host.
LEMMA HostKeeps ==
  ASSUME IInv, NEW t \in Tasks, Host(t)
  PROVE  IInv'
  BY KillCancelledKeeps, CloseRecordKeeps, NotifyKeeps DEF Host

\* A step of a worker.
LEMMA WorkKeeps ==
  ASSUME IInv, NEW t \in Tasks, Work(t)
  PROVE  IInv'
  BY CancelledKeeps, SeesStopKeeps, ReadControlKeeps, ConnectKeeps, ConnectFailsKeeps,
     StartPollKeeps, WaitKeeps, WaitEndsKeeps, PollEndsKeeps, MarkReadKeeps, CloseKeeps,
     ReportKeeps, ExitKeeps
  DEF Work

\* A fault of a worker.
LEMMA FailsKeeps ==
  ASSUME IInv, NEW t \in Tasks, Fails(t)
  PROVE  IInv'
  BY MissControlKeeps, MarkMissedKeeps, ConfigInvalidKeeps, DisconnectedKeeps, RaisesKeeps,
     HangsKeeps
  DEF Fails

\* The inductive invariant: who runs and owns the files, what a start and a
\* stop have established so far, where a session may be open, and the order
\* of the requests.
THEOREM Invariance == Spec => []IInv
<1>1. Init => IInv
  BY InitHolds
<1>2. ASSUME IInv, [Next]_vars
      PROVE  IInv'
  <2>1. CASE UNCHANGED vars
    BY <1>2, <2>1, StutterKeeps
  <2>2. CASE Supervise
    BY <1>2, <2>2, SuperviseKeeps
  <2>3. CASE Forgets \/ RequestDrops \/ EndRun \/ Restart
    BY <1>2, <2>3, ForgetsKeeps, RequestDropsKeeps, EndRunKeeps, RestartKeeps
  <2>5. ASSUME NEW ok \in BOOLEAN, RequestImmediate(ok) PROVE IInv'
    BY <1>2, <2>5, RequestImmediateKeeps
  <2>4. ASSUME NEW t \in Tasks, CancelTask(t) \/ Host(t) \/ Work(t) \/ Fails(t)
        PROVE  IInv'
    BY <1>2, <2>4, CancelTaskKeeps, HostKeeps, WorkKeeps, FailsKeeps
  <2>. QED  BY <1>2, <2>1, <2>2, <2>3, <2>4, <2>5 DEF Next
<1>. QED  BY <1>1, <1>2, PTL DEF Spec

\* Every field, file and local of the poller keeps its type.
THEOREM TypeCorrect == Spec => []TypeOK
<1>1. IInv => TypeOK
  BY DEF IInv
<1>. QED  BY <1>1, Invariance, PTL

\* A live worker is the registered one and no other has a claim on its files,
\* however late the callback of a former worker comes.
THEOREM AlwaysTracked == Spec => []Tracked
<1>1. IInv => Tracked
  BY DEF IInv, Owned, Running, Tracked
<1>. QED  BY <1>1, Invariance, PTL

\* A run whose stop is over has no worker and no session, and the status never
\* says STOPPED or BACKOFF over an open one.
THEOREM StopIsTrue == Spec => []StopTruth
<1>1. IInv => StopTruth
  BY DEF IInv, Over, Sessions, Truthful, StopTruth
<1>. QED  BY <1>1, Invariance, PTL

\* A request reported as completed was made before a poll began that has ended.
THEOREM AlwaysFresh == Spec => []ServedFresh
<1>1. IInv => ServedFresh
  BY DEF IInv, Numbered, ServedFresh
<1>. QED  BY <1>1, Invariance, PTL
=============================================================================
