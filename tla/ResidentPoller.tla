--------------------------- MODULE ResidentPoller ---------------------------
(***************************************************************************)
(* services/ac/mesh_link_resident_polling_service.py: the resident worker  *)
(* that keeps one session to a controller for an unattended run.           *)
(*                                                                         *)
(* The supervisor's thread calls ensure_poller on every tick of the run    *)
(* and request_stop_run when the run ends; API threads ask for an          *)
(* immediate poll; a user may cancel the task.  Service and worker talk    *)
(* through two files: control.json, written by the service only, and       *)
(* status.json, written by the service before the worker is started and    *)
(* by the worker afterwards.                                               *)
(*                                                                         *)
(* One site, run and controller.  The process host is seen as in TaskHost: *)
(* the record of a task is closed after its process is gone, then the      *)
(* completion callback is made, then the job is done.  Times, counters and *)
(* messages are left out: a poll may be due, and a wait over, at any time. *)
(***************************************************************************)
EXTENDS Naturals

CONSTANTS
  Tasks,        \* task ids, each used once
  NONE,
  MaxRequest,   \* bound: immediate polls asked for
  MaxFault,     \* bound: failed starts, connections, polls, reads and writes
  MaxRestart    \* bound: restarts of the backend

ASSUME PollerConstants ==
  /\ NONE \notin Tasks
  /\ MaxRequest \in Nat /\ MaxFault \in Nat /\ MaxRestart \in Nat

VARIABLES
  phase,            \* the run, as the supervisor sees it
  sup,              \* the step of the supervisor's thread
  new,              \* the task ensure_poller is starting
  waited,           \* the task request_stop_run waits for
  active,           \* _active of the service, NONE when empty
  control_task, control_stop, control_request,   \* control.json
  status_task, status_state,                     \* status.json
  job,              \* [Tasks -> the state of record, process and host]
  cancel,           \* [Tasks -> BOOLEAN]: cancel_job was called
  pc,               \* [Tasks -> the step of execute]
  conn,             \* [Tasks -> BOOLEAN]: the session is open
  tried,            \* [Tasks -> BOOLEAN]: it has connected or failed to
  normal,           \* [Tasks -> BOOLEAN]: stopped_normally
  immediate,        \* [Tasks -> immediate_request_id read last, 0 for none]
  completed,        \* [Tasks -> completed_request_id, 0 for none]
  begun, polled,    \* history: requests made when a poll began, and when the
                    \* last poll that ended had begun
  requests, faults, restarts

service == <<phase, sup, new, waited, active>>
control == <<control_task, control_stop, control_request>>
status == <<status_task, status_state>>
host == <<job, cancel>>
locals == <<conn, tried, normal, immediate, completed, begun, polled>>
bounds == <<requests, faults, restarts>>
vars == <<service, control, status, host, pc, locals, bounds>>

Phases == {"running", "stopping", "stopped", "failed"}
EnsureSteps == {"control", "status", "start"}
StopSteps == {"wait", "force", "last"}
SupSteps == {"idle"} \cup EnsureSteps \cup StopSteps
Jobs == {"none", "live", "exited", "closed", "done"}
ConnectionStates == {"NONE", "CONNECTING", "CONNECTED", "POLLING", "WAITING", "RECONNECTING",
                     "BACKOFF", "STOPPING", "STOPPED", "FAILED"}
Steps == {"loop", "connect", "alive", "wait", "poll", "mark", "close", "report", "end", "hung"}

\* The task has an active row, and is_running holds of its job.
Running(t) == job[t] \in {"live", "exited"}

Init ==
  /\ phase = "running" /\ sup = "idle" /\ new = NONE /\ waited = NONE /\ active = NONE
  /\ control_task = NONE /\ control_stop = FALSE /\ control_request = 0
  /\ status_task = NONE /\ status_state = "NONE"
  /\ job = [t \in Tasks |-> "none"] /\ cancel = [t \in Tasks |-> FALSE]
  /\ pc = [t \in Tasks |-> "loop"]
  /\ conn = [t \in Tasks |-> FALSE] /\ tried = [t \in Tasks |-> FALSE]
  /\ normal = [t \in Tasks |-> FALSE]
  /\ immediate = [t \in Tasks |-> 0] /\ completed = [t \in Tasks |-> 0]
  /\ begun = [t \in Tasks |-> 0] /\ polled = [t \in Tasks |-> 0]
  /\ requests = 0 /\ faults = 0 /\ restarts = 0

Fault == faults < MaxFault /\ faults' = faults + 1 /\ UNCHANGED <<requests, restarts>>

-----------------------------------------------------------------------------
(* The application service.  ensure_poller holds self._lock from the look  *)
(* at _active to the end; the other methods hold it for one step.          *)

Locked == sup \in EnsureSteps

\* _active_snapshot finds a task whose row is active and whose job runs.
HasActive == active # NONE /\ Running(active)

\* uuid4: the id of a new task was never used.
Unused == {t \in Tasks : job[t] = "none"}
Fresh == CHOOSE t \in Tasks : job[t] = "none"

\* _update_control writes the values it is given over what _read_json finds.  A
\* file that cannot be read (~ok) has no fields: the others are gone.
UpdateControl(ok, stop, request) ==
  /\ control_stop' = stop /\ control_request' = request
  /\ IF ok THEN UNCHANGED <<control_task, faults>>
     ELSE faults < MaxFault /\ faults' = faults + 1 /\ control_task' = NONE

\* Faulty variant: the control file is written anew for a worker that runs.
EnsureRunningAnew(ok) ==
  /\ phase = "running" /\ sup = "idle"
  /\ HasActive
  /\ UpdateControl(ok, FALSE, 0)
  /\ UNCHANGED <<service, status, host, pc, locals, requests, restarts>>

EnsureRunning(ok) ==
  /\ phase = "running" /\ sup = "idle"
  /\ HasActive
  /\ UpdateControl(ok, FALSE, IF ok THEN control_request ELSE 0)
  /\ UNCHANGED <<service, status, host, pc, locals, requests, restarts>>

EnsureStarts ==
  /\ phase = "running" /\ sup = "idle"
  /\ ~HasActive
  /\ Unused # {}
  /\ sup' = "control" /\ new' = Fresh /\ active' = NONE
  /\ UNCHANGED <<phase, waited, control, status, host, pc, locals, bounds>>

WriteControl ==
  /\ sup = "control"
  /\ control_task' = new /\ control_stop' = FALSE /\ control_request' = 0
  /\ sup' = "status"
  /\ UNCHANGED <<phase, new, waited, active, status, host, pc, locals, bounds>>

WriteStatus ==
  /\ sup = "status"
  /\ status_task' = new /\ status_state' = "CONNECTING"
  /\ sup' = "start"
  /\ UNCHANGED <<phase, new, waited, active, control, host, pc, locals, bounds>>

StartJob ==
  /\ sup = "start"
  /\ active' = new /\ job' = [job EXCEPT ![new] = "live"]
  /\ sup' = "idle" /\ new' = NONE
  /\ UNCHANGED <<phase, waited, control, status, cancel, pc, locals, bounds>>

\* start_job raises: the entry is taken back and the status, as far as it can
\* be read, says FAILED.
StartFails ==
  /\ sup = "start"
  /\ Fault
  /\ job' = [job EXCEPT ![new] = "done"]
  /\ status_task' \in {status_task, NONE} /\ status_state' = "FAILED"
  /\ sup' = "idle" /\ new' = NONE
  /\ UNCHANGED <<phase, waited, active, control, cancel, pc, locals>>

RequestImmediate(ok) ==
  /\ ~Locked /\ HasActive
  /\ requests < MaxRequest
  /\ requests' = requests + 1
  /\ UpdateControl(ok, ok /\ control_stop, requests')
  /\ UNCHANGED <<service, status, host, pc, locals, restarts>>

\* A request that finds the task over drops the entry.
RequestDrops ==
  /\ ~Locked /\ active # NONE /\ ~HasActive
  /\ active' = NONE
  /\ UNCHANGED <<phase, sup, new, waited, control, status, host, pc, locals, bounds>>

\* The run ends: the window closes, or a user stops it.
EndRun ==
  /\ phase = "running" /\ sup = "idle"
  /\ phase' = "stopping"
  /\ UNCHANGED <<sup, new, waited, active, control, status, host, pc, locals, bounds>>

\* request_stop_run: with nothing in _active there is nothing to stop.
NothingToStop ==
  /\ phase = "stopping" /\ sup = "idle" /\ active = NONE
  /\ phase' = "stopped"
  /\ UNCHANGED <<sup, new, waited, active, control, status, host, pc, locals, bounds>>

RequestStop(ok) ==
  /\ phase = "stopping" /\ sup = "idle" /\ active # NONE
  /\ UpdateControl(ok, TRUE, IF ok THEN control_request ELSE 0)
  /\ waited' = active /\ sup' = "wait"
  /\ UNCHANGED <<phase, new, active, status, host, pc, locals, requests, restarts>>

Stopped(from) ==
  /\ sup = from /\ job[waited] = "done"
  /\ phase' = "stopped" /\ sup' = "idle" /\ waited' = NONE
  /\ UNCHANGED <<new, active, control, status, host, pc, locals, bounds>>

\* Faulty variant: the wait is taken up again when its time is over.
StopWaitsAgain ==
  /\ sup = "wait" /\ job[waited] # "done"
  /\ UNCHANGED vars

\* The 25 seconds are over.
StopTimesOut ==
  /\ sup = "wait" /\ job[waited] # "done"
  /\ sup' = "force"
  /\ UNCHANGED <<phase, new, waited, active, control, status, host, pc, locals, bounds>>

\* A process is gone, and with it its memory and its session.
Forget(dead) ==
  /\ cancel' = [t \in Tasks |-> cancel[t] /\ t \notin dead]
  /\ pc' = [t \in Tasks |-> IF t \in dead THEN "loop" ELSE pc[t]]
  /\ conn' = [t \in Tasks |-> conn[t] /\ t \notin dead]
  /\ tried' = [t \in Tasks |-> tried[t] /\ t \notin dead]
  /\ normal' = [t \in Tasks |-> normal[t] /\ t \notin dead]
  /\ immediate' = [t \in Tasks |-> IF t \in dead THEN 0 ELSE immediate[t]]
  /\ completed' = [t \in Tasks |-> IF t \in dead THEN 0 ELSE completed[t]]
  /\ begun' = [t \in Tasks |-> IF t \in dead THEN 0 ELSE begun[t]]
  /\ polled' = [t \in Tasks |-> IF t \in dead THEN 0 ELSE polled[t]]

Dies(t) == job' = [job EXCEPT ![t] = "exited"] /\ Forget({t})

\* force_stop_job: the process tree is killed, unless the host is through.
ForceStop ==
  /\ sup = "force"
  /\ sup' = "last"
  /\ IF job[waited] = "live" THEN Dies(waited) ELSE UNCHANGED <<host, pc, locals>>
  /\ UNCHANGED <<phase, new, waited, active, control, status, bounds>>

\* The last second is over: the stop is reported as failed and the run ends
\* with that failure; nobody tries again.
StopFails ==
  /\ sup = "last" /\ job[waited] # "done"
  /\ phase' = "failed" /\ sup' = "idle" /\ waited' = NONE
  /\ UNCHANGED <<new, active, control, status, host, pc, locals, bounds>>

\* cancel_task, for a user who stops the task in the task center.
CancelTask(t) ==
  /\ job[t] = "live" /\ ~cancel[t]
  /\ cancel' = [cancel EXCEPT ![t] = TRUE]
  /\ UNCHANGED <<service, control, status, job, pc, locals, bounds>>

-----------------------------------------------------------------------------
(* The process host.                                                       *)

\* A worker that does not follow a cancel in its grace time is killed.
KillCancelled(t) ==
  /\ job[t] = "live" /\ cancel[t]
  /\ Dies(t)
  /\ UNCHANGED <<service, control, status, bounds>>

CloseRecord(t) ==
  /\ job[t] = "exited"
  /\ job' = [job EXCEPT ![t] = "closed"]
  /\ UNCHANGED <<service, control, status, cancel, pc, locals, bounds>>

\* Faulty variant: the callback empties the entry whoever it is about.
NotifyAny(t) ==
  /\ job[t] = "closed" /\ ~Locked
  /\ active' = NONE
  /\ job' = [job EXCEPT ![t] = "done"]
  /\ UNCHANGED <<phase, sup, new, waited, control, status, cancel, pc, locals, bounds>>

\* The callback _complete takes the lock; only then is the job done.
Notify(t) ==
  /\ job[t] = "closed" /\ ~Locked
  /\ active' = IF active = t THEN NONE ELSE active
  /\ job' = [job EXCEPT ![t] = "done"]
  /\ UNCHANGED <<phase, sup, new, waited, control, status, cancel, pc, locals, bounds>>

\* The backend ends and is started again: job objects end its workers and
\* the orphans' records are closed before the supervisor goes on.
Restart ==
  /\ restarts < MaxRestart
  /\ restarts' = restarts + 1
  /\ job' = [t \in Tasks |-> IF job[t] # "none" \/ t = new THEN "done" ELSE "none"]
  /\ Forget(Tasks)
  /\ sup' = "idle" /\ new' = NONE /\ waited' = NONE /\ active' = NONE
  /\ UNCHANGED <<phase, control, status, requests, faults>>

-----------------------------------------------------------------------------
(* The worker: execute.                                                    *)

At(t, step) == job[t] = "live" /\ pc[t] = step

Goto(t, from, to) == At(t, from) /\ pc' = [pc EXCEPT ![t] = to]

\* _publish stores the worker's own state.
Publish(t, s) == status_task' = t /\ status_state' = s

\* Nothing outside the worker changes but status.json.
Alone == UNCHANGED <<service, control, host>>

\* check_cancelled raises, at the top of the loop, in a wait or between two
\* commands of a poll.
Cancelled(t, from) ==
  /\ Goto(t, from, "close")
  /\ cancel[t]
  /\ Publish(t, "STOPPING")
  /\ Alone /\ UNCHANGED <<locals, bounds>>

\* stop_requested is read, at the top of the loop or in a wait.
SeesStop(t, from) ==
  /\ Goto(t, from, "close")
  /\ ~cancel[t] /\ control_stop
  /\ Publish(t, "STOPPING")
  /\ normal' = [normal EXCEPT ![t] = TRUE]
  /\ Alone /\ UNCHANGED <<conn, tried, immediate, completed, begun, polled, bounds>>

\* The rest of the top of the loop, with the request that was read.
GoOn(t, request) ==
  /\ Goto(t, "loop", IF conn[t] THEN "alive" ELSE "connect")
  /\ ~cancel[t]
  /\ immediate' = [immediate EXCEPT ![t] = request]
  /\ IF conn[t] THEN UNCHANGED status
     ELSE Publish(t, IF tried[t] THEN "RECONNECTING" ELSE "CONNECTING")
  /\ Alone /\ UNCHANGED <<conn, tried, normal, completed, begun, polled>>

ReadControl(t) == ~control_stop /\ GoOn(t, control_request) /\ UNCHANGED bounds

\* control.json cannot be read: _read_json returns no fields.
MissControl(t) == Fault /\ GoOn(t, 0)

Connect(t) ==
  /\ Goto(t, "connect", "alive")
  /\ conn' = [conn EXCEPT ![t] = TRUE] /\ tried' = [tried EXCEPT ![t] = TRUE]
  /\ Publish(t, "CONNECTED")
  /\ Alone /\ UNCHANGED <<normal, immediate, completed, begun, polled, bounds>>

ConnectFails(t) ==
  /\ Goto(t, "connect", "wait")
  /\ Fault
  /\ tried' = [tried EXCEPT ![t] = TRUE]
  /\ Publish(t, "BACKOFF")
  /\ Alone /\ UNCHANGED <<conn, normal, immediate, completed, begun, polled>>

\* The controller or its credentials are not usable: the worker gives up.
ConfigInvalid(t) ==
  /\ Goto(t, "connect", "close")
  /\ Fault
  /\ Publish(t, "FAILED")
  /\ Alone /\ UNCHANGED locals

\* _connection_alive says no, or a command of a poll fails.
Disconnected(t, from) ==
  /\ Goto(t, from, "loop")
  /\ Fault
  /\ conn' = [conn EXCEPT ![t] = FALSE]
  /\ Publish(t, "RECONNECTING")
  /\ Alone /\ UNCHANGED <<tried, normal, immediate, completed, begun, polled>>

\* immediate_due.
Asked(t, request) == request # 0 /\ request # completed[t]

StartPoll(t) ==
  /\ Goto(t, "alive", "poll")
  /\ begun' = [begun EXCEPT ![t] = requests]
  /\ Publish(t, "POLLING")
  /\ Alone /\ UNCHANGED <<conn, tried, normal, immediate, completed, polled, bounds>>

\* The next poll is not due.
Wait(t) ==
  /\ Goto(t, "alive", "wait")
  /\ ~Asked(t, immediate[t])
  /\ Publish(t, "WAITING")
  /\ Alone /\ UNCHANGED <<locals, bounds>>

\* The time is over or a request is there.
WaitEnds(t) ==
  /\ Goto(t, "wait", "loop")
  /\ ~cancel[t] /\ ~control_stop
  /\ Alone /\ UNCHANGED <<status, locals, bounds>>

\* A snapshot is stored, or the output cannot be parsed or stored: either way
\* the poll is over and the session is kept.
PollEnds(t) ==
  /\ Goto(t, "poll", "mark")
  /\ polled' = [polled EXCEPT ![t] = begun[t]]
  /\ Alone /\ UNCHANGED <<status, conn, tried, normal, immediate, completed, begun, bounds>>

\* Faulty variant: the request found after the poll is the one the poll has served.
MarkLatest(t, request) ==
  /\ Goto(t, "mark", "loop")
  /\ completed' = [completed EXCEPT ![t] = IF request # 0 THEN request ELSE completed[t]]
  /\ Publish(t, "WAITING")
  /\ Alone /\ UNCHANGED <<conn, tried, normal, immediate, begun, polled>>

\* control.json is read again: a request that is still there is completed.
Mark(t, request) ==
  /\ Goto(t, "mark", "loop")
  /\ completed' = [completed EXCEPT ![t] =
       IF immediate[t] # 0 /\ request = immediate[t] THEN request ELSE completed[t]]
  /\ Publish(t, "WAITING")
  /\ Alone /\ UNCHANGED <<conn, tried, normal, immediate, begun, polled>>

MarkRead(t) == Mark(t, control_request) /\ UNCHANGED bounds
MarkMissed(t) == Fault /\ Mark(t, 0)

\* Faulty variant: the session is left to the end of the process.
CloseLater(t) ==
  /\ Goto(t, "close", IF normal[t] THEN "report" ELSE "end")
  /\ Alone /\ UNCHANGED <<status, locals, bounds>>

\* The finally clause: the session is closed first, a normal stop reported then.
Close(t) ==
  /\ Goto(t, "close", IF normal[t] THEN "report" ELSE "end")
  /\ conn' = [conn EXCEPT ![t] = FALSE]
  /\ Alone /\ UNCHANGED <<status, tried, normal, immediate, completed, begun, polled, bounds>>

Report(t) ==
  /\ Goto(t, "report", "end")
  /\ Publish(t, "STOPPED")
  /\ Alone /\ UNCHANGED <<locals, bounds>>

\* Any other exception, such as a status.json that cannot be replaced.
Raises(t) ==
  /\ job[t] = "live" /\ pc[t] \notin {"close", "end", "hung"}
  /\ Fault
  /\ pc' = [pc EXCEPT ![t] = IF pc[t] = "report" THEN "end" ELSE "close"]
  /\ Alone /\ UNCHANGED <<status, locals>>

\* A connection or a command that never returns.
Hangs(t) ==
  /\ job[t] = "live" /\ pc[t] \in {"connect", "poll"}
  /\ Fault
  /\ pc' = [pc EXCEPT ![t] = "hung"]
  /\ Alone /\ UNCHANGED <<status, locals>>

Exit(t) ==
  /\ At(t, "end")
  /\ Dies(t)
  /\ UNCHANGED <<service, control, status, bounds>>

-----------------------------------------------------------------------------
Supervise ==
  \/ EnsureRunning(TRUE) \/ EnsureStarts
  \/ WriteControl \/ WriteStatus \/ StartJob \/ StartFails
  \/ NothingToStop \/ RequestStop(TRUE) \/ Stopped("wait") \/ Stopped("last")
  \/ StopTimesOut \/ ForceStop \/ StopFails

\* The same updates over a control.json that cannot be read.
Forgets == EnsureRunning(FALSE) \/ RequestStop(FALSE)

Host(t) == KillCancelled(t) \/ CloseRecord(t) \/ Notify(t)

Work(t) ==
  \/ \E s \in {"loop", "wait", "poll"} : Cancelled(t, s)
  \/ \E s \in {"loop", "wait"} : SeesStop(t, s)
  \/ ReadControl(t) \/ Connect(t) \/ ConnectFails(t)
  \/ StartPoll(t) \/ Wait(t) \/ WaitEnds(t)
  \/ PollEnds(t) \/ MarkRead(t)
  \/ Close(t) \/ Report(t) \/ Exit(t)

Fails(t) ==
  \/ MissControl(t) \/ MarkMissed(t) \/ ConfigInvalid(t)
  \/ (\E s \in {"alive", "poll"} : Disconnected(t, s))
  \/ Raises(t) \/ Hangs(t)

Next ==
  \/ Supervise \/ Forgets \/ RequestDrops \/ EndRun \/ Restart
  \/ \E ok \in BOOLEAN : RequestImmediate(ok)
  \/ \E t \in Tasks : CancelTask(t) \/ Host(t) \/ Work(t) \/ Fails(t)

Spec == Init /\ [][Next]_vars

\* The supervisor's thread, the host and a worker that does not hang go on.
\* Nothing makes a run end, a user ask or cancel, or anything fail.
FairSpec ==
  /\ Spec
  /\ WF_vars(Supervise)
  /\ \A t \in Tasks : WF_vars(Host(t)) /\ WF_vars(Work(t))

-----------------------------------------------------------------------------
\* Types of the service's fields, the two files and the workers' locals.
TypeOK ==
  /\ phase \in Phases /\ sup \in SupSteps
  /\ new \in Tasks \cup {NONE} /\ waited \in Tasks \cup {NONE} /\ active \in Tasks \cup {NONE}
  /\ control_task \in Tasks \cup {NONE} /\ control_stop \in BOOLEAN /\ control_request \in Nat
  /\ status_task \in Tasks \cup {NONE} /\ status_state \in ConnectionStates
  /\ job \in [Tasks -> Jobs] /\ cancel \in [Tasks -> BOOLEAN] /\ pc \in [Tasks -> Steps]
  /\ conn \in [Tasks -> BOOLEAN] /\ tried \in [Tasks -> BOOLEAN] /\ normal \in [Tasks -> BOOLEAN]
  /\ immediate \in [Tasks -> Nat] /\ completed \in [Tasks -> Nat]
  /\ begun \in [Tasks -> Nat] /\ polled \in [Tasks -> Nat]
  /\ requests \in Nat /\ faults \in Nat /\ restarts \in Nat

\* A worker that lives is the one registered in _active, so that a stop finds
\* it, and both files are its own or, for a control.json rewritten from
\* nothing, nobody's: there is never a second worker of the run, and a late
\* callback or a late write of a former one takes nothing from it.
Tracked ==
  \A t \in Tasks :
    job[t] = "live" => active = t /\ control_task \in {t, NONE} /\ status_task = t

\* After request_stop_run, successful or not, no worker is left and no session
\* is open; and a status that says STOPPED or BACKOFF is true.
StopTruth ==
  /\ phase \in {"stopped", "failed"} => \A t \in Tasks : job[t] # "live" /\ ~conn[t]
  /\ status_state \in {"STOPPED", "BACKOFF"} => \A t \in Tasks : ~conn[t]

\* A request reported as completed was made before a poll began that has ended
\* since: a poll already under way never answers it.  The poll may have failed;
\* then the request is completed all the same, with the old snapshot.
ServedFresh == \A t \in Tasks : completed[t] <= polled[t]

\* A stop that has begun ends, with a worker that hangs as well, and the task's
\* record is closed then: the callback that closes it never waits for the stop.
StopEnds ==
  phase = "stopping" ~>
    phase \in {"stopped", "failed"} /\ \A t \in Tasks : job[t] \in {"none", "done"}

\* A request is completed, unless a later one or a stop takes its place or the
\* worker ends or hangs.  An update of control.json loses it only with the rest
\* of the file, the task id included, after a read that failed.
RequestServed ==
  \A r \in 1..MaxRequest :
    control_request = r ~>
      \/ (\E t \in Tasks : completed[t] = r) \/ control_request > r \/ control_stop
      \/ \A t \in Tasks : job[t] # "live" \/ pc[t] = "hung"
      \/ control_request = 0 /\ control_task = NONE
=============================================================================
