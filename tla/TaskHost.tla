------------------------------ MODULE TaskHost ------------------------------
(***************************************************************************)
(* The host of one local task: the record TaskRuntime keeps of it and the  *)
(* threads LocalProcessAdapter runs around its worker process.             *)
(*                                                                         *)
(* A starter prepares the task, spawns the worker and starts two pipe      *)
(* readers and a waiter.  A cancel, a forced stop, a corrupt frame and the *)
(* shutdown of the backend each have a thread of their own that presses    *)
(* the worker to end.  Whoever claims the finalization first reports the   *)
(* completion.  _service_lock makes the calls into the runtime atomic,     *)
(* except those of the API and of begin_shutdown, which do not take it.    *)
(* A timed wait may run out at any moment.                                 *)
(***************************************************************************)
EXTENDS Naturals, Sequences

CONSTANTS MaxFrames,  \* bound: frames the worker writes to each stream
          Binds,      \* the outcomes of binding the process tree to a job object
          Damage,     \* the kinds of damaged frames the worker may write
          Callers     \* bound: the calls that may be made to end the job

ASSUME FramesAssumption == MaxFrames \in Nat
ASSUME BindsAssumption == Binds \subseteq BOOLEAN /\ Binds # {}
ASSUME DamageAssumption == Damage \subseteq {"corrupt", "torn"}
ASSUME CallersAssumption == Callers \subseteq {"api", "cancel", "stop", "shut"}

VARIABLES
  \* the runtime record
  record,     \* "none", "open" (in TaskRuntime._tasks) or "closed" (_finish ran)
  rstate,     \* task.state
  cancelReq,  \* task.cancel_requested
  corrupted,  \* task.protocol_error_reason is set
  report,     \* task.terminal_event
  decision,   \* the status complete has decided on and not published yet
  verdict,    \* the terminal status published last
  closes,     \* how many terminal statuses were published
  rtClosing,  \* TaskRuntime._closing
  \* the worker
  proc,       \* "none", "up" or "gone"
  exit,       \* its exit code
  child,      \* a descendant of the worker is alive and holds its pipes
  written,    \* written[s]: the frames written to stream s
  got,        \* got[s]: how many of them the reader has taken
  bound,      \* the process tree is bound to a job object
  treeClosed, \* process_tree_closed
  \* the adapter
  starter, reader, waiter,   \* start_job, the pipe readers, _wait_for_process
  press,      \* press[th]: how far the thread th that ends the worker has come
  api,        \* an API thread in TaskApplicationService.cancel_task
  inStates,   \* the job is in _states
  scheduled,  \* cancel_scheduled
  finalizer,  \* who claimed the finalization ("none": not finalized)
  done,       \* the done event
  notified,   \* completion callbacks so far
  closing,    \* LocalProcessAdapter._closing
  covered     \* the job is in the snapshot shutdown works on

runtime == <<record, rstate, cancelReq, corrupted, report, decision, verdict,
             closes, rtClosing>>
worker == <<proc, exit, child, written, got, bound, treeClosed>>
threads == <<starter, reader, waiter, press, api>>
adapter == <<inStates, scheduled, finalizer, done, notified, closing, covered>>
vars == <<runtime, worker, threads, adapter>>

Streams == {"out", "err"}
\* Terminal frames: finished with the terminal state it names, error, cancelled.
Finished == {"COMPLETED", "FAILED", "CANCELLED"}
Reports == Finished \cup {"error", "cancelled"}
\* A corrupt frame stands for undecodable, oversized, malformed or misdirected;
\* a torn one has no line end, and is the last thing the worker writes.
FramesOf == [s \in Streams |->
               {"progress"} \cup Damage \cup IF s = "out" THEN Reports ELSE {}]
Frames == Reports \cup {"progress", "corrupt", "torn"}

\* The threads that end the worker: cancel_job, force_stop_job, shutdown and
\* the one started for a broken protocol.
Pressers == {"cancel", "stop", "shut", "fatal"}

Init ==
  /\ record = "none" /\ rstate = "PENDING" /\ cancelReq = FALSE
  /\ corrupted = FALSE /\ report = "none"
  /\ decision = "none" /\ verdict = "none" /\ closes = 0 /\ rtClosing = FALSE
  /\ proc = "none" /\ exit = 0 /\ child = FALSE
  /\ written = [s \in Streams |-> <<>>] /\ got = [s \in Streams |-> 0]
  /\ bound = FALSE /\ treeClosed = FALSE
  /\ starter = "idle" /\ reader = [s \in Streams |-> "none"]
  /\ waiter = "none" /\ press = [th \in Pressers |-> "none"] /\ api = "none"
  /\ inStates = FALSE /\ scheduled = FALSE /\ finalizer = "none"
  /\ done = FALSE /\ notified = 0 /\ closing = FALSE /\ covered = FALSE

-----------------------------------------------------------------------------
(* The runtime.                                                            *)

\* _service_lock: held by the waiter while complete is under way.
ServiceFree == waiter # "completing"

\* request_cancel, as one step where the lock is held around it.
RequestCancel ==
  IF record = "open"
  THEN cancelReq' = TRUE /\ rstate' = "STOPPING"
  ELSE UNCHANGED <<cancelReq, rstate>>

\* The terminal state event, then _finish.
CloseRecord(s) ==
  /\ record' = "closed"
  /\ verdict' = s
  /\ closes' = closes + 1

\* fail_start.
FailStart ==
  IF record = "open"
  THEN CloseRecord(IF cancelReq' THEN "CANCELLED" ELSE "FAILED")
  ELSE UNCHANGED <<record, verdict, closes>>

\* What is left in the stdout or stderr decoder when the pipe ends.
TornTail == \E s \in Streams : /\ written[s] # <<>>
                               /\ got[s] = Len(written[s])
                               /\ written[s][got[s]] = "torn"

\* complete: the terminal status from the protocol error, the reported
\* event, the exit code and the cancel flag.
Decide ==
  IF corrupted \/ TornTail THEN "FAILED"
  ELSE IF report = "cancelled" THEN "CANCELLED"
  ELSE IF report = "error" THEN "FAILED"
  ELSE IF report \in Finished /\ exit = 0 THEN report
  ELSE IF cancelReq THEN "CANCELLED" ELSE "FAILED"

-----------------------------------------------------------------------------
(* Starting a job.                                                         *)

\* task_service.prepare: refused once the runtime is closing.
Prepare ==
  /\ starter = "idle"
  /\ ~rtClosing
  /\ ServiceFree
  /\ record' = "open"
  /\ rstate' = "STARTING"
  /\ starter' = "prepared"
  /\ UNCHANGED <<cancelReq, corrupted, report, decision, verdict, closes,
                 rtClosing, worker, reader, waiter, press, api, adapter>>

\* Popen raises, or the bootstrap cannot be written and the process is
\* stopped again: fail_start.
StartFails ==
  /\ starter = "prepared"
  /\ ServiceFree
  /\ UNCHANGED cancelReq
  /\ FailStart
  /\ starter' = "failed"
  /\ UNCHANGED <<rstate, corrupted, report, decision, rtClosing, worker,
                 reader, waiter, press, api, adapter>>

\* _start_process (Popen, then the bootstrap written to the worker's stdin) and
\* the _bind_process_tree that follows it, as one step: the job is in no table
\* yet, so no other thread sees it in between.  A failure of one of the first
\* two is StartFails, and of the binding a tree that is not bound.
StartProcess ==
  /\ starter = "prepared"
  /\ proc' = "up"
  /\ bound' \in Binds
  /\ starter' = "spawned"
  /\ UNCHANGED <<runtime, exit, child, written, got, treeClosed, reader,
                 waiter, press, api, adapter>>

\* mark_running; it may also raise, and the worker is then stopped.
MarkRunning ==
  /\ starter = "spawned"
  /\ ServiceFree
  /\ \/ /\ starter' = "marked"
        /\ rstate' = IF record = "open" /\ rstate = "STARTING"
                     THEN "RUNNING" ELSE rstate
     \/ starter' = "unmonitored" /\ UNCHANGED rstate
  /\ UNCHANGED <<record, cancelReq, corrupted, report, decision, verdict,
                 closes, rtClosing, worker, reader, waiter, press, api, adapter>>

\* Under _state_lock: unless the adapter is closing, enter _states and start
\* the readers and the waiter; if a thread cannot be started, leave again.
Register ==
  /\ starter = "marked"
  /\ \/ /\ ~closing
        /\ inStates' = TRUE
        /\ starter' = "started"
        /\ reader' = [s \in Streams |-> "reading"]
        /\ waiter' = "waiting"
     \/ /\ starter' = IF closing THEN "rejected" ELSE "unmonitored"
        /\ UNCHANGED <<inStates, reader, waiter>>
  /\ UNCHANGED <<runtime, worker, press, api,
                 scheduled, finalizer, done, notified, closing, covered>>

\* _stop_process_now, request_cancel when shutdown is the reason, fail_start.
Reject ==
  /\ starter \in {"rejected", "unmonitored"}
  /\ ServiceFree
  /\ proc' = "gone"
  /\ child' = (child /\ ~bound)
  /\ exit' = IF proc = "up" THEN 1 ELSE exit
  /\ IF starter = "rejected" THEN RequestCancel
     ELSE UNCHANGED <<cancelReq, rstate>>
  /\ FailStart
  /\ done' = TRUE
  /\ starter' = "failed"
  /\ UNCHANGED <<corrupted, report, decision, rtClosing, written, got, bound,
                 treeClosed, reader, waiter, press,
                 api, inStates, scheduled, finalizer, notified, closing,
                 covered>>

-----------------------------------------------------------------------------
(* The worker, seen from outside.                                          *)

Write(s, f) ==
  /\ proc = "up"
  /\ Len(written[s]) < MaxFrames
  /\ f \in FramesOf[s]
  /\ written[s] # <<>> => written[s][Len(written[s])] # "torn"
  /\ written' = [written EXCEPT ![s] = Append(@, f)]
  /\ UNCHANGED <<runtime, proc, exit, child, got, bound, treeClosed, threads,
                 adapter>>

SpawnChild ==
  /\ proc = "up"
  /\ child' = TRUE
  /\ UNCHANGED <<runtime, proc, exit, written, got, bound, treeClosed, threads,
                 adapter>>

WorkerExits ==
  /\ proc = "up"
  /\ proc' = "gone"
  /\ exit' \in {0, 1}
  /\ UNCHANGED <<runtime, child, written, got, bound, treeClosed, threads,
                 adapter>>

ChildExits ==
  /\ child
  /\ child' = FALSE
  /\ UNCHANGED <<runtime, proc, exit, written, got, bound, treeClosed, threads,
                 adapter>>

\* Closing the job object kills whatever is left of a bound tree, once.
TreeDies == bound /\ ~treeClosed

CloseTree ==
  /\ treeClosed' = TRUE
  /\ child' = (child /\ ~TreeDies)
  /\ proc' = IF TreeDies /\ proc = "up" THEN "gone" ELSE proc
  /\ exit' = IF TreeDies /\ proc = "up" THEN 1 ELSE exit

\* _terminate_process: the worker may outlive it; _kill_process: it does not.
Terminate ==
  /\ \/ UNCHANGED <<proc, exit>>
     \/ proc = "up" /\ proc' = "gone" /\ exit' = 1
  /\ UNCHANGED <<child, treeClosed>>

Kill ==
  /\ treeClosed' = TRUE
  /\ child' = (child /\ ~TreeDies)
  /\ proc' = "gone"
  /\ exit' = IF proc = "up" THEN 1 ELSE exit

-----------------------------------------------------------------------------
(* The pipe readers.                                                       *)

PipesClosed == finalizer = "fatal" /\ press["fatal"] \in {"settled", "notified", "gone"}
AtEnd(s) == got[s] = Len(written[s])
\* The reader sits in a read, holding the lock of the buffered pipe.
Blocked(s) == reader[s] = "reading" /\ AtEnd(s) /\ (proc = "up" \/ child)

\* feed_stdout, feed_stderr: nothing is looked at once the protocol is broken.
Read(s) ==
  /\ reader[s] = "reading"
  /\ ~AtEnd(s)
  /\ ~PipesClosed
  /\ ServiceFree
  /\ got' = [got EXCEPT ![s] = @ + 1]
  /\ LET f == written[s][got[s] + 1]
         heard == record = "open" /\ ~corrupted IN
     /\ corrupted' = (corrupted \/ (heard /\ f = "corrupt"))
     /\ report' = IF heard /\ f \in Reports THEN f ELSE report
     /\ reader' = [reader EXCEPT ![s] = IF heard /\ f = "corrupt" THEN "fatal" ELSE @]
  /\ UNCHANGED <<record, rstate, cancelReq, decision, verdict, closes, rtClosing,
                 proc, exit, child, written, bound, treeClosed, starter, waiter,
                 press, api, adapter>>

\* End of file: all is read and nobody can write any more; or the pipe was
\* closed under the reader.
ReadEnd(s) ==
  /\ reader[s] = "reading"
  /\ PipesClosed \/ (AtEnd(s) /\ ~Blocked(s))
  /\ reader' = [reader EXCEPT ![s] = "done"]
  /\ UNCHANGED <<runtime, worker, starter, waiter, press, api, adapter>>

\* _schedule_protocol_termination.
ScheduleTermination(s) ==
  /\ reader[s] = "fatal"
  /\ reader' = [reader EXCEPT ![s] = "done"]
  /\ press' = [press EXCEPT !["fatal"] =
                 IF inStates /\ ~done /\ @ = "none" THEN "ready" ELSE @]
  /\ UNCHANGED <<runtime, worker, starter, waiter, api, adapter>>

-----------------------------------------------------------------------------
(* Finalization: _claim_finalization, _notify_completion, _remove_state.   *)

RemoveState ==
  /\ CloseTree
  /\ inStates' = FALSE
  /\ done' = TRUE

\* The waiter: process.wait, close the tree, join the readers, claim.
WaitExit ==
  /\ waiter = "waiting"
  /\ proc = "gone"
  /\ CloseTree
  /\ waiter' = "joining"
  /\ UNCHANGED <<runtime, written, got, bound, starter, reader, press, api,
                 adapter>>

\* Faulty variants: the waiter does not look at finalized; it does not join
\* the readers.
JoinAndClaimAlways ==
  /\ waiter = "joining"
  /\ \A s \in Streams : reader[s] = "done"
  /\ finalizer' = IF finalizer = "none" THEN "waiter" ELSE finalizer
  /\ waiter' = "claimed"
  /\ UNCHANGED <<runtime, worker, starter, reader, press, api, inStates,
                 scheduled, done, notified, closing, covered>>

JoinAndClaimEarly ==
  /\ waiter = "joining"
  /\ finalizer' = IF finalizer = "none" THEN "waiter" ELSE finalizer
  /\ waiter' = IF finalizer = "none" THEN "claimed" ELSE "gone"
  /\ UNCHANGED <<runtime, worker, starter, reader, press, api, inStates,
                 scheduled, done, notified, closing, covered>>

JoinAndClaim ==
  /\ waiter = "joining"
  /\ \A s \in Streams : reader[s] = "done"
  /\ finalizer' = IF finalizer = "none" THEN "waiter" ELSE finalizer
  /\ waiter' = IF finalizer = "none" THEN "claimed" ELSE "gone"
  /\ UNCHANGED <<runtime, worker, starter, reader, press, api, inStates,
                 scheduled, done, notified, closing, covered>>

\* complete, up to the decision; an API cancel may still come before ...
CompleteDecide ==
  /\ waiter = "claimed"
  /\ decision' = IF record = "open" THEN Decide ELSE "none"
  /\ waiter' = "completing"
  /\ UNCHANGED <<record, rstate, cancelReq, corrupted, report, verdict, closes,
                 rtClosing, worker, starter, reader, press, api, adapter>>

\* ... the status is published and the record closed.
CompleteFinish ==
  /\ waiter = "completing"
  /\ IF decision # "none" THEN CloseRecord(decision)
     ELSE UNCHANGED <<record, verdict, closes>>
  /\ waiter' = "completed"
  /\ UNCHANGED <<rstate, cancelReq, corrupted, report, decision, rtClosing,
                 worker, starter, reader, press, api, adapter>>

WaiterNotify ==
  /\ waiter = "completed"
  /\ notified' = notified + 1
  /\ waiter' = "notified"
  /\ UNCHANGED <<runtime, worker, starter, reader, press, api, inStates,
                 scheduled, finalizer, done, closing, covered>>

WaiterRemove ==
  /\ waiter = "notified"
  /\ RemoveState
  /\ waiter' = "gone"
  /\ UNCHANGED <<runtime, written, got, bound, starter, reader, press, api,
                 scheduled, finalizer, notified, closing, covered>>

-----------------------------------------------------------------------------
(* Ending the worker.                                                      *)

Stoppable == inStates /\ ~done /\ finalizer = "none"
Move(th, to) == press' = [press EXCEPT ![th] = to]

\* cancel_job: only the first caller goes on to request and escalate.
CancelJob ==
  /\ "cancel" \in Callers
  /\ press["cancel"] = "none"
  /\ Stoppable /\ ~scheduled
  /\ scheduled' = TRUE
  /\ Move("cancel", "asked")
  /\ UNCHANGED <<runtime, worker, starter, reader, waiter, api, inStates,
                 finalizer, done, notified, closing, covered>>

\* force_stop_job.
ForceStop ==
  /\ "stop" \in Callers
  /\ press["stop"] = "none"
  /\ Stoppable
  /\ scheduled' = TRUE
  /\ Move("stop", IF scheduled THEN "ready" ELSE "asked")
  /\ UNCHANGED <<runtime, worker, starter, reader, waiter, api, inStates,
                 finalizer, done, notified, closing, covered>>

PressRequest(th) ==
  /\ press[th] = "asked"
  /\ ServiceFree
  /\ RequestCancel
  /\ Move(th, "ready")
  /\ UNCHANGED <<record, corrupted, report, decision, verdict, closes, rtClosing,
                 worker, starter, reader, waiter, api, adapter>>

\* shutdown: the runtime refuses new tasks, every open record is asked to
\* stop, and then the adapter closes and takes the jobs it has to end.
BeginShutdown ==
  /\ "shut" \in Callers
  /\ press["shut"] = "none"
  /\ rtClosing' = TRUE
  /\ Move("shut", "begun")
  /\ UNCHANGED <<record, rstate, cancelReq, corrupted, report, decision, verdict,
                 closes, worker, starter, reader, waiter, api, adapter>>

ShutdownRequest ==
  /\ press["shut"] = "begun"
  /\ RequestCancel
  /\ Move("shut", "requested")
  /\ UNCHANGED <<record, corrupted, report, decision, verdict, closes, rtClosing,
                 worker, starter, reader, waiter, api, adapter>>

ShutdownSnapshot ==
  /\ press["shut"] = "requested"
  /\ closing' = TRUE
  /\ covered' = Stoppable
  /\ Move("shut", IF Stoppable THEN "ready" ELSE "gone")
  /\ UNCHANGED <<runtime, worker, starter, reader, waiter, api, inStates,
                 scheduled, finalizer, done, notified>>

\* The waits between the steps end early when the job is done; the cancel
\* thread also gives up when somebody is finalizing already.
PressLeave(th) ==
  /\ \/ done /\ press[th] \in {"terminated", "killed"}
     \/ done /\ press[th] = "ready" /\ th \in {"cancel", "shut"}
     \/ finalizer # "none" /\ press[th] = "ready" /\ th = "cancel"
  /\ Move(th, "gone")
  /\ UNCHANGED <<runtime, worker, starter, reader, waiter, api, adapter>>

PressTerminate(th) ==
  /\ press[th] = "ready"
  /\ th \in {"cancel", "shut"} => ~done
  /\ th = "cancel" => finalizer = "none"
  /\ Terminate
  /\ Move(th, "terminated")
  /\ UNCHANGED <<runtime, written, got, bound, starter, reader, waiter, api,
                 adapter>>

\* Faulty variant: the escalation forgets to kill.
PressKillSoft(th) ==
  /\ press[th] = "terminated"
  /\ ~done
  /\ Move(th, IF th = "cancel" THEN "gone" ELSE "killed")
  /\ UNCHANGED <<runtime, worker, starter, reader, waiter, api, adapter>>

PressKill(th) ==
  /\ press[th] = "terminated"
  /\ ~done
  /\ Kill
  /\ Move(th, IF th = "cancel" THEN "gone" ELSE "killed")
  /\ UNCHANGED <<runtime, written, got, bound, starter, reader, waiter, api,
                 adapter>>

\* _claim_finalization: the first one to come reports the completion.
PressClaim(th) ==
  /\ press[th] = "killed"
  /\ ~done
  /\ finalizer' = IF finalizer = "none" THEN th ELSE finalizer
  /\ Move(th, IF finalizer = "none" THEN "claimed" ELSE "gone")
  /\ UNCHANGED <<runtime, worker, starter, reader, waiter, api, inStates,
                 scheduled, done, notified, closing, covered>>

\* Faulty variants: the record is not closed; shutdown does not abandon.
AbandonOpen(th) ==
  /\ th \in {"stop", "shut"}
  /\ press[th] = "claimed"
  /\ ServiceFree
  /\ Move(th, "settled")
  /\ UNCHANGED <<runtime, worker, starter, reader, waiter, api, adapter>>

AbandonStopOnly(th) == th = "stop" /\ AbandonOpen(th)

\* _abandon: TaskRuntime.abandon closes the record as CANCELLED.
Abandon(th) ==
  /\ th \in {"stop", "shut"}
  /\ press[th] = "claimed"
  /\ ServiceFree
  /\ IF record = "open"
     THEN CloseRecord("CANCELLED") /\ cancelReq' = TRUE
     ELSE UNCHANGED <<record, verdict, closes, cancelReq>>
  /\ Move(th, "settled")
  /\ UNCHANGED <<rstate, corrupted, report, decision, rtClosing, worker,
                 starter, reader, waiter, api, adapter>>

\* _terminate_protocol_failure only closes the pipes; close waits for a
\* reader that is inside a read.
ClosePipes ==
  /\ press["fatal"] = "claimed"
  /\ \A s \in Streams : ~Blocked(s)
  /\ Move("fatal", "settled")
  /\ UNCHANGED <<runtime, worker, starter, reader, waiter, api, adapter>>

PressNotify(th) ==
  /\ press[th] = "settled"
  /\ notified' = notified + 1
  /\ Move(th, "notified")
  /\ UNCHANGED <<runtime, worker, starter, reader, waiter, api, inStates,
                 scheduled, finalizer, done, closing, covered>>

PressRemove(th) ==
  /\ press[th] = "notified"
  /\ RemoveState
  /\ Move(th, "gone")
  /\ UNCHANGED <<runtime, written, got, bound, starter, reader, waiter, api,
                 scheduled, finalizer, notified, closing, covered>>

-----------------------------------------------------------------------------
(* TaskApplicationService.cancel_task: request_cancel without the lock.    *)

ApiFlag ==
  /\ "api" \in Callers
  /\ api = "none"
  /\ record = "open"
  /\ cancelReq' = TRUE
  /\ api' = "flagged"
  /\ UNCHANGED <<record, rstate, corrupted, report, decision, verdict, closes,
                 rtClosing, worker, starter, reader, waiter, press, adapter>>

ApiStop ==
  /\ api = "flagged"
  /\ rstate' = IF record = "open" THEN "STOPPING" ELSE rstate
  /\ api' = "gone"
  /\ UNCHANGED <<record, cancelReq, corrupted, report, decision, verdict, closes,
                 rtClosing, worker, starter, reader, waiter, press, adapter>>

-----------------------------------------------------------------------------

Start == Prepare \/ StartFails \/ StartProcess \/ MarkRunning \/ Register \/ Reject
Worker == \/ SpawnChild \/ WorkerExits \/ ChildExits
          \/ \E s \in Streams, f \in Frames : Write(s, f)
Reader(s) == Read(s) \/ ReadEnd(s) \/ ScheduleTermination(s)
Waiter == \/ WaitExit \/ JoinAndClaim \/ CompleteDecide \/ CompleteFinish
          \/ WaiterNotify \/ WaiterRemove
Presser(th) == \/ PressRequest(th) \/ PressLeave(th) \/ PressTerminate(th)
               \/ PressKill(th) \/ PressClaim(th) \/ Abandon(th)
               \/ PressNotify(th) \/ PressRemove(th)
Shutdown == BeginShutdown \/ ShutdownRequest \/ ShutdownSnapshot

Next == \/ Start \/ Worker \/ Waiter \/ Shutdown \/ CancelJob \/ ForceStop
        \/ ClosePipes \/ ApiFlag \/ ApiStop
        \/ \E s \in Streams : Reader(s)
        \/ \E th \in Pressers : Presser(th)

Spec == Init /\ [][Next]_vars

\* Every thread that can run does; the worker and its children need not.
FairSpec ==
  /\ Spec
  /\ WF_vars(Start) /\ WF_vars(Waiter) /\ WF_vars(ClosePipes)
  /\ WF_vars(ShutdownRequest \/ ShutdownSnapshot)
  /\ \A s \in Streams : WF_vars(Reader(s))
  /\ \A th \in Pressers : WF_vars(Presser(th))

-----------------------------------------------------------------------------
(* Properties.                                                             *)

RuntimeTypes ==
  /\ record \in {"none", "open", "closed"}
  /\ rstate \in {"PENDING", "STARTING", "RUNNING", "STOPPING"}
  /\ cancelReq \in BOOLEAN /\ corrupted \in BOOLEAN /\ rtClosing \in BOOLEAN
  /\ report \in Reports \cup {"none"}
  /\ decision \in Finished \cup {"none"} /\ verdict \in Finished \cup {"none"}
  /\ closes \in Nat

WorkerTypes ==
  /\ proc \in {"none", "up", "gone"} /\ exit \in {0, 1}
  /\ child \in BOOLEAN /\ bound \in BOOLEAN /\ treeClosed \in BOOLEAN
  /\ written \in [Streams -> Seq(Frames)] /\ got \in [Streams -> Nat]
  /\ \A s \in Streams : got[s] <= Len(written[s])

ThreadTypes ==
  /\ starter \in {"idle", "prepared", "spawned", "marked", "started",
                  "rejected", "unmonitored", "failed"}
  /\ reader \in [Streams -> {"none", "reading", "fatal", "done"}]
  /\ waiter \in {"none", "waiting", "joining", "claimed", "completing",
                 "completed", "notified", "gone"}
  /\ press \in [Pressers -> {"none", "begun", "requested", "asked", "ready",
                             "terminated", "killed", "claimed", "settled",
                             "notified", "gone"}]
  /\ api \in {"none", "flagged", "gone"}

AdapterTypes ==
  /\ inStates \in BOOLEAN /\ scheduled \in BOOLEAN /\ done \in BOOLEAN
  /\ closing \in BOOLEAN /\ covered \in BOOLEAN
  /\ finalizer \in {"none", "waiter", "stop", "shut", "fatal"}
  /\ notified \in Nat

TypeOK == RuntimeTypes /\ WorkerTypes /\ ThreadTypes /\ AdapterTypes

\* Whoever wins of the waiter, a forced stop, the shutdown and the protocol
\* thread: the completion callback runs at most once and at most one terminal
\* status is published.
CompletionOnce == notified <= 1 /\ closes <= 1

\* The last report among the first n frames of stdout is r.
SaidLast(r, n) == \E i \in 1..n : /\ written["out"][i] = r
                                  /\ \A j \in 1..n : j > i => written["out"][j] \notin Reports
\* All that the worker wrote is readable.
Sound == \A s \in Streams : \A i \in 1..Len(written[s]) :
           written[s][i] \notin {"corrupt", "torn"}

\* A task is COMPLETED exactly when its worker said so last, exited with 0 and
\* wrote nothing unreadable on either stream, however late the frames are read
\* and whatever cancel arrived meanwhile; and never unless the waiter decided.
VerdictMatchesOutput ==
  verdict # "none" =>
    (verdict = "COMPLETED" <=>
       /\ finalizer = "waiter" /\ Sound /\ exit = 0
       /\ SaidLast("COMPLETED", Len(written["out"])))

\* No job slips past shutdown: once the adapter is closing, a job in its table
\* that nobody is finalizing is one that shutdown is ending.
ShutdownCovers == closing /\ Stoppable => covered

\* done means over: the worker is gone, and with it all of a bound tree.
DoneMeansGone == done => proc = "gone" /\ (bound => ~child)

\* A job whose end was reported has left the runtime, unless the protocol
\* thread reported it; a job that was never reported was never started.
HandedBack ==
  /\ done /\ finalizer # "fatal" => record # "open"
  /\ starter = "failed" => record = "closed" /\ ~inStates /\ notified = 0

(***************************************************************************)
(* Why they hold: the inductive invariant the proofs use.                  *)
(***************************************************************************)

Starting == {"prepared", "spawned", "marked", "rejected", "unmonitored"}

\* The starter: a record is open as long as the job is being started, and
\* there are threads and a table entry only once it has started.
StarterOK ==
  /\ starter = "idle" <=> record = "none"
  /\ starter \in Starting => record = "open"
  /\ starter = "failed" => record = "closed"
  /\ starter \in {"idle", "prepared"} => proc = "none" /\ ~child
  /\ starter = "started" <=> waiter # "none"
  /\ starter # "started" =>
       /\ ~inStates /\ finalizer = "none" /\ notified = 0 /\ ~treeClosed
       /\ \A th \in Pressers : press[th] \in {"none", "begun", "requested", "gone"}
       /\ \A s \in Streams : reader[s] = "none"
  /\ done => starter \in {"started", "failed"}

\* The record is closed once; while complete is under way nobody else can.
RecordOK ==
  /\ closes = IF record = "closed" THEN 1 ELSE 0
  /\ verdict # "none" <=> record = "closed"
  /\ waiter = "completing" /\ decision # "none" => record = "open"
  /\ waiter = "completing" /\ decision = "none" => record # "open"
  /\ waiter \in {"completed", "notified"} => record # "open"
  /\ \A th \in {"stop", "shut"} : press[th] \in {"settled", "notified"} => record # "open"

\* The finalizer is the thread that is finalizing, and it notifies once.
FinalizerOK ==
  /\ waiter \in {"claimed", "completing", "completed", "notified"}
       => finalizer = "waiter"
  /\ \A th \in Pressers : press[th] \in {"claimed", "settled", "notified"}
       => finalizer = th
  /\ notified <= 1
  /\ notified = 1 =>
       /\ finalizer # "none"
       /\ finalizer = "waiter" => waiter \in {"notified", "gone"}
       /\ \A th \in Pressers : finalizer = th => press[th] \in {"notified", "gone"}

\* The cancel thread is through once it has killed; the others kill before
\* they claim; a closed tree that was bound is dead.
KilledOK ==
  /\ press["cancel"] \notin {"killed", "claimed", "settled", "notified"}
  /\ \A th \in Pressers :
       press[th] \in {"killed", "claimed", "settled", "notified"} => proc = "gone"
  /\ waiter \notin {"none", "waiting"} => proc = "gone" /\ treeClosed
  /\ treeClosed /\ bound => proc = "gone" /\ ~child

IInv == /\ TypeOK /\ CompletionOnce /\ ShutdownCovers /\ DoneMeansGone /\ HandedBack
        /\ StarterOK /\ RecordOK /\ FinalizerOK /\ KilledOK

-----------------------------------------------------------------------------
\* A cancelled job whose process tree is bound ends, even if its worker ignores
\* the cancel and its children hold the pipes.
CancelEnds == scheduled /\ bound ~> done

\* A job that shutdown covers ends, bound or not: shutdown abandons it.  Only
\* after a corrupt frame may the protocol thread hold the finalization instead.
ShutdownSettles == covered ~> done \/ corrupted
=============================================================================
