--------------------------- MODULE DownloadQueue ---------------------------
(***************************************************************************)
(* The persistent download queue of FileManagementService.  A download is  *)
(* submitted by an API thread: with no other download active it is started *)
(* at once, otherwise a waiting row is stored.  A queue thread starts the  *)
(* oldest waiting download when no other is active.  Both hold _queue_lock *)
(* throughout; cancel_download does not.  "Waiting" is not part of the     *)
(* row: it is what the last waiting event of the task says.  The oldest is *)
(* the least by (created_time, task_id), a wall-clock time in milliseconds *)
(* and a random id: after a tie or a step of the clock a later submission  *)
(* may come first.                                                         *)
(*                                                                         *)
(* Rows are written in two ways.  Hosts and record_external_event use the  *)
(* guard of TaskStates.  The service's own bookkeeping and prepare write   *)
(* the whole snapshot without a guard, whatever the row says meanwhile.    *)
(***************************************************************************)
EXTENDS TaskStates, Naturals, Sequences, FiniteSets

CONSTANTS Tasks,      \* download task ids
          Cancellers, \* API threads in cancel_download
          MaxCrash    \* bound: crashes of the backend

ASSUME TasksAssumption == {"free", "queue"} \cap Tasks = {}
ASSUME CrashAssumption == MaxCrash \in Nat

VARIABLES
  row,      \* row[t]: the row's status, "none" when there is no row
  owned,    \* tasks whose row carries the pid of the backend
  waits,    \* tasks whose last waiting event says waiting
  order,    \* the tasks with a row, by (created_time, task_id)
  worker,   \* tasks whose worker process runs
  asked,    \* hosted tasks with a cancel request
  starts,   \* starts[t]: how often a worker was started for t
  lock,     \* who holds _queue_lock: "free", "queue" or the submitter of a task
  step,     \* where the holder of the lock stands
  task,     \* the task it works on
  seen,     \* the status it read last
  cancel,   \* cancel[c]: the task and what canceller c has read
  crashes

vars == <<row, owned, waits, order, worker, asked, starts, lock, step, task,
          seen, cancel, crashes>>
rows == <<row, owned, waits, order>>
hosts == <<worker, asked, starts>>
holder == <<lock, step, task, seen>>

NoTask == "no task"
Idle == [task |-> NoTask, seen |-> "none"]
Steps == {"none", "stored", "prepare", "start", "note", "record"}

Init ==
  /\ row = [t \in Tasks |-> "none"]
  /\ owned = {} /\ waits = {} /\ order = <<>>
  /\ worker = {} /\ asked = {} /\ starts = [t \in Tasks |-> 0]
  /\ lock = "free" /\ step = "none" /\ task = NoTask /\ seen = "none"
  /\ cancel = [c \in Cancellers |-> Idle]
  /\ crashes = 0

ActiveTasks == {t \in Tasks : row[t] \in Active}

Hold(who, t, s) == lock' = who /\ task' = t /\ step' = s
Release == lock' = "free" /\ task' = NoTask /\ step' = "none" /\ seen' = "none"

\* A new row takes its place by (created_time, task_id), which may be anywhere:
\* neither the wall clock nor the random id follows the order of submission.
EnterOrder(t) ==
  \E i \in 0..Len(order) :
    order' = SubSeq(order, 1, i) \o <<t>> \o SubSeq(order, i + 1, Len(order))

\* A status event of a host or of record_external_event, read and write.
Guarded(t, ev) ==
  row' = [row EXCEPT ![t] = IF @ # "none" /\ @ \in AllowedFrom(@, ev)
                            THEN ApplyEvent(@, ev) ELSE @]

-----------------------------------------------------------------------------
(* Submitting a download.                                                  *)

\* _start_download: with a download active, _persist_waiting_download first
\* records the descriptor with the new row ...
SubmitWaiting(t) ==
  /\ lock = "free"
  /\ row[t] = "none"
  /\ ActiveTasks # {}
  /\ row' = [row EXCEPT ![t] = "PENDING"]
  /\ EnterOrder(t)
  /\ Hold(t, t, "stored")
  /\ UNCHANGED <<owned, waits, hosts, seen, cancel, crashes>>

\* ... and then the waiting event, with the same snapshot again.
RecordWaiting ==
  /\ step = "stored"
  /\ row' = [row EXCEPT ![task] = "PENDING"]
  /\ waits' = waits \cup {task}
  /\ Release
  /\ UNCHANGED <<owned, order, hosts, cancel, crashes>>

\* With no download active it is started at once.
SubmitNow(t) ==
  /\ lock = "free"
  /\ row[t] = "none"
  /\ ActiveTasks = {}
  /\ Hold(t, t, "prepare")
  /\ UNCHANGED <<rows, hosts, seen, cancel, crashes>>

-----------------------------------------------------------------------------
(* The queue thread: _dispatch_next_waiting.                               *)

\* s comes before t by (created_time, task_id).
Earlier(s, t) == \E i, j \in 1..Len(order) : i < j /\ order[i] = s /\ order[j] = t

\* Faulty variants: a download that runs does not hold up the next; the last
\* one is taken.
NextWaitingBusy(t) == t \in ActiveTasks \cap waits
NextWaitingYoungest(t) ==
  /\ ActiveTasks \subseteq waits
  /\ t \in ActiveTasks
  /\ \A s \in ActiveTasks : s = t \/ Earlier(s, t)

\* waiting[0]: every active download is waiting and t is the first of them by
\* (created_time, task_id).
NextWaiting(t) ==
  /\ ActiveTasks \subseteq waits
  /\ t \in ActiveTasks
  /\ \A s \in ActiveTasks : s = t \/ Earlier(t, s)

\* The first one is started.
Dispatch(t) ==
  /\ lock = "free"
  /\ NextWaiting(t)
  /\ Hold("queue", t, "prepare")
  /\ UNCHANGED <<rows, hosts, seen, cancel, crashes>>

\* The stored descriptor cannot be read: the download fails.
DispatchBroken(t) ==
  /\ lock = "free"
  /\ NextWaiting(t)
  /\ Guarded(t, ErrorEvent)
  /\ UNCHANGED <<owned, waits, order, hosts, holder, cancel, crashes>>

-----------------------------------------------------------------------------
(* Starting the job, for a submitter or for the queue thread.              *)

\* TaskApplicationService.prepare saves a PENDING snapshot over whatever row
\* there is; created_time stays that of the row.
PrepareJob ==
  /\ step = "prepare"
  /\ row' = [row EXCEPT ![task] = "PENDING"]
  /\ IF row[task] = "none" THEN EnterOrder(task) ELSE UNCHANGED order
  /\ owned' = owned \cup {task}
  /\ step' = "start"
  /\ UNCHANGED <<waits, hosts, lock, task, seen, cancel, crashes>>

\* The worker is started and the task marked running.
StartWorker ==
  /\ step = "start"
  /\ worker' = worker \cup {task}
  /\ starts' = [starts EXCEPT ![task] = @ + 1]
  /\ Guarded(task, StateEvent("RUNNING"))
  /\ step' = "note"
  /\ UNCHANGED <<owned, waits, order, asked, lock, task, seen, cancel, crashes>>

\* start_job raises, before the row is saved or after fail_start: the
\* submitter gives up, the queue thread records the error (once more) and
\* goes on to its finally clause.
StartFails ==
  /\ step \in {"prepare", "start"}
  /\ Guarded(task, ErrorEvent)
  /\ IF lock = "queue" THEN step' = "note" /\ UNCHANGED <<lock, task, seen>>
     ELSE Release
  /\ UNCHANGED <<owned, waits, order, hosts, cancel, crashes>>

\* _record_task_metadata, and the finally clause of the dispatch: the row is
\* read in one transaction ...
ReadRow ==
  /\ step = "note"
  /\ seen' = row[task]
  /\ step' = "record"
  /\ UNCHANGED <<rows, hosts, lock, task, cancel, crashes>>

\* Faulty variant: the waiting event is forgotten.
WriteRowWaiting ==
  /\ step = "record"
  /\ row' = [row EXCEPT ![task] = seen]
  /\ Release
  /\ UNCHANGED <<owned, waits, order, hosts, cancel, crashes>>

\* ... and written back, without a guard, in another, together with the
\* descriptor or with the event that ends the wait.
WriteRow ==
  /\ step = "record"
  /\ row' = [row EXCEPT ![task] = seen]
  /\ waits' = waits \ {task}
  /\ Release
  /\ UNCHANGED <<owned, order, hosts, cancel, crashes>>

-----------------------------------------------------------------------------
(* The worker ends and its host closes the row, except after a protocol    *)
(* failure: LocalProcessAdapter then gives the job up with the row open,   *)
(* and the queue waits for it until the backend is restarted.              *)

WorkerEnds(t) ==
  /\ t \in worker
  /\ worker' = worker \ {t}
  /\ asked' = asked \ {t}
  /\ \/ t \in asked /\ Guarded(t, CancelledEvent)
     \/ Guarded(t, FinishedEvent("COMPLETED", FALSE))
     \/ t \notin asked /\ Guarded(t, ErrorEvent)
     \/ UNCHANGED row
  /\ UNCHANGED <<owned, waits, order, starts, holder, cancel, crashes>>

-----------------------------------------------------------------------------
(* cancel_download, without the queue lock.                                *)

\* The row must be active.
CancelDownload(c, t) ==
  /\ cancel[c] = Idle
  /\ row[t] \in Active
  /\ cancel' = [cancel EXCEPT ![c] = [task |-> t, seen |-> "none"]]
  /\ UNCHANGED <<rows, hosts, holder, crashes>>

\* Not waiting: cancel_job asks the host to stop, if there is one.
CancelHosted(c) ==
  LET t == cancel[c].task IN
  /\ t # NoTask /\ cancel[c].seen = "none"
  /\ t \notin waits
  /\ IF t \in worker
     THEN asked' = asked \cup {t} /\ Guarded(t, StateEvent("STOPPING"))
     ELSE UNCHANGED <<row, asked>>
  /\ cancel' = [cancel EXCEPT ![c] = Idle]
  /\ UNCHANGED <<owned, waits, order, worker, starts, holder, crashes>>

\* Waiting: record_external_event reads the row ...
CancelRead(c) ==
  LET t == cancel[c].task IN
  /\ t # NoTask /\ cancel[c].seen = "none"
  /\ t \in waits
  /\ cancel' = [cancel EXCEPT ![c].seen = row[t]]
  /\ UNCHANGED <<rows, hosts, holder, crashes>>

\* ... and closes it, if it is still one the event may close.
CancelWaiting(c) ==
  LET t == cancel[c].task IN
  /\ cancel[c].seen # "none"
  /\ row' = [row EXCEPT ![t] = IF @ \in AllowedFrom(cancel[c].seen, CancelledEvent)
                               THEN "CANCELLED" ELSE @]
  /\ cancel' = [cancel EXCEPT ![c] = Idle]
  /\ UNCHANGED <<owned, waits, order, hosts, holder, crashes>>

-----------------------------------------------------------------------------

\* The backend dies with its workers.  The next one fails the rows that carry
\* the dead pid before its queue thread starts; waiting rows carry none.
Crash ==
  /\ crashes < MaxCrash
  /\ crashes' = crashes + 1
  /\ row' = [t \in Tasks |-> IF row[t] \in Active /\ t \in owned
                             THEN "FAILED" ELSE row[t]]
  /\ worker' = {} /\ asked' = {}
  /\ Release
  /\ cancel' = [c \in Cancellers |-> Idle]
  /\ UNCHANGED <<owned, waits, order, starts>>

Queue == \/ RecordWaiting
         \/ \E t \in Tasks : Dispatch(t) \/ DispatchBroken(t)
         \/ PrepareJob \/ StartWorker \/ StartFails \/ ReadRow \/ WriteRow

Next ==
  \/ \E t \in Tasks : SubmitWaiting(t) \/ SubmitNow(t) \/ WorkerEnds(t)
  \/ Queue
  \/ \E c \in Cancellers : \/ \E t \in Tasks : CancelDownload(c, t)
                           \/ CancelHosted(c) \/ CancelRead(c) \/ CancelWaiting(c)
  \/ Crash

Spec == Init /\ [][Next]_vars

-----------------------------------------------------------------------------
(* Properties.                                                             *)

TypeOK ==
  /\ row \in [Tasks -> States \cup {"none"}]
  /\ owned \subseteq Tasks /\ waits \subseteq Tasks
  /\ order \in Seq(Tasks)
  /\ worker \subseteq Tasks /\ asked \subseteq worker
  /\ starts \in [Tasks -> Nat]
  /\ lock \in Tasks \cup {"free", "queue"}
  /\ step \in Steps
  /\ task \in Tasks \cup {NoTask}
  /\ seen \in States \cup {"none"}
  /\ cancel \in [Cancellers -> [task : Tasks \cup {NoTask}, seen : States \cup {"none"}]]
  /\ crashes \in Nat

\* A download is handed to a worker at most once, although "waiting" is kept
\* in the event log and changes only after the worker was started, whatever
\* is cancelled and whenever the backend crashes.
StartedOnce == \A t \in Tasks : starts[t] <= 1

\* What the holder of the lock relies on: its task was not started before, and
\* has a row once it was prepared, or when the queue thread holds the lock.
HolderOK ==
  /\ lock = "free" <=> step = "none"
  /\ step # "none" => task \in Tasks
  /\ step \in {"stored", "prepare", "start"} => starts[task] = 0
  /\ step \in {"stored", "start", "note", "record"} \/ lock = "queue" => row[task] # "none"
  /\ step = "start" => task \in owned
  /\ step = "record" => seen # "none"

\* A started download carries a pid, and still counts as waiting only under
\* the dispatch that started it, or in an end state after a crash.
StartedOK ==
  \A t \in Tasks : starts[t] # 0 =>
    /\ starts[t] = 1
    /\ t \in owned
    /\ row[t] # "none"
    /\ t \in waits => row[t] \in Terminal \/ (task = t /\ step \in {"note", "record"})

\* The inductive invariant behind StartedOnce: the lock holder and the event
\* log agree on which downloads are still to be started.
IInv == TypeOK /\ HolderOK /\ StartedOK

\* At most one of the downloads the record shows as active has a worker, also
\* when cancels and unguarded writes close or reopen rows behind its back.
OneOpenDownload == Cardinality({t \in worker : row[t] \in Active}) <= 1

\* Downloads start in the order of (created_time, task_id): when a worker
\* starts, no download that sorts before its own is active, although cancels and
\* unguarded writes close and reopen rows between the choice and the start, and
\* a new download may sort before the waiting ones.  This is the order of
\* submission only as far as the clock advances between submissions.
InOrder ==
  [][\A s, t \in Tasks :
       starts'[t] > starts[t] /\ Earlier(s, t) => row[s] \notin Active]_vars
=============================================================================
