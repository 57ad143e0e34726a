# Formal model of NetConsole

NetConsole is a desktop network-operations console: a Python backend behind an
Electron shell, and a Go measurement agent on remote hosts. Everything that
takes time (exports, collections, downloads, traffic tests) runs as a *task* of
the Job Center, in a worker process of its own, and leaves a record in a SQLite
database per site (`tasks.db`). The agent has a task manager of its own. This
directory models that core in TLA+, and what keeps the data root whole around
it: the file lock between processes, the lock of the backend on its data root,
and the journalled upgrade of a database; and a worker that stays: the resident
poller of a controller. TLC checks the models on small
instances; TLAPS proves the main results for every value of the constants.

Python paths below are relative to `src/src/netconsole/`, agent paths to
`src/apps/agent/internal/`.

## 1. Inventory

| Component | State | Operations | What is hard, and what makes it correct |
|---|---|---|---|
| Task record (`repositories/task_repository.py`, `services/job_center/task_application_service.py`) | rows, event log, tombstones of `tasks.db` | `prepare`, `_persist_event`, `record_external_event`, `cancel_task`, artifact decisions, `reconcile_orphaned_local_tasks`, acknowledgement | Read and write of an event are two transactions: late events, cancels and recovery overlap. A closed task must stay closed, a deleted one deleted, resource keys exclusive, orphans settled. |
| Runtime and process host (`services/job_center/runtime/task_runtime.py`, `local_process_adapter.py`) | runtime records, process table, pipes, one waiter and two readers per job, a thread per cancel, stop, shutdown, protocol failure | `start_job`, `cancel_job`, `force_stop_job`, `shutdown`, `complete`, `fail_start`, `abandon` | Four threads may finalize one job; frames are read after the exit; shutdown races start. One completion, a verdict that matches the output, nothing left running. |
| Cleanup (`services/job_center/task_cleanup_service.py`) | previews and decisions | decide, delete | Decision and deletion are separate transactions. |
| Web artifacts (`services/web_artifacts.py`) | published files | completion callback, reconciliation | A completion may be withdrawn after the fact. |
| Download queue (`services/file_management_service.py`) | waiting events, queue thread | `_start_download`, `_dispatch_next_waiting`, `cancel_download` | "Waiting" lives in the event log and outlasts the start; cancel does not take the queue lock; bookkeeping writes have no guard. One download at a time, in order, each at most once. |
| Agent task manager (`core/task.go`) | tasks, running map, active type, `task.json`, event file | `Start`, `execute`, `Stop`, `StopAll`, `NewManager` | Files are written outside the mutex, by two writers through one temporary file; restart rebuilds memory from them. |
| Event hub (`runtime/task_event_hub.py`) | subscribers, bounded streams | `publish`, `open_stream` | Slow streams lose the oldest events. |
| Interprocess file lock (`core/interprocess_lock.py`) | registry of lock states per process, an RLock and a shared handle per state, the lock of the operating system | enter, leave (nested), time out | Threads of a process share one handle, which the last user closes; a timed-out call has registered already; a process may die inside. One reentrant lock, nothing leaked. |
| Backend instance lock (`core/backend_instance_lock.py`) | main and transition lock files, the owner record, a promotion thread | `acquire`, warm start, promotion, `release` | A replacement serves while the old owner still does; the record is truncated before it is written; `release` does not wait for the promotion thread for ever. One owner, one authorised successor. |
| Shutdown manager (`core/shutdown_manager.py`) | ordered steps with deadlines | register, run | A step that hangs must not block the others. |
| Database upgrade (`services/database_upgrade/`, adapter in `services/mesh_parsed_rebuild_service.py`) | database and parsed directory, shadow, rollback and backup copies, a journal per operation | `upgrade`, rollback, `recover_incomplete_upgrades` | Worker, backend and the recovery itself may die, and every step may raise, between any two file moves. Nothing destroyed, a database in place, a truthful journal, a backend that starts. |
| Resident poller (`services/ac/mesh_link_resident_polling_service.py`) | `_active`, `control.json`, `status.json`, one long-lived worker with a session | `ensure_poller`, `request_immediate_if_active`, `request_stop_run`, `cancel_task`, the worker's loop | Service and worker share two files; callbacks of a former worker come late; requests arrive during a poll; commands hang. One worker that a stop can find, a stop that ends, an answer that is newer than its request. |
| Ground unattended, online MR, traffic, WPS sync | runs, sessions, leases, outbox | schedule, poll, retry | Remote answers arrive late, twice or never. |
| Sites, SSH, devices, parsers, exports, API, Electron, renderer | files, connections, views | CRUD, I/O | Mostly sequential; reached through the parts above. |

How they interact: the API calls the application service and the adapters; the
adapter calls the runtime under `_service_lock`; the runtime publishes events
through the hub, whose guard is `_persist_event`; a completion calls back into
web artifacts or the download queue; agent tasks are polled and fed in with
`record_external_event`. After a crash the next backend fails the rows whose
owner process is gone. An upgrade is a task whose worker holds the maintenance
lock (an interprocess file lock); a backend takes its instance lock, then
recovers unfinished upgrades, and only then serves. The unattended supervisor
starts the resident poller on every tick and stops it when the run ends.

`PROJECT.json` lists every component with its sources and status, and every
hazard with its line and the properties aimed at it.

## 2. Modules and their correspondence to the code

| Module | Role |
|---|---|
| `TaskStates` | statuses, events, `_apply_event`, `_allowed_from`; used by every module that writes rows |
| `TaskLifecycle` | abstract specification of a task's durable record |
| `TaskStore` | `tasks.db` and all who write it; implements `TaskLifecycle` |
| `TaskHost` | one job: runtime record, worker process and all threads around it |
| `DownloadQueue` | the persistent single-concurrency queue |
| `AgentTasks` | the agent's task manager |
| `DatabaseUpgrade` | one profile's upgrade, its rollback and the recovery at start |
| `FileLock` | abstract specification of a reentrant lock shared by processes |
| `InterprocessLock` | registry, RLock, shared handle and file lock; implements `FileLock` |
| `DataRootLease` | abstract specification: who may serve a data root |
| `InstanceLock` | two lock files, owner record and promotion thread; implements `DataRootLease` |
| `ResidentPoller` | service, files, process host and worker of one resident poller |
| `MCTaskStore`, `MCDownloadQueue`, `MCAgentTasks`, `MCDatabaseUpgrade`, `MCInterprocessLock` | small instances (`TaskHost`, `InstanceLock` and `ResidentPoller` are checked directly) |
| `TaskStoreProofs`, `TaskHostProofs`, `DownloadQueueProofs`, `AgentTasksProofs`, `DatabaseUpgradeProofs`, `InterprocessLockProofs`, `InstanceLockProofs`, `ResidentPollerProofs` | theorems |

**TaskStore.** `status`, `owner`, `warned`, `acked` are columns of a row, `tombs`
the retention tombstones. A publication (`_persist_event`,
`record_external_event`) is two steps: `BeginPublish` puts what was read into
`pubs`, `Record` writes it if the row's status is still in `AllowedFrom`. The
host of a task is a thread that walks through `stage` (prepared, pending,
starting, running, closing, callback), one publication per step, as
`TaskRuntime` does; API threads (`Users`) cancel, visit artifacts and feed
external tasks. `LoseWrite` is the swallowed write failure in `_persist_event`.
`HostDrop` is `_terminate_protocol_failure` at its worst: after a corrupt frame
that neither terminate nor kill could settle, the host calls back without having
closed anything (`dropped`), and the row stays active for the rest of this
backend's life.
`Crash` starts the next backend; `ListOrphans` and `FailOrphan` are the two
halves of recovery; `DecideCleanup` and `DeleteApproved` those of cleanup. Task
ids are fresh in `Prepare`; the one caller that prepares over an existing row,
the download queue, is modelled in `DownloadQueue`. Texts, times, results and
the event pages are left out; a result is abstracted to "has warnings".

**TaskHost.** One job. The worker writes sound, corrupt or torn frames on two
streams, may leave a child that holds its pipes and may never exit. Frames wait
in the pipe until a reader takes them. The threads that end a worker
(`cancel`, `stop`, `shut`, `fatal`) go through request, terminate, kill, claim,
settle, notify, remove. A timed wait may run out at any moment, so every timeout
race is covered. `_service_lock` makes calls into the runtime atomic except the
two that do not take it (the API's cancel and `begin_shutdown`), which are split
where the code has no lock. `complete` is two steps (`CompleteDecide`,
`CompleteFinish`) because those two may run in between. `StartProcess` is one step
for `Popen`, the bootstrap and the binding of the process tree that follows: the
job is in no table before `Register`, so no other thread meets it half started.

**DownloadQueue.** The holder of `_queue_lock` is one process with a program
counter (`step`), whoever it is: a submitter or the queue thread. Each
transaction is one step. `waits` is what the last waiting event says. Cancelling
threads do not take the lock. The queue is sorted by (`created_time`,
`task_id`), a wall-clock time in milliseconds and a random id, so a new row enters
`order` at any place (`EnterOrder`): ties and steps of the clock are covered.
`Crash` restarts the backend and fails the rows
with a dead owner pid; waiting rows carry pid 0 and survive. The host is reduced
to `StartWorker` and `WorkerEnds`, whose writes use the same guard as in
`TaskStore`; that the worker is reported once is a result of `TaskHost`. A worker
given up after a protocol failure leaves its row active (`WorkerEnds`).

**AgentTasks.** `execute` is a program counter per task with one step per file
write, package, event and mutex section; `Stop` holds the mutex over its file
write. `WriteJSONAtomic` is two steps, write the temporary file and move it; a
move whose temporary file was taken by the other writer fails silently, as in
the code. `Restart` stands for a crash and for a regular exit, since `WaitAll`
may time out. Errors of single file writes other than the one in `start` are
not modelled.

**DatabaseUpgrade.** A *content* is named by the operation that built it; every
place a database or a parsed directory can be in is a variable (`active`,
`shadow`, `rollback`, `kept`, `attic` and their `parsed` counterparts). The
worker walks through the coordinator's stages and the adapter's moves, one
action per move; `Raise` is an exception at any of them, `WorkerDies` a death.
An exception leads to the rollback the coordinator chooses, and to
`Restore` from the verified backup. `Begin` asks only for the maintenance lock:
an upgrade may begin at any moment of a backend's start, since a worker may have
waited for the lock, and the maintenance script needs no backend. `boot` is the
backend: it lists the journals once (`BackendStarts`, `found`), works them off
(`Look`), takes the maintenance lock or times out on it, and
undoes or completes the switch move by move, dying at any point. `hist` is
history only: the content an upgrade found, and whether the undoing itself
failed (`calm`) or an upgrade began over an unrecovered journal (`clean`).

**InterprocessLock.** `registry`, `owner`, `count`, `handle`, `active` are the
fields of the module's registry and of a `_LocalLockState`; `uses`, `fd`,
`os_locked` the locals of each nested call. Every step that can block or that
runs under a mutex of its own is an action. `flock` belongs to the open handle,
so the model gives the lock to handles, not to threads: that the threads of one
process exclude each other must follow from the RLock.

**InstanceLock.** `pc` is the thread that acquires and releases, `monitor` the
promotion thread, `mine` and `mine_transition` the handles of the object,
`taken` those `release` took out of it. The record is truncated and written in
two steps and has an id per write. `StartWarm` is Electron's read of the record,
separate from the check in `acquire`. The promotion thread's failures are two: a
record it cannot write makes it poll again (`MonitorWriteFails`), a main file it
cannot open ends it (`MonitorOpenFails`), and that successor is never promoted.

**ResidentPoller.** `sup` is the supervisor's thread inside `ensure_poller` or
`request_stop_run`, `active` the service's entry, `control_*` and `status_*` the
two files. `Locked` is `self._lock`: `ensure_poller` holds it from its look at
`_active` to the end of the start, the wait of `request_stop_run` does not, since
the callback `_complete` needs it before the job is done. The host is reduced to
what `TaskHost` shows of it: the record is closed after the process is gone
(`CloseRecord`), then the callback is made and the job is done (`Notify`); the
path of `TaskHost` that gives a job up after a protocol failure is left aside
here. Every update of `control.json` goes through `UpdateControl`, whose read may
fail: what the update does not set is then gone, the task id, a pending request
or a stop. The
worker is a program counter per task over `execute`; a cancel or a stop is seen
at the top of the loop and in a wait, a cancel also between the commands of a
poll. A poll that fails with the session intact ends like one that succeeds, as
in the code. `Raises` is any other exception, `Hangs` a command that never
returns. Request ids are numbers in the order of the requests; `begun` and
`polled` are history. `Restart` ends the workers of the old backend, as the job
objects do; where a worker could not be bound to one it would live on unseen.

## 3. What the runs check

Passing runs:

| Run | Instance | Shows |
|---|---|---|
| `store_local` | two local tasks on one key, two crashes, a lost write | `ResourceExclusion`: active tasks never share a key |
| `store_external` | a local and an external task, one API thread, a crash, a lost write | `HostedIsActive`: nobody closes or deletes the record of work in progress |
| `store_cancel` | one task, two API threads, a crash, fair hosts and recovery | `RetiredStaysRetired`: no late event re-creates a deleted task; `ImplementsLifecycle`: refinement of `TaskLifecycle`; `ForwardOnly`: as long as no write is lost, no event takes a task back; `HostedResolved`: once a host has seen its worker end, the record is closed for good, cancels or not; `NoZombie`: rows a dead backend left active are closed by the next one's recovery |
| `host_verdict` | up to two frames per stream, torn frames, API cancel, forced stop | `VerdictMatchesOutput`: COMPLETED exactly when the worker said so last, exited with 0 and wrote nothing unreadable; `DoneMeansGone` |
| `host_live` | cancel and shutdown of a worker that need never exit, corrupt frames, tree bound or not | `CompletionOnce`, `HandedBack`; `CancelEnds`: a cancelled job with a bound tree ends; `ShutdownSettles`: shutdown ends what it covers |
| `queue_order` | three downloads, one cancelling thread, a crash | `StartedOnce`; `OneOpenDownload`: at most one active record has a worker; `InOrder`: downloads start in the order of (`created_time`, `task_id`) |
| `agent_tasks` | two tasks of one type, packaged or not, two restarts | `Registry`: status shown, running map and active type agree; `PublishedLast`: what `execute` publishes is logged and packaged; `EndStays`: no stop changes a published end state; `StopEnds` |
| `upgrade` | one upgrade of an existing profile or a first creation, three deaths of worker or recovering backend, two exceptions | `NothingLost`: no step destroys a database or a parsed directory; `Usable`: at rest a profile that had a database has one; `Trusted`: the database in place is the one the journal's verdict says; `ServesSettled`: a backend serves only when every journal it listed at its start is settled; `StartupCompletes`: a backend that is down comes to serve |
| `lock` | two threads of a process and one of another, two levels of nesting, one timed thread, failing opens, deaths | `LockHeld`: inside, the system's lock stays with an open handle of the process; `NothingLeaks`; `ImplementsFileLock`: refinement of `FileLock`; `TimedCallEnds`; `LockIsServed`: a waiting thread is served or overtaken, never stuck behind nobody |
| `instance` | three backends, two sites, three starts, a failing open or write | `OwnerNamed`: the record is the owner's own; `NothingLeft`: no lock stays behind; `ImplementsLease`: refinement of `DataRootLease`; `HandoffCompletes`; `ReleaseFrees` |
| `poller` | two workers in turn, two requests, a cancel, two faults, a restart of the backend | `Tracked`: a live worker is the registered one and owns both files; `StopTruth`: after a stop, successful or not, no worker and no session is left, and STOPPED and BACKOFF are never said over an open session; `ServedFresh`: a request counts as completed only after the end, good or bad, of a poll that began after it; `StopEnds`: a stop ends and the record is closed, with a worker that hangs too; `RequestServed`: a request is answered unless the run or its worker ends first, or an update of `control.json` could not read the file |

One run ends in a violation, a disagreement between a document and the code (the
quotation is in `PROJECT.json`, "findings"):

| Run | Property | What happens |
|---|---|---|
| `upgrade_parsed` | `ParsedFollows` | An exception in the switch before its first move: the rollback gives the old parsed directory away as the failed new one, and the journal reports a rollback. |

Other states the models reach that a reader should know of. They have no run of
their own; the passing properties are stated so that they hold in them.

- *Recovery and a cancel.* A cancel between `ListOrphans` and `FailOrphan` makes
  recovery's guarded write fail: the orphan stays STOPPING until the next
  restart. `NoZombie` excepts exactly that, and `HostedResolved` speaks of one
  backend's life.
- *Cleanup and a rejection.* An artifact rejected between the cleanup decision
  and the deletion: the deletion rechecks only that the row is terminal, and an
  unacknowledged failure is deleted.
- *A record that stays open.* After a corrupt frame the protocol thread may give up
  waiting and report the job without `complete`; the runtime record stays open and
  the row stays RUNNING, or STOPPING after a cancel, until the next backend's
  recovery. `HandedBack`, `HostedResolved` and `ForwardOnly` except such a job,
  and a queue whose download it is waits for it until then.
- *Two downloads at once.* A cancel that still sees the waiting event of a started
  download closes the row and leaves the worker running; the next submission starts
  a second one, although `docs/device-files/DOWNLOAD_WORKFLOW.md` promises one at a
  time. `OneOpenDownload` counts the workers whose row is active.
- *Downloads out of turn.* Two submissions within a millisecond are started in the
  order of their random ids, and after a step of the clock a later one sorts
  before those that wait: the order `InOrder` speaks of is that of the sort key.
- *A cancelled download that runs.* `prepare` overwrites a row that was
  cancelled after the dispatcher chose it.
- *A queue that stands still.* The unguarded bookkeeping write after a start
  (`ReadRow`, `WriteRow`) may put RUNNING back over an end state, and a crash
  between the two records of a waiting download leaves an active row nobody
  owns. Either blocks the queue until a restart or for good, so no liveness of
  the queue is claimed.
- *Agent restarts.* `task.json` carries the final status before the package and
  the event exist; and a stop in the last steps of `execute` leaves `stopping`
  in it. A restart then shows a completed task without package, or a completed
  task as failed. `PublishedLast` is about what `execute` publishes and
  `EndStays` about one life of the agent.
- *Upgrades.* A first creation that dies before its switch leaves a journal whose
  recovery raises at every start (`StartupCompletes` is stated for profiles that
  had a database). A second upgrade may begin over the journal of a dead worker;
  `Usable` and `Trusted` except it, `NothingLost` does not. A rollback that raises
  half way is reported as `failed_rolled_back` when the backup copy succeeds. A
  recovery that times out on the lock writes its failure over the journal the
  living worker is still updating. An upgrade begun after a starting backend listed
  the journals is not seen by its recovery: the backend serves while that upgrade
  is under way, or after its worker died.
- *Handoff.* A promotion thread that cannot open the main file ends without a
  trace: the successor serves on under `transition` alone, the main lock stays free,
  and no other backend can start. `HandoffCompletes` excepts it.
- *Resident poller.* A killed worker, or one that raised, leaves its last state in
  `status.json`; only a normal stop is reported there. While a request is pending
  the waits between connection attempts end at once, so that a controller that is
  down is tried without backoff (times are not modelled). An update that cannot
  read `control.json` writes a new one with its own fields only: a pending request
  is lost (`RequestServed` excepts it), or `stop_requested`, after which the stop
  runs into its timeout and kills the worker (`StopEnds` holds). A failed poll
  completes the request it was made for, with the old snapshot.

### Bounds

Named in the modules: `MaxPid`/`MaxCrash` (incarnations, deaths), `MaxLost`
(swallowed writes), `MaxFrames`, `MaxError` (exceptions), `MaxLevel` (nesting),
`MaxStarts`, `MaxFailures`, `MaxRequest`, `MaxFault`, `MaxRestart`, and the sets of tasks, threads and calls. Two tasks are
needed for any conflict over a key, a type or the queue, three for an order that
has a middle; two threads for a race of two cancels with each other, with the
host as the third party. One crash separates every pair of steps; a second one
meets only states that a first one reaches, since recovery starts from the rows
alone. Two frames per stream suffice for a report followed by damage, by another
report, or preceded by either. Three deaths of an upgrade interrupt the worker, its
recovery, and the recovery of what the recovery left; two exceptions break a step
and its undoing. One operation is enough for that; two operations on one profile,
whose runs take too long with these faults, are covered by the theorems, all but
`StartupCompletes`. Two threads that share a handle and one that does not are the
three relations a file lock tells apart, and nesting of two has an inner and an
outer call. Three starts give an owner, a successor and a third backend that
meets the handoff, or an owner twice. Two workers give a former and a present one; two
requests one that overtakes the other; two faults a worker that fails and a
successor that hangs, or a fault of the worker and one of the start, or an unreadable `control.json` and a
hang. The theorems remove the bounds for what they state.

The type invariants are not checked by runs of their own: each is a conjunct of an
invariant that is proved.

Deadlock is checked for the file lock, where a thread can always call again.
Elsewhere it is not: tasks end, counters reach their bounds, and a system whose
tasks are all done may stop.

### Fairness

- `TaskStore.FairSpec`: a host that is not waiting for its worker takes its next
  step; a begun publication is written; a cancel that has been taken up is
  published; recovery runs at startup and works off its list. These are threads of
  a live process with bounded waits, and weak fairness is enough. A worker need not
  end, so nothing is assumed of a host in stage `running`, and a row may stay
  RUNNING for as long as its worker runs. Nothing is assumed of users, crashes,
  protocol failures or lost writes; a lost final write leaves a row active until
  the next restart, so the liveness runs have none (`MaxLost = 0`).
- `TaskHost.FairSpec`: every thread of the adapter goes on. The worker and its
  children are *not* fair: they may never write, exit or close a pipe.
- `AgentTasks.FairSpec`: goroutines go on, and a runner returns once its context
  is cancelled (runners wait on `ctx.Done()` or run a process bound to it). A
  runner that is not cancelled may run for ever.
- `DatabaseUpgrade.FairSpec`: a living worker and a starting backend go on, and a
  backend that is down is started again (Electron restarts it; without a start
  nothing can be claimed). Deaths and exceptions are bounded and never fair.
- `InterprocessLock.FairSpec`: a running thread goes on and a body ends; a thread
  waiting for a busy lock has no claim to be next, since neither the RLock nor
  the system's lock queues. Hence `LockIsServed` allows overtaking for ever.
- `InstanceLock.FairSpec`: both threads of a backend run while its process does.
  Nothing makes a backend start, stop or die.
- `ResidentPoller.FairSpec`: the supervisor's thread, the host's threads and a
  worker that does not hang go on. Nothing makes a run end, a user ask or cancel,
  or anything fail (an update over an unreadable file is outside the fair part,
  `Forgets`); faults are bounded, so a request is not claimed to be served
  by a controller that is never reached.

## 4. What is proved

All theorems hold for every value of the constants under the named assumptions
of the modules (finite bounds are naturals, keys are declared for tasks,
external tasks have none, thread names differ from task names).

- `TaskStoreProofs`: `Invariance` (`IInv`), `TypeCorrect`, `Exclusion`,
  `Retirement`, `HostedActive`, `Refinement`.
  *Argument.* None of the three safety properties is inductive: a publication in
  flight carries a status read long ago. `IInv` adds what every publication may
  still do (`PublicationsOK`: a host that has not decided publishes active
  statuses only; an artifact rejection only withdraws), that live hosts belong
  to this backend (`HostsOK`) and that recovery holds only rows of earlier ones
  (`OrphansOK`). The lemma `GuardedWrite` is the heart: whatever was read, a
  guarded write changes an active row, or leaves a closed one, or withdraws a
  completion. Refinement maps rows and tombstones to `life`; each step is a
  lifecycle step or a stutter.
  `ForwardInvariance`, `ForwardUntilLoss`, `Forward` (`ForwardOnly`): an active
  status only moves forward. `FInv` adds that a publication which read a closed
  row works on a closed row still (`SeenOK`), and, as long as no write is lost,
  that the completion callback begins on a closed row or on one whose closing
  event is under way (`CallbackOK`). Tasks dropped after a protocol failure are excepted,
  since their callback begins on an open row. `ForwardUntilLoss` says it for every
  `MaxLost`, up to the first lost write; `Forward` is the case `MaxLost = 0`, and
  the hypothesis is needed: with one lost write TLC finds the closing event
  swallowed, a cancel accepted, and the rejection of the artifact putting back
  the status it had read before.
- `TaskHostProofs`: `Invariance`, `TypeCorrect`, `Once`, `Covered`, `Gone`, `Returned`;
  `OutputInvariance`, `Honest` (`VerdictMatchesOutput`).
  *Argument.* `StarterOK` ties the record to the start, `RecordOK` says who may
  still close it, `FinalizerOK` identifies the one finalizing thread, `KilledOK`
  says that every claim follows the death of the worker.
  For the verdict, `VInv` follows the frames from the pipes to the decision:
  while the record is open, what the runtime has heard is what was read so far
  (`HeardOK`: whether a frame was corrupt, and the last report); a reader ends
  only at the end of a dead worker's output, after a corrupt frame, or when the
  protocol thread closes the pipes (`ReadersOK`); the waiter decides only when
  both readers have ended (`DecidedOK`). So at the decision the part that was
  read is all there is, and a torn tail is the last frame (`OutputOK`). The
  verdict is stated with positions in the output (`SaidLast`), not with a fold
  over it, which keeps induction over sequences out of the proof.
- `DownloadQueueProofs`: `Invariance`, `TypeCorrect`, `Once` (`StartedOnce`),
  `QueueInvariance`, `Alone` (`OneOpenDownload`), `Ordered` (`InOrder`, an action
  property).
  *Argument.* A started download that still counts as waiting is either the one
  the lock holder is working on, or was closed by recovery because it carries a
  pid (`StartedOK`); the holder's task was never started before (`HolderOK`).
  `QInv` adds what the lock holder has established by the time it starts a
  download: every one that sorts before it is closed, and none that was started is
  still open (`OrderOK`, `AloneOK`). A cancel works without the lock, but opens no
  row; the snapshot written back without a guard can reopen only the download the
  holder has just started. That is why both survive them.
- `AgentTasksProofs`: `Invariance`, `TypeCorrect`, `RegistryAgrees`, `EndFinal`
  (an action property), `Published`.
  *Argument.* `ExecuteOK`: goroutines execute exactly the running tasks, hold a
  decided end state from their first save on, and have packaged and logged it
  when they come to publish. A done task is not running, so a stop, which looks
  at the running map, cannot touch it.

- `DatabaseUpgradeProofs`: `Invariance`, `TypeCorrect`, `AlwaysUsable`,
  `NothingIsLost` and `OnlySettledServes` (action properties).
  *Argument.* Whoever moves files holds the lock and its journal is unsettled
  (`Holds`, `HoldsBoot`), so one process moves at a time. `Vacant` says which
  places are empty at each step: a move never overwrites, which is what
  `NothingIsLost` needs. `Found` says where the old database can be found from
  each step, in place, in the rollback copy or in the verified backup; without
  it `Usable` is not inductive, because a death may happen before the step that
  puts it back. `Listed` says that a starting backend has every unsettled
  journal it found still on its list, which gives `OnlySettledServes`: no upgrade
  that is begun, ends or dies meanwhile unsettles one of them. Since an upgrade may
  begin while a backend starts, `GaveUp` adds, for the contents, that a recovery
  which is about to fail has left its journal unsettled, so that no upgrade begun
  now counts as clean.
  `TruthInvariance`, `JournalTrusted` (`Trusted`): at rest, the database in use is
  the one the journal says. `TInv` records, for the last upgrade, what every step
  of the worker (`Working`) and of the recovery (`Restoring`) knows about the
  contents of each place, and what must hold whoever dies (`Files`): what the
  journal on disk makes the recovery do leads back to the old database, or on to
  the tested one. It is claimed of upgrades that began with every earlier journal
  settled and whose undoing met no exception (`Observed`), as `Trusted` is.
- `InterprocessLockProofs`: `Invariance`, `TypeCorrect`, `MutualExclusion`,
  `AlwaysHeld`, `NoLeak`, `Refinement`.
  *Argument.* The count of a state is the number of calls, at all levels of all
  threads of its process, that use it (`CountOK`, with cardinalities of finite
  sets), so the last to unregister is the last user; `HandlesOK` says that all
  calls of a process use one handle, and `OsOK` that only the RLock's owner holds
  the system's lock with it. The refinement maps a thread to the number of bodies
  it is in.
- `InstanceLockProofs`: `Invariance`, `TypeCorrect`, `OwnerIsNamed`,
  `NothingIsLeft`, `Refinement`.
  *Argument.* `LocksHeld` characterises the holder of each lock by the steps of
  its two threads and the fields of its object, so that a release racing the
  promotion thread is one case of a table (`Consistent`); `Recorded` says that
  the record is the holder's from its write on. A successor holds `transition`
  and an owner `main`: one of each.
- `ResidentPollerProofs`: `Invariance`, `TypeCorrect`, `AlwaysTracked`,
  `StopIsTrue`, `AlwaysFresh`.
  *Argument.* `Owned` extends `Tracked` to a process that is gone but not yet
  closed, since only then does `_active` let go of it; `Starting` carries through
  the steps of `ensure_poller` that nothing else runs and which files are written;
  `Stopping` that a stop waits for the only task that may run, and has killed it
  before it gives up. `Sessions` says at which steps a session may be open, which
  makes the two published states true (`Truthful`). `Numbered` orders requests,
  polls and answers; that the request is read before the poll and compared after
  it is what makes `ServedFresh` inductive.

Every invariant, action property and refinement that a passing run checks is
stated by a theorem. Only model-checked: liveness (`NoZombie`, `HostedResolved`,
`CancelEnds`, `ShutdownSettles`, `StopEnds`, `StartupCompletes`, `TimedCallEnds`,
`LockIsServed`, `HandoffCompletes`, `ReleaseFrees`, `RequestServed`), which is out
of the prover's reach.

## 5. What is not modelled

Contents of messages, results and files; the cancel file and bootstrap data of
workers; query and history pages, event retention, dismissal; the mesh import
that follows a download, hiding of downloads and `close()` of the file service;
`WaitAll`, event cursor and results of the agent; in `TaskStore`, `TaskHost` and
`AgentTasks`, file and database errors other than the swallowed write, the failed
start and the failed package; the contents of a rebuilt database, the backup
centre's own operations, sidecar files, and the recovery of production databases
that are not upgraded through the MESH adapter; the retry loop of the Windows
lock; intervals, counters and snapshots of the resident poller, and several
controllers of one run; the byte `_open_lock_handle` appends to an empty lock file
(a promotion thread that outlived `release` by its timeout could put it before the
record another backend is writing at that moment, which is then unreadable). Most of the repository's lines are parsers, queries, exports, forms and
views over SQLite and spreadsheets: sequential transformations whose correctness
is a matter of data formats, which a state machine says nothing about. Network I/O,
parsers, exports and user interface have no state of their own worth a model.

## 6. Plan

Done: task record, process host, download queue and agent task manager first,
because everything else rests on them; then the file lock, the instance lock and
the database upgrade, where a mistake costs data; then the resident poller, the
first of the long-lived workers. Next, in this order:

1. `TaskEventHub`: bounded streams, guards, unsubscription during publication.
2. `ShutdownManager`, composed with `TaskHost`: everything started is ended.
3. `ExternalTasks`: traffic and online MR polling of agent tasks, composing
   `AgentTasks` with `TaskStore`'s external events; late and duplicate answers.
4. Ground scheduler (which drives `ResidentPoller`), WPS outbox.
5. Composition of `TaskHost` and `TaskStore` for one task, and of
   `DownloadQueue` with `TaskLifecycle` (where the queue breaks it).

Theorems to add: the non-temporal steps of the liveness arguments (a step of a
fair thread leaves its program counter closer to the end), and the same safety
theorems for each module of the list above.
