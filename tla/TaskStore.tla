----------------------------- MODULE TaskStore -----------------------------
(***************************************************************************)
(* The durable task record of one site (tasks.db) and everything that      *)
(* writes it: the host of each local task (TaskRuntime publishing through  *)
(* the event hub), API threads that cancel tasks or feed events of         *)
(* external tasks, the artifact callback, orphan recovery after a backend  *)
(* restart, acknowledgement and cleanup.                                   *)
(*                                                                         *)
(* A publication is not atomic: TaskApplicationService._persist_event and  *)
(* record_external_event read the snapshot in one transaction and write    *)
(* the updated snapshot in another, guarded by the row's status only.      *)
(* Between the two any other writer may step.                              *)
(***************************************************************************)
EXTENDS TaskStates, Naturals

CONSTANTS Tasks,        \* task ids; each is prepared at most once
          LocalTasks,   \* the tasks with source = "local"; the others are external
          Keys,         \* resource keys
          KeysOf,       \* KeysOf[t]: the resource keys task t asks for
          Users,        \* threads of the API and of the external task pollers
          MaxPid,       \* bound: backend incarnations
          MaxLost       \* bound: hub publications whose write fails and is swallowed

ASSUME TasksAssumption == LocalTasks \subseteq Tasks
ASSUME KeysAssumption == /\ KeysOf \in [Tasks -> SUBSET Keys]
                         /\ \A t \in Tasks \ LocalTasks : KeysOf[t] = {}
ASSUME UsersAssumption == Users \cap Tasks = {}
ASSUME BoundsAssumption == MaxPid \in Nat \ {0} /\ MaxLost \in Nat

VARIABLES
  status,     \* status[t]: the row's status, "none" when there is no row
  owner,      \* owner[t]: the row's owner_pid
  warned,     \* tasks whose stored result has business warnings
  acked,      \* tasks with acknowledged_at set
  tombs,      \* task_retention_tombstones
  pid,        \* the running backend
  stage,      \* stage[t]: how far the host of local task t has come
  outcome,    \* outcome[t]: the terminal status the host decided on, or the
              \* status read by reject_artifact_result before it publishes
  pubs,       \* publications between their read and their write
  cancelling, \* hosted tasks whose runtime record has cancel_requested
  dropped,    \* tasks given up after a protocol failure, their runtime record
              \* left open
  asked,      \* asked[u]: the task user thread u is cancelling
  orphans,    \* orphans[t]: the status recovery listed for t, or "none"
  recovered,  \* this backend has started its startup recovery
  approved,   \* tasks a cleanup has decided to delete and not deleted yet
  lost        \* swallowed write failures so far

store == <<status, owner, warned, acked, tombs>>
host == <<stage, outcome, cancelling, dropped>>
vars == <<status, owner, warned, acked, tombs, pid, stage, outcome,
          cancelling, dropped, pubs, asked, orphans, recovered, approved, lost>>

Threads == Tasks \cup Users      \* the host thread of task t is called t
Stages == {"none", "prepared", "pending", "starting", "running", "closing",
           "callback", "rejecting", "done"}
EarlyStages == {"prepared", "pending", "starting", "running"}
Publications == [by : Threads, task : Tasks, ev : Events,
                 seen : States, warn : BOOLEAN]

Init ==
  /\ status = [t \in Tasks |-> "none"]
  /\ owner = [t \in Tasks |-> 0]
  /\ warned = {} /\ acked = {} /\ tombs = {}
  /\ pid = 1
  /\ stage = [t \in Tasks |-> "none"]
  /\ outcome = [t \in Tasks |-> "none"]
  /\ cancelling = {} /\ dropped = {}
  /\ pubs = {}
  /\ asked = [u \in Users |-> "none"]
  /\ orphans = [t \in Tasks |-> "none"]
  /\ recovered = FALSE
  /\ approved = {}
  /\ lost = 0

-----------------------------------------------------------------------------
(* Publishing an event: the read, then the guarded write.                  *)

Idle(th) == \A p \in pubs : p.by # th

\* The first transaction: repository.get.  No row, no publication.
BeginPublish(th, t, ev) ==
  pubs' = IF status[t] = "none" THEN pubs
          ELSE pubs \cup {[by |-> th, task |-> t, ev |-> ev,
                           seen |-> status[t], warn |-> t \in warned]}

\* Faulty variant: the tombstone is not looked at.
WritableRetired(p) == status[p.task] \in AllowedFrom(p.seen, p.ev) \cup {"none"}

\* TaskRepository.record refuses a retired task; _upsert inserts a missing
\* row and updates one whose status is among the allowed ones.
Writable(p) ==
  /\ p.task \notin tombs
  /\ status[p.task] \in AllowedFrom(p.seen, p.ev) \cup {"none"}

\* The second transaction.
Record(p) ==
  /\ p \in pubs
  /\ pubs' = pubs \ {p}
  /\ IF Writable(p)
     THEN /\ status' = [status EXCEPT ![p.task] = ApplyEvent(p.seen, p.ev)]
          /\ warned' = IF ApplyWarning(p.warn, p.ev)
                       THEN warned \cup {p.task} ELSE warned \ {p.task}
     ELSE UNCHANGED <<status, warned>>
  /\ UNCHANGED <<owner, acked, tombs, pid, host, asked, orphans, recovered,
                 approved, lost>>

\* The write raises (SQLite busy, disk full): _persist_event logs it and
\* returns False, and the publisher carries on as if it had been written.
LoseWrite(p) ==
  /\ p \in pubs
  /\ lost < MaxLost
  /\ lost' = lost + 1
  /\ pubs' = pubs \ {p}
  /\ UNCHANGED <<store, pid, host, asked, orphans, recovered, approved>>

-----------------------------------------------------------------------------
(* The host of a local task.                                               *)

\* Faulty variant: a task that has not started yet holds no key.
ConflictStarted(t) == \E s \in Tasks \ {t} : /\ status[s] \in Active \ {"PENDING"}
                                             /\ KeysOf[s] \cap KeysOf[t] # {}

\* prepare: save_with_resource_guard checks the keys of the other active
\* rows and inserts the PENDING row in one BEGIN IMMEDIATE transaction.
Conflict(t) == \E s \in Tasks \ {t} : /\ status[s] \in Active
                                      /\ KeysOf[s] \cap KeysOf[t] # {}

Prepare(t) ==
  /\ t \in LocalTasks
  /\ stage[t] = "none"
  /\ status[t] = "none"
  /\ t \notin tombs
  /\ ~Conflict(t)
  /\ status' = [status EXCEPT ![t] = "PENDING"]
  /\ owner' = [owner EXCEPT ![t] = pid]
  /\ stage' = [stage EXCEPT ![t] = "prepared"]
  /\ UNCHANGED <<warned, acked, tombs, pid, outcome, cancelling, dropped, pubs,
                 asked, orphans, recovered, approved, lost>>

\* runtime.prepare raises: _record_prepare_failure fails the row it saved,
\* provided the row is still PENDING.
PrepareFails(t) ==
  /\ stage[t] = "prepared"
  /\ status' = [status EXCEPT ![t] = IF @ = "PENDING" THEN "FAILED" ELSE @]
  /\ stage' = [stage EXCEPT ![t] = "done"]
  /\ UNCHANGED <<owner, warned, acked, tombs, pid, outcome, cancelling, dropped,
                 pubs, asked, orphans, recovered, approved, lost>>

\* The host publishes ev for its own task and moves on to stage next.
HostPublish(t, ev, from, next, result) ==
  /\ stage[t] = from
  /\ Idle(t)
  /\ BeginPublish(t, t, ev)
  /\ stage' = [stage EXCEPT ![t] = next]
  /\ outcome' = [outcome EXCEPT ![t] = result]
  /\ UNCHANGED <<store, pid, cancelling, dropped, asked, orphans, recovered,
                 approved, lost>>

HostPending(t) == HostPublish(t, StateEvent("PENDING"), "prepared", "pending", "none")
HostStarting(t) == HostPublish(t, StateEvent("STARTING"), "pending", "starting", "none")
HostProgress(t) == HostPublish(t, ProgressEvent, "running", "running", "none")

\* mark_running says nothing of a task that is being cancelled already.
HostRunning(t) ==
  /\ t \notin cancelling
  /\ HostPublish(t, StateEvent("RUNNING"), "starting", "running", "none")

HostRunningSilently(t) ==
  /\ stage[t] = "starting"
  /\ Idle(t)
  /\ t \in cancelling
  /\ stage' = [stage EXCEPT ![t] = "running"]
  /\ UNCHANGED <<store, pid, outcome, cancelling, dropped, pubs, asked,
                 orphans, recovered, approved, lost>>

\* fail_start: the process could not be started, or, once marked running, its
\* monitor threads could not be.
HostFailStart(t) ==
  \E from \in {"starting", "running"} :
    IF t \in cancelling
    THEN HostPublish(t, CancelledEvent, from, "closing", "CANCELLED")
    ELSE HostPublish(t, ErrorEvent, from, "closing", "FAILED")

\* complete: the payload of the terminal event the worker reported or the
\* host derived from the exit code.
HostPayload(t) ==
  \/ \E s \in Terminal, w \in BOOLEAN :
       HostPublish(t, FinishedEvent(s, w), "running", "closing", s)
  \/ HostPublish(t, ErrorEvent, "running", "closing", "FAILED")
  \/ HostPublish(t, CancelledEvent, "running", "closing", "CANCELLED")

\* complete / fail_start, second publication: the terminal state event.
HostClose(t) ==
  HostPublish(t, StateEvent(outcome[t]), "closing", "callback", "none")

\* abandon: only the state event.
HostAbandon(t) ==
  HostPublish(t, StateEvent("CANCELLED"), "running", "callback", "none")

\* _terminate_protocol_failure: the worker sent a corrupt frame and neither
\* terminate nor kill brought its reader and waiter to an end.  The host is
\* finalized and calls back, and publishes nothing: the row stays active and
\* the runtime's record stays open.
HostDrop(t) ==
  /\ stage[t] = "running"
  /\ stage' = [stage EXCEPT ![t] = "callback"]
  /\ dropped' = dropped \cup {t}
  /\ UNCHANGED <<store, pid, outcome, cancelling, pubs, asked, orphans,
                 recovered, approved, lost>>

-----------------------------------------------------------------------------
(* The completion callback: WebArtifactStore.complete and .fail.           *)

HostLeave(t) == stage' = [stage EXCEPT ![t] = "done"]

\* The task produces no artifact, or its row is gone.
CallbackNone(t) ==
  /\ stage[t] = "callback"
  /\ Idle(t)
  /\ HostLeave(t)
  /\ UNCHANGED <<store, pid, outcome, cancelling, dropped, pubs, asked,
                 orphans, recovered, approved, lost>>

\* finalize_artifact_result: replaces the result of a COMPLETED task.
FinalizeArtifact(t) ==
  /\ status[t] = "COMPLETED"
  /\ \E w \in BOOLEAN :
       HostPublish(t, FinalizedEvent(w), "callback", "done", "none")

\* reject_artifact_result reads the snapshot to choose the status it will
\* ask for; record_external_event then reads it again.
RejectArtifactRead(t) ==
  /\ stage[t] = "callback"
  /\ Idle(t)
  /\ status[t] # "none"
  /\ stage' = [stage EXCEPT ![t] = "rejecting"]
  /\ outcome' = [outcome EXCEPT
                   ![t] = IF status[t] = "COMPLETED" THEN "FAILED" ELSE status[t]]
  /\ UNCHANGED <<store, pid, cancelling, dropped, pubs, asked, orphans,
                 recovered, approved, lost>>

RejectArtifact(t) ==
  HostPublish(t, RejectedEvent(outcome[t]), "rejecting", "done", "none")

-----------------------------------------------------------------------------
(* API threads and pollers of external tasks.                              *)

\* cancel_task: only an active local task; the STOPPING event is published
\* after the check, outside any lock.
CancelTask(u, t) ==
  /\ asked[u] = "none"
  /\ Idle(u)
  /\ t \in LocalTasks
  /\ status[t] \in Active
  /\ asked' = [asked EXCEPT ![u] = t]
  /\ UNCHANGED <<store, pid, host, pubs, orphans, recovered, approved, lost>>

\* The runtime holds an open record of t; that of a dropped task stays for as
\* long as this backend lives.
Registered(t) ==
  t \in dropped \/ stage[t] \in {"pending", "starting", "running", "closing"}

StopEvent(u, t) ==
  /\ BeginPublish(u, t, StateEvent("STOPPING"))
  /\ cancelling' = IF Registered(t) THEN cancelling \cup {t} ELSE cancelling
  /\ UNCHANGED <<store, pid, stage, outcome, dropped, orphans, recovered,
                 approved, lost>>

CancelPublish(u, t) ==
  /\ asked[u] = t
  /\ StopEvent(u, t)
  /\ asked' = [asked EXCEPT ![u] = "none"]

\* LocalProcessAdapter.cancel_job and begin_shutdown cancel what is hosted,
\* whatever its row says.
RequestCancel(u, t) ==
  /\ asked[u] = "none"
  /\ Idle(u)
  /\ Registered(t)
  /\ StopEvent(u, t)
  /\ UNCHANGED asked

\* Faulty variant: the visit does not ask whether the task has completed.
ReconcileArtifactAny(u, t) ==
  /\ asked[u] = "none"
  /\ Idle(u)
  /\ t \in LocalTasks
  /\ status[t] # "none"
  /\ \E w \in BOOLEAN : BeginPublish(u, t, FinalizedEvent(w))
  /\ UNCHANGED <<store, pid, host, asked, orphans, recovered, approved, lost>>

\* reconcile_completed_task: a later visit finalizes a COMPLETED task whose
\* artifact is still open; it never rejects.
ReconcileArtifact(u, t) ==
  /\ asked[u] = "none"
  /\ Idle(u)
  /\ t \in LocalTasks
  /\ status[t] = "COMPLETED"
  /\ \E w \in BOOLEAN : BeginPublish(u, t, FinalizedEvent(w))
  /\ UNCHANGED <<store, pid, host, asked, orphans, recovered, approved, lost>>

\* create_external_task: record with allowed_from = () only inserts.
CreateExternalTask(t) ==
  /\ t \in Tasks \ LocalTasks
  /\ status[t] = "none"
  /\ t \notin tombs
  /\ status' = [status EXCEPT ![t] = "PENDING"]
  /\ UNCHANGED <<owner, warned, acked, tombs, pid, host, pubs, asked, orphans,
                 recovered, approved, lost>>

\* record_external_event: remote states, samples and terminal results.
ExternalEvents ==
  {StateEvent(s) : s \in States} \cup
  {ProgressEvent, ErrorEvent, CancelledEvent} \cup
  {FinishedEvent("COMPLETED", w) : w \in BOOLEAN}

RecordExternalEvent(u, t, ev) ==
  /\ asked[u] = "none"
  /\ Idle(u)
  /\ t \in Tasks \ LocalTasks
  /\ status[t] # "none"
  /\ BeginPublish(u, t, ev)
  /\ UNCHANGED <<store, pid, host, asked, orphans, recovered, approved, lost>>

-----------------------------------------------------------------------------
(* Orphan recovery.                                                        *)

\* The backend dies: in-flight publications, decisions and hosts are lost,
\* the Windows job object kills the workers, rows stay.  It restarts.
Crash ==
  /\ pid < MaxPid
  /\ pid' = pid + 1
  /\ pubs' = {}
  /\ stage' = [t \in Tasks |-> IF stage[t] = "none" THEN "none" ELSE "done"]
  /\ outcome' = [t \in Tasks |-> "none"]
  /\ cancelling' = {} /\ dropped' = {}
  /\ asked' = [u \in Users |-> "none"]
  /\ orphans' = [t \in Tasks |-> "none"]
  /\ recovered' = FALSE
  /\ approved' = {}
  /\ UNCHANGED <<store, lost>>

\* Faulty variants: recovery does not ask who owns the row; it forgets rows
\* that had not started.
OrphanedAnyOwner(t) == t \in LocalTasks /\ status[t] \in Active
OrphanedStarted(t) == /\ t \in LocalTasks
                      /\ status[t] \in Active \ {"PENDING"}
                      /\ owner[t] # pid

\* A local row that claims to be active and whose owner process is gone.
Orphaned(t) == /\ t \in LocalTasks
               /\ status[t] \in Active
               /\ owner[t] # pid

\* reconcile_orphaned_local_tasks: lists the active rows ...
ListOrphans ==
  /\ \A t \in Tasks : orphans[t] = "none"
  /\ recovered' = TRUE
  /\ orphans' = [t \in Tasks |-> IF Orphaned(t) THEN status[t] ELSE "none"]
  /\ UNCHANGED <<store, pid, host, pubs, asked, approved, lost>>

\* ... and fails each one in a transaction of its own, if its status is
\* still the listed one.
FailOrphan(t) ==
  /\ orphans[t] # "none"
  /\ orphans' = [orphans EXCEPT ![t] = "none"]
  /\ status' = [status EXCEPT
                  ![t] = IF @ = orphans[t] THEN "FAILED" ELSE @]
  /\ UNCHANGED <<owner, warned, acked, tombs, pid, host, pubs, asked,
                 recovered, approved, lost>>

-----------------------------------------------------------------------------
(* Acknowledgement and cleanup.                                            *)

Attention(t) == RequiresAttention(status[t], t \in warned)

\* acknowledge_attention_tasks, one transaction for all requested tasks.
AcknowledgeTasks(ts) ==
  LET new == {t \in ts \ acked : status[t] \in Terminal /\ Attention(t)} IN
  /\ new # {}
  /\ acked' = acked \cup new
  /\ UNCHANGED <<status, owner, warned, tombs, pid, host, pubs, asked,
                 orphans, recovered, approved, lost>>

\* TaskCleanupService._decision, as far as the task's own row decides it.
CanCleanup(t) == /\ status[t] \in Terminal
                 /\ Attention(t) => t \in acked

\* cleanup_tasks reads the requested rows one after the other and decides ...
DecideCleanup(t) ==
  /\ t \notin approved
  /\ CanCleanup(t)
  /\ approved' = approved \cup {t}
  /\ UNCHANGED <<store, pid, host, pubs, asked, orphans, recovered, lost>>

\* ... and delete_task_owned_rows removes, in one later transaction, those
\* that are still terminal, leaving a tombstone for each.
DeleteApproved ==
  LET gone == {t \in approved : status[t] \in Terminal} IN
  /\ approved # {}
  /\ approved' = {}
  /\ status' = [t \in Tasks |-> IF t \in gone THEN "none" ELSE status[t]]
  /\ warned' = warned \ gone
  /\ acked' = acked \ gone
  /\ tombs' = tombs \cup gone
  /\ UNCHANGED <<owner, pid, host, pubs, asked, orphans, recovered, lost>>

-----------------------------------------------------------------------------

\* What the host of t does of its own accord, progress reports apart.
HostAdvance(t) ==
  \/ PrepareFails(t) \/ HostPending(t) \/ HostStarting(t) \/ HostRunning(t)
  \/ HostRunningSilently(t)
  \/ HostFailStart(t) \/ HostPayload(t) \/ HostClose(t) \/ HostAbandon(t)
  \/ CallbackNone(t) \/ FinalizeArtifact(t)
  \/ RejectArtifactRead(t) \/ RejectArtifact(t)

Next ==
  \/ \E t \in Tasks : \/ Prepare(t) \/ HostAdvance(t) \/ HostProgress(t)
                      \/ HostDrop(t)
                      \/ CreateExternalTask(t) \/ FailOrphan(t)
                      \/ DecideCleanup(t)
  \/ \E u \in Users, t \in Tasks : \/ CancelTask(u, t) \/ CancelPublish(u, t)
                                   \/ RequestCancel(u, t)
                                   \/ ReconcileArtifact(u, t)
  \/ \E u \in Users, t \in Tasks, ev \in ExternalEvents :
       RecordExternalEvent(u, t, ev)
  \/ \E p \in pubs : Record(p) \/ LoseWrite(p)
  \/ \E ts \in SUBSET Tasks : AcknowledgeTasks(ts)
  \/ DeleteApproved
  \/ ListOrphans
  \/ Crash

Spec == Init /\ [][Next]_vars

(***************************************************************************)
(* Fairness is that of the backend's own threads: a host that is not       *)
(* waiting for its worker takes its next step; a write that was begun is   *)
(* finished; an accepted cancel is published; a restarted backend runs its *)
(* one startup recovery to the end.  A worker need not end (the resident   *)
(* poller does not, unless it is stopped), so nothing is assumed of a host *)
(* in stage "running"; nor of user requests, cleanups and later recoveries.*)
(***************************************************************************)
StartupRecovery == ~recovered /\ ListOrphans

FairSpec ==
  /\ Spec
  /\ \A t \in Tasks : /\ WF_vars(stage[t] # "running" /\ HostAdvance(t))
                      /\ WF_vars(FailOrphan(t))
  /\ \A th \in Threads : WF_vars(\E p \in pubs : p.by = th /\ Record(p))
  /\ WF_vars(StartupRecovery)
  /\ \A u \in Users : WF_vars(\E t \in Tasks : CancelPublish(u, t))

-----------------------------------------------------------------------------
(* Properties.                                                             *)

TypeOK ==
  /\ status \in [Tasks -> States \cup {"none"}]
  /\ owner \in [Tasks -> Nat]
  /\ warned \subseteq Tasks /\ acked \subseteq Tasks /\ tombs \subseteq Tasks
  /\ pid \in Nat
  /\ stage \in [Tasks -> Stages]
  /\ outcome \in [Tasks -> States \cup {"none"}]
  /\ cancelling \subseteq Tasks /\ dropped \subseteq Tasks
  /\ pubs \subseteq Publications
  /\ asked \in [Users -> Tasks \cup {"none"}]
  /\ orphans \in [Tasks -> Active \cup {"none"}]
  /\ recovered \in BOOLEAN
  /\ approved \subseteq Tasks
  /\ lost \in Nat

\* Two tasks that are active in the store never hold a resource key in
\* common, although only prepare looks at the keys: no late event, recovery
\* or artifact decision may bring a task back to an active state.
ResourceExclusion ==
  \A s, t \in Tasks :
    s # t /\ status[s] \in Active /\ status[t] \in Active
      => KeysOf[s] \cap KeysOf[t] = {}

\* A task whose row was deleted never has a row again: a publication that
\* read the row before the deletion is stopped by the tombstone.
RetiredStaysRetired == \A t \in tombs : status[t] = "none"

\* As long as this backend's host has not decided on an outcome, the store
\* says the task is active: neither recovery nor cleanup nor a cancel closes
\* or removes the record of work that is still being done.
HostedIsActive ==
  \A t \in Tasks : stage[t] \in EarlyStages => status[t] \in Active

(***************************************************************************)
(* Why they hold: the inductive invariant the proofs use.                  *)
(***************************************************************************)

\* What an artifact rejection may still do when it is written.
Withdrawal(seen, to) ==
  \/ to = seen
  \/ seen = "COMPLETED" /\ to = "FAILED"
  \/ seen \in Active /\ to \in Active

\* What a host publishes before it has decided on an outcome.
EarlyEvent(ev) == ev = ProgressEvent \/ \E s \in Active : ev = StateEvent(s)

\* Publications in flight: the row they read is there or retired, and what
\* they ask for fits who asks and what was read.
PublicationOK(p) ==
  /\ status[p.task] # "none" \/ p.task \in tombs
  /\ p.ev.type = "artifact_finalized" => p.seen = "COMPLETED" /\ p.ev.to = "keep"
  /\ p.ev.type = "artifact_rejected" => Withdrawal(p.seen, p.ev.to)
  /\ p.by \in Tasks => p.by = p.task
  /\ p.by \in Users /\ p.task \in LocalTasks =>
       p.ev = StateEvent("STOPPING") \/ p.ev.type = "artifact_finalized"
  /\ p.by = p.task /\ stage[p.task] \in EarlyStages => EarlyEvent(p.ev)
PublicationsOK == \A p \in pubs : PublicationOK(p)

\* Hosts: a task with a live host belongs to this backend; what its host has
\* decided and not published yet is consistent with the row.
HostOK(t) ==
  /\ stage[t] \notin {"none", "done"} => t \in LocalTasks /\ owner[t] = pid
  /\ stage[t] = "closing" => outcome[t] \in Terminal
  /\ stage[t] = "rejecting" =>
       /\ Idle(t)
       /\ outcome[t] \in States
       /\ status[t] = "none" \/ Withdrawal(status[t], outcome[t])
HostsOK == \A t \in Tasks : HostOK(t)

\* Recovery only ever holds rows of earlier backends.
OrphanOK(t) == orphans[t] # "none" => /\ owner[t] # pid
                                      /\ status[t] # "none" \/ t \in tombs
OrphansOK == \A t \in Tasks : OrphanOK(t)

IInv == /\ TypeOK /\ ResourceExclusion /\ RetiredStaysRetired /\ HostedIsActive
        /\ PublicationsOK /\ HostsOK /\ OrphansOK

-----------------------------------------------------------------------------
\* The durable record of each task, as TaskLifecycle sees it.
Life == [t \in Tasks |-> IF t \in tombs THEN "retired"
                         ELSE IF status[t] = "none" THEN "absent" ELSE status[t]]
Lifecycle == INSTANCE TaskLifecycle WITH life <- Life

\* The store implements the abstract life of a task: whatever is published
\* late, recovered, withdrawn or cleaned up, a task is created once, closed
\* once, and a closed outcome only changes from COMPLETED to FAILED.
ImplementsLifecycle == Lifecycle!Spec

\* As long as no write is lost, an accepted cancel is not forgotten and no status
\* event takes a task back: PENDING, STARTING, RUNNING, STOPPING, terminal is the
\* only direction.  (After a swallowed write of the closing event, or when a
\* protocol failure has dropped the task unclosed, the rejection of an artifact
\* can put back the status read before a cancel.)
Rank(s) == CASE s = "PENDING" -> 1 [] s = "STARTING" -> 2 [] s = "RUNNING" -> 3
             [] s = "STOPPING" -> 4 [] OTHER -> 5
ForwardOnly ==
  [][\A t \in Tasks \ dropped : status[t] # "none" /\ status'[t] # "none"
                                  => Rank(status[t]) <= Rank(status'[t])]_vars

\* No zombie of a dead backend: a local row that a restarted backend finds
\* active, of another owner, is closed by its startup recovery, whatever stage
\* its host had reached when the backend died.  The exception is a task whose
\* cancel is written between the recovery's list and its update: its status is
\* no longer the listed one, and the row is left STOPPING.
NoZombie ==
  \A t \in LocalTasks :
    ~recovered /\ status[t] \in Active /\ owner[t] # pid
      ~> \/ status[t] \notin Active
         \/ orphans[t] # "none" /\ orphans[t] # status[t] /\ status[t] = "STOPPING"

\* A cancel racing the end of the worker never leaves the record open: once the
\* host has seen its worker end and begun to report it, the task is eventually
\* closed in the store for good, unless the backend is replaced.  (A worker that
\* goes on running, and one dropped after a protocol failure, keep their row.)
HostedResolved ==
  \A t \in LocalTasks, p \in 1..MaxPid :
    stage[t] \in {"closing", "callback"} /\ t \notin dropped /\ pid = p
      ~> pid # p \/ [](status[t] \notin Active)
=============================================================================
