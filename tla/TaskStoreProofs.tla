-------------------------- MODULE TaskStoreProofs --------------------------
(***************************************************************************)
(* Proofs about TaskStore for every set of tasks, users and resource keys  *)
(* and every bound.                                                        *)
(***************************************************************************)
EXTENDS TaskStore, TLAPS

(***************************************************************************)
(* What a guarded write can do to the status r of the row it finds, for an *)
(* event that read status s: it never takes a closed row back to an active *)
(* state, and the only closed row it changes is a COMPLETED one, to FAILED.*)
(* This is the contract of _allowed_from and _apply_event together.        *)
(***************************************************************************)
LEMMA GuardedWrite ==
  ASSUME NEW s \in States, NEW ev \in Events,
         ev.type = "artifact_finalized" => s = "COMPLETED" /\ ev.to = "keep",
         ev.type = "artifact_rejected" => Withdrawal(s, ev.to),
         NEW r \in AllowedFrom(s, ev)
  PROVE  /\ r \in States
         /\ ApplyEvent(s, ev) \in States
         /\ \/ r \in Active
            \/ ApplyEvent(s, ev) = r
            \/ r = "COMPLETED" /\ ApplyEvent(s, ev) = "FAILED"
<1>1. r \in States /\ ApplyEvent(s, ev) \in States
  BY DEF ApplyEvent, Events, AllowedFrom
<1>2. CASE ev.type = "artifact_finalized"
  BY <1>1, <1>2 DEF AllowedFrom, ApplyEvent, Closing
<1>3. CASE ev.type = "artifact_rejected"
  BY <1>1, <1>3 DEF AllowedFrom, ApplyEvent, Withdrawal, States, Active, Terminal, Closing
<1>4. CASE ev.type \in {"state", "progress"}
  BY <1>1, <1>4 DEF AllowedFrom, ApplyEvent, StateSources, Closing, States
<1>5. CASE ev.type \in Closing
  BY <1>1, <1>5 DEF AllowedFrom, Closing
<1> QED BY <1>1, <1>2, <1>3, <1>4, <1>5 DEF Events, EventTypes

\* Every event the code publishes is one of Events.
LEMMA EventsTyped ==
  /\ \A s \in States : StateEvent(s) \in Events /\ RejectedEvent(s) \in Events
  /\ \A s \in States, w \in BOOLEAN : FinishedEvent(s, w) \in Events
  /\ \A w \in BOOLEAN : FinalizedEvent(w) \in Events
  /\ ProgressEvent \in Events /\ ErrorEvent \in Events
  /\ CancelledEvent \in Events
BY DEF Events, EventTypes, Closing, States, Active, Terminal, StateEvent, RejectedEvent,
       FinishedEvent, FinalizedEvent, ProgressEvent, ErrorEvent, CancelledEvent

\* An empty database satisfies the invariant.
LEMMA InitOK == Init => IInv
<1> SUFFICES ASSUME Init PROVE IInv
  OBVIOUS
<1> USE DEF Init
<1>1. TypeOK
  BY DEF TypeOK, Stages
<1>2. ResourceExclusion /\ RetiredStaysRetired /\ HostedIsActive
  BY DEF ResourceExclusion, RetiredStaysRetired, HostedIsActive, Active, EarlyStages
<1>3. PublicationsOK /\ HostsOK /\ OrphansOK
  BY DEF PublicationsOK, HostsOK, HostOK, OrphansOK, OrphanOK
<1> QED BY <1>1, <1>2, <1>3 DEF IInv

(***************************************************************************)
(* A publication that is begun by thread th for task t with event ev.      *)
(***************************************************************************)
LEMMA BeginTyped ==
  ASSUME TypeOK, NEW th \in Threads, NEW t \in Tasks, NEW ev \in Events,
         BeginPublish(th, t, ev)
  PROVE  /\ pubs' \subseteq Publications
         /\ pubs \subseteq pubs'
         /\ \A p \in pubs' \ pubs :
              /\ p.by = th /\ p.task = t /\ p.ev = ev /\ p.seen = status[t]
              /\ status[t] # "none"
<1> DEFINE new == [by |-> th, task |-> t, ev |-> ev, seen |-> status[t],
                   warn |-> t \in warned]
<1>1. CASE status[t] = "none"
  BY <1>1 DEF TypeOK, BeginPublish
<1>2. CASE status[t] # "none"
  <2>1. status[t] \in States
    BY <1>2 DEF TypeOK
  <2>2. (t \in warned) \in BOOLEAN
    OBVIOUS
  <2>3. new \in Publications
    BY <2>1, <2>2, Zenon DEF Publications
  <2>4. pubs' = pubs \cup {new}
    BY <1>2 DEF BeginPublish
  <2>5. new.by = th /\ new.task = t /\ new.ev = ev /\ new.seen = status[t]
    OBVIOUS
  <2> HIDE DEF new
  <2> QED BY <1>2, <2>3, <2>4, <2>5 DEF TypeOK
<1> QED BY <1>1, <1>2

(***************************************************************************)
(* Any step of a host that publishes: what it must satisfy to keep IInv.   *)
(***************************************************************************)
LEMMA HostPublishOK ==
  ASSUME IInv, NEW t \in Tasks, NEW ev \in Events, NEW from \in Stages, NEW next \in Stages,
         NEW result \in States \cup {"none"},
         HostPublish(t, ev, from, next, result),
         from \notin {"none", "done"}, next \notin {"none", "rejecting"},
         ev.type = "artifact_finalized" => status[t] = "COMPLETED" /\ ev.to = "keep",
         ev.type = "artifact_rejected" =>
           status[t] = "none" \/ Withdrawal(status[t], ev.to),
         next \in EarlyStages =>
           /\ from \in EarlyStages
           /\ EarlyEvent(ev),
         next = "closing" => result \in Terminal
  PROVE  IInv'
<1> USE DEF HostPublish, store
<1>1. t \in Threads
  BY DEF Threads
<1>2. /\ pubs' \subseteq Publications /\ pubs \subseteq pubs'
      /\ \A p \in pubs' \ pubs :
           /\ p.by = t /\ p.task = t /\ p.ev = ev /\ p.seen = status[t]
           /\ status[t] # "none"
  BY <1>1, BeginTyped DEF IInv
<1>3. TypeOK'
  BY <1>2 DEF IInv, TypeOK
<1>4. ResourceExclusion' /\ RetiredStaysRetired' /\ OrphansOK'
  BY DEF IInv, ResourceExclusion, RetiredStaysRetired, OrphansOK, OrphanOK
<1>5. HostedIsActive'
  BY DEF IInv, TypeOK, HostedIsActive
<1>6. PublicationsOK'
  <2> SUFFICES ASSUME NEW p \in pubs' PROVE PublicationOK(p)'
    BY DEF PublicationsOK
  <2>1. CASE p \in pubs
    <3>1. PublicationOK(p) /\ p.by # t /\ p.task \in Tasks
      BY <2>1 DEF IInv, TypeOK, PublicationsOK, Publications, Idle
    <3> QED BY <3>1 DEF IInv, TypeOK, PublicationOK
  <2>2. CASE p \notin pubs
    BY <1>2, <2>2, UsersAssumption DEF IInv, TypeOK, PublicationOK
  <2> QED BY <2>1, <2>2
<1>7. HostsOK'
  <2> SUFFICES ASSUME NEW q \in Tasks PROVE HostOK(q)'
    BY DEF HostsOK
  <2>1. HostOK(q) /\ HostOK(t)
    BY DEF IInv, HostsOK
  <2>2. CASE q = t
    BY <2>1, <2>2 DEF IInv, TypeOK, HostOK
  <2>3. CASE q # t
    BY <1>2, <2>1, <2>3 DEF IInv, TypeOK, HostOK, Idle
  <2> QED BY <2>2, <2>3
<1> QED BY <1>3, <1>4, <1>5, <1>6, <1>7 DEF IInv

(***************************************************************************)
(* Any step of an API thread or poller that publishes.                     *)
(***************************************************************************)
LEMMA UserPublishOK ==
  ASSUME IInv, NEW w \in Users, NEW t \in Tasks, NEW ev \in Events,
         BeginPublish(w, t, ev),
         UNCHANGED <<store, pid, stage, outcome, dropped, orphans, recovered, approved,
                     lost>>,
         cancelling' \subseteq Tasks, asked' \in [Users -> Tasks \cup {"none"}],
         ev.type = "artifact_finalized" => status[t] = "COMPLETED" /\ ev.to = "keep",
         ev.type # "artifact_rejected",
         t \in LocalTasks =>
           ev = StateEvent("STOPPING") \/ ev.type = "artifact_finalized"
  PROVE  IInv'
<1> USE DEF store
<1>1. w \in Threads
  BY DEF Threads
<1>2. /\ pubs' \subseteq Publications /\ pubs \subseteq pubs'
      /\ \A p \in pubs' \ pubs :
           /\ p.by = w /\ p.task = t /\ p.ev = ev /\ p.seen = status[t]
           /\ status[t] # "none"
  BY <1>1, BeginTyped DEF IInv
<1>3. TypeOK'
  BY <1>2 DEF IInv, TypeOK
<1>4. ResourceExclusion' /\ RetiredStaysRetired' /\ OrphansOK' /\ HostedIsActive'
  BY DEF IInv, ResourceExclusion, RetiredStaysRetired, OrphansOK, OrphanOK,
         HostedIsActive
<1>5. PublicationsOK'
  <2> SUFFICES ASSUME NEW p \in pubs' PROVE PublicationOK(p)'
    BY DEF PublicationsOK
  <2>1. CASE p \in pubs
    BY <2>1 DEF IInv, PublicationsOK, PublicationOK
  <2>2. CASE p \notin pubs
    BY <1>2, <2>2, UsersAssumption DEF PublicationOK
  <2> QED BY <2>1, <2>2
<1>6. HostsOK'
  <2> SUFFICES ASSUME NEW q \in Tasks PROVE HostOK(q)'
    BY DEF HostsOK
  <2> QED BY <1>2, UsersAssumption DEF IInv, HostsOK, HostOK, Idle
<1> QED BY <1>3, <1>4, <1>5, <1>6 DEF IInv

(***************************************************************************)
(* The second transaction of a publication.                                *)
(***************************************************************************)
LEMMA WrittenStatus ==
  ASSUME IInv, NEW p \in pubs, Writable(p)
  PROVE  /\ p \in Publications
         /\ status[p.task] \in AllowedFrom(p.seen, p.ev)
         /\ ApplyEvent(p.seen, p.ev) \in States
         /\ status[p.task] \in States
         /\ \/ status[p.task] \in Active
            \/ ApplyEvent(p.seen, p.ev) = status[p.task]
            \/ status[p.task] = "COMPLETED" /\ ApplyEvent(p.seen, p.ev) = "FAILED"
<1>1. p \in Publications /\ PublicationOK(p)
  BY DEF IInv, TypeOK, PublicationsOK
<1>2. status[p.task] \in AllowedFrom(p.seen, p.ev)
  BY <1>1 DEF Writable, PublicationOK
<1>3. p.seen \in States /\ p.ev \in Events
  BY <1>1 DEF Publications
<1> QED BY <1>1, <1>2, <1>3, GuardedWrite DEF PublicationOK

\* On a local task, another thread than the host can only ask it to stop while
\* it is active, or rewrite the result of a completed one.
LEMMA UserWrite ==
  ASSUME IInv, NEW p \in pubs, Writable(p), p.by \in Users, p.task \in LocalTasks
  PROVE  \/ status[p.task] \in Active /\ ApplyEvent(p.seen, p.ev) = "STOPPING"
         \/ ApplyEvent(p.seen, p.ev) = status[p.task]
<1>1. PublicationOK(p) /\ status[p.task] \in AllowedFrom(p.seen, p.ev)
  BY WrittenStatus DEF IInv, PublicationsOK
<1>2. CASE p.ev = StateEvent("STOPPING")
  BY <1>1, <1>2 DEF AllowedFrom, StateSources, ApplyEvent, StateEvent, Terminal, Closing
<1>3. CASE p.ev.type = "artifact_finalized"
  BY <1>1, <1>3 DEF AllowedFrom, ApplyEvent, PublicationOK, Closing
<1> QED BY <1>1, <1>2, <1>3 DEF PublicationOK

\* Before its host has decided on an outcome, a task stays active whoever
\* writes.
LEMMA EarlyWrite ==
  ASSUME IInv, NEW p \in pubs, Writable(p), stage[p.task] \in EarlyStages
  PROVE  ApplyEvent(p.seen, p.ev) \in Active
<1>1. p \in Publications /\ PublicationOK(p)
  BY DEF IInv, TypeOK, PublicationsOK
<1>2. status[p.task] \in Active /\ HostOK(p.task)
  BY <1>1 DEF IInv, HostedIsActive, HostsOK, Publications
<1>3. CASE p.by \in Tasks
  <2>1. EarlyEvent(p.ev)
    BY <1>1, <1>3 DEF PublicationOK
  <2>2. CASE p.ev = ProgressEvent
    BY <1>2, <2>2, WrittenStatus DEF AllowedFrom, ApplyEvent, ProgressEvent, Closing
  <2>3. CASE \E s \in Active : p.ev = StateEvent(s)
    BY <2>3 DEF ApplyEvent, StateEvent, Active
  <2> QED BY <2>1, <2>2, <2>3 DEF EarlyEvent
<1>4. CASE p.by \in Users
  BY <1>2, <1>4, UserWrite DEF HostOK, EarlyStages, Active
<1> QED BY <1>1, <1>3, <1>4 DEF Publications, Threads

\* The guarded write of a publication (TaskRepository.record) keeps it, however
\* old the read it was derived from.
LEMMA RecordOK == ASSUME IInv, NEW p \in pubs, Record(p) PROVE IInv'
<1> USE DEF Record, host
<1>1. CASE ~Writable(p)
  <2>1. UNCHANGED <<status, owner, warned, acked, tombs, pid, stage, outcome,
                    cancelling, dropped, asked, orphans, recovered, approved, lost>>
        /\ pubs' = pubs \ {p}
    BY <1>1
  <2> QED
    BY <2>1 DEF IInv, TypeOK, ResourceExclusion, RetiredStaysRetired, HostedIsActive,
       PublicationsOK, PublicationOK, HostsOK, HostOK, Idle, OrphansOK, OrphanOK
<1>2. CASE Writable(p)
  <2> DEFINE to == ApplyEvent(p.seen, p.ev)
  <2>1. /\ p.task \in Tasks /\ p.by \in Threads /\ p.task \notin tombs
        /\ to \in States /\ status[p.task] \in States
        /\ \/ status[p.task] \in Active
           \/ to = status[p.task]
           \/ status[p.task] = "COMPLETED" /\ to = "FAILED"
    BY <1>2, WrittenStatus DEF Publications, Writable
  <2>2. /\ status' = [status EXCEPT ![p.task] = to]
        /\ warned' \subseteq warned \cup {p.task}
        /\ pubs' = pubs \ {p}
        /\ UNCHANGED <<owner, acked, tombs, pid, stage, outcome, cancelling, dropped,
                       asked, orphans, recovered, approved, lost>>
    BY <1>2
  <2>3. stage[p.task] \in EarlyStages => to \in Active
    BY <1>2, EarlyWrite
  <2>4. p.by \in Users /\ p.task \in LocalTasks =>
          \/ status[p.task] \in Active /\ to = "STOPPING"
          \/ to = status[p.task]
    BY <1>2, UserWrite
  <2> HIDE DEF to, Record
  <2>5. TypeOK'
    BY <2>1, <2>2 DEF IInv, TypeOK
  <2>6. ResourceExclusion'
    <3>1. \A t \in Tasks : status'[t] \in Active => status[t] \in Active
      BY <2>1, <2>2 DEF IInv, TypeOK, Active
    <3> QED BY <3>1 DEF IInv, ResourceExclusion
  <2>7. RetiredStaysRetired' /\ HostedIsActive'
    BY <2>1, <2>2, <2>3 DEF IInv, TypeOK, RetiredStaysRetired, HostedIsActive
  <2>8. \A t \in Tasks : status[t] # "none" => status'[t] # "none"
    BY <2>1, <2>2 DEF IInv, TypeOK, States, Active, Terminal
  <2>9. PublicationsOK'
    <3> SUFFICES ASSUME NEW r \in pubs' PROVE PublicationOK(r)'
      BY DEF PublicationsOK
    <3>1. PublicationOK(r) /\ r.task \in Tasks
      BY <2>2 DEF IInv, TypeOK, PublicationsOK, Publications
    <3> QED BY <2>2, <2>8, <3>1 DEF PublicationOK
  <2>10. HostsOK'
    <3> SUFFICES ASSUME NEW q \in Tasks PROVE HostOK(q)'
      BY DEF HostsOK
    <3>1. HostOK(q)
      BY DEF IInv, HostsOK
    <3>2. CASE q = p.task /\ stage[q] = "rejecting"
      <4>1. p.by \in Users /\ q \in LocalTasks
        BY <2>1, <3>1, <3>2 DEF HostOK, Idle, IInv, PublicationsOK, PublicationOK, Threads
      <4>2. to = "STOPPING" => to \in Active
        BY DEF Active
      <4>3. status'[q] = to
        BY <2>1, <2>2, <3>2 DEF IInv, TypeOK
      <4>4. Idle(q)'
        BY <2>2, <3>1, <3>2 DEF HostOK, Idle
      <4>5. status[q] # "none" /\ Withdrawal(status[q], outcome[q]) /\ outcome[q] \in States
        BY <2>1, <3>1, <3>2 DEF HostOK, States, Active, Terminal
      <4>6. Withdrawal(to, outcome[q])
        BY <2>4, <4>1, <4>2, <4>5, <3>2 DEF Withdrawal, Active
      <4> QED BY <2>2, <3>1, <4>3, <4>4, <4>5, <4>6 DEF HostOK
    <3>3. CASE q # p.task \/ stage[q] # "rejecting"
      BY <2>1, <2>2, <3>1, <3>3 DEF HostOK, Idle, IInv, TypeOK
    <3> QED BY <3>2, <3>3
  <2>11. OrphansOK'
    BY <2>2, <2>8 DEF IInv, OrphansOK, OrphanOK
  <2> QED BY <2>5, <2>6, <2>7, <2>9, <2>10, <2>11 DEF IInv
<1> QED BY <1>1, <1>2

(***************************************************************************)
(* The steps of a host.                                                    *)
(***************************************************************************)
LEMMA PrepareOK == ASSUME IInv, NEW t \in Tasks, Prepare(t) PROVE IInv'
<1> USE DEF Prepare
<1>1. TypeOK'
  BY DEF IInv, TypeOK, States, Active, Stages
<1>2. ResourceExclusion'
  <2> SUFFICES ASSUME NEW q \in Tasks, NEW r \in Tasks, q # r,
                      status'[q] \in Active, status'[r] \in Active
               PROVE  KeysOf[q] \cap KeysOf[r] = {}
    BY DEF ResourceExclusion
  <2>1. \A s \in Tasks \ {t} : status'[s] = status[s]
    BY DEF IInv, TypeOK
  <2> QED BY <2>1 DEF IInv, ResourceExclusion, Conflict
<1>3. RetiredStaysRetired' /\ HostedIsActive'
  BY DEF IInv, TypeOK, RetiredStaysRetired, HostedIsActive, Active
<1>4. PublicationsOK'
  <2> SUFFICES ASSUME NEW p \in pubs PROVE PublicationOK(p)'
    BY DEF PublicationsOK
  <2>1. PublicationOK(p) /\ p.task \in Tasks
    BY DEF IInv, TypeOK, PublicationsOK, Publications
  <2>2. p.task # t
    BY <2>1 DEF PublicationOK
  <2> QED BY <2>1, <2>2 DEF IInv, TypeOK, PublicationOK
<1>5. HostsOK' /\ OrphansOK'
  BY DEF IInv, TypeOK, HostsOK, HostOK, OrphansOK, OrphanOK, Idle
<1> QED BY <1>1, <1>2, <1>3, <1>4, <1>5 DEF IInv

\* A prepare that fails after its save closes only the row it saved.
LEMMA PrepareFailsOK == ASSUME IInv, NEW t \in Tasks, PrepareFails(t) PROVE IInv'
<1> USE DEF PrepareFails
<1>1. TypeOK'
  BY DEF IInv, TypeOK, States, Terminal, Stages
<1>2. \A q \in Tasks : /\ status'[q] \in Active => status[q] \in Active
                       /\ status'[q] = "none" <=> status[q] = "none"
                       /\ q # t => status'[q] = status[q] /\ stage'[q] = stage[q]
  BY DEF IInv, TypeOK, Active
<1>3. stage'[t] = "done"
  BY DEF IInv, TypeOK
<1>4. ResourceExclusion' /\ RetiredStaysRetired'
  BY <1>2 DEF IInv, TypeOK, ResourceExclusion, RetiredStaysRetired
<1>5. HostedIsActive'
  BY <1>2, <1>3 DEF IInv, HostedIsActive, EarlyStages
<1>6. PublicationsOK'
  <2> SUFFICES ASSUME NEW p \in pubs PROVE PublicationOK(p)'
    BY DEF PublicationsOK
  <2>1. PublicationOK(p) /\ p.task \in Tasks
    BY DEF IInv, TypeOK, PublicationsOK, Publications
  <2> QED BY <1>2, <1>3, <2>1 DEF PublicationOK, EarlyStages
<1>7. HostsOK' /\ OrphansOK'
  BY <1>2, <1>3 DEF IInv, HostsOK, HostOK, OrphansOK, OrphanOK, Idle
<1> QED BY <1>1, <1>4, <1>5, <1>6, <1>7 DEF IInv

\* Steps of a host that only move it on.
LEMMA HostMovesOK ==
  ASSUME IInv, NEW t \in Tasks,
         HostRunningSilently(t) \/ CallbackNone(t) \/ RejectArtifactRead(t)
  PROVE  IInv'
<1> USE DEF store
<1>1. /\ UNCHANGED <<status, owner, warned, acked, tombs, pid, cancelling, dropped, pubs,
                     asked, orphans, recovered, approved, lost>>
      /\ Idle(t)
      /\ \E next \in {"running", "done", "rejecting"} :
           stage' = [stage EXCEPT ![t] = next]
      /\ stage'[t] = "running" => stage[t] = "starting"
      /\ stage[t] \notin {"none", "done"}
  BY DEF IInv, TypeOK, HostRunningSilently, CallbackNone, RejectArtifactRead, HostLeave
<1>2. /\ outcome' \in [Tasks -> States \cup {"none"}]
      /\ \A q \in Tasks \ {t} : outcome'[q] = outcome[q]
      /\ stage'[t] = "rejecting" =>
           outcome'[t] \in States /\ Withdrawal(status[t], outcome'[t])
  BY DEF IInv, TypeOK, HostRunningSilently, CallbackNone, RejectArtifactRead, HostLeave,
         Withdrawal, States, Terminal
<1>3. TypeOK'
  <2>1. stage' \in [Tasks -> Stages]
    BY <1>1 DEF IInv, TypeOK, Stages
  <2> QED BY <1>1, <1>2, <2>1 DEF IInv, TypeOK
<1>4. ResourceExclusion' /\ RetiredStaysRetired' /\ OrphansOK'
  BY <1>1 DEF IInv, ResourceExclusion, RetiredStaysRetired, OrphansOK, OrphanOK
<1>5. HostedIsActive'
  BY <1>1 DEF IInv, TypeOK, HostedIsActive, EarlyStages
<1>6. PublicationsOK'
  <2> SUFFICES ASSUME NEW p \in pubs PROVE PublicationOK(p)'
    BY <1>1 DEF PublicationsOK
  <2>1. PublicationOK(p) /\ p.task \in Tasks /\ p.by # t
    BY <1>1 DEF IInv, TypeOK, PublicationsOK, Publications, Idle
  <2> QED BY <1>1, <2>1 DEF IInv, TypeOK, PublicationOK
<1>7. HostsOK'
  <2> SUFFICES ASSUME NEW q \in Tasks PROVE HostOK(q)'
    BY DEF HostsOK
  <2>1. HostOK(q) /\ HostOK(t) /\ Idle(t)' /\ Idle(q)' = Idle(q)
    BY <1>1 DEF IInv, HostsOK, Idle
  <2>2. CASE q = t
    <3>1. stage'[t] \in {"running", "done", "rejecting"}
      BY <1>1 DEF IInv, TypeOK
    <3> QED BY <1>1, <1>2, <2>1, <2>2, <3>1 DEF HostOK
  <2>3. CASE q # t
    <3>1. stage'[q] = stage[q] /\ outcome'[q] = outcome[q]
      BY <1>1, <1>2, <2>3 DEF IInv, TypeOK
    <3> QED BY <1>1, <2>1, <3>1 DEF HostOK
  <2> QED BY <2>2, <2>3
<1> QED BY <1>3, <1>4, <1>5, <1>6, <1>7 DEF IInv

\* A host that a protocol failure drops leaves the row active.
LEMMA HostDropOK == ASSUME IInv, NEW t \in Tasks, HostDrop(t) PROVE IInv'
<1>1. /\ UNCHANGED <<status, owner, warned, acked, tombs, pid, outcome, cancelling, pubs,
                     asked, orphans, recovered, approved, lost>>
      /\ stage[t] = "running" /\ stage'[t] = "callback"
      /\ stage' \in [Tasks -> Stages] /\ dropped' \subseteq Tasks
      /\ \A q \in Tasks : q # t => stage'[q] = stage[q]
  BY DEF HostDrop, store, IInv, TypeOK, Stages
<1>2. TypeOK'
  BY <1>1 DEF IInv, TypeOK
<1>3. ResourceExclusion' /\ RetiredStaysRetired' /\ OrphansOK'
  BY <1>1 DEF IInv, ResourceExclusion, RetiredStaysRetired, OrphansOK, OrphanOK
<1>4. HostedIsActive'
  BY <1>1 DEF IInv, HostedIsActive, EarlyStages
<1>5. PublicationsOK'
  <2> SUFFICES ASSUME NEW p \in pubs PROVE PublicationOK(p)'
    BY <1>1 DEF PublicationsOK
  <2>1. PublicationOK(p) /\ p.task \in Tasks
    BY DEF IInv, TypeOK, PublicationsOK, Publications
  <2> QED BY <1>1, <2>1 DEF PublicationOK, EarlyStages
<1>6. HostsOK'
  <2> SUFFICES ASSUME NEW q \in Tasks PROVE HostOK(q)'
    BY DEF HostsOK
  <2>1. HostOK(q) /\ Idle(q)' = Idle(q)
    BY <1>1 DEF IInv, HostsOK, Idle
  <2> QED BY <1>1, <2>1 DEF HostOK
<1> QED BY <1>2, <1>3, <1>4, <1>5, <1>6 DEF IInv

\* Every step of a host, up to the artifact decision, keeps the invariant.
LEMMA HostAdvanceOK ==
  ASSUME IInv, NEW t \in Tasks, HostAdvance(t) \/ HostProgress(t) PROVE IInv'
<1> USE DEF Stages, EarlyStages
<1>1. ASSUME NEW s \in {"PENDING", "STARTING", "RUNNING"}
      PROVE  /\ StateEvent(s) \in Events /\ EarlyEvent(StateEvent(s))
             /\ StateEvent(s).type = "state"
  BY EventsTyped DEF EarlyEvent, States, Active, StateEvent
<1>2. /\ ProgressEvent \in Events /\ EarlyEvent(ProgressEvent)
      /\ ProgressEvent.type = "progress"
  BY EventsTyped DEF EarlyEvent, ProgressEvent
<1>3. /\ ErrorEvent \in Events /\ ErrorEvent.type = "error"
      /\ CancelledEvent \in Events /\ CancelledEvent.type = "cancelled"
      /\ "FAILED" \in Terminal /\ "CANCELLED" \in Terminal /\ Terminal \subseteq States
  BY EventsTyped DEF ErrorEvent, CancelledEvent, Terminal, States
<1>4. CASE PrepareFails(t)
  BY <1>4, PrepareFailsOK
<1>5. CASE HostPending(t)
  BY <1>1, <1>5, HostPublishOK DEF HostPending
<1>6. CASE HostStarting(t)
  BY <1>1, <1>6, HostPublishOK DEF HostStarting
<1>7. CASE HostRunning(t)
  BY <1>1, <1>7, HostPublishOK DEF HostRunning
<1>8. CASE HostProgress(t)
  BY <1>2, <1>8, HostPublishOK DEF HostProgress
<1>9. CASE HostRunningSilently(t) \/ CallbackNone(t) \/ RejectArtifactRead(t)
  BY <1>9, HostMovesOK
<1>10. CASE HostFailStart(t)
  BY <1>3, <1>10, HostPublishOK DEF HostFailStart
<1>11. CASE HostPayload(t)
  <2>1. ASSUME NEW s \in Terminal, NEW w \in BOOLEAN,
               HostPublish(t, FinishedEvent(s, w), "running", "closing", s)
        PROVE  IInv'
    <3>1. s \in States
      BY DEF States
    <3>2. FinishedEvent(s, w) \in Events /\ FinishedEvent(s, w).type = "finished"
      BY <3>1, EventsTyped DEF FinishedEvent
    <3> QED BY <2>1, <3>1, <3>2, HostPublishOK
  <2> QED BY <1>3, <1>11, <2>1, HostPublishOK DEF HostPayload
<1>12. CASE HostClose(t)
  <2>1. outcome[t] \in States
    BY <1>12 DEF IInv, HostsOK, HostOK, HostClose, HostPublish, States
  <2>2. StateEvent(outcome[t]) \in Events /\ StateEvent(outcome[t]).type = "state"
    BY <2>1, EventsTyped DEF StateEvent
  <2> QED BY <1>12, <2>1, <2>2, HostPublishOK DEF HostClose
<1>13. CASE HostAbandon(t)
  <2>1. /\ StateEvent("CANCELLED") \in Events
        /\ StateEvent("CANCELLED").type = "state"
    BY EventsTyped DEF StateEvent, States, Terminal
  <2> QED BY <1>13, <2>1, HostPublishOK DEF HostAbandon
<1>14. CASE FinalizeArtifact(t)
  <2>1. PICK w \in BOOLEAN :
          HostPublish(t, FinalizedEvent(w), "callback", "done", "none")
    BY <1>14 DEF FinalizeArtifact
  <2>2. /\ FinalizedEvent(w) \in Events /\ FinalizedEvent(w).to = "keep"
        /\ FinalizedEvent(w).type = "artifact_finalized"
    BY EventsTyped DEF FinalizedEvent
  <2>3. status[t] = "COMPLETED"
    BY <1>14 DEF FinalizeArtifact
  <2> QED BY <2>1, <2>2, <2>3, HostPublishOK
<1>15. CASE RejectArtifact(t)
  <2>1. /\ outcome[t] \in States
        /\ status[t] = "none" \/ Withdrawal(status[t], outcome[t])
    BY <1>15 DEF IInv, HostsOK, HostOK, RejectArtifact, HostPublish
  <2>2. /\ RejectedEvent(outcome[t]) \in Events /\ RejectedEvent(outcome[t]).to = outcome[t]
        /\ RejectedEvent(outcome[t]).type = "artifact_rejected"
    BY <2>1, EventsTyped DEF RejectedEvent
  <2> QED BY <1>15, <2>1, <2>2, HostPublishOK DEF RejectArtifact
<1> QED BY <1>4, <1>5, <1>6, <1>7, <1>8, <1>9, <1>10, <1>11, <1>12, <1>13, <1>14,
           <1>15 DEF HostAdvance

(***************************************************************************)
(* API threads, recovery, cleanup.                                         *)
(***************************************************************************)
LEMMA StopEventOK ==
  ASSUME IInv, NEW w \in Users, NEW t \in Tasks, StopEvent(w, t),
         asked' \in [Users -> Tasks \cup {"none"}]
  PROVE  IInv'
<1>1. /\ StateEvent("STOPPING") \in Events
      /\ StateEvent("STOPPING").type = "state"
  BY EventsTyped DEF StateEvent, States, Active
<1>2. cancelling' \subseteq Tasks
  BY DEF StopEvent, IInv, TypeOK
<1> QED BY <1>1, <1>2, UserPublishOK DEF StopEvent

\* The reads and publications of API threads keep the invariant.
LEMMA UserStepsOK ==
  ASSUME IInv, NEW w \in Users, NEW t \in Tasks,
         \/ CancelTask(w, t) \/ CancelPublish(w, t) \/ RequestCancel(w, t)
         \/ ReconcileArtifact(w, t)
         \/ \E ev \in ExternalEvents : RecordExternalEvent(w, t, ev)
  PROVE  IInv'
<1>1. CASE CancelTask(w, t)
  <2>1. /\ asked' \in [Users -> Tasks \cup {"none"}]
        /\ UNCHANGED <<status, owner, warned, acked, tombs, pid, stage, outcome,
                       cancelling, dropped, pubs, orphans, recovered, approved,
                       lost>>
    BY <1>1 DEF CancelTask, IInv, TypeOK, store, host
  <2> QED BY <2>1 DEF IInv, TypeOK, ResourceExclusion, RetiredStaysRetired,
        HostedIsActive, PublicationsOK, PublicationOK, HostsOK, HostOK, Idle, OrphansOK,
        OrphanOK
<1>2. CASE CancelPublish(w, t)
  BY <1>2, StopEventOK DEF CancelPublish, IInv, TypeOK
<1>3. CASE RequestCancel(w, t)
  BY <1>3, StopEventOK DEF RequestCancel, IInv, TypeOK
<1>4. CASE ReconcileArtifact(w, t)
  <2>1. PICK f \in BOOLEAN : BeginPublish(w, t, FinalizedEvent(f))
    BY <1>4 DEF ReconcileArtifact
  <2>2. /\ FinalizedEvent(f) \in Events /\ FinalizedEvent(f).to = "keep"
        /\ FinalizedEvent(f).type = "artifact_finalized"
    BY EventsTyped DEF FinalizedEvent
  <2>3. /\ status[t] = "COMPLETED"
        /\ UNCHANGED <<store, pid, stage, outcome, dropped, orphans, recovered, approved,
                       lost>>
        /\ cancelling' \subseteq Tasks /\ asked' \in [Users -> Tasks \cup {"none"}]
    BY <1>4 DEF ReconcileArtifact, host, IInv, TypeOK
  <2> QED BY <2>1, <2>2, <2>3, UserPublishOK
<1>5. CASE \E ev \in ExternalEvents : RecordExternalEvent(w, t, ev)
  <2>1. PICK ev \in ExternalEvents : RecordExternalEvent(w, t, ev)
    BY <1>5
  <2>2. /\ ev \in Events
        /\ ev.type # "artifact_finalized" /\ ev.type # "artifact_rejected"
    <3>1. \/ \E s \in States : ev = StateEvent(s)
          \/ ev \in {ProgressEvent, ErrorEvent, CancelledEvent}
          \/ \E f \in BOOLEAN : ev = FinishedEvent("COMPLETED", f)
      BY DEF ExternalEvents
    <3>2. "COMPLETED" \in States
      BY DEF States, Terminal
    <3>3. ev \in Events
      BY <3>1, <3>2, EventsTyped
    <3>4. ev.type \in {"state", "progress", "error", "cancelled", "finished"}
      BY <3>1 DEF StateEvent, ProgressEvent, ErrorEvent, CancelledEvent, FinishedEvent
    <3> QED BY <3>3, <3>4
  <2>3. /\ BeginPublish(w, t, ev) /\ t \notin LocalTasks
        /\ UNCHANGED <<store, pid, stage, outcome, dropped, orphans, recovered, approved,
                       lost>>
        /\ cancelling' \subseteq Tasks /\ asked' \in [Users -> Tasks \cup {"none"}]
    BY <2>1 DEF RecordExternalEvent, host, IInv, TypeOK
  <2> QED BY <2>2, <2>3, UserPublishOK
<1> QED BY <1>1, <1>2, <1>3, <1>4, <1>5

\* A new external task gets no resource key and no host.
LEMMA CreateExternalTaskOK ==
  ASSUME IInv, NEW t \in Tasks, CreateExternalTask(t) PROVE IInv'
<1> USE DEF CreateExternalTask, host
<1>1. TypeOK'
  BY DEF IInv, TypeOK, States, Active
<1>2. ResourceExclusion'
  <2>1. KeysOf[t] = {}
    BY KeysAssumption
  <2>2. \A q \in Tasks \ {t} : status'[q] = status[q]
    BY DEF IInv, TypeOK
  <2> QED BY <2>1, <2>2 DEF IInv, ResourceExclusion
<1>3. RetiredStaysRetired' /\ HostedIsActive'
  BY DEF IInv, TypeOK, RetiredStaysRetired, HostedIsActive, Active
<1>4. PublicationsOK'
  <2> SUFFICES ASSUME NEW p \in pubs PROVE PublicationOK(p)'
    BY DEF PublicationsOK
  <2>1. PublicationOK(p) /\ p.task \in Tasks
    BY DEF IInv, TypeOK, PublicationsOK, Publications
  <2> QED BY <2>1 DEF IInv, TypeOK, PublicationOK
<1>5. HostsOK' /\ OrphansOK'
  <2>1. \A q \in Tasks \ {t} : status'[q] = status[q]
    BY DEF IInv, TypeOK
  <2>2. stage[t] \in {"none", "done"} /\ orphans[t] = "none"
    BY DEF IInv, HostsOK, HostOK, OrphansOK, OrphanOK
  <2> QED BY <2>1, <2>2 DEF IInv, HostsOK, HostOK, OrphansOK, OrphanOK, Idle
<1> QED BY <1>1, <1>2, <1>3, <1>4, <1>5 DEF IInv

\* A crash drops hosts and publications and leaves the rows alone.
LEMMA CrashOK == ASSUME IInv, Crash PROVE IInv'
<1> USE DEF Crash, store
<1>1. TypeOK'
  <2>1. /\ stage' \in [Tasks -> Stages]
        /\ outcome' \in [Tasks -> States \cup {"none"}]
        /\ orphans' \in [Tasks -> Active \cup {"none"}]
        /\ asked' \in [Users -> Tasks \cup {"none"}]
    BY DEF Stages
  <2>2. pid' \in Nat
    BY DEF IInv, TypeOK
  <2>3. pubs' = {} /\ cancelling' = {} /\ dropped' = {} /\ approved' = {} /\ recovered' = FALSE
        /\ UNCHANGED <<status, owner, warned, acked, tombs, lost>>
    OBVIOUS
  <2> HIDE DEF Crash
  <2> QED BY <2>1, <2>2, <2>3 DEF IInv, TypeOK
<1>2. ResourceExclusion' /\ RetiredStaysRetired'
  BY DEF IInv, ResourceExclusion, RetiredStaysRetired
<1>3. \A t \in Tasks : stage'[t] \in {"none", "done"}
  OBVIOUS
<1>4. HostedIsActive' /\ HostsOK'
  BY <1>3 DEF HostedIsActive, EarlyStages, HostsOK, HostOK
<1>5. PublicationsOK' /\ OrphansOK'
  BY DEF PublicationsOK, OrphansOK, OrphanOK
<1> QED BY <1>1, <1>2, <1>4, <1>5 DEF IInv

\* The listing of recovery remembers rows of dead backends only.
LEMMA ListOrphansOK == ASSUME IInv, ListOrphans PROVE IInv'
<1> USE DEF ListOrphans, store, host
<1>1. TypeOK'
  BY DEF IInv, TypeOK, Orphaned
<1>2. ResourceExclusion' /\ RetiredStaysRetired' /\ HostedIsActive' /\ PublicationsOK'
      /\ HostsOK'
  BY DEF IInv, ResourceExclusion, RetiredStaysRetired, HostedIsActive, PublicationsOK,
     PublicationOK, HostsOK, HostOK, Idle
<1>3. OrphansOK'
  BY DEF OrphansOK, OrphanOK, Orphaned, Active
<1> QED BY <1>1, <1>2, <1>3 DEF IInv

\* Recovery's guarded write closes at most the row it listed.
LEMMA FailOrphanOK == ASSUME IInv, NEW t \in Tasks, FailOrphan(t) PROVE IInv'
<1> USE DEF FailOrphan, host
<1>1. TypeOK'
  BY DEF IInv, TypeOK, States, Terminal
<1>2. stage[t] \in {"none", "done"}
  BY DEF IInv, HostsOK, HostOK, OrphansOK, OrphanOK
<1>3. \A q \in Tasks : /\ status'[q] \in Active => status[q] \in Active
                       /\ status'[q] = "none" <=> status[q] = "none"
                       /\ q # t => status'[q] = status[q] /\ orphans'[q] = orphans[q]
                       /\ orphans'[q] # "none" => orphans[q] # "none"
  BY DEF IInv, TypeOK, Active
<1>4. ResourceExclusion' /\ RetiredStaysRetired'
  BY <1>3 DEF IInv, TypeOK, ResourceExclusion, RetiredStaysRetired
<1>5. HostedIsActive' /\ HostsOK'
  BY <1>2, <1>3 DEF IInv, HostedIsActive, EarlyStages, HostsOK, HostOK, Idle
<1>6. PublicationsOK'
  <2> SUFFICES ASSUME NEW p \in pubs PROVE PublicationOK(p)'
    BY DEF PublicationsOK
  <2>1. PublicationOK(p) /\ p.task \in Tasks
    BY DEF IInv, TypeOK, PublicationsOK, Publications
  <2> QED BY <1>3, <2>1 DEF PublicationOK
<1>7. OrphansOK'
  BY <1>3 DEF IInv, OrphansOK, OrphanOK
<1> QED BY <1>1, <1>4, <1>5, <1>6, <1>7 DEF IInv

\* Cleanup deletes end states only and leaves a tombstone.
LEMMA DeleteApprovedOK == ASSUME IInv, DeleteApproved PROVE IInv'
<1> USE DEF DeleteApproved, host
<1>1. TypeOK'
  BY DEF IInv, TypeOK
<1>2. \A q \in Tasks : /\ status'[q] \in {status[q], "none"}
                       /\ status'[q] = "none" => status[q] = "none" \/ q \in tombs'
                       /\ status[q] \in Active => status'[q] = status[q]
                       /\ q \in tombs' => status'[q] = "none"
  BY DEF IInv, TypeOK, RetiredStaysRetired, Active, Terminal
<1>3. tombs \subseteq tombs'
  OBVIOUS
<1>4. ResourceExclusion'
  BY <1>2 DEF IInv, ResourceExclusion, Active
<1>5. RetiredStaysRetired' /\ HostedIsActive'
  BY <1>1, <1>2 DEF IInv, TypeOK, RetiredStaysRetired, HostedIsActive
<1>6. PublicationsOK'
  <2> SUFFICES ASSUME NEW p \in pubs PROVE PublicationOK(p)'
    BY DEF PublicationsOK
  <2>1. PublicationOK(p) /\ p.task \in Tasks
    BY DEF IInv, TypeOK, PublicationsOK, Publications
  <2> QED BY <1>2, <1>3, <2>1 DEF PublicationOK
<1>7. HostsOK' /\ OrphansOK'
  BY <1>2, <1>3 DEF IInv, HostsOK, HostOK, OrphansOK, OrphanOK, Idle
<1> QED BY <1>1, <1>4, <1>5, <1>6, <1>7 DEF IInv

\* Steps that touch neither the status of a row nor a publication's content.
LEMMA QuietStepsOK ==
  ASSUME IInv,
         \/ \E ts \in SUBSET Tasks : AcknowledgeTasks(ts)
         \/ \E t \in Tasks : DecideCleanup(t)
         \/ \E p \in pubs : LoseWrite(p)
         \/ UNCHANGED vars
  PROVE  IInv'
<1>1. /\ UNCHANGED <<status, owner, warned, tombs, pid, stage, outcome, cancelling,
                     dropped, asked, orphans, recovered>>
      /\ acked' \subseteq Tasks /\ approved' \subseteq Tasks /\ lost' \in Nat
      /\ pubs' \subseteq pubs
  BY DEF IInv, TypeOK, AcknowledgeTasks, DecideCleanup, LoseWrite, vars, store, host
<1> QED
  BY <1>1 DEF IInv, TypeOK, ResourceExclusion, RetiredStaysRetired, HostedIsActive,
     PublicationsOK, PublicationOK, HostsOK, HostOK, Idle, OrphansOK, OrphanOK

\* Every step of the store, or stuttering, keeps the invariant.
LEMMA NextOK == IInv /\ [Next]_vars => IInv'
<1> SUFFICES ASSUME IInv, [Next]_vars PROVE IInv'
  OBVIOUS
<1>1. CASE \E t \in Tasks : Prepare(t)
  BY <1>1, PrepareOK
<1>2. CASE \E t \in Tasks : HostAdvance(t) \/ HostProgress(t)
  BY <1>2, HostAdvanceOK
<1>3. CASE \E t \in Tasks : CreateExternalTask(t)
  BY <1>3, CreateExternalTaskOK
<1>4. CASE \E t \in Tasks : FailOrphan(t)
  BY <1>4, FailOrphanOK
<1>5. CASE \E w \in Users, t \in Tasks :
             \/ CancelTask(w, t) \/ CancelPublish(w, t) \/ RequestCancel(w, t)
             \/ ReconcileArtifact(w, t)
             \/ \E ev \in ExternalEvents : RecordExternalEvent(w, t, ev)
  BY <1>5, UserStepsOK
<1>6. CASE \E p \in pubs : Record(p)
  BY <1>6, RecordOK
<1>7. CASE \/ \E ts \in SUBSET Tasks : AcknowledgeTasks(ts)
           \/ \E t \in Tasks : DecideCleanup(t)
           \/ \E p \in pubs : LoseWrite(p)
           \/ UNCHANGED vars
  BY <1>7, QuietStepsOK
<1>8. CASE DeleteApproved
  BY <1>8, DeleteApprovedOK
<1>9. CASE ListOrphans
  BY <1>9, ListOrphansOK
<1>10. CASE Crash
  BY <1>10, CrashOK
<1>11. CASE \E t \in Tasks : HostDrop(t)
  BY <1>11, HostDropOK
<1> QED BY <1>1, <1>2, <1>3, <1>4, <1>5, <1>6, <1>7, <1>8, <1>9, <1>10, <1>11 DEF Next

(***************************************************************************)
(* The inductive invariant holds of every behaviour of the store.          *)
(***************************************************************************)
THEOREM Invariance == Spec => []IInv
BY InitOK, NextOK, PTL DEF Spec

(***************************************************************************)
(* Every variable keeps its type; in particular no publication, recovery   *)
(* or cleanup ever writes a status outside the task state contract.        *)
(***************************************************************************)
THEOREM TypeCorrect == Spec => []TypeOK
<1>1. IInv => TypeOK
  BY DEF IInv
<1> QED BY Invariance, <1>1, PTL

(***************************************************************************)
(* Two active tasks never share a resource key, although the keys are only *)
(* looked at when a task is prepared (save_with_resource_guard).           *)
(***************************************************************************)
THEOREM Exclusion == Spec => []ResourceExclusion
<1>1. IInv => ResourceExclusion
  BY DEF IInv
<1> QED BY Invariance, <1>1, PTL

(***************************************************************************)
(* A deleted task never gets a row again (task_retention_tombstones).      *)
(***************************************************************************)
THEOREM Retirement == Spec => []RetiredStaysRetired
<1>1. IInv => RetiredStaysRetired
  BY DEF IInv
<1> QED BY Invariance, <1>1, PTL

(***************************************************************************)
(* While its host works, the record of a task is there and active.         *)
(***************************************************************************)
THEOREM HostedActive == Spec => []HostedIsActive
<1>1. IInv => HostedIsActive
  BY DEF IInv
<1> QED BY Invariance, <1>1, PTL

-----------------------------------------------------------------------------
(***************************************************************************)
(* The store implements TaskLifecycle.                                     *)
(***************************************************************************)

\* One row changes and no task is retired: the step of the abstract record.
LEMMA RowStep ==
  ASSUME IInv, NEW t \in Tasks, NEW s \in States, UNCHANGED tombs, t \notin tombs,
         status' = [status EXCEPT ![t] = s],
         \/ status[t] = "none" /\ s = "PENDING"
         \/ status[t] \in Active
         \/ s = status[t]
         \/ status[t] = "COMPLETED" /\ s = "FAILED"
  PROVE  Lifecycle!Next \/ Life' = Life
<1>1. Life' = [Life EXCEPT ![t] = s]
  <2>1. status \in [Tasks -> States \cup {"none"}] /\ s # "none"
    BY DEF IInv, TypeOK, States, Active, Terminal
  <2> QED BY <2>1 DEF Life
<1>2. Life[t] = IF status[t] = "none" THEN "absent" ELSE status[t]
  BY DEF Life
<1>3. CASE status[t] = "none" /\ s = "PENDING"
  BY <1>1, <1>2, <1>3 DEF Lifecycle!Next, Lifecycle!Create
<1>4. CASE status[t] \in Active
  <2>1. Life[t] \in Active
    BY <1>2, <1>4 DEF Active
  <2>2. CASE s \in Active
    BY <1>1, <2>1, <2>2 DEF Lifecycle!Next, Lifecycle!Move, Lifecycle!Active, Active
  <2>3. CASE s \in Terminal
    BY <1>1, <2>1, <2>3
       DEF Lifecycle!Next, Lifecycle!Close, Lifecycle!Active, Active, Lifecycle!Terminal,
           Terminal
  <2> QED BY <2>2, <2>3 DEF States
<1>5. CASE s = status[t]
  <2>1. Life[t] = s /\ Life = [Life EXCEPT ![t] = Life[t]]
    BY <1>2, <1>5 DEF Life, States, Active, Terminal
  <2> QED BY <1>1, <2>1
<1>6. CASE status[t] = "COMPLETED" /\ s = "FAILED"
  BY <1>1, <1>2, <1>6 DEF Lifecycle!Next, Lifecycle!Withdraw
<1> QED BY <1>3, <1>4, <1>5, <1>6

\* The guarded write closes a task, withdraws a result or stutters.
LEMMA RecordImplements ==
  ASSUME IInv, NEW p \in pubs, Record(p) PROVE Lifecycle!Next \/ Life' = Life
<1>1. CASE ~Writable(p)
  BY <1>1 DEF Record, Life
<1>2. CASE Writable(p)
  <2>1. /\ p.task \in Tasks /\ p.task \notin tombs
        /\ ApplyEvent(p.seen, p.ev) \in States
        /\ \/ status[p.task] \in Active
           \/ ApplyEvent(p.seen, p.ev) = status[p.task]
           \/ status[p.task] = "COMPLETED" /\ ApplyEvent(p.seen, p.ev) = "FAILED"
    BY <1>2, WrittenStatus DEF Publications, Writable
  <2>2. /\ status' = [status EXCEPT ![p.task] = ApplyEvent(p.seen, p.ev)]
        /\ UNCHANGED tombs
    BY <1>2 DEF Record
  <2> QED BY <2>1, <2>2, RowStep
<1> QED BY <1>1, <1>2

\* Cleanup retires closed tasks.
LEMMA DeleteImplements ==
  ASSUME IInv, DeleteApproved PROVE Lifecycle!Next
<1> DEFINE gone == {t \in approved : status[t] \in Terminal}
<1>1. gone \in SUBSET Tasks
  BY DEF IInv, TypeOK
<1>2. \A t \in gone : Life[t] \in Terminal
  BY <1>1 DEF IInv, RetiredStaysRetired, Life, Terminal
<1>3. Life' = [t \in Tasks |-> IF t \in gone THEN "retired" ELSE Life[t]]
  <2>1. tombs' = tombs \cup gone
    BY DEF DeleteApproved
  <2>2. \A t \in Tasks \ gone : status'[t] = status[t]
    BY DEF DeleteApproved
  <2> HIDE DEF gone
  <2> QED BY <1>1, <2>1, <2>2 DEF Life
<1>4. Lifecycle!Retire(gone)
  BY <1>2, <1>3 DEF Lifecycle!Retire, Lifecycle!Terminal, Terminal
<1> QED BY <1>1, <1>4 DEF Lifecycle!Next

\* Every step of the store is a step of the abstract lifecycle, or stutters.
LEMMA NextImplements == IInv /\ [Next]_vars => [Lifecycle!Next]_Life
<1> SUFFICES ASSUME IInv, [Next]_vars PROVE Lifecycle!Next \/ Life' = Life
  OBVIOUS
<1>1. CASE \E t \in Tasks : Prepare(t) \/ CreateExternalTask(t)
  <2>1. PICK t \in Tasks : Prepare(t) \/ CreateExternalTask(t)
    BY <1>1
  <2>2. "PENDING" \in States
    BY DEF States, Active
  <2> QED BY <2>1, <2>2, RowStep DEF Prepare, CreateExternalTask
<1>2. CASE \E t \in Tasks : PrepareFails(t) \/ FailOrphan(t)
  <2>1. PICK t \in Tasks : PrepareFails(t) \/ FailOrphan(t)
    BY <1>2
  <2>2. /\ UNCHANGED tombs
        /\ \/ UNCHANGED status
           \/ status[t] \in Active /\ status' = [status EXCEPT ![t] = "FAILED"]
    BY <2>1 DEF PrepareFails, FailOrphan, IInv, TypeOK, Active
  <2>3. CASE UNCHANGED status
    BY <2>2, <2>3 DEF Life
  <2>4. CASE status[t] \in Active /\ status' = [status EXCEPT ![t] = "FAILED"]
    <3>1. t \notin tombs /\ "FAILED" \in States
      BY <2>4 DEF IInv, RetiredStaysRetired, Active, States, Terminal
    <3> QED BY <2>2, <2>4, <3>1, RowStep
  <2> QED BY <2>2, <2>3, <2>4
<1>3. CASE \E p \in pubs : Record(p)
  BY <1>3, RecordImplements
<1>4. CASE DeleteApproved
  BY <1>4, DeleteImplements
<1>5. CASE \E t \in Tasks : \/ HostProgress(t) \/ HostDrop(t)
                            \/ HostAdvance(t) /\ ~PrepareFails(t)
  <2>1. UNCHANGED <<status, tombs>>
    BY <1>5 DEF HostAdvance, HostProgress, HostDrop, HostPending, HostStarting, HostRunning,
       HostRunningSilently, HostFailStart, HostPayload, HostClose, HostAbandon,
       CallbackNone, FinalizeArtifact, RejectArtifactRead, RejectArtifact, HostPublish,
       store
  <2> QED BY <2>1 DEF Life
<1>6. CASE \/ \E w \in Users, t \in Tasks :
                \/ CancelTask(w, t) \/ CancelPublish(w, t) \/ RequestCancel(w, t)
                \/ ReconcileArtifact(w, t)
           \/ \E w \in Users, t \in Tasks, ev \in ExternalEvents :
                RecordExternalEvent(w, t, ev)
  <2>1. UNCHANGED <<status, tombs>>
    BY <1>6 DEF CancelTask, CancelPublish, RequestCancel, ReconcileArtifact,
       RecordExternalEvent, StopEvent, store
  <2> QED BY <2>1 DEF Life
<1>7. CASE \/ \E ts \in SUBSET Tasks : AcknowledgeTasks(ts)
           \/ \E t \in Tasks : DecideCleanup(t)
           \/ \E p \in pubs : LoseWrite(p)
           \/ ListOrphans \/ Crash \/ UNCHANGED vars
  <2>1. UNCHANGED <<status, tombs>>
    BY <1>7 DEF AcknowledgeTasks, DecideCleanup, LoseWrite, ListOrphans, Crash, vars, store
  <2> QED BY <2>1 DEF Life
<1> QED BY <1>1, <1>2, <1>3, <1>4, <1>5, <1>6, <1>7 DEF Next, HostAdvance

(***************************************************************************)
(* The guarded writes of the store implement the life of a task: created   *)
(* once, closed once, withdrawn at most from COMPLETED to FAILED, retired  *)
(* for ever.                                                               *)
(***************************************************************************)
THEOREM Refinement == Spec => ImplementsLifecycle
<1>1. Init => Lifecycle!Init
  BY DEF Init, Lifecycle!Init, Life
<1> QED BY <1>1, Invariance, NextImplements, PTL
        DEF Spec, ImplementsLifecycle, Lifecycle!Spec

-----------------------------------------------------------------------------
(***************************************************************************)
(* The status of a task only moves forward, up to the first write that is  *)
(* lost.  After a lost closing event, and after a protocol failure that    *)
(* drops the task unclosed, the completion callback finds its row still    *)
(* active; a rejection it then asks for can put back the status it has     *)
(* read before a cancel was accepted.                                      *)
(***************************************************************************)

\* What the events of the code ask for.
AskOK(ev) == /\ ev.type = "state" => ev.to \in States
             /\ ev.type = "progress" => ev.to = "keep"
             /\ ev.type \in Closing => ev.to \in Terminal

\* A publication that read a closed row works on a closed row still.
SeenOK(p) == /\ AskOK(p.ev)
             /\ p.seen \in Terminal => status[p.task] \notin Active

\* The event that closes the row of t is under way.
ClosingUnderWay(t) ==
  \E p \in pubs : /\ p.by = t /\ p.task = t
                  /\ p.ev.type = "state" /\ p.ev.to \in Terminal

\* Without a lost write, the completion callback begins on a closed row, or
\* on one whose closing event is under way, and only asks for end states.
CallbackOK(t) ==
  /\ stage[t] = "callback" => status[t] \notin Active \/ ClosingUnderWay(t)
  /\ stage[t] = "rejecting" => status[t] \notin Active /\ outcome[t] \in Terminal

FInv == /\ IInv
        /\ \A p \in pubs : SeenOK(p)
        /\ lost = 0 =>
             /\ \A t \in Tasks \ dropped : CallbackOK(t)
             /\ \A p \in pubs : /\ p.ev.type = "artifact_rejected"
                                /\ p.task \notin dropped
                                => p.ev.to \in Terminal

\* A publication begun on a row there is, is under way.
LEMMA BeginAdds ==
  ASSUME NEW th \in Threads, NEW t \in Tasks, NEW ev \in Events,
         BeginPublish(th, t, ev), status[t] # "none"
  PROVE  \E p \in pubs' : p.by = th /\ p.task = t /\ p.ev = ev
<1> DEFINE new == [by |-> th, task |-> t, ev |-> ev, seen |-> status[t],
                   warn |-> t \in warned]
<1>1. new \in pubs'
  BY DEF BeginPublish
<1>2. new.by = th /\ new.task = t /\ new.ev = ev
  OBVIOUS
<1> HIDE DEF new
<1> QED BY <1>1, <1>2

\* A row that was there and closed is not opened again by any step.
LEMMA ClosedStaysClosed ==
  ASSUME IInv, [Next]_vars, NEW t \in Tasks, status[t] # "none", status[t] \notin Active
  PROVE  status'[t] \notin Active
<1>1. Lifecycle!Next \/ Life' = Life
  BY NextImplements
<1>2. IInv' /\ tombs \subseteq Tasks /\ t \notin tombs
  BY NextOK DEF IInv, TypeOK, RetiredStaysRetired
<1>3. Life[t] = status[t] /\ status[t] \in Terminal
  BY <1>2 DEF Life, IInv, TypeOK, States
<1>4. status'[t] \in Active => Life'[t] = status'[t]
  BY <1>2 DEF Life, IInv, RetiredStaysRetired, Active
<1>5. Life \in [Tasks -> {"absent", "retired"} \cup States]
  BY DEF Life, IInv, TypeOK
<1>6. Life'[t] \notin Active
  BY <1>1, <1>3, <1>5 DEF Lifecycle!Next, Lifecycle!Create, Lifecycle!Move, Lifecycle!Close,
     Lifecycle!Withdraw, Lifecycle!Retire, Lifecycle!Active, Lifecycle!Terminal, Active, Terminal
<1> QED BY <1>4, <1>6

\* A step that begins at most the publication of ev by th for t: what it must
\* satisfy to keep FInv.
LEMMA PublishForward ==
  ASSUME FInv, IInv', NEW th \in Threads, NEW t \in Tasks, NEW ev \in Events,
         BeginPublish(th, t, ev), UNCHANGED <<status, lost>>, AskOK(ev),
         lost = 0 /\ ev.type = "artifact_rejected" /\ t \notin dropped
           => ev.to \in Terminal,
         UNCHANGED dropped,
         \A q \in Tasks : stage'[q] = stage[q] \/ (q = t /\ th = t),
         \A q \in Tasks : outcome'[q] = outcome[q] \/ (q = t /\ th = t),
         th = t => stage'[t] # "rejecting",
         th = t /\ stage'[t] = "callback" => ev.type = "state" /\ ev.to \in Terminal,
         th # t => UNCHANGED <<stage, outcome>>
  PROVE  FInv'
<1>1. /\ pubs' \subseteq Publications /\ pubs \subseteq pubs'
      /\ \A p \in pubs' \ pubs :
           /\ p.by = th /\ p.task = t /\ p.ev = ev /\ p.seen = status[t]
           /\ status[t] # "none"
  BY BeginTyped DEF FInv, IInv
<1>2. ASSUME NEW p \in pubs' PROVE SeenOK(p)'
  <2>1. CASE p \in pubs
    BY <2>1 DEF FInv, SeenOK
  <2>2. CASE p \notin pubs
    BY <1>1, <2>2 DEF SeenOK, Active, Terminal
  <2> QED BY <2>1, <2>2
<1>3. ASSUME lost = 0, NEW q \in Tasks \ dropped PROVE CallbackOK(q)'
  <2>1. CallbackOK(q)
    BY <1>3 DEF FInv
  <2>2. ClosingUnderWay(q) => ClosingUnderWay(q)'
    BY <1>1 DEF ClosingUnderWay
  <2>3. CASE q = t /\ th = t
    <3>1. stage'[t] = "callback" /\ status[t] # "none" => ClosingUnderWay(t)'
      BY <2>3, BeginAdds DEF ClosingUnderWay
    <3> QED BY <2>3, <3>1 DEF CallbackOK, Active
  <2>4. CASE ~(q = t /\ th = t)
    BY <2>1, <2>2, <2>4 DEF CallbackOK
  <2> QED BY <2>3, <2>4
<1>4. ASSUME lost = 0, NEW p \in pubs', p.ev.type = "artifact_rejected",
             p.task \notin dropped
      PROVE  p.ev.to \in Terminal
  BY <1>1, <1>4 DEF FInv
<1> QED BY <1>2, <1>3, <1>4 DEF FInv

\* A step that publishes nothing, opens no row that was closed and moves no
\* host to its callback keeps FInv.
LEMMA NoPublishForward ==
  ASSUME FInv, IInv', pubs' \subseteq pubs, UNCHANGED dropped, lost' \in Nat, lost' = 0 => lost = 0,
         \A p \in pubs : status[p.task] \notin Active => status'[p.task] \notin Active,
         \A q \in Tasks : \/ stage'[q] \notin {"callback", "rejecting"}
                          \/ /\ stage'[q] = stage[q] /\ outcome'[q] = outcome[q]
                             /\ status[q] \notin Active => status'[q] \notin Active,
         lost' = 0 => \A q \in Tasks : 
           stage[q] = "callback" /\ ClosingUnderWay(q) =>
             ClosingUnderWay(q)' \/ status'[q] \notin Active
  PROVE  FInv'
<1>1. ASSUME NEW p \in pubs' PROVE SeenOK(p)'
  BY DEF FInv, SeenOK
<1>2. ASSUME lost' = 0, NEW q \in Tasks \ dropped PROVE CallbackOK(q)'
  <2>1. CallbackOK(q)
    BY <1>2 DEF FInv
  <2> QED BY <1>2, <2>1 DEF CallbackOK
<1>3. ASSUME lost' = 0, NEW p \in pubs', p.ev.type = "artifact_rejected",
             p.task \notin dropped
      PROVE  p.ev.to \in Terminal
  BY <1>3 DEF FInv
<1> QED BY <1>1, <1>2, <1>3 DEF FInv

\* The guarded write of a publication: when it ends the closing event of a
\* host, the row is closed, whoever closed it.
LEMMA RecordForward == ASSUME FInv, IInv', NEW p \in pubs, Record(p) PROVE FInv'
<1>0. IInv /\ [Next]_vars
  BY DEF FInv, Next
<1>1. pubs' = pubs \ {p} /\ UNCHANGED <<stage, outcome, dropped, lost>>
  BY DEF Record, host
<1>2. \A q \in Tasks : status[q] \notin Active => status'[q] \notin Active
  <2> SUFFICES ASSUME NEW q \in Tasks, status[q] = "none" PROVE status'[q] \notin Active
    BY <1>0, ClosedStaysClosed
  <2>1. CASE q = p.task
    <3>1. q \in tombs
      BY <2>1 DEF FInv, IInv, PublicationsOK, PublicationOK
    <3> QED BY <2>1, <3>1 DEF Record, Writable, Active
  <2>2. CASE q # p.task
    BY <2>2 DEF Record, FInv, IInv, TypeOK, Active
  <2> QED BY <2>1, <2>2
<1>3. \A r \in pubs : r.task \in Tasks
  BY DEF FInv, IInv, TypeOK, Publications
<1>4. ASSUME NEW q \in Tasks, ClosingUnderWay(q)
      PROVE  ClosingUnderWay(q)' \/ status'[q] \notin Active
  <2>1. PICK r \in pubs : /\ r.by = q /\ r.task = q
                          /\ r.ev.type = "state" /\ r.ev.to \in Terminal
    BY <1>4 DEF ClosingUnderWay
  <2>2. CASE r # p
    BY <1>1, <2>1, <2>2 DEF ClosingUnderWay
  <2>3. CASE r = p
    <3>1. p.seen \in States /\ SeenOK(p) /\ status[q] \in States \cup {"none"}
      BY <2>1 DEF FInv, IInv, TypeOK, Publications
    <3>2. CASE Writable(p)
      <4>1. status'[q] = ApplyEvent(p.seen, p.ev)
        BY <2>1, <2>3, <3>2 DEF Record, FInv, IInv, TypeOK
      <4> QED BY <2>1, <2>3, <4>1 DEF ApplyEvent, Terminal, Active
    <3>3. CASE ~Writable(p)
      <4>1. status' = status
        BY <3>3 DEF Record
      <4>2. status[q] \notin Active
        <5>1. CASE p.seen \in Terminal
          BY <2>1, <2>3, <3>1, <5>1 DEF SeenOK
        <5>2. CASE q \in tombs
          BY <5>2 DEF FInv, IInv, RetiredStaysRetired, Active
        <5>3. CASE p.seen \in Active /\ q \notin tombs
          <6>1. status[q] \notin AllowedFrom(p.seen, p.ev)
            BY <2>1, <2>3, <3>3, <5>3 DEF Writable
          <6>2. StateSources(p.ev.to) = Active
            BY <2>1, <2>3 DEF StateSources, Terminal
          <6> QED BY <2>1, <2>3, <3>1, <5>3, <6>1, <6>2 DEF AllowedFrom, States
        <5> QED BY <3>1, <5>1, <5>2, <5>3 DEF States
      <4> QED BY <4>1, <4>2
    <3> QED BY <3>2, <3>3
  <2> QED BY <2>2, <2>3
<1>5. lost' \in Nat
  BY <1>1 DEF FInv, IInv, TypeOK
<1> QED BY <1>1, <1>2, <1>3, <1>4, <1>5, NoPublishForward

\* Steps that write a row without an event, and steps that write none.
LEMMA DirectForward ==
  ASSUME FInv, IInv', NEW t \in Tasks,
         \/ Prepare(t) \/ PrepareFails(t) \/ CreateExternalTask(t) \/ FailOrphan(t)
         \/ DeleteApproved \/ Crash
  PROVE  FInv'
<1>1. pubs' \subseteq pubs /\ lost' = lost /\ lost \in Nat
  BY DEF Prepare, PrepareFails, CreateExternalTask, FailOrphan, DeleteApproved, Crash,
         FInv, IInv, TypeOK
<1>2. \A p \in pubs : p.task \in Tasks /\ (status[p.task] # "none" \/ p.task \in tombs)
  BY DEF FInv, IInv, TypeOK, PublicationsOK, PublicationOK, Publications
<1>3. CASE Prepare(t)
  <2>1. \A q \in Tasks : q # t => status'[q] = status[q] /\ stage'[q] = stage[q]
    BY <1>3 DEF Prepare, FInv, IInv, TypeOK
  <2>2. stage'[t] = "prepared" /\ pubs' = pubs /\ outcome' = outcome
    BY <1>3 DEF Prepare, FInv, IInv, TypeOK
  <2>0. UNCHANGED dropped
    BY <1>3 DEF Prepare
  <2>3. \A p \in pubs : p.task # t
    BY <1>2, <1>3 DEF Prepare
  <2>4. \A q \in Tasks : ClosingUnderWay(q) => ClosingUnderWay(q)'
    BY <2>2 DEF ClosingUnderWay
  <2> QED BY <1>1, <1>2, <2>0, <2>1, <2>2, <2>3, <2>4, NoPublishForward
<1>4. CASE CreateExternalTask(t)
  <2>1. \A q \in Tasks : q # t => status'[q] = status[q]
    BY <1>4 DEF CreateExternalTask, FInv, IInv, TypeOK
  <2>2. stage[t] \in {"none", "done"} /\ UNCHANGED <<pubs, stage, outcome, dropped>>
    BY <1>4 DEF CreateExternalTask, host, FInv, IInv, HostsOK, HostOK
  <2>3. \A p \in pubs : p.task # t
    BY <1>2, <1>4 DEF CreateExternalTask
  <2>4. \A q \in Tasks : ClosingUnderWay(q) => ClosingUnderWay(q)'
    BY <2>2 DEF ClosingUnderWay
  <2> QED BY <1>1, <1>2, <2>1, <2>2, <2>3, <2>4, NoPublishForward
<1>5. CASE PrepareFails(t)
  <2>1. \A q \in Tasks : /\ status[q] \notin Active => status'[q] \notin Active
                         /\ q # t => stage'[q] = stage[q]
    BY <1>5 DEF PrepareFails, FInv, IInv, TypeOK, Active
  <2>2. stage'[t] = "done" /\ pubs' = pubs /\ outcome' = outcome /\ dropped' = dropped
    BY <1>5 DEF PrepareFails, FInv, IInv, TypeOK
  <2>3. \A q \in Tasks : ClosingUnderWay(q) => ClosingUnderWay(q)'
    BY <2>2 DEF ClosingUnderWay
  <2> QED BY <1>1, <1>2, <2>1, <2>2, <2>3, NoPublishForward
<1>6. CASE FailOrphan(t) \/ DeleteApproved
  <2>1. /\ \A q \in Tasks : status[q] \notin Active => status'[q] \notin Active
        /\ UNCHANGED <<pubs, stage, outcome, dropped>>
    BY <1>6 DEF FailOrphan, DeleteApproved, host, FInv, IInv, TypeOK, Active
  <2>2. \A q \in Tasks : ClosingUnderWay(q) => ClosingUnderWay(q)'
    BY <2>1 DEF ClosingUnderWay
  <2> QED BY <1>1, <1>2, <2>1, <2>2, NoPublishForward
<1>7. CASE Crash
  <2>1. pubs' = {} /\ \A q \in Tasks : stage'[q] \in {"none", "done"}
    BY <1>7 DEF Crash
  <2> QED BY <2>1 DEF FInv, CallbackOK
<1> QED BY <1>3, <1>4, <1>5, <1>6, <1>7

\* The events the code publishes ask for what their type allows.
LEMMA AsksOK ==
  /\ \A s \in States : AskOK(StateEvent(s)) /\ AskOK(RejectedEvent(s))
  /\ \A s \in Terminal, w \in BOOLEAN : AskOK(FinishedEvent(s, w))
  /\ \A w \in BOOLEAN : AskOK(FinalizedEvent(w))
  /\ AskOK(ProgressEvent) /\ AskOK(ErrorEvent) /\ AskOK(CancelledEvent)
BY DEF AskOK, StateEvent, RejectedEvent, FinishedEvent, FinalizedEvent, ProgressEvent,
       ErrorEvent, CancelledEvent, Closing, Terminal

\* A host's publication that is neither the closing event nor a rejection.
LEMMA HostForward ==
  ASSUME FInv, IInv', NEW t \in Tasks, NEW ev \in Events, NEW from \in Stages,
         NEW next \in Stages, NEW result \in States \cup {"none"},
         HostPublish(t, ev, from, next, result), AskOK(ev), next # "rejecting",
         next = "callback" => ev.type = "state" /\ ev.to \in Terminal,
         lost = 0 /\ ev.type = "artifact_rejected" /\ t \notin dropped
           => ev.to \in Terminal
  PROVE  FInv'
<1>1. t \in Threads
  BY DEF Threads
<1>2. /\ BeginPublish(t, t, ev) /\ UNCHANGED <<status, lost, dropped>>
      /\ stage'[t] = next
      /\ \A q \in Tasks : q # t => stage'[q] = stage[q] /\ outcome'[q] = outcome[q]
  BY DEF HostPublish, store, FInv, IInv, TypeOK
<1> QED BY <1>1, <1>2, PublishForward

\* Every step of a host keeps FInv: the callback starts after the closing
\* event, and what a rejection asks for was read from a closed row.
LEMMA HostStepsForward ==
  ASSUME FInv, IInv', NEW t \in Tasks, HostAdvance(t) \/ HostProgress(t) \/ HostDrop(t),
         ~PrepareFails(t)
  PROVE  FInv'
<1> USE DEF Stages
<1>1. \A s \in {"PENDING", "STARTING", "RUNNING", "CANCELLED"} :
        s \in States /\ StateEvent(s) \in Events /\ AskOK(StateEvent(s))
        /\ StateEvent(s).type = "state" /\ StateEvent(s).to = s
  <2>1. \A s \in {"PENDING", "STARTING", "RUNNING", "CANCELLED"} : s \in States
    BY DEF States, Active, Terminal
  <2> QED BY <2>1, EventsTyped, AsksOK DEF StateEvent
<1>2. /\ \A ev \in {ProgressEvent, ErrorEvent, CancelledEvent} :
           ev \in Events /\ AskOK(ev) /\ ev.type # "artifact_rejected"
      /\ "FAILED" \in States /\ "CANCELLED" \in States /\ "CANCELLED" \in Terminal
  BY EventsTyped, AsksOK DEF ProgressEvent, ErrorEvent, CancelledEvent, States, Terminal
<1>3. CASE HostPending(t)
  BY <1>1, <1>3, HostForward DEF HostPending
<1>4. CASE HostStarting(t)
  BY <1>1, <1>4, HostForward DEF HostStarting
<1>5. CASE HostRunning(t)
  BY <1>1, <1>5, HostForward DEF HostRunning
<1>6. CASE HostProgress(t)
  BY <1>2, <1>6, HostForward DEF HostProgress
<1>7. CASE HostFailStart(t)
  BY <1>2, <1>7, HostForward DEF HostFailStart
<1>8. CASE HostPayload(t)
  <2>1. ASSUME NEW s \in Terminal, NEW w \in BOOLEAN,
               HostPublish(t, FinishedEvent(s, w), "running", "closing", s)
        PROVE  FInv'
    <3>1. s \in States
      BY DEF States
    <3>2. /\ FinishedEvent(s, w) \in Events /\ FinishedEvent(s, w).type = "finished"
          /\ AskOK(FinishedEvent(s, w))
      BY <3>1, EventsTyped, AsksOK DEF FinishedEvent
    <3> QED BY <2>1, <3>1, <3>2, HostForward
  <2> QED BY <1>2, <1>8, <2>1, HostForward DEF HostPayload
<1>9. CASE HostClose(t)
  <2>1. outcome[t] \in Terminal /\ outcome[t] \in States
    BY <1>9 DEF FInv, IInv, HostsOK, HostOK, HostClose, HostPublish, States
  <2>2. PICK s \in Terminal : s = outcome[t] /\ s \in States
    BY <2>1
  <2>3. /\ StateEvent(s) \in Events /\ AskOK(StateEvent(s))
        /\ StateEvent(s).type = "state" /\ StateEvent(s).to = s
    BY <2>2, EventsTyped, AsksOK DEF StateEvent
  <2> QED BY <1>9, <2>2, <2>3, HostForward DEF HostClose
<1>10. CASE HostAbandon(t)
  BY <1>1, <1>2, <1>10, HostForward DEF HostAbandon
<1>11. CASE FinalizeArtifact(t)
  <2>1. PICK w \in BOOLEAN : HostPublish(t, FinalizedEvent(w), "callback", "done", "none")
    BY <1>11 DEF FinalizeArtifact
  <2>2. /\ FinalizedEvent(w) \in Events /\ AskOK(FinalizedEvent(w))
        /\ FinalizedEvent(w).type = "artifact_finalized"
    BY EventsTyped, AsksOK DEF FinalizedEvent
  <2> QED BY <2>1, <2>2, HostForward
<1>12. CASE RejectArtifact(t)
  <2>1. /\ outcome[t] \in States /\ stage[t] = "rejecting"
        /\ lost = 0 /\ t \notin dropped => outcome[t] \in Terminal
    BY <1>12 DEF FInv, IInv, HostsOK, HostOK, CallbackOK, RejectArtifact, HostPublish
  <2>2. PICK s \in States : s = outcome[t]
    BY <2>1
  <2>3. /\ RejectedEvent(s) \in Events /\ AskOK(RejectedEvent(s))
        /\ RejectedEvent(s).to = s
    BY EventsTyped, AsksOK DEF RejectedEvent
  <2> QED BY <1>12, <2>1, <2>2, <2>3, HostForward DEF RejectArtifact
<1>13. CASE HostRunningSilently(t) \/ CallbackNone(t)
  <2>1. /\ UNCHANGED <<status, pubs, lost, outcome, dropped>> /\ lost \in Nat
        /\ stage'[t] \in {"running", "done"}
        /\ \A q \in Tasks : q # t => stage'[q] = stage[q]
    BY <1>13 DEF HostRunningSilently, CallbackNone, HostLeave, store, FInv, IInv, TypeOK
  <2>2. \A q \in Tasks : ClosingUnderWay(q) => ClosingUnderWay(q)'
    BY <2>1 DEF ClosingUnderWay
  <2> QED BY <2>1, <2>2, NoPublishForward
<1>14. CASE RejectArtifactRead(t)
  <2>1. /\ UNCHANGED <<status, pubs, lost, dropped>> /\ status[t] \in States
        /\ stage[t] = "callback" /\ stage'[t] = "rejecting" /\ Idle(t)
        /\ outcome'[t] = IF status[t] = "COMPLETED" THEN "FAILED" ELSE status[t]
        /\ \A q \in Tasks : q # t => stage'[q] = stage[q] /\ outcome'[q] = outcome[q]
    BY <1>14 DEF RejectArtifactRead, store, FInv, IInv, TypeOK
  <2>2. \A q \in Tasks : ClosingUnderWay(q) => ClosingUnderWay(q)'
    BY <2>1 DEF ClosingUnderWay
  <2>3. ASSUME lost = 0, NEW q \in Tasks \ dropped PROVE CallbackOK(q)'
    <3>1. CallbackOK(q)
      BY <2>3 DEF FInv
    <3>2. CASE q = t
      <4>1. status[t] \notin Active
        BY <2>1, <3>1, <3>2 DEF CallbackOK, ClosingUnderWay, Idle
      <4> QED BY <2>1, <3>2, <4>1 DEF CallbackOK, States, Terminal
    <3>3. CASE q # t
      BY <2>1, <2>2, <3>1, <3>3 DEF CallbackOK
    <3> QED BY <3>2, <3>3
  <2>4. \A p \in pubs' : SeenOK(p)'
    BY <2>1 DEF FInv, SeenOK
  <2> QED BY <2>1, <2>3, <2>4 DEF FInv
<1>15. CASE HostDrop(t)
  <2>1. /\ UNCHANGED <<status, pubs, lost, outcome>>
        /\ dropped' = dropped \cup {t}
        /\ \A q \in Tasks : q # t => stage'[q] = stage[q]
    BY <1>15 DEF HostDrop, store, FInv, IInv, TypeOK
  <2>2. ASSUME lost = 0, NEW q \in Tasks \ dropped' PROVE CallbackOK(q)'
    <3>1. CallbackOK(q) /\ q # t
      BY <2>1, <2>2 DEF FInv
    <3>2. ClosingUnderWay(q)' = ClosingUnderWay(q)
      BY <2>1 DEF ClosingUnderWay
    <3> QED BY <2>1, <3>1, <3>2 DEF CallbackOK
  <2>3. \A p \in pubs' : SeenOK(p)'
    BY <2>1 DEF FInv, SeenOK
  <2> QED BY <2>1, <2>2, <2>3 DEF FInv
<1> QED BY <1>3, <1>4, <1>5, <1>6, <1>7, <1>8, <1>9, <1>10, <1>11, <1>12, <1>13, <1>14, <1>15
        DEF HostAdvance

\* API threads and pollers: they stop tasks, finalize results or feed what
\* the remote side reports, and never reject.
LEMMA UserForward ==
  ASSUME FInv, IInv', NEW w \in Users, NEW t \in Tasks,
         \/ CancelTask(w, t) \/ CancelPublish(w, t) \/ RequestCancel(w, t)
         \/ ReconcileArtifact(w, t)
         \/ \E ev \in ExternalEvents : RecordExternalEvent(w, t, ev)
  PROVE  FInv'
<1>1. UNCHANGED <<status, lost, stage, outcome, dropped>> /\ w \in Threads /\ w # t /\ lost \in Nat
  BY UsersAssumption DEF CancelTask, CancelPublish, RequestCancel, ReconcileArtifact,
     RecordExternalEvent, StopEvent, store, host, Threads, FInv, IInv, TypeOK
<1>2. ASSUME NEW ev \in Events, BeginPublish(w, t, ev), AskOK(ev),
             ev.type # "artifact_rejected"
      PROVE  FInv'
  BY <1>1, <1>2, PublishForward
<1>3. CASE CancelTask(w, t)
  <2>1. pubs' = pubs
    BY <1>3 DEF CancelTask
  <2>2. \A q \in Tasks : ClosingUnderWay(q) => ClosingUnderWay(q)'
    BY <2>1 DEF ClosingUnderWay
  <2> QED BY <1>1, <2>1, <2>2, NoPublishForward
<1>4. CASE CancelPublish(w, t) \/ RequestCancel(w, t)
  <2>1. BeginPublish(w, t, StateEvent("STOPPING"))
    BY <1>4 DEF CancelPublish, RequestCancel, StopEvent
  <2>2. "STOPPING" \in States
    BY DEF States, Active
  <2>3. /\ StateEvent("STOPPING") \in Events /\ AskOK(StateEvent("STOPPING"))
        /\ StateEvent("STOPPING").type = "state"
    BY <2>2, EventsTyped, AsksOK DEF StateEvent
  <2> QED BY <1>2, <2>1, <2>3
<1>5. CASE ReconcileArtifact(w, t)
  <2>1. PICK x \in BOOLEAN : BeginPublish(w, t, FinalizedEvent(x))
    BY <1>5 DEF ReconcileArtifact
  <2>2. /\ FinalizedEvent(x) \in Events /\ AskOK(FinalizedEvent(x))
        /\ FinalizedEvent(x).type = "artifact_finalized"
    BY EventsTyped, AsksOK DEF FinalizedEvent
  <2> QED BY <1>2, <2>1, <2>2
<1>6. ASSUME NEW ev \in ExternalEvents, RecordExternalEvent(w, t, ev) PROVE FInv'
  <2>1. BeginPublish(w, t, ev)
    BY <1>6 DEF RecordExternalEvent
  <2>2. "COMPLETED" \in Terminal /\ "COMPLETED" \in States
    BY DEF Terminal, States
  <2>3. ev \in Events /\ AskOK(ev)
    BY <2>2, EventsTyped, AsksOK DEF ExternalEvents
  <2>4. ev.type # "artifact_rejected"
    BY DEF ExternalEvents, StateEvent, ProgressEvent, ErrorEvent, CancelledEvent,
           FinishedEvent
  <2> QED BY <1>2, <2>1, <2>3, <2>4
<1> QED BY <1>3, <1>4, <1>5, <1>6

\* Acknowledging, deciding, listing, losing a write and stuttering.
LEMMA QuietForward ==
  ASSUME FInv, IInv',
         \/ \E ts \in SUBSET Tasks : AcknowledgeTasks(ts)
         \/ \E t \in Tasks : DecideCleanup(t)
         \/ \E p \in pubs : LoseWrite(p)
         \/ ListOrphans \/ UNCHANGED vars
  PROVE  FInv'
<1>1. /\ UNCHANGED <<status, stage, outcome, dropped>> /\ pubs' \subseteq pubs /\ lost \in Nat
      /\ (lost' = lost /\ pubs' = pubs) \/ lost' = lost + 1
  BY DEF AcknowledgeTasks, DecideCleanup, LoseWrite, ListOrphans, vars, store, host,
     FInv, IInv, TypeOK
<1>2. lost' \in Nat /\ (lost' = 0 => lost = 0 /\ pubs' = pubs)
  BY <1>1
<1>3. lost' = 0 => \A q \in Tasks : ClosingUnderWay(q) => ClosingUnderWay(q)'
  BY <1>2 DEF ClosingUnderWay
<1> QED BY <1>1, <1>2, <1>3, NoPublishForward

(***************************************************************************)
(* FInv is an inductive invariant of the store.                            *)
(***************************************************************************)
THEOREM ForwardInvariance == Spec => []FInv
<1>1. Init => FInv
  BY InitOK DEF Init, FInv, CallbackOK
<1>2. FInv /\ [Next]_vars => FInv'
  <2> SUFFICES ASSUME FInv, [Next]_vars PROVE FInv'
    OBVIOUS
  <2>1. IInv'
    BY NextOK DEF FInv
  <2>2. CASE \E t \in Tasks : \/ Prepare(t) \/ PrepareFails(t) \/ CreateExternalTask(t)
                              \/ FailOrphan(t)
    BY <2>1, <2>2, DirectForward
  <2>3. CASE DeleteApproved \/ Crash
    <3>1. CASE Tasks = {}
      BY <2>1, <3>1 DEF FInv, IInv, TypeOK, Publications
    <3>2. CASE Tasks # {}
      BY <2>1, <2>3, <3>2, DirectForward
    <3> QED BY <3>1, <3>2
  <2>4. CASE \E t \in Tasks : /\ HostAdvance(t) \/ HostProgress(t) \/ HostDrop(t)
                             /\ ~PrepareFails(t)
    BY <2>1, <2>4, HostStepsForward
  <2>5. CASE \E w \in Users, t \in Tasks :
               \/ CancelTask(w, t) \/ CancelPublish(w, t) \/ RequestCancel(w, t)
               \/ ReconcileArtifact(w, t)
               \/ \E ev \in ExternalEvents : RecordExternalEvent(w, t, ev)
    BY <2>1, <2>5, UserForward
  <2>6. CASE \E p \in pubs : Record(p)
    BY <2>1, <2>6, RecordForward
  <2>7. CASE \/ \E ts \in SUBSET Tasks : AcknowledgeTasks(ts)
             \/ \E t \in Tasks : DecideCleanup(t)
             \/ \E p \in pubs : LoseWrite(p)
             \/ ListOrphans \/ UNCHANGED vars
    BY <2>1, <2>7, QuietForward
  <2> QED BY <2>2, <2>3, <2>4, <2>5, <2>6, <2>7 DEF Next
<1> QED BY <1>1, <1>2, PTL DEF Spec

\* The rank of the status a guarded write leaves is not below that of the row
\* it finds, for the events the code publishes.
LEMMA GuardedForward ==
  ASSUME NEW s \in States, NEW ev \in Events, AskOK(ev),
         ev.type = "artifact_finalized" => s = "COMPLETED" /\ ev.to = "keep",
         ev.type = "artifact_rejected" => ev.to \in Terminal,
         NEW r \in AllowedFrom(s, ev)
  PROVE  Rank(r) <= Rank(ApplyEvent(s, ev))
<1>1. \A q \in States : Rank(q) \in 1..5 /\ (q \in Terminal => Rank(q) = 5)
  BY DEF Rank, States, Active, Terminal
<1>2. r \in States
  BY DEF AllowedFrom
<1>3. CASE ev.type \in Closing \cup {"artifact_rejected"}
  <2>1. ApplyEvent(s, ev) \in Terminal /\ ApplyEvent(s, ev) \in States
    BY <1>3 DEF AskOK, ApplyEvent, States, Terminal, Closing
  <2> QED BY <1>1, <1>2, <2>1
<1>4. CASE ev.type \in {"artifact_finalized", "progress"}
  <2>1. ApplyEvent(s, ev) = r
    BY <1>4 DEF AskOK, ApplyEvent, AllowedFrom, Closing
  <2> QED BY <1>1, <1>2, <2>1
<1>5. CASE ev.type = "state"
  <2>1. ApplyEvent(s, ev) = ev.to /\ ev.to \in States
    BY <1>5 DEF AskOK, ApplyEvent, States, Active, Terminal
  <2>2. r = ev.to \/ r \in StateSources(ev.to)
    BY <1>5 DEF AllowedFrom, Closing
  <2>3. CASE r = ev.to
    BY <1>1, <1>2, <2>1, <2>3
  <2>4. CASE r \in StateSources(ev.to)
    BY <2>1, <2>4 DEF StateSources, Rank, States, Active, Terminal
  <2> QED BY <2>2, <2>3, <2>4
<1> QED BY <1>3, <1>4, <1>5 DEF Events, EventTypes

(***************************************************************************)
(* PENDING, STARTING, RUNNING, STOPPING, end state: until a first write of *)
(* _persist_event is lost, no event, recovery, cancel or artifact decision *)
(* takes back the status of a task that no protocol failure has dropped,   *)
(* for any number of threads and tasks.                                    *)
(***************************************************************************)
THEOREM ForwardUntilLoss ==
  Spec => [][lost = 0 => \A t \in Tasks \ dropped :
                         status[t] # "none" /\ status'[t] # "none"
                           => Rank(status[t]) <= Rank(status'[t])]_vars
<1> DEFINE A == lost = 0 => \A t \in Tasks \ dropped : status[t] # "none" /\ status'[t] # "none"
                           => Rank(status[t]) <= Rank(status'[t])
<1>1. FInv /\ [Next]_vars => [A]_vars
  <2> SUFFICES ASSUME FInv, Next, lost = 0, NEW t \in Tasks \ dropped,
                      status[t] # "none", status'[t] # "none"
               PROVE  Rank(status[t]) <= Rank(status'[t])
    OBVIOUS
  <2>1. status[t] \in States
    BY DEF FInv, IInv, TypeOK
  <2>2. CASE \E p \in pubs : Record(p)
    <3>1. PICK p \in pubs : Record(p)
      BY <2>2
    <3>0. status'[t] = status[t] => Rank(status[t]) <= Rank(status'[t])
      BY <2>1 DEF Rank, States, Active, Terminal
    <3> SUFFICES ASSUME status'[t] # status[t] PROVE Rank(status[t]) <= Rank(status'[t])
      BY <3>0
    <3>2. t = p.task /\ Writable(p) /\ status'[t] = ApplyEvent(p.seen, p.ev)
      BY <3>1 DEF Record, FInv, IInv, TypeOK
    <3>3. /\ status[t] \in AllowedFrom(p.seen, p.ev) /\ p \in Publications
          /\ PublicationOK(p) /\ AskOK(p.ev)
      BY <3>2, WrittenStatus DEF FInv, IInv, PublicationsOK, SeenOK
    <3>4. /\ p.seen \in States /\ p.ev \in Events
          /\ p.ev.type = "artifact_rejected" => p.ev.to \in Terminal
      BY <3>2, <3>3 DEF Publications, FInv
    <3> QED BY <3>2, <3>3, <3>4, GuardedForward DEF PublicationOK
  <2>3. CASE ~\E p \in pubs : Record(p)
    <3>1. status'[t] = status[t] \/ status'[t] = "FAILED"
      <4>1. CASE \E q \in Tasks : \/ Prepare(q) \/ PrepareFails(q) \/ CreateExternalTask(q)
                                  \/ FailOrphan(q)
        BY <4>1 DEF Prepare, PrepareFails, CreateExternalTask, FailOrphan, FInv, IInv, TypeOK
      <4>2. CASE DeleteApproved
        BY <4>2 DEF DeleteApproved
      <4>3. CASE ~DeleteApproved /\ ~\E q \in Tasks : \/ Prepare(q) \/ PrepareFails(q)
                                       \/ CreateExternalTask(q) \/ FailOrphan(q)
        <5>1. status' = status
          BY <2>3, <4>3
             DEF Next, HostAdvance, HostProgress, HostDrop, HostPending, HostStarting, HostRunning,
             HostRunningSilently, HostFailStart, HostPayload, HostClose, HostAbandon,
             CallbackNone, FinalizeArtifact, RejectArtifactRead, RejectArtifact, HostPublish,
             DecideCleanup, CancelTask, CancelPublish, RequestCancel, ReconcileArtifact,
             RecordExternalEvent, StopEvent, LoseWrite, AcknowledgeTasks, ListOrphans, Crash,
             store
        <5> QED BY <5>1
      <4> QED BY <4>1, <4>2, <4>3
    <3> QED BY <2>1, <3>1 DEF Rank, States, Active, Terminal
  <2> QED BY <2>2, <2>3
<1> QED BY <1>1, ForwardInvariance, PTL DEF Spec

(***************************************************************************)
(* When no write is lost, an accepted cancel is never forgotten: the       *)
(* status only moves forward, throughout, of every task that no protocol   *)
(* failure has dropped.                                                    *)
(***************************************************************************)
THEOREM Forward == MaxLost = 0 => (Spec => ForwardOnly)
<1> SUFFICES ASSUME MaxLost = 0 PROVE Spec => ForwardOnly
  OBVIOUS
<1>1. Init => lost = 0
  BY DEF Init
<1>2. lost = 0 /\ [Next]_vars => (lost = 0)'
  <2> SUFFICES ASSUME lost = 0, [Next]_vars PROVE lost' = 0
    OBVIOUS
  <2>1. ~\E p \in pubs : LoseWrite(p)
    BY DEF LoseWrite
  <2> QED BY <2>1 
     DEF Next, vars, HostAdvance, HostProgress, HostDrop, HostPending, HostStarting, HostRunning,
     HostRunningSilently, HostFailStart, HostPayload, HostClose, HostAbandon,
     CallbackNone, FinalizeArtifact, RejectArtifactRead, RejectArtifact, HostPublish,
     DecideCleanup, CancelTask, CancelPublish, RequestCancel, ReconcileArtifact,
     RecordExternalEvent, StopEvent, Record, AcknowledgeTasks, ListOrphans, Crash,
     Prepare, PrepareFails, CreateExternalTask, FailOrphan, DeleteApproved
<1> DEFINE F == \A t \in Tasks \ dropped : status[t] # "none" /\ status'[t] # "none"
                             => Rank(status[t]) <= Rank(status'[t])
<1>3. Spec => [][lost = 0 => F]_vars
  BY ForwardUntilLoss
<1>4. lost = 0 /\ [lost = 0 => F]_vars => [F]_vars
  OBVIOUS
<1>5. Spec => [](lost = 0)
  BY <1>1, <1>2, PTL DEF Spec
<1>6. Spec => [][F]_vars
  <2> HIDE DEF F
  <2> QED BY <1>3, <1>4, <1>5, PTL
<1> QED BY <1>6 DEF ForwardOnly
=============================================================================
