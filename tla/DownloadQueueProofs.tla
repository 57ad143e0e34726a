------------------------ MODULE DownloadQueueProofs ------------------------
(***************************************************************************)
(* Proofs about DownloadQueue for every set of downloads and of cancelling *)
(* threads and every number of crashes.                                    *)
(***************************************************************************)
EXTENDS DownloadQueue, FiniteSetTheorems, SequenceTheorems, TLAPS

(***************************************************************************)
(* What a status event does to the rows: it gives no task a row, takes     *)
(* none away and leaves an end state in place.                             *)
(***************************************************************************)
LEMMA GuardedRows ==
  ASSUME TypeOK, NEW t \in Tasks, NEW ev \in Events, ev.to \in States,
         ev.type \in Closing \cup {"state"}, Guarded(t, ev)
  PROVE  /\ row' \in [Tasks -> States \cup {"none"}]
         /\ \A u \in Tasks : row'[u] = "none" <=> row[u] = "none"
         /\ \A u \in Tasks : row[u] \in Terminal => row'[u] = row[u]
<1> DEFINE new == IF row[t] # "none" /\ row[t] \in AllowedFrom(row[t], ev)
                  THEN ApplyEvent(row[t], ev) ELSE row[t]
<1>1. row' = [row EXCEPT ![t] = new]
  BY DEF Guarded
<1>2. row \in [Tasks -> States \cup {"none"}]
  BY DEF TypeOK
<1>3. new \in States \cup {"none"} /\ (new = "none" <=> row[t] = "none")
  BY <1>2 DEF ApplyEvent, States, Active, Terminal
<1>4. row[t] \in Terminal => new = row[t]
  <2> SUFFICES ASSUME row[t] \in Terminal, row[t] \in AllowedFrom(row[t], ev)
               PROVE  ApplyEvent(row[t], ev) = row[t]
    OBVIOUS
  <2>1. row[t] \notin Active
    BY DEF Active, Terminal
  <2>2. ev.to = row[t]
    BY <2>1 DEF AllowedFrom, Closing
  <2> QED BY <2>2 DEF ApplyEvent
<1> HIDE DEF new
<1> QED BY <1>1, <1>2, <1>3, <1>4

(***************************************************************************)
(* A new row takes some place k of the order, by (created_time, task_id);  *)
(* what came from there on moves up by one.                                *)
(***************************************************************************)
LEMMA EnterPlace ==
  ASSUME order \in Seq(Tasks), NEW t \in Tasks, EnterOrder(t)
  PROVE  /\ order' \in Seq(Tasks)
         /\ Len(order') = Len(order) + 1
         /\ \E k \in 1..(Len(order) + 1) :
              \A j \in 1..(Len(order) + 1) :
                order'[j] = IF j < k THEN order[j] ELSE IF j = k THEN t ELSE order[j - 1]
<1>1. PICK i \in 0..Len(order) :
        order' = SubSeq(order, 1, i) \o <<t>> \o SubSeq(order, i + 1, Len(order))
  BY DEF EnterOrder
<1> DEFINE low == SubSeq(order, 1, i)
           high == SubSeq(order, i + 1, Len(order))
<1>2. Len(order) \in Nat /\ i \in Nat
  OBVIOUS
<1>3. /\ low \in Seq(Tasks) /\ Len(low) = i
      /\ \A j \in 1..i : low[j] = order[j]
  BY <1>2
<1>4. /\ high \in Seq(Tasks) /\ Len(high) = Len(order) - i
      /\ \A j \in 1..(Len(order) - i) : high[j] = order[i + j]
  BY <1>2
<1>5. /\ low \o <<t>> \in Seq(Tasks) /\ Len(low \o <<t>>) = i + 1
      /\ \A j \in 1..(i + 1) : (low \o <<t>>)[j] = IF j <= i THEN order[j] ELSE t
  BY <1>2, <1>3
<1> DEFINE front == low \o <<t>>
<1>6. order' = front \o high
  BY <1>1
<1> HIDE DEF low, high, front
<1>7. front \in Seq(Tasks) /\ Len(front) = i + 1
      /\ \A j \in 1..(i + 1) : front[j] = IF j <= i THEN order[j] ELSE t
  BY <1>5 DEF front
<1>8. order' \in Seq(Tasks) /\ Len(order') = Len(order) + 1
  <2>1. front \o high \in Seq(Tasks) /\ Len(front \o high) = Len(front) + Len(high)
    <3>1. front \in Seq(Tasks) /\ high \in Seq(Tasks)
      BY <1>4, <1>7
    <3> QED BY ONLY <3>1, ConcatProperties
  <2>2. (i + 1) + (Len(order) - i) = Len(order) + 1
    BY <1>2
  <2> QED BY <1>4, <1>6, <1>7, <2>1, <2>2
<1>9. ASSUME NEW j \in 1..(Len(order) + 1)
      PROVE  order'[j] = IF j < i + 1 THEN order[j]
                         ELSE IF j = i + 1 THEN t ELSE order[j - 1]
  <2>1. CASE j <= i + 1
    BY <1>2, <1>4, <1>6, <1>7, <2>1
  <2>2. CASE j > i + 1
    <3>1. order'[j] = high[j - (i + 1)] /\ j - (i + 1) \in 1..(Len(order) - i)
      BY <1>2, <1>4, <1>6, <1>7, <2>2
    <3>2. i + (j - (i + 1)) = j - 1
      BY <1>2
    <3> QED BY <1>2, <1>4, <2>2, <3>1, <3>2
  <2> QED BY <1>2, <2>1, <2>2
<1>10. i + 1 \in 1..(Len(order) + 1)
  BY <1>2
<1> QED BY <1>8, <1>9, <1>10

(***************************************************************************)
(* The status events the queue and the hosts write.                        *)
(***************************************************************************)
LEMMA QueueEvents ==
  /\ \A s \in States :
       LET ev == StateEvent(s) IN
       ev \in Events /\ ev.to \in States /\ ev.type \in Closing \cup {"state"}
  /\ \A ev \in {ErrorEvent, CancelledEvent, FinishedEvent("COMPLETED", FALSE)} :
       ev \in Events /\ ev.to \in States /\ ev.type \in Closing \cup {"state"}
BY DEF Events, EventTypes, Closing, States, Active, Terminal, StateEvent,
       FinishedEvent, ErrorEvent, CancelledEvent

(***************************************************************************)
(* An API thread that cancels keeps the invariant: it only closes rows and *)
(* marks hosted downloads.                                                 *)
(***************************************************************************)
LEMMA CancellersOK ==
  ASSUME IInv, NEW c \in Cancellers,
         \/ \E t \in Tasks : CancelDownload(c, t)
         \/ CancelHosted(c) \/ CancelRead(c) \/ CancelWaiting(c)
  PROVE  IInv'
<1> USE DEF IInv, TypeOK, rows, hosts, holder
<1>1. ASSUME NEW t \in Tasks, CancelDownload(c, t) PROVE IInv'
  BY <1>1 DEF CancelDownload, HolderOK, StartedOK
<1>2. CASE CancelRead(c)
  <2>1. TypeOK'
    BY <1>2 DEF CancelRead
  <2> QED BY <2>1, <1>2 DEF CancelRead, HolderOK, StartedOK
<1>3. CASE CancelHosted(c)
  <2> DEFINE t == cancel[c].task
  <2>1. CASE t \in worker
    <3>1. t \in Tasks /\ Guarded(t, StateEvent("STOPPING"))
      BY <1>3, <2>1 DEF CancelHosted
    <3>2. "STOPPING" \in States
      BY DEF States, Active
    <3>3. /\ row' \in [Tasks -> States \cup {"none"}]
          /\ \A u \in Tasks : row'[u] = "none" <=> row[u] = "none"
          /\ \A u \in Tasks : row[u] \in Terminal => row'[u] = row[u]
      BY <3>1, <3>2, GuardedRows, QueueEvents
    <3>4. TypeOK'
      BY <1>3, <2>1, <3>3 DEF CancelHosted, Idle
    <3> QED BY <1>3, <3>3, <3>4 DEF CancelHosted, HolderOK, StartedOK
  <2>2. CASE t \notin worker
    <3>1. TypeOK'
      BY <1>3, <2>2 DEF CancelHosted, Idle
    <3> QED BY <1>3, <2>2, <3>1 DEF CancelHosted, HolderOK, StartedOK
  <2> QED BY <2>1, <2>2
<1>4. CASE CancelWaiting(c)
  <2>1. TypeOK'
    BY <1>4 DEF CancelWaiting, Idle, States, Terminal
  <2>2. \A u \in Tasks : /\ row'[u] = "none" <=> row[u] = "none"
                         /\ row[u] \in Terminal => row'[u] \in Terminal
    BY <1>4 DEF CancelWaiting, AllowedFrom, States, Active, Terminal
  <2> QED BY <1>4, <2>1, <2>2 DEF CancelWaiting, HolderOK, StartedOK
<1> QED BY <1>1, <1>2, <1>3, <1>4

(***************************************************************************)
(* The holder of the queue lock keeps the invariant.                       *)
(***************************************************************************)
LEMMA HolderKeeps ==
  ASSUME IInv, Queue \/ \E t \in Tasks : SubmitWaiting(t) \/ SubmitNow(t)
  PROVE  IInv'
<1> USE DEF IInv, rows, hosts, holder, Hold, Release
<1>1. ASSUME NEW t \in Tasks, SubmitWaiting(t) PROVE IInv'
  <2>1. TypeOK'
    <3>1. order' \in Seq(Tasks)
      BY <1>1, EnterPlace DEF TypeOK, SubmitWaiting
    <3> QED BY <1>1, <3>1 DEF TypeOK, SubmitWaiting, Steps, States, Active
  <2> QED BY <1>1, <2>1, TasksAssumption DEF TypeOK, SubmitWaiting, HolderOK, StartedOK
<1>2. ASSUME NEW t \in Tasks, SubmitNow(t) PROVE IInv'
  <2>1. TypeOK'
    BY <1>2 DEF TypeOK, SubmitNow, Steps
  <2> QED BY <1>2, <2>1, TasksAssumption DEF TypeOK, SubmitNow, HolderOK, StartedOK
<1>3. CASE RecordWaiting
  <2>1. TypeOK'
    BY <1>3 DEF TypeOK, RecordWaiting, HolderOK, Steps, States, Active
  <2> QED BY <1>3, <2>1 DEF TypeOK, RecordWaiting, HolderOK, StartedOK
<1>4. ASSUME NEW t \in Tasks, Dispatch(t) PROVE IInv'
  <2>1. TypeOK'
    BY <1>4 DEF TypeOK, Dispatch, Steps
  <2>2. t \in waits /\ row[t] \in Active /\ row[t] \notin Terminal /\ row[t] # "none"
    BY <1>4 DEF Dispatch, NextWaiting, ActiveTasks, Active, Terminal
  <2>3. starts[t] = 0
    BY <1>4, <2>2 DEF Dispatch, HolderOK, StartedOK
  <2> QED BY <1>4, <2>1, <2>2, <2>3 DEF Dispatch, HolderOK, StartedOK
<1>5. ASSUME NEW t \in Tasks, DispatchBroken(t) PROVE IInv'
  <2>1. /\ row' \in [Tasks -> States \cup {"none"}]
        /\ \A u \in Tasks : row'[u] = "none" <=> row[u] = "none"
        /\ \A u \in Tasks : row[u] \in Terminal => row'[u] = row[u]
    BY <1>5, GuardedRows, QueueEvents DEF DispatchBroken
  <2>2. TypeOK'
    BY <1>5, <2>1 DEF TypeOK, DispatchBroken
  <2> QED BY <1>5, <2>1, <2>2 DEF DispatchBroken, HolderOK, StartedOK
<1>6. CASE PrepareJob
  <2>1. task \in Tasks
    BY <1>6 DEF PrepareJob, HolderOK
  <2>2. TypeOK'
    <3>1. order' \in Seq(Tasks)
      BY <1>6, <2>1, EnterPlace DEF TypeOK, PrepareJob
    <3> QED BY <1>6, <2>1, <3>1 DEF TypeOK, PrepareJob, Steps, States, Active
  <2> QED BY <1>6, <2>1, <2>2 DEF TypeOK, PrepareJob, HolderOK, StartedOK
<1>7. CASE StartWorker
  <2>1. task \in Tasks /\ starts[task] = 0 /\ row[task] # "none" /\ task \in owned
    BY <1>7 DEF StartWorker, HolderOK
  <2>2. "RUNNING" \in States
    BY DEF States, Active
  <2>3. /\ row' \in [Tasks -> States \cup {"none"}]
        /\ \A u \in Tasks : row'[u] = "none" <=> row[u] = "none"
        /\ \A u \in Tasks : row[u] \in Terminal => row'[u] = row[u]
    BY <1>7, <2>1, <2>2, GuardedRows, QueueEvents DEF StartWorker
  <2>4. TypeOK'
    <3>1. starts' \in [Tasks -> Nat]
      BY <1>7, <2>1 DEF TypeOK, StartWorker
    <3>2. worker' \subseteq Tasks /\ asked' \subseteq worker'
      BY <1>7, <2>1 DEF TypeOK, StartWorker
    <3> QED BY <1>7, <2>3, <3>1, <3>2 DEF TypeOK, StartWorker, Steps
  <2> QED BY <1>7, <2>1, <2>3, <2>4 DEF TypeOK, StartWorker, HolderOK, StartedOK
<1>8. CASE StartFails
  <2>1. task \in Tasks /\ starts[task] = 0
    BY <1>8 DEF StartFails, HolderOK
  <2>2. /\ row' \in [Tasks -> States \cup {"none"}]
        /\ \A u \in Tasks : row'[u] = "none" <=> row[u] = "none"
        /\ \A u \in Tasks : row[u] \in Terminal => row'[u] = row[u]
    BY <1>8, <2>1, GuardedRows, QueueEvents DEF StartFails
  <2>3. TypeOK'
    BY <1>8, <2>2 DEF TypeOK, StartFails, Steps
  <2> QED BY <1>8, <2>1, <2>2, <2>3 DEF StartFails, HolderOK, StartedOK
<1>9. CASE ReadRow
  <2>1. TypeOK'
    BY <1>9 DEF TypeOK, ReadRow, HolderOK, Steps
  <2> QED BY <1>9, <2>1 DEF TypeOK, ReadRow, HolderOK, StartedOK
<1>10. CASE WriteRow
  <2>1. task \in Tasks /\ seen # "none"
    BY <1>10 DEF WriteRow, HolderOK
  <2>2. TypeOK'
    BY <1>10, <2>1 DEF TypeOK, WriteRow, Steps
  <2> QED BY <1>10, <2>1, <2>2 DEF TypeOK, WriteRow, HolderOK, StartedOK
<1> QED BY <1>1, <1>2, <1>3, <1>4, <1>5, <1>6, <1>7, <1>8, <1>9, <1>10 DEF Queue

(***************************************************************************)
(* The end of a worker and a crash of the backend keep the invariant.      *)
(***************************************************************************)
LEMMA EndsOK ==
  ASSUME IInv, Crash \/ \E t \in Tasks : WorkerEnds(t)
  PROVE  IInv'
<1> USE DEF IInv
<1>1. ASSUME NEW t \in Tasks, WorkerEnds(t) PROVE IInv'
  <2>1. /\ row' \in [Tasks -> States \cup {"none"}]
        /\ \A u \in Tasks : row'[u] = "none" <=> row[u] = "none"
        /\ \A u \in Tasks : row[u] \in Terminal => row'[u] = row[u]
    <3>1. CASE UNCHANGED row
      BY <3>1 DEF TypeOK
    <3>2. CASE ~UNCHANGED row
      <4>1. PICK ev \in {ErrorEvent, CancelledEvent, FinishedEvent("COMPLETED", FALSE)} :
              Guarded(t, ev)
        BY <1>1, <3>2 DEF WorkerEnds
      <4> QED BY <4>1, GuardedRows, QueueEvents
    <3> QED BY <3>1, <3>2
  <2>2. TypeOK'
    BY <1>1, <2>1 DEF TypeOK, WorkerEnds, holder
  <2> QED BY <1>1, <2>1, <2>2 DEF WorkerEnds, holder, HolderOK, StartedOK
<1>2. CASE Crash
  <2>1. TypeOK'
    BY <1>2 DEF TypeOK, Crash, Release, Idle, Steps, States, Terminal
  <2>2. HolderOK'
    BY <1>2 DEF Crash, Release, HolderOK
  <2>3. StartedOK'
    <3> SUFFICES ASSUME NEW t \in Tasks, starts[t] # 0
                 PROVE  /\ starts[t] = 1 /\ t \in owned
                        /\ row'[t] # "none" /\ row'[t] \in Terminal
      BY <1>2 DEF Crash, StartedOK
    <3>1. starts[t] = 1 /\ t \in owned /\ row[t] # "none"
      BY DEF StartedOK
    <3> QED BY <1>2, <3>1 DEF TypeOK, Crash, States, Active, Terminal
  <2> QED BY <2>1, <2>2, <2>3
<1> QED BY <1>1, <1>2

(***************************************************************************)
(* IInv is an inductive invariant of the queue.                            *)
(***************************************************************************)
THEOREM Invariance == Spec => []IInv
<1>1. Init => IInv
  <2> SUFFICES ASSUME Init PROVE IInv
    OBVIOUS
  <2>1. TypeOK
    BY CrashAssumption DEF Init, TypeOK, Idle, Steps
  <2> QED BY <2>1 DEF Init, IInv, HolderOK, StartedOK
<1>2. IInv /\ [Next]_vars => IInv'
  <2> SUFFICES ASSUME IInv, [Next]_vars PROVE IInv'
    OBVIOUS
  <2>1. CASE UNCHANGED vars
    BY <2>1 DEF vars, IInv, TypeOK, HolderOK, StartedOK
  <2>2. CASE Next
    BY <2>2, CancellersOK, HolderKeeps, EndsOK DEF Next
  <2> QED BY <2>1, <2>2
<1> QED BY <1>1, <1>2, PTL DEF Spec

(***************************************************************************)
(* The variables of the queue keep their types.                            *)
(***************************************************************************)
THEOREM TypeCorrect == Spec => []TypeOK
<1>1. IInv => TypeOK
  BY DEF IInv
<1> QED BY <1>1, Invariance, PTL

(***************************************************************************)
(* _start_download and _dispatch_next_waiting between them hand a download *)
(* to a worker at most once, whatever is cancelled and however often the   *)
(* backend crashes.                                                        *)
(***************************************************************************)
THEOREM Once == Spec => []StartedOnce
<1>1. IInv => StartedOnce
  <2> SUFFICES ASSUME IInv, NEW t \in Tasks PROVE starts[t] <= 1
    BY DEF StartedOnce
  <2>1. starts[t] = 0 \/ starts[t] = 1
    BY DEF IInv, StartedOK
  <2> QED BY <2>1
<1> QED BY <1>1, Invariance, PTL

-----------------------------------------------------------------------------
(* One download at a time, in the order of (created_time, task_id).        *)

(***************************************************************************)
(* Which started downloads the record may show as active.  None while the  *)
(* next one is being started; under the bookkeeping that follows only the  *)
(* one just started, so that writing its old snapshot back can reopen no   *)
(* second row; otherwise at most one.  A worker belongs to a start.        *)
(***************************************************************************)
OpenRow(t) == starts[t] # 0 /\ row[t] \in Active

AloneOK ==
  /\ \A t \in worker : starts[t] # 0
  /\ step \in {"prepare", "start"} => \A t \in Tasks : ~OpenRow(t)
  /\ step \in {"note", "record"} => \A t \in Tasks : OpenRow(t) => t = task
  /\ \A s, t \in Tasks : OpenRow(s) /\ OpenRow(t) => s = t

(***************************************************************************)
(* The order names no task twice and only tasks with a row; the download   *)
(* being started is the first of the active ones, and the only one while   *)
(* it has no row.                                                          *)
(***************************************************************************)
OrderOK ==
  /\ \A i \in 1..Len(order) : row[order[i]] # "none"
  /\ \A i, j \in 1..Len(order) : order[i] = order[j] => i = j
  /\ step \in {"prepare", "start"} =>
       \A s \in Tasks : Earlier(s, task) => row[s] \notin Active
  /\ step = "prepare" /\ row[task] = "none" =>
       \A s \in Tasks : row[s] \notin Active

QInv == IInv /\ AloneOK /\ OrderOK

(***************************************************************************)
(* A step that opens no row, starts nothing and leaves the lock holder     *)
(* where it is keeps both parts.                                           *)
(***************************************************************************)
LEMMA QuietKeeps ==
  ASSUME QInv, UNCHANGED <<starts, order, step, task>>, worker' \subseteq worker,
         \A u \in Tasks : /\ row'[u] = "none" <=> row[u] = "none"
                          /\ row'[u] \in Active => row[u] \in Active
  PROVE  AloneOK' /\ OrderOK'
<1>1. AloneOK'
  BY DEF QInv, AloneOK, OpenRow
<1>2. \A s \in Tasks : Earlier(s, task)' <=> Earlier(s, task)
  BY DEF Earlier
<1>3. \A i \in 1..Len(order) : order[i] \in Tasks
  BY DEF QInv, IInv, TypeOK
<1>4. step \in {"prepare", "start"} => task \in Tasks
  BY DEF QInv, IInv, HolderOK
<1>5. (step \in {"prepare", "start"} =>
        \A s \in Tasks : Earlier(s, task) => row[s] \notin Active)'
  BY <1>2 DEF QInv, OrderOK
<1>6. (step = "prepare" /\ row[task] = "none" =>
        \A s \in Tasks : row[s] \notin Active)'
  BY <1>4 DEF QInv, OrderOK
<1>7. (\A i \in 1..Len(order) : row[order[i]] # "none")'
  BY <1>3 DEF QInv, OrderOK
<1>8. (\A i, j \in 1..Len(order) : order[i] = order[j] => i = j)'
  BY DEF QInv, OrderOK
<1> QED BY <1>1, <1>5, <1>6, <1>7, <1>8 DEF OrderOK

(***************************************************************************)
(* A status event opens no row.                                            *)
(***************************************************************************)
LEMMA GuardedOpensNone ==
  ASSUME TypeOK, NEW t \in Tasks, NEW ev \in Events, ev.to \in States,
         ev.type \in Closing \cup {"state"}, Guarded(t, ev)
  PROVE  \A u \in Tasks : /\ row'[u] = "none" <=> row[u] = "none"
                          /\ row'[u] \in Active => row[u] \in Active
<1>1. /\ \A u \in Tasks : row'[u] = "none" <=> row[u] = "none"
      /\ \A u \in Tasks : row[u] \in Terminal => row'[u] = row[u]
  BY GuardedRows
<1>2. \A u \in Tasks : row[u] \in Active \/ row[u] \in Terminal \/ row[u] = "none"
  BY DEF TypeOK, States
<1>3. \A s \in Active : s \notin Terminal /\ s # "none"
  BY DEF Active, Terminal
<1> QED BY <1>1, <1>2, <1>3

(***************************************************************************)
(* Cancelling threads, workers that end and broken descriptors only close  *)
(* rows.                                                                   *)
(***************************************************************************)
LEMMA ClosersKeep ==
  ASSUME QInv,
         \/ \E c \in Cancellers : \/ \E t \in Tasks : CancelDownload(c, t)
                                  \/ CancelHosted(c) \/ CancelRead(c) \/ CancelWaiting(c)
         \/ \E t \in Tasks : WorkerEnds(t) \/ DispatchBroken(t)
  PROVE  AloneOK' /\ OrderOK'
<1> USE DEF rows, hosts, holder
<1>0. TypeOK
  BY DEF QInv, IInv
<1>1. ASSUME NEW c \in Cancellers, NEW t \in Tasks, CancelDownload(c, t)
      PROVE  AloneOK' /\ OrderOK'
  BY <1>1, QuietKeeps DEF CancelDownload
<1>2. ASSUME NEW c \in Cancellers, CancelRead(c) PROVE AloneOK' /\ OrderOK'
  BY <1>2, QuietKeeps DEF CancelRead
<1>3. ASSUME NEW c \in Cancellers, CancelHosted(c) PROVE AloneOK' /\ OrderOK'
  <2>1. UNCHANGED <<starts, order, step, task, worker>>
    BY <1>3 DEF CancelHosted
  <2>2. CASE cancel[c].task \in worker
    <3>1. cancel[c].task \in Tasks /\ Guarded(cancel[c].task, StateEvent("STOPPING"))
      BY <1>0, <1>3, <2>2 DEF CancelHosted, TypeOK
    <3>2. "STOPPING" \in States
      BY DEF States, Active
    <3>3. \A u \in Tasks : /\ row'[u] = "none" <=> row[u] = "none"
                           /\ row'[u] \in Active => row[u] \in Active
      BY <1>0, <3>1, <3>2, GuardedOpensNone, QueueEvents
    <3> QED BY <2>1, <3>3, QuietKeeps
  <2>3. CASE cancel[c].task \notin worker
    <3>1. row' = row
      BY <1>3, <2>3 DEF CancelHosted
    <3> QED BY <2>1, <3>1, QuietKeeps
  <2> QED BY <2>2, <2>3
<1>4. ASSUME NEW c \in Cancellers, CancelWaiting(c) PROVE AloneOK' /\ OrderOK'
  <2>1. UNCHANGED <<starts, order, step, task, worker>>
    BY <1>4 DEF CancelWaiting
  <2>2. \A u \in Tasks : /\ row'[u] = "none" <=> row[u] = "none"
                         /\ row'[u] \in Active => row[u] \in Active
    BY <1>0, <1>4 DEF TypeOK, CancelWaiting, AllowedFrom, States, Active, Terminal
  <2> QED BY <2>1, <2>2, QuietKeeps
<1>5. ASSUME NEW t \in Tasks, WorkerEnds(t) PROVE AloneOK' /\ OrderOK'
  <2>1. UNCHANGED <<starts, order, step, task>> /\ worker' \subseteq worker
    BY <1>5 DEF WorkerEnds
  <2>2. UNCHANGED row \/
        \E ev \in {ErrorEvent, CancelledEvent, FinishedEvent("COMPLETED", FALSE)} :
          Guarded(t, ev)
    BY <1>5 DEF WorkerEnds
  <2>3. \A u \in Tasks : /\ row'[u] = "none" <=> row[u] = "none"
                         /\ row'[u] \in Active => row[u] \in Active
    BY <1>0, <2>2, GuardedOpensNone, QueueEvents
  <2> QED BY <2>1, <2>3, QuietKeeps
<1>6. ASSUME NEW t \in Tasks, DispatchBroken(t) PROVE AloneOK' /\ OrderOK'
  <2>1. UNCHANGED <<starts, order, step, task, worker>>
    BY <1>6 DEF DispatchBroken
  <2>2. \A u \in Tasks : /\ row'[u] = "none" <=> row[u] = "none"
                         /\ row'[u] \in Active => row[u] \in Active
    BY <1>0, <1>6, GuardedOpensNone, QueueEvents DEF DispatchBroken
  <2> QED BY <2>1, <2>2, QuietKeeps
<1> QED BY <1>1, <1>2, <1>3, <1>4, <1>5, <1>6

(***************************************************************************)
(* The order names no task twice: of two tasks one comes first, and none   *)
(* comes before itself.                                                    *)
(***************************************************************************)
LEMMA EarlierStrict ==
  ASSUME QInv, NEW s \in Tasks, NEW t \in Tasks, Earlier(s, t)
  PROVE  s # t /\ ~Earlier(t, s)
<1>1. order \in Seq(Tasks) /\ \A i, j \in 1..Len(order) : order[i] = order[j] => i = j
  BY DEF QInv, IInv, TypeOK, OrderOK
<1>2. PICK i, j \in 1..Len(order) : i < j /\ order[i] = s /\ order[j] = t
  BY DEF Earlier
<1>3. s # t
  BY <1>1, <1>2
<1>4. ASSUME Earlier(t, s) PROVE FALSE
  <2>1. PICK k, l \in 1..Len(order) : k < l /\ order[k] = t /\ order[l] = s
    BY <1>4 DEF Earlier
  <2>2. k = j /\ l = i
    BY <1>1, <1>2, <2>1
  <2> QED BY <1>1, <1>2, <2>1, <2>2
<1> QED BY <1>3, <1>4

(***************************************************************************)
(* A first row enters its task in the order, wherever that is.             *)
(***************************************************************************)
LEMMA NewRowKeeps ==
  ASSUME QInv, NEW t \in Tasks, row[t] = "none", EnterOrder(t),
         row'[t] # "none", \A u \in Tasks : u # t => row'[u] = row[u]
  PROVE  /\ (\A i \in 1..Len(order) : row[order[i]] # "none")'
         /\ (\A i, j \in 1..Len(order) : order[i] = order[j] => i = j)'
<1>1. order \in Seq(Tasks) /\ Len(order) \in Nat
  BY DEF QInv, IInv, TypeOK
<1>2. Len(order') = Len(order) + 1
  BY <1>1, EnterPlace
<1>3. PICK k \in 1..(Len(order) + 1) :
        \A j \in 1..(Len(order) + 1) :
          order'[j] = IF j < k THEN order[j] ELSE IF j = k THEN t ELSE order[j - 1]
  BY <1>1, EnterPlace
<1>4. \A i \in 1..Len(order) : order[i] \in Tasks /\ row[order[i]] # "none" /\ order[i] # t
  BY <1>1 DEF QInv, OrderOK
<1> DEFINE old(j) == IF j < k THEN j ELSE j - 1
<1>0. \A j \in 1..(Len(order) + 1) : j # k =>
        old(j) \in 1..Len(order) /\ order'[j] = order[old(j)]
  BY <1>1, <1>3
<1>5. ASSUME NEW i \in 1..Len(order') PROVE row'[order'[i]] # "none"
  <2>1. CASE i = k
    BY <1>2, <1>3, <2>1
  <2>2. CASE i # k
    BY <1>0, <1>2, <1>4, <2>2
  <2> QED BY <2>1, <2>2
<1>6. ASSUME NEW i \in 1..Len(order'), NEW j \in 1..Len(order'), order'[i] = order'[j]
      PROVE  i = j
  <2>1. \A m, l \in 1..Len(order) : order[m] = order[l] => m = l
    BY DEF QInv, OrderOK
  <2>2. order'[k] = t
    BY <1>1, <1>3
  <2>3. CASE i = k \/ j = k
    BY <1>0, <1>2, <1>4, <1>6, <2>2, <2>3
  <2>4. CASE i # k /\ j # k
    <3>1. old(i) = old(j)
      BY <1>0, <1>2, <1>6, <2>1, <2>4
    <3> QED BY <1>1, <1>2, <2>4, <3>1
  <2> QED BY <2>3, <2>4
<1> QED BY <1>5, <1>6

(***************************************************************************)
(* Submitting and dispatching: the guards of _start_download and of        *)
(* _dispatch_next_waiting establish what the start relies on.              *)
(***************************************************************************)
LEMMA SubmitKeeps ==
  ASSUME QInv, NEW t \in Tasks, SubmitWaiting(t) \/ SubmitNow(t) \/ Dispatch(t)
  PROVE  AloneOK' /\ OrderOK'
<1> USE DEF rows, hosts, Hold
<1>1. /\ TypeOK /\ step = "none"
      /\ row[t] = "none" => starts[t] = 0
  BY DEF QInv, IInv, HolderOK, StartedOK, SubmitWaiting, SubmitNow, Dispatch
<1>2. CASE SubmitWaiting(t)
  <2>1. /\ row[t] = "none" /\ EnterOrder(t) /\ step' = "stored"
        /\ UNCHANGED <<starts, worker>>
        /\ row'[t] # "none" /\ \A u \in Tasks : u # t => row'[u] = row[u]
    BY <1>1, <1>2 DEF SubmitWaiting, TypeOK
  <2>2. AloneOK'
    BY <1>1, <2>1 DEF QInv, AloneOK, OpenRow
  <2>3. OrderOK'
    BY <2>1, NewRowKeeps DEF OrderOK
  <2> QED BY <2>2, <2>3
<1>3. CASE SubmitNow(t)
  <2>1. /\ step' = "prepare" /\ task' = t
        /\ UNCHANGED <<row, order, starts, worker>>
        /\ \A u \in Tasks : row[u] \notin Active
    BY <1>3 DEF SubmitNow, ActiveTasks
  <2>2. AloneOK'
    BY <2>1 DEF QInv, AloneOK, OpenRow
  <2>3. OrderOK'
    BY <2>1 DEF QInv, OrderOK
  <2> QED BY <2>2, <2>3
<1>4. CASE Dispatch(t)
  <2>1. /\ step' = "prepare" /\ task' = t
        /\ UNCHANGED <<row, order, starts, worker>>
        /\ \A u \in Tasks : row[u] \in Active => u \in waits /\ (u = t \/ Earlier(t, u))
        /\ row[t] \in Active
    BY <1>4 DEF Dispatch, NextWaiting, ActiveTasks
  <2>2. \A u \in Tasks : ~OpenRow(u)
    BY <1>1, <2>1 DEF QInv, IInv, StartedOK, OpenRow, Active, Terminal
  <2>3. \A u \in Tasks : Earlier(u, t) => row[u] \notin Active
    BY <2>1, EarlierStrict
  <2>4. AloneOK'
    BY <2>1, <2>2 DEF QInv, AloneOK, OpenRow
  <2>5. OrderOK'
    <3>1. \A u \in Tasks : Earlier(u, task)' <=> Earlier(u, t)
      BY <2>1 DEF Earlier
    <3>2. row[t] # "none"
      BY <2>1 DEF Active
    <3> QED BY <2>1, <2>3, <3>1, <3>2 DEF QInv, OrderOK
  <2> QED BY <2>4, <2>5
<1> QED BY <1>2, <1>3, <1>4

(***************************************************************************)
(* The holder of the lock keeps both parts: its writes without a guard hit *)
(* only the row of its own task, and no other row is open by then.         *)
(***************************************************************************)
LEMMA WritesKeep ==
  ASSUME QInv, RecordWaiting \/ PrepareJob \/ StartWorker \/ StartFails \/ ReadRow \/ WriteRow
  PROVE  AloneOK' /\ OrderOK'
<1> USE DEF rows, hosts, Release
<1>1. TypeOK /\ task \in Tasks
  BY DEF QInv, IInv, HolderOK, RecordWaiting, PrepareJob, StartWorker, StartFails,
         ReadRow, WriteRow
<1>2. \A i \in 1..Len(order) : order[i] \in Tasks /\ row[order[i]] # "none"
  BY <1>1 DEF TypeOK, QInv, OrderOK
<1>3. CASE RecordWaiting
  <2>1. /\ step' = "none" /\ starts[task] = 0
        /\ UNCHANGED <<starts, worker, order>>
        /\ row'[task] = "PENDING" /\ \A u \in Tasks : u # task => row'[u] = row[u]
    BY <1>1, <1>3 DEF TypeOK, RecordWaiting, QInv, IInv, HolderOK
  <2>2. AloneOK'
    BY <2>1 DEF QInv, AloneOK, OpenRow
  <2>3. OrderOK'
    BY <1>2, <2>1 DEF QInv, OrderOK
  <2> QED BY <2>2, <2>3
<1>4. CASE PrepareJob
  <2>1. /\ step = "prepare" /\ step' = "start" /\ starts[task] = 0
        /\ UNCHANGED <<starts, worker, task>>
        /\ row'[task] = "PENDING" /\ \A u \in Tasks : u # task => row'[u] = row[u]
    BY <1>1, <1>4 DEF TypeOK, PrepareJob, QInv, IInv, HolderOK
  <2>2. AloneOK'
    BY <2>1 DEF QInv, AloneOK, OpenRow
  <2>3. CASE row[task] # "none"
    <3>1. order' = order
      BY <1>4, <2>3 DEF PrepareJob
    <3>2. \A s \in Tasks : Earlier(s, task)' => s # task /\ row[s] \notin Active
      <4>1. \A s \in Tasks : Earlier(s, task)' <=> Earlier(s, task)
        BY <2>1, <3>1 DEF Earlier
      <4> QED BY <1>1, <2>1, <4>1, EarlierStrict DEF QInv, OrderOK
    <3> QED BY <1>2, <2>1, <2>2, <3>1, <3>2 DEF QInv, OrderOK
  <2>4. CASE row[task] = "none"
    <3>1. EnterOrder(task)
      BY <1>4, <2>4 DEF PrepareJob
    <3>2. /\ (\A i \in 1..Len(order) : row[order[i]] # "none")'
          /\ (\A i, j \in 1..Len(order) : order[i] = order[j] => i = j)'
      BY <1>1, <2>1, <2>4, <3>1, NewRowKeeps
    <3>3. \A s \in Tasks : row[s] \notin Active
      BY <2>1, <2>4 DEF QInv, OrderOK
    <3>4. \A s \in Tasks : Earlier(s, task)' => s # task
      <4> SUFFICES ASSUME NEW i \in 1..Len(order'), NEW j \in 1..Len(order'), i < j,
                          order'[i] = task, order'[j] = task
                   PROVE  FALSE
        BY <2>1 DEF Earlier
      <4>1. i = j
        BY <3>2
      <4>2. i \in Nat
        OBVIOUS
      <4> QED BY <4>1, <4>2
    <3> QED BY <2>1, <2>2, <3>2, <3>3, <3>4 DEF OrderOK
  <2> QED BY <2>3, <2>4
<1>5. CASE StartWorker
  <2>1. /\ step = "start" /\ step' = "note"
        /\ UNCHANGED <<order, task>> /\ worker' = worker \cup {task}
        /\ starts[task] = 0 /\ starts'[task] = 1
        /\ \A u \in Tasks : u # task => starts'[u] = starts[u]
    BY <1>1, <1>5 DEF TypeOK, StartWorker, QInv, IInv, HolderOK
  <2>2. "RUNNING" \in States
    BY DEF States, Active
  <2>3. \A u \in Tasks : /\ row'[u] = "none" <=> row[u] = "none"
                         /\ row'[u] \in Active => row[u] \in Active
    BY <1>1, <1>5, <2>2, GuardedOpensNone, QueueEvents DEF StartWorker
  <2>4. \A u \in Tasks : OpenRow(u)' => u = task
    BY <2>1, <2>3 DEF QInv, AloneOK, OpenRow
  <2>5. \A t \in worker' : starts'[t] # 0
    BY <1>1, <2>1 DEF QInv, AloneOK, TypeOK
  <2>6. AloneOK'
    BY <2>1, <2>4, <2>5 DEF AloneOK
  <2>7. OrderOK'
    BY <1>2, <2>1, <2>3 DEF QInv, OrderOK
  <2> QED BY <2>6, <2>7
<1>6. CASE StartFails
  <2>1. /\ step \in {"prepare", "start"} /\ step' \in {"none", "note"}
        /\ UNCHANGED <<order, starts, worker>>
    BY <1>6 DEF StartFails
  <2>2. \A u \in Tasks : /\ row'[u] = "none" <=> row[u] = "none"
                         /\ row'[u] \in Active => row[u] \in Active
    BY <1>1, <1>6, GuardedOpensNone, QueueEvents DEF StartFails
  <2>3. \A u \in Tasks : ~OpenRow(u)'
    BY <2>1, <2>2 DEF QInv, AloneOK, OpenRow
  <2>4. AloneOK'
    BY <2>1, <2>3 DEF QInv, AloneOK
  <2>5. OrderOK'
    BY <1>2, <2>1, <2>2 DEF QInv, OrderOK
  <2> QED BY <2>4, <2>5
<1>7. CASE ReadRow
  <2>1. /\ step = "note" /\ step' = "record"
        /\ UNCHANGED <<row, order, starts, worker, task>>
    BY <1>7 DEF ReadRow
  <2> QED BY <2>1 DEF QInv, AloneOK, OpenRow, OrderOK
<1>8. CASE WriteRow
  <2>1. /\ step = "record" /\ step' = "none" /\ seen # "none"
        /\ UNCHANGED <<order, starts, worker>>
        /\ row'[task] = seen /\ \A u \in Tasks : u # task => row'[u] = row[u]
    BY <1>1, <1>8 DEF TypeOK, WriteRow, QInv, IInv, HolderOK
  <2>2. AloneOK'
    BY <2>1 DEF QInv, AloneOK, OpenRow
  <2>3. OrderOK'
    BY <1>2, <2>1 DEF QInv, OrderOK
  <2> QED BY <2>2, <2>3
<1> QED BY <1>3, <1>4, <1>5, <1>6, <1>7, <1>8

(***************************************************************************)
(* QInv is an inductive invariant of the queue.                            *)
(***************************************************************************)
THEOREM QueueInvariance == Spec => []QInv
<1>1. Init => QInv
  <2> SUFFICES ASSUME Init PROVE QInv
    OBVIOUS
  <2>1. IInv
    <3>1. TypeOK
      BY CrashAssumption DEF Init, TypeOK, Idle, Steps
    <3> QED BY <3>1 DEF Init, IInv, HolderOK, StartedOK
  <2>2. AloneOK
    BY DEF Init, AloneOK, OpenRow
  <2>3. OrderOK
    BY DEF Init, OrderOK
  <2> QED BY <2>1, <2>2, <2>3 DEF QInv
<1>2. QInv /\ IInv' /\ [Next]_vars => QInv'
  <2> SUFFICES ASSUME QInv, IInv', [Next]_vars PROVE AloneOK' /\ OrderOK'
    BY DEF QInv
  <2>1. CASE UNCHANGED vars
    BY <2>1, QuietKeeps DEF vars
  <2>2. CASE Crash
    <3>1. /\ step' = "none" /\ worker' = {} /\ UNCHANGED <<order, starts>>
      BY <2>2 DEF Crash, Release
    <3>2. \A u \in Tasks : /\ row'[u] = "none" <=> row[u] = "none"
                           /\ row'[u] \in Active => row[u] \in Active
      BY <2>2 DEF Crash, Active
    <3>3. AloneOK'
      BY <3>1, <3>2 DEF QInv, AloneOK, OpenRow
    <3>4. \A i \in 1..Len(order) : order[i] \in Tasks
      BY DEF QInv, IInv, TypeOK
    <3>5. OrderOK'
      BY <3>1, <3>2, <3>4 DEF QInv, OrderOK
    <3> QED BY <3>3, <3>5
  <2>3. CASE Next /\ ~Crash
    BY <2>3, ClosersKeep, SubmitKeeps, WritesKeep DEF Next, Queue
  <2> QED BY <2>1, <2>2, <2>3
<1> QED BY <1>1, <1>2, Invariance, PTL DEF Spec

(***************************************************************************)
(* Of the downloads the record shows as active at most one has a worker,   *)
(* although cancel_download works without _queue_lock and                  *)
(* _record_task_metadata writes an old snapshot back without a guard.      *)
(***************************************************************************)
THEOREM Alone == Spec => []OneOpenDownload
<1>1. QInv => OneOpenDownload
  <2> SUFFICES ASSUME QInv PROVE OneOpenDownload
    OBVIOUS
  <2> DEFINE open == {t \in worker : row[t] \in Active}
  <2>1. \A s, t \in open : s = t
    BY DEF QInv, IInv, TypeOK, AloneOK, OpenRow
  <2>2. CASE open = {}
    BY <2>2, FS_EmptySet DEF OneOpenDownload
  <2>3. CASE open # {}
    <3>1. PICK t : open = {t}
      BY <2>1, <2>3
    <3>2. Cardinality({t}) = 1
      BY FS_Singleton
    <3> QED BY <3>1, <3>2 DEF OneOpenDownload
  <2> QED BY <2>2, <2>3
<1> QED BY <1>1, QueueInvariance, PTL

(***************************************************************************)
(* Downloads start in the order of (created_time, task_id), the key        *)
(* _dispatch_next_waiting sorts by: when start_job brings up a worker, no  *)
(* download that sorts before its own is active, wherever new ones have    *)
(* come to stand and whatever was cancelled or written back meanwhile.     *)
(***************************************************************************)
THEOREM Ordered == Spec => InOrder
<1> DEFINE A == \A s, t \in Tasks :
                 starts'[t] > starts[t] /\ Earlier(s, t) => row[s] \notin Active
<1>1. QInv /\ [Next]_vars => [A]_vars
  <2> SUFFICES ASSUME QInv, Next, NEW s \in Tasks, NEW t \in Tasks,
                      starts'[t] > starts[t], Earlier(s, t)
               PROVE  row[s] \notin Active
    BY DEF vars
  <2>1. starts[t] \in Nat
    BY DEF QInv, IInv, TypeOK
  <2>2. StartWorker
    <3> SUFFICES ASSUME ~StartWorker PROVE starts' = starts
      BY <2>1
    <3> QED BY DEF Next, Queue, SubmitWaiting, SubmitNow, WorkerEnds, RecordWaiting, Dispatch,
         DispatchBroken, PrepareJob, StartFails, ReadRow, WriteRow, CancelDownload,
         CancelHosted, CancelRead, CancelWaiting, Crash, hosts
  <2>3. t = task
    BY <2>1, <2>2 DEF StartWorker, QInv, IInv, TypeOK
  <2> QED BY <2>2, <2>3 DEF StartWorker, QInv, OrderOK
<1> QED BY <1>1, QueueInvariance, PTL DEF Spec, InOrder
=============================================================================
