--------------------------- MODULE TaskHostProofs ---------------------------
(***************************************************************************)
(* Theorems about TaskHost, for every number of frames, kind of damage,    *)
(* outcome of the binding and combination of callers: the inductive        *)
(* invariant IInv and what follows from it.                                *)
(***************************************************************************)
EXTENDS TaskHost, TLAPS

\* The constants of the model, as TypeOK uses them.
USE DEF Streams, Finished, Reports, Frames, Pressers

\* The initial state of the host satisfies the invariant.
LEMMA InitOK == Init => IInv
<1> SUFFICES ASSUME Init PROVE IInv
  OBVIOUS
<1> USE DEF Init
<1>1. TypeOK
  <2>1. RuntimeTypes
    BY DEF RuntimeTypes
  <2>2. WorkerTypes
    <3>1. <<>> \in Seq(Frames) /\ Len(<<>>) = 0
      OBVIOUS
    <3>2. written \in [Streams -> Seq(Frames)]
      BY <3>1
    <3>3. \A s \in Streams : got[s] <= Len(written[s])
      BY <3>1
    <3> QED BY <3>2, <3>3 DEF WorkerTypes
  <2>3. ThreadTypes
    BY DEF ThreadTypes
  <2>4. AdapterTypes
    BY DEF AdapterTypes
  <2> QED BY <2>1, <2>2, <2>3, <2>4 DEF TypeOK
<1>2. CompletionOnce /\ ShutdownCovers /\ DoneMeansGone /\ HandedBack
  BY DEF CompletionOnce, ShutdownCovers, DoneMeansGone, HandedBack, Stoppable
<1>3. StarterOK /\ RecordOK
  BY DEF StarterOK, RecordOK, Starting
<1>4. FinalizerOK /\ KilledOK
  BY DEF FinalizerOK, KilledOK
<1> QED BY <1>1, <1>2, <1>3, <1>4 DEF IInv

\* Every step of starting a job preserves the invariant.
LEMMA StartOK == ASSUME IInv, Start PROVE IInv'
<1> USE FramesAssumption, BindsAssumption
<1> USE DEF IInv, TypeOK, RuntimeTypes, WorkerTypes, ThreadTypes, AdapterTypes,
            CompletionOnce, ShutdownCovers, DoneMeansGone, HandedBack, StarterOK,
            RecordOK, FinalizerOK, KilledOK, Stoppable, Starting,
            runtime, worker, threads, adapter
<1>1. CASE Prepare
  <2>1. TypeOK'
    BY <1>1 DEF Prepare, ServiceFree
  <2>2. (CompletionOnce /\ RecordOK /\ FinalizerOK /\ ShutdownCovers /\ HandedBack)'
    BY <1>1 DEF Prepare, ServiceFree
  <2>3. (DoneMeansGone /\ KilledOK /\ StarterOK)'
    BY <1>1 DEF Prepare, ServiceFree
  <2> QED BY <2>1, <2>2, <2>3
<1>2. CASE StartFails
  <2>1. TypeOK'
    BY <1>2 DEF StartFails, FailStart, CloseRecord, ServiceFree
  <2>2. (CompletionOnce /\ RecordOK /\ FinalizerOK /\ ShutdownCovers /\ HandedBack)'
    BY <1>2 DEF StartFails, FailStart, CloseRecord, ServiceFree
  <2>3. (DoneMeansGone /\ KilledOK /\ StarterOK)'
    BY <1>2 DEF StartFails, FailStart, CloseRecord, ServiceFree
  <2> QED BY <2>1, <2>2, <2>3
<1>3. CASE StartProcess
  <2>1. TypeOK'
    BY <1>3 DEF StartProcess
  <2>2. (CompletionOnce /\ RecordOK /\ FinalizerOK /\ ShutdownCovers /\ HandedBack)'
    BY <1>3 DEF StartProcess
  <2>3. (DoneMeansGone /\ KilledOK /\ StarterOK)'
    BY <1>3 DEF StartProcess
  <2> QED BY <2>1, <2>2, <2>3
<1>4. CASE MarkRunning
  <2>1. TypeOK'
    BY <1>4 DEF MarkRunning, ServiceFree
  <2>2. (CompletionOnce /\ RecordOK /\ FinalizerOK /\ ShutdownCovers /\ HandedBack)'
    BY <1>4 DEF MarkRunning, ServiceFree
  <2>3. (DoneMeansGone /\ KilledOK /\ StarterOK)'
    BY <1>4 DEF MarkRunning, ServiceFree
  <2> QED BY <2>1, <2>2, <2>3
<1>5. CASE Register
  <2>1. RuntimeTypes'
    BY <1>5 DEF Register
  <2>2. WorkerTypes'
    BY <1>5 DEF Register
  <2>3. ThreadTypes'
    BY <1>5 DEF Register
  <2>4. AdapterTypes'
    BY <1>5 DEF Register
  <2>5. (CompletionOnce /\ RecordOK /\ FinalizerOK /\ ShutdownCovers /\ HandedBack)'
    BY <1>5 DEF Register
  <2>6. (DoneMeansGone /\ KilledOK /\ StarterOK)'
    BY <1>5 DEF Register
  <2> QED BY <2>1, <2>2, <2>3, <2>4, <2>5, <2>6
<1>6. CASE Reject
  <2>1. RuntimeTypes'
    <3>1. cancelReq' \in BOOLEAN /\ rstate' \in {"STARTING", "RUNNING", "STOPPING", "PENDING"}
      BY <1>6 DEF Reject, RequestCancel
    <3>2. record' \in {"none", "open", "closed"} /\ verdict' \in Finished \cup {"none"} /\ closes' \in Nat
      BY <1>6 DEF Reject, FailStart, CloseRecord
    <3> QED BY <1>6, <3>1, <3>2 DEF Reject
  <2>2. WorkerTypes'
    BY <1>6 DEF Reject, FailStart, CloseRecord, RequestCancel, ServiceFree
  <2>3. ThreadTypes'
    BY <1>6 DEF Reject, FailStart, CloseRecord, RequestCancel, ServiceFree
  <2>4. AdapterTypes'
    BY <1>6 DEF Reject, FailStart, CloseRecord, RequestCancel, ServiceFree
  <2>5. (CompletionOnce /\ RecordOK /\ FinalizerOK /\ ShutdownCovers /\ HandedBack)'
    BY <1>6 DEF Reject, FailStart, CloseRecord, RequestCancel, ServiceFree
  <2>6. (DoneMeansGone /\ KilledOK /\ StarterOK)'
    BY <1>6 DEF Reject, FailStart, CloseRecord, RequestCancel, ServiceFree
  <2> QED BY <2>1, <2>2, <2>3, <2>4, <2>5, <2>6
<1> QED BY <1>1, <1>2, <1>3, <1>4, <1>5, <1>6 DEF Start

\* Every step of the waiter preserves the invariant.
LEMMA WaiterOK == ASSUME IInv, Waiter PROVE IInv'
<1> USE FramesAssumption, BindsAssumption
<1> USE DEF IInv, TypeOK, RuntimeTypes, WorkerTypes, ThreadTypes, AdapterTypes,
            CompletionOnce, ShutdownCovers, DoneMeansGone, HandedBack, StarterOK,
            RecordOK, FinalizerOK, KilledOK, Stoppable, Starting,
            runtime, worker, threads, adapter
<1>1. CASE WaitExit
  <2>1. TypeOK'
    BY <1>1 DEF WaitExit, CloseTree, TreeDies
  <2>2. (CompletionOnce /\ RecordOK /\ FinalizerOK /\ ShutdownCovers /\ HandedBack)'
    BY <1>1 DEF WaitExit, CloseTree, TreeDies
  <2>3. (DoneMeansGone /\ KilledOK /\ StarterOK)'
    BY <1>1 DEF WaitExit, CloseTree, TreeDies
  <2> QED BY <2>1, <2>2, <2>3
<1>2. CASE JoinAndClaim
  <2>1. TypeOK'
    BY <1>2 DEF JoinAndClaim
  <2>2. (CompletionOnce /\ RecordOK /\ FinalizerOK /\ ShutdownCovers /\ HandedBack)'
    BY <1>2 DEF JoinAndClaim
  <2>3. (DoneMeansGone /\ KilledOK /\ StarterOK)'
    BY <1>2 DEF JoinAndClaim
  <2> QED BY <2>1, <2>2, <2>3
<1>3. CASE CompleteDecide
  <2>1. TypeOK'
    BY <1>3 DEF CompleteDecide, Decide
  <2>2. (CompletionOnce /\ RecordOK /\ FinalizerOK /\ ShutdownCovers /\ HandedBack)'
    BY <1>3 DEF CompleteDecide, Decide
  <2>3. (DoneMeansGone /\ KilledOK /\ StarterOK)'
    BY <1>3 DEF CompleteDecide, Decide
  <2> QED BY <2>1, <2>2, <2>3
<1>4. CASE CompleteFinish
  <2>1. TypeOK'
    BY <1>4 DEF CompleteFinish, CloseRecord
  <2>2. (CompletionOnce /\ RecordOK /\ FinalizerOK /\ ShutdownCovers /\ HandedBack)'
    BY <1>4 DEF CompleteFinish, CloseRecord
  <2>3. (DoneMeansGone /\ KilledOK /\ StarterOK)'
    BY <1>4 DEF CompleteFinish, CloseRecord
  <2> QED BY <2>1, <2>2, <2>3
<1>5. CASE WaiterNotify
  <2>1. TypeOK'
    BY <1>5 DEF WaiterNotify
  <2>2. (CompletionOnce /\ RecordOK /\ FinalizerOK /\ ShutdownCovers /\ HandedBack)'
    BY <1>5 DEF WaiterNotify
  <2>3. (DoneMeansGone /\ KilledOK /\ StarterOK)'
    BY <1>5 DEF WaiterNotify
  <2> QED BY <2>1, <2>2, <2>3
<1>6. CASE WaiterRemove
  <2>1. RuntimeTypes'
    BY <1>6 DEF WaiterRemove, RemoveState, CloseTree, TreeDies
  <2>2. WorkerTypes'
    BY <1>6 DEF WaiterRemove, RemoveState, CloseTree, TreeDies
  <2>3. ThreadTypes'
    BY <1>6 DEF WaiterRemove, RemoveState, CloseTree, TreeDies
  <2>4. AdapterTypes'
    BY <1>6 DEF WaiterRemove, RemoveState, CloseTree, TreeDies
  <2>5. (CompletionOnce /\ RecordOK /\ FinalizerOK /\ ShutdownCovers /\ HandedBack)'
    BY <1>6 DEF WaiterRemove, RemoveState, CloseTree, TreeDies
  <2>6. (DoneMeansGone /\ KilledOK /\ StarterOK)'
    BY <1>6 DEF WaiterRemove, RemoveState, CloseTree, TreeDies
  <2> QED BY <2>1, <2>2, <2>3, <2>4, <2>5, <2>6
<1> QED BY <1>1, <1>2, <1>3, <1>4, <1>5, <1>6 DEF Waiter

\* Every step of shutdown preserves the invariant.
LEMMA ShutdownOK == ASSUME IInv, Shutdown PROVE IInv'
<1> USE FramesAssumption, BindsAssumption
<1> USE DEF IInv, TypeOK, RuntimeTypes, WorkerTypes, ThreadTypes, AdapterTypes,
            CompletionOnce, ShutdownCovers, DoneMeansGone, HandedBack, StarterOK,
            RecordOK, FinalizerOK, KilledOK, Stoppable, Starting,
            runtime, worker, threads, adapter
<1>1. CASE BeginShutdown
  <2>1. TypeOK'
    BY <1>1 DEF BeginShutdown, Move
  <2>2. (CompletionOnce /\ RecordOK /\ FinalizerOK /\ ShutdownCovers /\ HandedBack)'
    BY <1>1 DEF BeginShutdown, Move
  <2>3. (DoneMeansGone /\ KilledOK /\ StarterOK)'
    BY <1>1 DEF BeginShutdown, Move
  <2> QED BY <2>1, <2>2, <2>3
<1>2. CASE ShutdownRequest
  <2>1. RuntimeTypes'
    <3>1. cancelReq' \in BOOLEAN
      BY <1>2 DEF ShutdownRequest, RequestCancel
    <3>2. rstate' \in {"PENDING", "STARTING", "RUNNING", "STOPPING"}
      BY <1>2 DEF ShutdownRequest, RequestCancel
    <3> QED BY <1>2, <3>1, <3>2 DEF ShutdownRequest
  <2>2. WorkerTypes'
    BY <1>2 DEF ShutdownRequest, RequestCancel, Move
  <2>3. ThreadTypes'
    BY <1>2 DEF ShutdownRequest, RequestCancel, Move
  <2>4. AdapterTypes'
    BY <1>2 DEF ShutdownRequest, RequestCancel, Move
  <2>5. (CompletionOnce /\ RecordOK /\ FinalizerOK /\ ShutdownCovers /\ HandedBack)'
    BY <1>2 DEF ShutdownRequest, RequestCancel, Move
  <2>6. (DoneMeansGone /\ KilledOK /\ StarterOK)'
    BY <1>2 DEF ShutdownRequest, RequestCancel, Move
  <2> QED BY <2>1, <2>2, <2>3, <2>4, <2>5, <2>6
<1>3. CASE ShutdownSnapshot
  <2>1. TypeOK'
    BY <1>3 DEF ShutdownSnapshot, Move
  <2>2. (CompletionOnce /\ RecordOK /\ FinalizerOK /\ ShutdownCovers /\ HandedBack)'
    BY <1>3 DEF ShutdownSnapshot, Move
  <2>3. (DoneMeansGone /\ KilledOK /\ StarterOK)'
    BY <1>3 DEF ShutdownSnapshot, Move
  <2> QED BY <2>1, <2>2, <2>3
<1> QED BY <1>1, <1>2, <1>3 DEF Shutdown

\* Every step of a thread that ends the worker preserves the invariant.
LEMMA PresserOK == ASSUME IInv, NEW th \in Pressers, Presser(th) PROVE IInv'
<1> USE FramesAssumption, BindsAssumption
<1> USE DEF IInv, TypeOK, RuntimeTypes, WorkerTypes, ThreadTypes, AdapterTypes,
            CompletionOnce, ShutdownCovers, DoneMeansGone, HandedBack, StarterOK,
            RecordOK, FinalizerOK, KilledOK, Stoppable, Starting,
            runtime, worker, threads, adapter
<1>1. CASE PressRequest(th)
  <2>1. RuntimeTypes'
    <3>1. cancelReq' \in BOOLEAN
      BY <1>1 DEF PressRequest, RequestCancel
    <3>2. rstate' \in {"PENDING", "STARTING", "RUNNING", "STOPPING"}
      BY <1>1 DEF PressRequest, RequestCancel
    <3> QED BY <1>1, <3>1, <3>2 DEF PressRequest
  <2>2. WorkerTypes'
    BY <1>1 DEF PressRequest, RequestCancel, Move, ServiceFree
  <2>3. ThreadTypes'
    BY <1>1 DEF PressRequest, RequestCancel, Move, ServiceFree
  <2>4. AdapterTypes'
    BY <1>1 DEF PressRequest, RequestCancel, Move, ServiceFree
  <2>5. (CompletionOnce /\ RecordOK /\ FinalizerOK /\ ShutdownCovers /\ HandedBack)'
    BY <1>1 DEF PressRequest, RequestCancel, Move, ServiceFree
  <2>6. (DoneMeansGone /\ KilledOK /\ StarterOK)'
    BY <1>1 DEF PressRequest, RequestCancel, Move, ServiceFree
  <2> QED BY <2>1, <2>2, <2>3, <2>4, <2>5, <2>6
<1>2. CASE PressLeave(th)
  <2>1. TypeOK'
    BY <1>2 DEF PressLeave, Move
  <2>2. (CompletionOnce /\ RecordOK /\ FinalizerOK /\ ShutdownCovers /\ HandedBack)'
    BY <1>2 DEF PressLeave, Move
  <2>3. (DoneMeansGone /\ KilledOK /\ StarterOK)'
    BY <1>2 DEF PressLeave, Move
  <2> QED BY <2>1, <2>2, <2>3
<1>3. CASE PressTerminate(th)
  <2>1. TypeOK'
    BY <1>3 DEF PressTerminate, Terminate, Move
  <2>2. (CompletionOnce /\ RecordOK /\ FinalizerOK /\ ShutdownCovers /\ HandedBack)'
    BY <1>3 DEF PressTerminate, Terminate, Move
  <2>3. (DoneMeansGone /\ KilledOK /\ StarterOK)'
    BY <1>3 DEF PressTerminate, Terminate, Move
  <2> QED BY <2>1, <2>2, <2>3
<1>4. CASE PressKill(th)
  <2>1. TypeOK'
    BY <1>4 DEF PressKill, Kill, TreeDies, Move
  <2>2. (CompletionOnce /\ RecordOK /\ FinalizerOK /\ ShutdownCovers /\ HandedBack)'
    BY <1>4 DEF PressKill, Kill, TreeDies, Move
  <2>3. (DoneMeansGone /\ KilledOK /\ StarterOK)'
    BY <1>4 DEF PressKill, Kill, TreeDies, Move
  <2> QED BY <2>1, <2>2, <2>3
<1>5. CASE PressClaim(th)
  <2>1. TypeOK'
    BY <1>5 DEF PressClaim, Move
  <2>2. (CompletionOnce /\ RecordOK /\ FinalizerOK /\ ShutdownCovers /\ HandedBack)'
    BY <1>5 DEF PressClaim, Move
  <2>3. (DoneMeansGone /\ KilledOK /\ StarterOK)'
    BY <1>5 DEF PressClaim, Move
  <2> QED BY <2>1, <2>2, <2>3
<1>6. CASE Abandon(th)
  <2>1. RuntimeTypes'
    <3>1. cancelReq' \in BOOLEAN
      BY <1>6 DEF Abandon
    <3>2. record' \in {"none", "open", "closed"} /\ verdict' \in Finished \cup {"none"} /\ closes' \in Nat
      BY <1>6 DEF Abandon, CloseRecord
    <3> QED BY <1>6, <3>1, <3>2 DEF Abandon
  <2>2. WorkerTypes'
    BY <1>6 DEF Abandon, CloseRecord, Move, ServiceFree
  <2>3. ThreadTypes'
    BY <1>6 DEF Abandon, CloseRecord, Move, ServiceFree
  <2>4. AdapterTypes'
    BY <1>6 DEF Abandon, CloseRecord, Move, ServiceFree
  <2>5. (CompletionOnce /\ RecordOK /\ FinalizerOK /\ ShutdownCovers /\ HandedBack)'
    BY <1>6 DEF Abandon, CloseRecord, Move, ServiceFree
  <2>6. (DoneMeansGone /\ KilledOK /\ StarterOK)'
    BY <1>6 DEF Abandon, CloseRecord, Move, ServiceFree
  <2> QED BY <2>1, <2>2, <2>3, <2>4, <2>5, <2>6
<1>7. CASE PressNotify(th)
  <2>1. TypeOK'
    BY <1>7 DEF PressNotify, Move
  <2>2. (CompletionOnce /\ RecordOK /\ FinalizerOK /\ ShutdownCovers /\ HandedBack)'
    BY <1>7 DEF PressNotify, Move
  <2>3. (DoneMeansGone /\ KilledOK /\ StarterOK)'
    BY <1>7 DEF PressNotify, Move
  <2> QED BY <2>1, <2>2, <2>3
<1>8. CASE PressRemove(th)
  <2>1. RuntimeTypes'
    BY <1>8 DEF PressRemove, RemoveState, CloseTree, TreeDies, Move
  <2>2. WorkerTypes'
    BY <1>8 DEF PressRemove, RemoveState, CloseTree, TreeDies, Move
  <2>3. ThreadTypes'
    BY <1>8 DEF PressRemove, RemoveState, CloseTree, TreeDies, Move
  <2>4. AdapterTypes'
    BY <1>8 DEF PressRemove, RemoveState, CloseTree, TreeDies, Move
  <2>5. (CompletionOnce /\ RecordOK /\ FinalizerOK /\ ShutdownCovers /\ HandedBack)'
    BY <1>8 DEF PressRemove, RemoveState, CloseTree, TreeDies, Move
  <2>6. (DoneMeansGone /\ KilledOK /\ StarterOK)'
    BY <1>8 DEF PressRemove, RemoveState, CloseTree, TreeDies, Move
  <2> QED BY <2>1, <2>2, <2>3, <2>4, <2>5, <2>6
<1> QED BY <1>1, <1>2, <1>3, <1>4, <1>5, <1>6, <1>7, <1>8 DEF Presser

\* Every step of a pipe reader preserves the invariant.
LEMMA ReaderOK == ASSUME IInv, NEW s \in Streams, Reader(s) PROVE IInv'
<1> USE FramesAssumption, BindsAssumption
<1> USE DEF IInv, TypeOK, RuntimeTypes, WorkerTypes, ThreadTypes, AdapterTypes,
            CompletionOnce, ShutdownCovers, DoneMeansGone, HandedBack, StarterOK,
            RecordOK, FinalizerOK, KilledOK, Stoppable, Starting,
            runtime, worker, threads, adapter
<1>1. CASE Read(s)
  <2>1. TypeOK'
    BY <1>1 DEF Read, ServiceFree, AtEnd
  <2>2. (CompletionOnce /\ RecordOK /\ FinalizerOK /\ ShutdownCovers /\ HandedBack)'
    BY <1>1 DEF Read, ServiceFree, AtEnd
  <2>3. (DoneMeansGone /\ KilledOK /\ StarterOK)'
    BY <1>1 DEF Read, ServiceFree, AtEnd
  <2> QED BY <2>1, <2>2, <2>3
<1>2. CASE ReadEnd(s)
  <2>1. TypeOK'
    BY <1>2 DEF ReadEnd, AtEnd
  <2>2. (CompletionOnce /\ RecordOK /\ FinalizerOK /\ ShutdownCovers /\ HandedBack)'
    BY <1>2 DEF ReadEnd, AtEnd
  <2>3. (DoneMeansGone /\ KilledOK /\ StarterOK)'
    BY <1>2 DEF ReadEnd, AtEnd
  <2> QED BY <2>1, <2>2, <2>3
<1>3. CASE ScheduleTermination(s)
  <2>1. TypeOK'
    BY <1>3 DEF ScheduleTermination
  <2>2. (CompletionOnce /\ RecordOK /\ FinalizerOK /\ ShutdownCovers /\ HandedBack)'
    BY <1>3 DEF ScheduleTermination
  <2>3. (DoneMeansGone /\ KilledOK /\ StarterOK)'
    BY <1>3 DEF ScheduleTermination
  <2> QED BY <2>1, <2>2, <2>3
<1> QED BY <1>1, <1>2, <1>3 DEF Reader

\* Every step of the worker preserves the invariant.
LEMMA WorkerOK == ASSUME IInv, Worker PROVE IInv'
<1> USE FramesAssumption, BindsAssumption
<1> USE DEF IInv, TypeOK, RuntimeTypes, WorkerTypes, ThreadTypes, AdapterTypes,
            CompletionOnce, ShutdownCovers, DoneMeansGone, HandedBack, StarterOK,
            RecordOK, FinalizerOK, KilledOK, Stoppable, Starting,
            runtime, worker, threads, adapter
<1>1. CASE SpawnChild
  <2>1. TypeOK'
    BY <1>1 DEF SpawnChild
  <2>2. (CompletionOnce /\ RecordOK /\ FinalizerOK /\ ShutdownCovers /\ HandedBack)'
    BY <1>1 DEF SpawnChild
  <2>3. (DoneMeansGone /\ KilledOK /\ StarterOK)'
    BY <1>1 DEF SpawnChild
  <2> QED BY <2>1, <2>2, <2>3
<1>2. CASE WorkerExits
  <2>1. TypeOK'
    BY <1>2 DEF WorkerExits
  <2>2. (CompletionOnce /\ RecordOK /\ FinalizerOK /\ ShutdownCovers /\ HandedBack)'
    BY <1>2 DEF WorkerExits
  <2>3. (DoneMeansGone /\ KilledOK /\ StarterOK)'
    BY <1>2 DEF WorkerExits
  <2> QED BY <2>1, <2>2, <2>3
<1>3. CASE ChildExits
  <2>1. RuntimeTypes'
    BY <1>3 DEF ChildExits
  <2>2. WorkerTypes'
    BY <1>3 DEF ChildExits
  <2>3. ThreadTypes'
    BY <1>3 DEF ChildExits
  <2>4. AdapterTypes'
    BY <1>3 DEF ChildExits
  <2>5. (CompletionOnce /\ RecordOK /\ FinalizerOK /\ ShutdownCovers /\ HandedBack)'
    BY <1>3 DEF ChildExits
  <2>6. (DoneMeansGone /\ KilledOK /\ StarterOK)'
    BY <1>3 DEF ChildExits
  <2> QED BY <2>1, <2>2, <2>3, <2>4, <2>5, <2>6
<1>4. ASSUME NEW s \in Streams, NEW f \in Frames, Write(s, f) PROVE IInv'
  <2>1. (RuntimeTypes /\ ThreadTypes /\ AdapterTypes)'
    BY <1>4 DEF Write
  <2>2. WorkerTypes'
    BY <1>4 DEF Write
  <2>3. (CompletionOnce /\ RecordOK /\ FinalizerOK /\ ShutdownCovers /\ HandedBack)'
    BY <1>4 DEF Write
  <2>4. (DoneMeansGone /\ KilledOK /\ StarterOK)'
    BY <1>4 DEF Write
  <2> QED BY <2>1, <2>2, <2>3, <2>4
<1> QED BY <1>1, <1>2, <1>3, <1>4 DEF Worker

\* Every step of a caller, and closing the pipes, preserves the invariant.
LEMMA CallsOK == ASSUME IInv, CancelJob \/ ForceStop \/ ClosePipes \/ ApiFlag \/ ApiStop PROVE IInv'
<1> USE FramesAssumption, BindsAssumption
<1> USE DEF IInv, TypeOK, RuntimeTypes, WorkerTypes, ThreadTypes, AdapterTypes,
            CompletionOnce, ShutdownCovers, DoneMeansGone, HandedBack, StarterOK,
            RecordOK, FinalizerOK, KilledOK, Stoppable, Starting,
            runtime, worker, threads, adapter
<1>1. CASE CancelJob
  <2>1. TypeOK'
    BY <1>1 DEF CancelJob, Move
  <2>2. (CompletionOnce /\ RecordOK /\ FinalizerOK /\ ShutdownCovers /\ HandedBack)'
    BY <1>1 DEF CancelJob, Move
  <2>3. (DoneMeansGone /\ KilledOK /\ StarterOK)'
    BY <1>1 DEF CancelJob, Move
  <2> QED BY <2>1, <2>2, <2>3
<1>2. CASE ForceStop
  <2>1. TypeOK'
    BY <1>2 DEF ForceStop, Move
  <2>2. (CompletionOnce /\ RecordOK /\ FinalizerOK /\ ShutdownCovers /\ HandedBack)'
    BY <1>2 DEF ForceStop, Move
  <2>3. (DoneMeansGone /\ KilledOK /\ StarterOK)'
    BY <1>2 DEF ForceStop, Move
  <2> QED BY <2>1, <2>2, <2>3
<1>3. CASE ClosePipes
  <2>1. TypeOK'
    BY <1>3 DEF ClosePipes, Move
  <2>2. (CompletionOnce /\ RecordOK /\ FinalizerOK /\ ShutdownCovers /\ HandedBack)'
    BY <1>3 DEF ClosePipes, Move
  <2>3. (DoneMeansGone /\ KilledOK /\ StarterOK)'
    BY <1>3 DEF ClosePipes, Move
  <2> QED BY <2>1, <2>2, <2>3
<1>4. CASE ApiFlag
  <2>1. TypeOK'
    BY <1>4 DEF ApiFlag
  <2>2. (CompletionOnce /\ RecordOK /\ FinalizerOK /\ ShutdownCovers /\ HandedBack)'
    BY <1>4 DEF ApiFlag
  <2>3. (DoneMeansGone /\ KilledOK /\ StarterOK)'
    BY <1>4 DEF ApiFlag
  <2> QED BY <2>1, <2>2, <2>3
<1>5. CASE ApiStop
  <2>1. TypeOK'
    BY <1>5 DEF ApiStop
  <2>2. (CompletionOnce /\ RecordOK /\ FinalizerOK /\ ShutdownCovers /\ HandedBack)'
    BY <1>5 DEF ApiStop
  <2>3. (DoneMeansGone /\ KilledOK /\ StarterOK)'
    BY <1>5 DEF ApiStop
  <2> QED BY <2>1, <2>2, <2>3
<1> QED BY <1>1, <1>2, <1>3, <1>4, <1>5

\* Every step of the specification preserves the invariant.
LEMMA NextOK == IInv /\ [Next]_vars => IInv'
<1> SUFFICES ASSUME IInv, [Next]_vars PROVE IInv'
  OBVIOUS
<1>1. CASE Next
  BY <1>1, StartOK, WorkerOK, WaiterOK, ShutdownOK, CallsOK, ReaderOK, PresserOK DEF Next
<1>2. CASE UNCHANGED vars
  <2> USE <1>2 DEF vars, runtime, worker, threads, adapter
  <2>1. TypeOK'
    BY DEF IInv, TypeOK, RuntimeTypes, WorkerTypes, ThreadTypes, AdapterTypes
  <2>2. (CompletionOnce /\ ShutdownCovers /\ DoneMeansGone /\ HandedBack)'
    BY DEF IInv, CompletionOnce, ShutdownCovers, DoneMeansGone, HandedBack, Stoppable
  <2>3. (StarterOK /\ RecordOK /\ FinalizerOK /\ KilledOK)'
    BY DEF IInv, StarterOK, RecordOK, FinalizerOK, KilledOK, Starting
  <2> QED BY <2>1, <2>2, <2>3 DEF IInv
<1> QED BY <1>1, <1>2

\* The invariant holds in every reachable state of the host.
THEOREM Invariance == Spec => []IInv
BY InitOK, NextOK, PTL DEF Spec

\* Every variable of the host keeps its type, for any number of frames.
THEOREM TypeCorrect == Spec => []TypeOK
<1>1. IInv => TypeOK
  BY DEF IInv
<1> QED BY <1>1, Invariance, PTL

\* Whatever the waiter, a forced stop, the shutdown and the protocol thread do
\* at the same time: one completion callback and one terminal status at most.
THEOREM Once == Spec => []CompletionOnce
<1>1. IInv => CompletionOnce
  BY DEF IInv
<1> QED BY <1>1, Invariance, PTL

\* A job in the table of a closing adapter is one that shutdown is ending.
THEOREM Covered == Spec => []ShutdownCovers
<1>1. IInv => ShutdownCovers
  BY DEF IInv
<1> QED BY <1>1, Invariance, PTL

\* A job whose done event is set has no worker left, and no bound child.
THEOREM Gone == Spec => []DoneMeansGone
<1>1. IInv => DoneMeansGone
  BY DEF IInv
<1> QED BY <1>1, Invariance, PTL

\* A job that is done, unless the protocol thread ended it, and one that was
\* never started, have left the runtime.
THEOREM Returned == Spec => []HandedBack
<1>1. IInv => HandedBack
  BY DEF IInv
<1> QED BY <1>1, Invariance, PTL


-----------------------------------------------------------------------------
(***************************************************************************)
(* The verdict matches the output (VerdictMatchesOutput): the second       *)
(* inductive invariant follows the frames from the pipes to the verdict.   *)
(***************************************************************************)
\* What the worker writes: a torn frame is the last one of its stream, and
\* reports go to stdout.
OutputOK == \A s \in Streams : \A i \in 1..Len(written[s]) :
  /\ written[s][i] = "torn" => i = Len(written[s])
  /\ s = "err" => written[s][i] \notin Reports

\* What the runtime has heard of the frames that were read, while its record
\* is not closed: whether one was corrupt, and the last report if none was.
HeardOK == record # "closed" =>
  /\ corrupted <=> \E s \in Streams : \E i \in 1..got[s] : written[s][i] = "corrupt"
  /\ ~corrupted /\ report = "none" => \A i \in 1..got["out"] : written["out"][i] \notin Reports
  /\ ~corrupted /\ report # "none" => SaidLast(report, got["out"])

\* A reader ends at the end of a dead worker's output, after a corrupt frame,
\* or because the protocol thread has closed the pipes.
ReadersOK ==
  /\ \A s \in Streams : reader[s] = "fatal" => corrupted
  /\ \A s \in Streams : reader[s] = "done" =>
       finalizer = "fatal" \/ corrupted \/ (AtEnd(s) /\ proc = "gone")
  /\ starter \in {"spawned", "marked", "started"} => proc # "none"

\* The waiter decides when both readers have ended, and nobody else closes the
\* record of a job that it finalizes.
Promised == Sound /\ exit = 0 /\ SaidLast("COMPLETED", Len(written["out"]))
DecidedOK ==
  /\ waiter = "claimed" => \A s \in Streams : reader[s] = "done"
  /\ finalizer = "waiter" => waiter \notin {"none", "waiting", "joining"}
  /\ waiter = "completing" /\ decision # "none" => (decision = "COMPLETED" <=> Promised)
  /\ verdict # "none" =>
       /\ starter = "failed" \/ finalizer # "none"
       /\ verdict = "COMPLETED" <=> finalizer = "waiter" /\ Promised

VInv == OutputOK /\ HeardOK /\ ReadersOK /\ DecidedOK

\* A worker that is gone writes no more, and its exit code stays.
LEMMA Frozen ==
  ASSUME IInv, Next, proc = "gone"
  PROVE  proc' = "gone" /\ exit' = exit /\ written' = written
<1> USE DEF runtime, worker, threads, adapter
<1>1. CASE Start
  BY <1>1 DEF IInv, StarterOK, Start, Prepare, StartFails, StartProcess, MarkRunning, Register, Reject
<1>2. CASE Worker
  BY <1>2 DEF Worker, SpawnChild, WorkerExits, ChildExits, Write
<1>3. CASE Waiter
  BY <1>3 DEF Waiter, WaitExit, JoinAndClaim, CompleteDecide, CompleteFinish, WaiterNotify,
              WaiterRemove, RemoveState, CloseTree
<1>4. CASE Shutdown \/ CancelJob \/ ForceStop \/ ClosePipes \/ ApiFlag \/ ApiStop
  BY <1>4 DEF Shutdown, BeginShutdown, ShutdownRequest, ShutdownSnapshot, CancelJob, ForceStop,
              ClosePipes, ApiFlag, ApiStop
<1>5. ASSUME NEW s \in Streams, Reader(s) PROVE proc' = "gone" /\ exit' = exit /\ written' = written
  BY <1>5 DEF Reader, Read, ReadEnd, ScheduleTermination
<1>6. ASSUME NEW th \in Pressers, Presser(th)
      PROVE  proc' = "gone" /\ exit' = exit /\ written' = written
  BY <1>6 DEF Presser, PressRequest, PressLeave, PressTerminate, Terminate, PressKill, Kill,
              PressClaim, Abandon, PressNotify, PressRemove, RemoveState, CloseTree
<1> QED BY <1>1, <1>2, <1>3, <1>4, <1>5, <1>6 DEF Next

\* A step that reads and writes nothing leaves what was heard as it was.
LEMMA HeardFrame ==
  ASSUME OutputOK, HeardOK, UNCHANGED <<written, got, corrupted, report>>,
         record = "closed" => record' = "closed"
  PROVE  OutputOK' /\ HeardOK'
BY DEF OutputOK, HeardOK, SaidLast

\* A step that reads and writes nothing and ends no reader.
LEMMA ReadersFrame ==
  ASSUME ReadersOK, UNCHANGED <<written, got, corrupted, reader>>,
         finalizer # "none" => finalizer' = finalizer, proc = "gone" => proc' = "gone",
         starter' \in {"spawned", "marked", "started"} => proc' # "none"
  PROVE  ReadersOK'
BY DEF ReadersOK, AtEnd

\* What the output promises depends on the frames and the exit code only.
LEMMA PromisedFrame ==
  ASSUME written' = written, exit' = exit
  PROVE  Promised' <=> Promised
BY DEF Promised, Sound, SaidLast

\* A step that decides nothing; the waiter decides on a worker that is gone.
LEMMA DecidedFrame ==
  ASSUME IInv, DecidedOK, UNCHANGED <<reader, decision, verdict, finalizer>>,
         proc = "gone" => written' = written /\ exit' = exit,
         starter = "failed" => starter' = "failed",
         \/ waiter' = waiter
         \/ /\ waiter' \notin {"none", "waiting", "claimed", "completing"}
            /\ finalizer = "waiter" => waiter' # "joining"
  PROVE  DecidedOK'
<1>1. waiter = "completing" \/ finalizer = "waiter" => proc = "gone"
  BY DEF IInv, KilledOK, DecidedOK
<1>2. proc = "gone" => (Promised' <=> Promised)
  BY PromisedFrame
<1> QED BY <1>1, <1>2 DEF DecidedOK

\* What the waiter decides on, once both readers have ended, is what the
\* worker has written.
LEMMA DecideOK ==
  ASSUME IInv, VInv, waiter = "claimed", record = "open"
  PROVE  Decide = "COMPLETED" <=> Promised
<1>0. /\ written \in [Streams -> Seq(Frames)] /\ got \in [Streams -> Nat]
      /\ report \in Reports \cup {"none"} /\ exit \in {0, 1}
  BY DEF IInv, TypeOK, WorkerTypes, RuntimeTypes
<1>1. finalizer = "waiter" /\ \A s \in Streams : reader[s] = "done"
  BY DEF IInv, FinalizerOK, VInv, DecidedOK
<1>2. corrupted \/ \A s \in Streams : got[s] = Len(written[s])
  BY <1>1 DEF VInv, ReadersOK, AtEnd
<1>3. /\ corrupted <=> \E s \in Streams : \E i \in 1..got[s] : written[s][i] = "corrupt"
      /\ ~corrupted /\ report = "none" => \A i \in 1..got["out"] : written["out"][i] \notin Reports
      /\ ~corrupted /\ report # "none" => SaidLast(report, got["out"])
  BY DEF VInv, HeardOK
<1>4. \A s \in Streams : got[s] <= Len(written[s])
  BY DEF IInv, TypeOK, WorkerTypes
<1>5. corrupted => ~Sound
  <2> SUFFICES ASSUME corrupted PROVE ~Sound
    OBVIOUS
  <2>1. PICK s \in Streams : \E i \in 1..got[s] : written[s][i] = "corrupt"
    BY <1>3
  <2>2. PICK i \in 1..got[s] : written[s][i] = "corrupt"
    BY <2>1
  <2>3. i \in 1..Len(written[s])
    BY <1>0, <1>4, <2>2
  <2> QED BY <2>2, <2>3 DEF Sound
<1>6. TornTail => ~Sound
  <2> SUFFICES ASSUME TornTail PROVE ~Sound
    OBVIOUS
  <2>1. PICK s \in Streams : /\ written[s] # <<>> /\ got[s] = Len(written[s])
                             /\ written[s][got[s]] = "torn"
    BY DEF TornTail
  <2>2. got[s] \in 1..Len(written[s])
    BY <1>0, <2>1
  <2> QED BY <2>1, <2>2 DEF Sound
<1>7. ~corrupted /\ ~TornTail => Sound
  <2> SUFFICES ASSUME ~corrupted, ~TornTail PROVE Sound
    OBVIOUS
  <2>1. ASSUME NEW s \in Streams, NEW i \in 1..Len(written[s])
        PROVE  written[s][i] \notin {"corrupt", "torn"}
    <3>1. got[s] = Len(written[s]) /\ written[s] # <<>>
      BY <1>0, <1>2, <2>1
    <3>2. written[s][i] # "corrupt"
      BY <1>3, <3>1, <2>1
    <3>3. written[s][i] = "torn" => i = Len(written[s])
      BY <2>1 DEF VInv, OutputOK
    <3> QED BY <3>1, <3>2, <3>3 DEF TornTail
  <2> QED BY <2>1 DEF Sound
<1>8. CASE corrupted \/ TornTail
  BY <1>5, <1>6, <1>8 DEF Decide, Promised
<1>9. CASE ~corrupted /\ ~TornTail
  <2>1. got["out"] = Len(written["out"]) /\ Len(written["out"]) \in Nat /\ Sound
    BY <1>0, <1>2, <1>7, <1>9
  <2>2. report = "COMPLETED" <=> SaidLast("COMPLETED", Len(written["out"]))
    <3>1. CASE report = "none"
      BY <1>3, <1>9, <2>1, <3>1 DEF SaidLast
    <3>2. CASE report # "none"
      <4>1. SaidLast(report, Len(written["out"])) /\ report \in Reports
        BY <1>0, <1>3, <1>9, <2>1, <3>2
      <4>2. PICK i \in 1..Len(written["out"]) :
              /\ written["out"][i] = report
              /\ \A j \in 1..Len(written["out"]) : j > i => written["out"][j] \notin Reports
        BY <4>1 DEF SaidLast
      <4>3. ASSUME SaidLast("COMPLETED", Len(written["out"])) PROVE report = "COMPLETED"
        <5>1. PICK k \in 1..Len(written["out"]) :
                /\ written["out"][k] = "COMPLETED"
                /\ \A j \in 1..Len(written["out"]) : j > k => written["out"][j] \notin Reports
          BY <4>3 DEF SaidLast
        <5>2. k \in Nat /\ i \in Nat /\ ~(k > i) /\ ~(i > k)
          BY <2>1, <4>1, <4>2, <5>1
        <5> QED BY <4>2, <5>1, <5>2
      <4> QED BY <4>1, <4>3
    <3> QED BY <3>1, <3>2
  <2>3. Decide = "COMPLETED" <=> report = "COMPLETED" /\ exit = 0
    BY <1>0, <1>9 DEF Decide
  <2> QED BY <2>1, <2>2, <2>3 DEF Promised
<1> QED BY <1>8, <1>9

\* A step that neither reads nor decides keeps VInv.
LEMMA VQuiet ==
  ASSUME IInv, VInv, Next, UNCHANGED <<written, got, corrupted, report, reader, decision, verdict>>,
         finalizer' = finalizer, record = "closed" => record' = "closed",
         starter = "failed" => starter' = "failed",
         starter' \in {"spawned", "marked", "started"} => proc' # "none",
         \/ waiter' = waiter
         \/ /\ waiter' \notin {"none", "waiting", "claimed", "completing"}
            /\ finalizer = "waiter" => waiter' # "joining"
  PROVE  VInv'
<1>1. proc = "gone" => proc' = "gone" /\ exit' = exit
  BY Frozen
<1> QED BY <1>1, HeardFrame, ReadersFrame, DecidedFrame DEF VInv

\* The steps of the starter.
LEMMA VStart == ASSUME IInv, VInv, Start PROVE VInv'
<1> USE DEF runtime, worker, threads, adapter
<1>0. /\ Next /\ StarterOK /\ RecordOK /\ TypeOK
      /\ OutputOK /\ HeardOK /\ ReadersOK /\ DecidedOK
  BY DEF IInv, Next, VInv
<1>1. CASE Prepare
  <2>1. starter = "idle" /\ record = "none" /\ starter' = "prepared"
    BY <1>0, <1>1 DEF Prepare, StarterOK
  <2>2. /\ UNCHANGED <<written, got, corrupted, report, reader, decision, verdict>>
        /\ UNCHANGED <<finalizer, waiter>>
    BY <1>1 DEF Prepare
  <2> QED BY <1>0, <2>1, <2>2, VQuiet
<1>2. CASE StartProcess \/ MarkRunning
  <2>1. /\ UNCHANGED <<written, got, corrupted, report, reader, decision, verdict>>
        /\ UNCHANGED <<finalizer, waiter, record>> /\ starter # "failed"
    BY <1>2 DEF StartProcess, MarkRunning
  <2>2. starter' \in {"spawned", "marked", "started"} => proc' # "none"
    BY <1>0, <1>2 DEF StartProcess, MarkRunning, ReadersOK
  <2> QED BY <1>0, <2>1, <2>2, VQuiet
<1>3. CASE Register
  <2>1. /\ starter = "marked" /\ record = "open" /\ finalizer = "none" /\ verdict = "none"
        /\ waiter = "none" /\ proc # "none" /\ \A s \in Streams : reader[s] = "none"
    BY <1>0, <1>3 DEF Register, StarterOK, Starting, RecordOK, ReadersOK
  <2>2. /\ UNCHANGED <<written, got, corrupted, report, record, decision, verdict, finalizer, proc>>
        /\ waiter' \in {"none", "waiting"}
        /\ \A s \in Streams : reader'[s] \in {"none", "reading"}
    BY <1>3, <2>1 DEF Register
  <2>3. OutputOK' /\ HeardOK'
    BY <1>0, <2>2, HeardFrame
  <2>4. ReadersOK'
    BY <2>1, <2>2 DEF ReadersOK
  <2>5. DecidedOK'
    BY <2>1, <2>2 DEF DecidedOK
  <2> QED BY <2>3, <2>4, <2>5 DEF VInv
<1>4. CASE StartFails \/ Reject
  <2>1. /\ starter \in {"prepared", "rejected", "unmonitored"} /\ record = "open"
        /\ finalizer = "none" /\ waiter = "none" /\ \A s \in Streams : reader[s] = "none"
    BY <1>0, <1>4 DEF StartFails, Reject, StarterOK, Starting
  <2>2. /\ UNCHANGED <<written, got, corrupted, report, finalizer, reader, waiter>>
        /\ starter' = "failed" /\ record' = "closed" /\ verdict' \in {"CANCELLED", "FAILED"}
    BY <1>4, <2>1 DEF StartFails, Reject, FailStart, CloseRecord
  <2>3. OutputOK' /\ HeardOK'
    BY <1>0, <2>2 DEF OutputOK, HeardOK
  <2>4. ReadersOK'
    BY <2>1, <2>2 DEF ReadersOK
  <2>5. DecidedOK'
    BY <2>1, <2>2 DEF DecidedOK
  <2> QED BY <2>3, <2>4, <2>5 DEF VInv
<1> QED BY <1>1, <1>2, <1>3, <1>4 DEF Start

\* The steps of the waiter: what it decides is what the worker has written.
LEMMA VWaiter == ASSUME IInv, VInv, Waiter PROVE VInv'
<1> USE DEF runtime, worker, threads, adapter
<1>0. /\ Next /\ StarterOK /\ RecordOK /\ FinalizerOK /\ KilledOK /\ TypeOK
      /\ OutputOK /\ HeardOK /\ ReadersOK /\ DecidedOK
  BY DEF IInv, Next, VInv
<1>1. CASE WaitExit \/ WaiterNotify \/ WaiterRemove
  <2>1. /\ UNCHANGED <<written, got, corrupted, report, reader, decision, verdict>>
        /\ UNCHANGED <<finalizer, record, starter>>
        /\ waiter' \in {"joining", "notified", "gone"}
        /\ waiter' = "joining" => waiter = "waiting"
    BY <1>1 DEF WaitExit, WaiterNotify, WaiterRemove
  <2>2. waiter' = "joining" => finalizer # "waiter"
    BY <1>0, <2>1 DEF DecidedOK
  <2>3. starter' \in {"spawned", "marked", "started"} => proc' # "none"
    <3>1. proc' = proc \/ proc' = "gone"
      BY <1>1 DEF WaitExit, WaiterNotify, WaiterRemove, RemoveState, CloseTree
    <3> QED BY <1>0, <2>1, <3>1 DEF ReadersOK
  <2> QED BY <1>0, <2>1, <2>2, <2>3, VQuiet
<1>2. CASE JoinAndClaim
  <2>1. /\ waiter = "joining" /\ starter = "started" /\ finalizer # "waiter" /\ proc = "gone"
        /\ \A s \in Streams : reader[s] = "done"
    BY <1>0, <1>2 DEF JoinAndClaim, StarterOK, DecidedOK, KilledOK
  <2>2. /\ UNCHANGED <<written, got, corrupted, report, reader, decision, verdict, record, starter>>
        /\ UNCHANGED <<proc, exit>>
        /\ finalizer' = IF finalizer = "none" THEN "waiter" ELSE finalizer
        /\ waiter' = IF finalizer = "none" THEN "claimed" ELSE "gone"
    BY <1>2 DEF JoinAndClaim
  <2>3. OutputOK' /\ HeardOK'
    BY <1>0, <2>2, HeardFrame
  <2>4. ReadersOK'
    BY <1>0, <2>1, <2>2 DEF ReadersOK, AtEnd
  <2>5. DecidedOK'
    <3>1. finalizer = "none" => verdict = "none"
      BY <1>0, <2>1 DEF DecidedOK
    <3>2. finalizer = "none" => verdict' = "none" /\ waiter' = "claimed"
      BY <2>2, <3>1
    <3>3. finalizer # "none" => finalizer' = finalizer /\ waiter' = "gone" /\ finalizer' # "waiter"
      BY <2>1, <2>2
    <3> QED BY <1>0, <2>1, <2>2, <3>2, <3>3 DEF DecidedOK
  <2> QED BY <2>3, <2>4, <2>5 DEF VInv
<1>3. CASE CompleteDecide
  <2>1. waiter = "claimed" /\ finalizer = "waiter" /\ starter = "started" /\ proc # "none"
    BY <1>0, <1>3 DEF CompleteDecide, FinalizerOK, StarterOK, ReadersOK
  <2>2. /\ UNCHANGED <<written, got, corrupted, report, reader, verdict, record, starter, finalizer>>
        /\ UNCHANGED <<proc, exit>> /\ waiter' = "completing"
        /\ decision' = IF record = "open" THEN Decide ELSE "none"
    BY <1>3 DEF CompleteDecide
  <2>3. OutputOK' /\ HeardOK'
    BY <1>0, <2>2, HeardFrame
  <2>4. ReadersOK'
    BY <1>0, <2>1, <2>2, ReadersFrame
  <2>5. DecidedOK'
    <3>1. Promised' <=> Promised
      BY <2>2, PromisedFrame
    <3>2. decision' # "none" => (decision' = "COMPLETED" <=> Promised)
      BY <2>1, <2>2, DecideOK
    <3> QED BY <1>0, <2>1, <2>2, <3>1, <3>2 DEF DecidedOK
  <2> QED BY <2>3, <2>4, <2>5 DEF VInv
<1>4. CASE CompleteFinish
  <2>1. waiter = "completing" /\ finalizer = "waiter" /\ starter = "started" /\ proc # "none"
    BY <1>0, <1>4 DEF CompleteFinish, FinalizerOK, StarterOK, ReadersOK
  <2>2. /\ UNCHANGED <<written, got, corrupted, report, reader, starter, finalizer, decision>>
        /\ UNCHANGED <<proc, exit>> /\ waiter' = "completed"
        /\ IF decision # "none" THEN record' = "closed" /\ verdict' = decision
           ELSE UNCHANGED <<record, verdict>>
    BY <1>4 DEF CompleteFinish, CloseRecord
  <2>3. OutputOK' /\ HeardOK'
    BY <1>0, <2>2, HeardFrame
  <2>4. ReadersOK'
    BY <1>0, <2>1, <2>2, ReadersFrame
  <2>5. DecidedOK'
    <3>1. Promised' <=> Promised
      BY <2>2, PromisedFrame
    <3>2. CASE decision # "none"
      BY <1>0, <2>1, <2>2, <3>1, <3>2 DEF DecidedOK
    <3>3. CASE decision = "none"
      BY <1>0, <2>1, <2>2, <3>1, <3>3 DEF DecidedOK
    <3> QED BY <3>2, <3>3
  <2> QED BY <2>3, <2>4, <2>5 DEF VInv
<1> QED BY <1>1, <1>2, <1>3, <1>4 DEF Waiter

\* The steps of the threads that end the worker.
LEMMA VPresser == ASSUME IInv, VInv, NEW th \in Pressers, Presser(th) PROVE VInv'
<1> USE DEF runtime, worker, threads, adapter
<1>0. /\ Next /\ StarterOK /\ RecordOK /\ FinalizerOK /\ KilledOK /\ TypeOK
      /\ OutputOK /\ HeardOK /\ ReadersOK /\ DecidedOK
  BY DEF IInv, Next, VInv
<1>1. CASE \/ PressRequest(th) \/ PressLeave(th) \/ PressTerminate(th) \/ PressKill(th)
           \/ PressNotify(th) \/ PressRemove(th)
  <2>1. /\ UNCHANGED <<written, got, corrupted, report, reader, decision, verdict>>
        /\ UNCHANGED <<finalizer, record, starter, waiter>> /\ (proc' = proc \/ proc' = "gone")
    BY <1>1 DEF PressRequest, PressLeave, PressTerminate, PressKill, PressNotify, PressRemove,
                Terminate, Kill, RemoveState, CloseTree
  <2>2. starter' \in {"spawned", "marked", "started"} => proc' # "none"
    BY <1>0, <2>1 DEF ReadersOK
  <2> QED BY <1>0, <2>1, <2>2, VQuiet
<1>2. CASE PressClaim(th)
  <2>1. /\ UNCHANGED <<written, got, corrupted, report, reader, decision, verdict>>
        /\ UNCHANGED <<record, starter, waiter, proc, exit>>
        /\ finalizer' = IF finalizer = "none" THEN th ELSE finalizer
        /\ th # "waiter" /\ th # "none"
    BY <1>2 DEF PressClaim
  <2>2. OutputOK' /\ HeardOK'
    BY <1>0, <2>1, HeardFrame
  <2>3. ReadersOK'
    BY <1>0, <2>1, ReadersFrame DEF ReadersOK
  <2>4. DecidedOK'
    <3>1. Promised' <=> Promised
      BY <2>1, PromisedFrame
    <3> QED BY <1>0, <2>1, <3>1 DEF DecidedOK
  <2> QED BY <2>2, <2>3, <2>4 DEF VInv
<1>3. CASE Abandon(th)
  <2>1. /\ UNCHANGED <<written, got, corrupted, report, reader, decision, finalizer>>
        /\ UNCHANGED <<starter, waiter, proc, exit>>
        /\ finalizer = th /\ th # "waiter" /\ th # "none"
        /\ \/ record' = "closed" /\ verdict' = "CANCELLED"
           \/ UNCHANGED <<record, verdict>>
    BY <1>0, <1>3 DEF Abandon, CloseRecord, FinalizerOK
  <2>2. OutputOK' /\ HeardOK'
    BY <1>0, <2>1, HeardFrame
  <2>3. ReadersOK'
    BY <1>0, <2>1, ReadersFrame DEF ReadersOK
  <2>4. DecidedOK'
    <3>1. Promised' <=> Promised
      BY <2>1, PromisedFrame
    <3> QED BY <1>0, <2>1, <3>1 DEF DecidedOK
  <2> QED BY <2>2, <2>3, <2>4 DEF VInv
<1> QED BY <1>1, <1>2, <1>3 DEF Presser

\* The calls, the shutdown and the closing of the pipes.
LEMMA VCalls ==
  ASSUME IInv, VInv, Shutdown \/ CancelJob \/ ForceStop \/ ClosePipes \/ ApiFlag \/ ApiStop
  PROVE  VInv'
<1> USE DEF runtime, worker, threads, adapter
<1>1. /\ UNCHANGED <<written, got, corrupted, report, reader, decision, verdict>>
      /\ UNCHANGED <<finalizer, record, starter, waiter, proc>>
  BY DEF Shutdown, BeginShutdown, ShutdownRequest, ShutdownSnapshot, CancelJob, ForceStop,
         ClosePipes, ApiFlag, ApiStop
<1>2. Next /\ (starter' \in {"spawned", "marked", "started"} => proc' # "none")
  BY <1>1 DEF VInv, ReadersOK, Next
<1> QED BY <1>1, <1>2, VQuiet

\* The steps of a pipe reader: what is read is heard, in order.
LEMMA VReader == ASSUME IInv, VInv, NEW s \in Streams, Reader(s) PROVE VInv'
<1> USE DEF runtime, worker, threads, adapter
<1>0. /\ Next /\ StarterOK /\ RecordOK /\ FinalizerOK /\ KilledOK /\ TypeOK
      /\ OutputOK /\ HeardOK /\ ReadersOK /\ DecidedOK
      /\ written \in [Streams -> Seq(Frames)] /\ got \in [Streams -> Nat]
      /\ got[s] <= Len(written[s]) /\ reader \in [Streams -> {"none", "reading", "fatal", "done"}]
      /\ corrupted \in BOOLEAN
  BY DEF IInv, Next, VInv, TypeOK, WorkerTypes, ThreadTypes, RuntimeTypes
<1>1. CASE Read(s)
  <2> DEFINE f == written[s][got[s] + 1]
             heard == record = "open" /\ ~corrupted
  <2>1. /\ UNCHANGED <<record, decision, verdict, written, proc, exit, starter, waiter, finalizer>>
        /\ reader[s] = "reading" /\ waiter # "completing"
        /\ got' = [got EXCEPT ![s] = @ + 1]
        /\ corrupted' = (corrupted \/ (heard /\ f = "corrupt"))
        /\ report' = IF heard /\ f \in Reports THEN f ELSE report
        /\ reader' = [reader EXCEPT ![s] = IF heard /\ f = "corrupt" THEN "fatal" ELSE @]
    BY <1>1 DEF Read, ServiceFree
  <2>2. got[s] + 1 \in 1..Len(written[s]) /\ got[s] \in Nat
    BY <1>0, <1>1 DEF Read, AtEnd
  <2>3. /\ got'[s] = got[s] + 1 /\ \A t \in Streams \ {s} : got'[t] = got[t]
        /\ \A t \in Streams : got'[t] \in Nat
    BY <1>0, <2>1
  <2>4. starter = "started" /\ record # "none"
    BY <1>0, <2>1 DEF StarterOK
  <2>5. OutputOK'
    BY <1>0, <2>1 DEF OutputOK
  <2> HIDE DEF f, heard
  <2>6. ASSUME record' # "closed"
        PROVE  corrupted' <=> \E t \in Streams : \E i \in 1..got'[t] : written'[t][i] = "corrupt"
    <3>1. record = "open" /\ (heard <=> ~corrupted)
      BY <1>0, <2>1, <2>4, <2>6 DEF IInv, TypeOK, RuntimeTypes, heard
    <3>2. corrupted <=> \E t \in Streams : \E i \in 1..got[t] : written[t][i] = "corrupt"
      BY <1>0, <3>1 DEF HeardOK
    <3>3. (\E t \in Streams : \E i \in 1..got'[t] : written'[t][i] = "corrupt")
          <=> f = "corrupt" \/ \E t \in Streams : \E i \in 1..got[t] : written[t][i] = "corrupt"
      <4>1. ASSUME NEW t \in Streams, NEW i \in 1..got'[t], written[t][i] = "corrupt"
            PROVE  f = "corrupt" \/ \E k \in 1..got[t] : written[t][k] = "corrupt"
        BY <1>0, <2>2, <2>3, <4>1 DEF f
      <4>2. ASSUME NEW t \in Streams, NEW i \in 1..got[t], written[t][i] = "corrupt"
            PROVE  \E k \in 1..got'[t] : written[t][k] = "corrupt"
        <5>1. i \in 1..got'[t]
          BY <1>0, <2>2, <2>3, <4>2
        <5> QED BY <4>2, <5>1
      <4>3. f = "corrupt" => \E k \in 1..got'[s] : written[s][k] = "corrupt"
        <5>1. got[s] + 1 \in 1..got'[s]
          BY <2>2, <2>3
        <5> QED BY <5>1 DEF f
      <4> QED BY <2>1, <4>1, <4>2, <4>3
    <3> QED BY <2>1, <3>1, <3>2, <3>3
  <2>7. ASSUME record' # "closed", ~corrupted'
        PROVE  /\ report' = "none" => \A i \in 1..got'["out"] : written'["out"][i] \notin Reports
               /\ report' # "none" => \E i \in 1..got'["out"] :
                             /\ written'["out"][i] = report'
                             /\ \A j \in 1..got'["out"] : j > i => written'["out"][j] \notin Reports
    <3>1. record = "open" /\ heard /\ ~corrupted
      BY <1>0, <2>1, <2>4, <2>7 DEF IInv, TypeOK, RuntimeTypes, heard
    <3>2. /\ report = "none" => \A i \in 1..got["out"] : written["out"][i] \notin Reports
          /\ report # "none" => SaidLast(report, got["out"])
      BY <1>0, <3>1 DEF HeardOK
    <3>3. CASE s = "err"
      <4>1. report' = report /\ got'["out"] = got["out"]
        BY <1>0, <2>1, <2>2, <2>3, <3>3 DEF OutputOK, f
      <4> QED BY <2>1, <3>2, <4>1 DEF SaidLast
    <3>4. CASE s = "out" /\ f \in Reports
      <4>1. /\ report' = f /\ f # "none" /\ got'["out"] = got["out"] + 1
            /\ got'["out"] \in 1..got'["out"] /\ written["out"][got'["out"]] = f
            /\ \A j \in 1..got'["out"] : ~(j > got'["out"])
        BY <2>1, <2>2, <2>3, <3>1, <3>4 DEF f
      <4> QED BY <2>1, <4>1 DEF SaidLast
    <3>5. CASE s = "out" /\ f \notin Reports
      <4>1. report' = report /\ got'["out"] = got["out"] + 1 /\ written["out"][got["out"] + 1] \notin Reports
        BY <2>1, <2>3, <3>5 DEF f
      <4>2. \A j \in 1..got'["out"] : j \in 1..got["out"] \/ j = got["out"] + 1
        BY <1>0, <4>1
      <4>3. \A j \in 1..got["out"] : j \in 1..got'["out"]
        BY <1>0, <4>1
      <4>4. CASE report = "none"
        BY <2>1, <3>2, <4>1, <4>2, <4>4
      <4>5. CASE report # "none"
        <5>1. PICK i \in 1..got["out"] :
                /\ written["out"][i] = report
                /\ \A j \in 1..got["out"] : j > i => written["out"][j] \notin Reports
          BY <3>2, <4>5 DEF SaidLast
        <5>2. \A j \in 1..got'["out"] : j > i => written["out"][j] \notin Reports
          BY <4>1, <4>2, <5>1
        <5> QED BY <2>1, <4>1, <4>3, <4>5, <5>1, <5>2 DEF SaidLast
      <4> QED BY <4>4, <4>5
    <3> QED BY <3>3, <3>4, <3>5
  <2>8. HeardOK'
    BY <2>6, <2>7 DEF HeardOK, SaidLast
  <2>9. ReadersOK'
    <3>1. corrupted => corrupted'
      BY <2>1
    <3>2. reader'[s] \in {"reading", "fatal"} /\ (reader'[s] = "fatal" => corrupted')
      BY <1>0, <2>1
    <3>3. \A t \in Streams \ {s} : reader'[t] = reader[t] /\ got'[t] = got[t]
      BY <1>0, <2>1
    <3> QED BY <1>0, <2>1, <3>1, <3>2, <3>3 DEF ReadersOK, AtEnd
  <2>10. DecidedOK'
    <3>1. Promised' <=> Promised
      BY <2>1, PromisedFrame
    <3> QED BY <1>0, <2>1, <3>1 DEF DecidedOK
  <2> QED BY <2>5, <2>8, <2>9, <2>10 DEF VInv
<1>2. CASE ReadEnd(s) \/ ScheduleTermination(s)
  <2>1. /\ UNCHANGED <<written, got, corrupted, report, decision, verdict>>
        /\ UNCHANGED <<finalizer, record, starter, waiter, proc, exit>>
        /\ reader[s] \in {"reading", "fatal"} /\ reader' = [reader EXCEPT ![s] = "done"]
    BY <1>2 DEF ReadEnd, ScheduleTermination
  <2>2. starter = "started" /\ proc \in {"up", "gone"}
    BY <1>0, <2>1 DEF StarterOK, ReadersOK, TypeOK, WorkerTypes
  <2>3. finalizer = "fatal" \/ corrupted \/ (AtEnd(s) /\ proc = "gone")
    <3>1. CASE ReadEnd(s)
      BY <2>2, <3>1 DEF ReadEnd, PipesClosed, Blocked
    <3>2. CASE ScheduleTermination(s)
      BY <1>0, <3>2 DEF ScheduleTermination, ReadersOK
    <3> QED BY <1>2, <3>1, <3>2
  <2>4. reader'[s] = "done" /\ \A t \in Streams \ {s} : reader'[t] = reader[t]
    BY <1>0, <2>1
  <2>5. OutputOK' /\ HeardOK'
    BY <1>0, <2>1, HeardFrame
  <2>6. ReadersOK'
    BY <1>0, <2>1, <2>3, <2>4 DEF ReadersOK, AtEnd
  <2>7. DecidedOK'
    <3>1. Promised' <=> Promised
      BY <2>1, PromisedFrame
    <3> QED BY <1>0, <2>1, <2>4, <3>1 DEF DecidedOK
  <2> QED BY <2>5, <2>6, <2>7 DEF VInv
<1> QED BY <1>1, <1>2 DEF Reader

\* The steps of the worker: what it writes is not yet read.
LEMMA VWorker == ASSUME IInv, VInv, Worker PROVE VInv'
<1> USE DEF runtime, worker, threads, adapter
<1>0. /\ Next /\ StarterOK /\ RecordOK /\ FinalizerOK /\ KilledOK /\ TypeOK
      /\ OutputOK /\ HeardOK /\ ReadersOK /\ DecidedOK
      /\ written \in [Streams -> Seq(Frames)] /\ got \in [Streams -> Nat]
      /\ \A t \in Streams : got[t] <= Len(written[t])
  BY DEF IInv, Next, VInv, TypeOK, WorkerTypes
<1>1. CASE SpawnChild \/ WorkerExits \/ ChildExits
  <2>1. /\ UNCHANGED <<written, got, corrupted, report, reader, decision, verdict>>
        /\ UNCHANGED <<finalizer, record, starter, waiter>> /\ (proc' = proc \/ proc' = "gone")
    BY <1>1 DEF SpawnChild, WorkerExits, ChildExits
  <2>2. starter' \in {"spawned", "marked", "started"} => proc' # "none"
    BY <1>0, <2>1 DEF ReadersOK
  <2> QED BY <1>0, <2>1, <2>2, VQuiet
<1>2. ASSUME NEW s \in Streams, NEW f \in Frames, Write(s, f) PROVE VInv'
  <2>1. /\ proc = "up" /\ f \in FramesOf[s]
        /\ written[s] # <<>> => written[s][Len(written[s])] # "torn"
        /\ written' = [written EXCEPT ![s] = Append(@, f)]
        /\ UNCHANGED <<got, corrupted, report, reader, decision, verdict, finalizer, record>>
        /\ UNCHANGED <<starter, waiter, proc, exit>>
    BY <1>2 DEF Write
  <2>2. /\ written'[s] = Append(written[s], f) /\ \A t \in Streams \ {s} : written'[t] = written[t]
        /\ Len(written'[s]) = Len(written[s]) + 1 /\ written'[s][Len(written[s]) + 1] = f
        /\ \A i \in 1..Len(written[s]) : written'[s][i] = written[s][i]
    BY <1>0, <2>1
  <2>3. \A t \in Streams : \A i \in 1..got[t] : written'[t][i] = written[t][i]
    <3> SUFFICES ASSUME NEW t \in Streams, NEW i \in 1..got[t] PROVE written'[t][i] = written[t][i]
      OBVIOUS
    <3>1. i \in 1..Len(written[t])
      BY <1>0
    <3> QED BY <2>2, <3>1
  <2>4. OutputOK'
    <3> SUFFICES ASSUME NEW t \in Streams, NEW i \in 1..Len(written'[t])
                 PROVE  /\ written'[t][i] = "torn" => i = Len(written'[t])
                        /\ t = "err" => written'[t][i] \notin Reports
      BY DEF OutputOK
    <3>1. CASE t # s
      BY <1>0, <2>2, <3>1 DEF OutputOK
    <3>2. CASE t = s /\ i = Len(written[s]) + 1
      <4>1. t = "err" => f \notin Reports
        BY <2>1, <3>2, DamageAssumption DEF FramesOf
      <4> QED BY <2>2, <3>2, <4>1
    <3>3. CASE t = s /\ i # Len(written[s]) + 1
      <4>0. Len(written[s]) \in Nat /\ i \in 1..(Len(written[s]) + 1)
        BY <1>0, <2>2, <3>3
      <4>1. i \in 1..Len(written[s]) /\ written'[t][i] = written[s][i]
        BY <2>2, <3>3, <4>0
      <4>5. written[s] # <<>> /\ Len(written[s]) \in 1..Len(written[s])
        BY <4>0, <4>1
      <4>2. written[s][i] # "torn"
        BY <1>0, <2>1, <4>1, <4>5 DEF OutputOK
      <4> QED BY <1>0, <3>3, <4>1, <4>2 DEF OutputOK
    <3> QED BY <3>1, <3>2, <3>3
  <2>5. HeardOK'
    <3> SUFFICES ASSUME record' # "closed"
                 PROVE  /\ corrupted' <=> \E t \in Streams : \E i \in 1..got'[t] : written'[t][i] = "corrupt"
                        /\ ~corrupted' /\ report' = "none" => \A i \in 1..got'["out"] : written'["out"][i] \notin Reports
                        /\ ~corrupted' /\ report' # "none" => \E i \in 1..got'["out"] :
                             /\ written'["out"][i] = report'
                             /\ \A j \in 1..got'["out"] : j > i => written'["out"][j] \notin Reports
      BY DEF HeardOK, SaidLast
    <3>1. /\ corrupted <=> \E t \in Streams : \E i \in 1..got[t] : written[t][i] = "corrupt"
          /\ ~corrupted /\ report = "none" => \A i \in 1..got["out"] : written["out"][i] \notin Reports
          /\ ~corrupted /\ report # "none" => SaidLast(report, got["out"])
      BY <1>0, <2>1 DEF HeardOK
    <3>2. got' = got /\ corrupted' = corrupted /\ report' = report
      BY <2>1
    <3>3. corrupted' <=> \E t \in Streams : \E i \in 1..got'[t] : written'[t][i] = "corrupt"
      BY <2>3, <3>1, <3>2
    <3>4. \A i \in 1..got["out"] : written'["out"][i] = written["out"][i]
      BY <2>3
    <3>5. ~corrupted' /\ report' = "none" => \A i \in 1..got'["out"] : written'["out"][i] \notin Reports
      BY <3>1, <3>2, <3>4
    <3>6. ASSUME ~corrupted', report' # "none"
          PROVE  \E i \in 1..got'["out"] :
                   /\ written'["out"][i] = report'
                   /\ \A j \in 1..got'["out"] : j > i => written'["out"][j] \notin Reports
      <4>1. PICK i \in 1..got["out"] :
              /\ written["out"][i] = report
              /\ \A j \in 1..got["out"] : j > i => written["out"][j] \notin Reports
        BY <3>1, <3>2, <3>6 DEF SaidLast
      <4>2. written'["out"][i] = report'
        BY <3>2, <3>4, <4>1
      <4>3. \A j \in 1..got'["out"] : j > i => written'["out"][j] \notin Reports
        BY <3>2, <3>4, <4>1
      <4> QED BY <3>2, <4>2, <4>3
    <3> QED BY <3>3, <3>5, <3>6
  <2>6. ReadersOK'
    BY <1>0, <2>1 DEF ReadersOK
  <2>7. DecidedOK'
    <3>1. waiter # "completing" /\ finalizer # "waiter"
      BY <1>0, <2>1 DEF KilledOK, DecidedOK
    <3> QED BY <1>0, <2>1, <3>1 DEF DecidedOK
  <2> QED BY <2>4, <2>5, <2>6, <2>7 DEF VInv
<1> QED BY <1>1, <1>2 DEF Worker

\* VInv is inductive together with IInv.
LEMMA VNextOK == IInv /\ VInv /\ [Next]_vars => VInv'
<1> SUFFICES ASSUME IInv, VInv, [Next]_vars PROVE VInv'
  OBVIOUS
<1>1. CASE Next
  BY <1>1, VStart, VWorker, VWaiter, VCalls, VReader, VPresser DEF Next
<1>2. CASE UNCHANGED vars
  <2>1. UNCHANGED <<written, got, corrupted, report, reader, decision, verdict, record, finalizer,
                    proc, exit, starter, waiter>>
    BY <1>2 DEF vars, runtime, worker, threads, adapter
  <2> QED BY <2>1, HeardFrame, ReadersFrame, DecidedFrame DEF VInv, ReadersOK
<1> QED BY <1>1, <1>2

\* Nothing is written, heard or decided before the job is started.
LEMMA VInitOK == Init => VInv
<1> SUFFICES ASSUME Init PROVE VInv
  OBVIOUS
<1>1. \A s \in Streams : written[s] = <<>> /\ Len(written[s]) = 0 /\ got[s] = 0
  BY DEF Init
<1>2. OutputOK /\ HeardOK
  BY <1>1 DEF Init, OutputOK, HeardOK
<1>3. ReadersOK /\ DecidedOK
  BY DEF Init, ReadersOK, DecidedOK
<1> QED BY <1>2, <1>3 DEF VInv

\* VInv is an invariant: what the runtime has heard is what was read of the
\* worker's output, and what it decides is what all of the output says.
THEOREM OutputInvariance == Spec => []VInv
BY VInitOK, VNextOK, Invariance, PTL DEF Spec

\* A published verdict is COMPLETED exactly when the waiter decided, the worker
\* exited with 0, all it wrote is readable and its last report is COMPLETED:
\* for any number of frames on either stream, any interleaving of the readers
\* with the waiter, and any cancel, forced stop or shutdown.
THEOREM Honest == Spec => []VerdictMatchesOutput
<1>1. VInv => VerdictMatchesOutput
  BY DEF VInv, DecidedOK, Promised, VerdictMatchesOutput
<1> QED BY <1>1, OutputInvariance, PTL
=============================================================================
