----------------------- MODULE InterprocessLockProofs -----------------------
(***************************************************************************)
(* The lock of interprocess_lock.py keeps its promise for every set of     *)
(* threads and processes and every depth of nesting.                       *)
(***************************************************************************)
EXTENDS InterprocessLock, FiniteSetTheorems, TLAPS

(* The state a thread's process has registered.                            *)
Reg(t) == registry[ProcessOf[t]]

(* The calls of a process that use its state.                              *)
Users(p) == {u \in Threads \X Levels : ProcessOf[u[1]] = p /\ u[2] <= level[u[1]]}

(* The calls on a stack use the registered state and its handle; only the  *)
(* outermost takes the OS lock.                                            *)
FramesOK ==
  \A t \in Threads : \A n \in Levels :
    /\ n <= level[t] => /\ Reg(t) # NONE
                        /\ uses[t][n] = Reg(t)
                        /\ fd[t][n] \in {NONE, handle[Reg(t)]}
                        /\ n > 1 => ~os_locked[t][n]
    /\ n > level[t] => uses[t][n] = NONE /\ fd[t][n] = NONE /\ ~os_locked[t][n]

(* A registered state counts its calls, and there is one.                  *)
CountOK ==
  \A p \in Processes : registry[p] # NONE =>
    /\ Users(p) # {}
    /\ active[registry[p]] = Cardinality(Users(p))

(* Two processes share no state and no handle.                             *)
ApartOK ==
  \A p, q \in Processes : p # q /\ registry[p] # NONE =>
    /\ registry[p] # registry[q]
    /\ registry[q] # NONE /\ handle[registry[p]] # NONE =>
         handle[registry[p]] # handle[registry[q]]

(* Where a thread stands, and what it counts.                              *)
StepsOK ==
  \A t \in Threads :
    /\ pc[t] \in {"idle", "close"} <=> level[t] = 0
    /\ pc[t] \in {"local", "unregister"} => depth[t] = level[t] - 1
    /\ pc[t] \notin {"local", "unregister"} => depth[t] = level[t]
    /\ pc[t] = "os" => level[t] = 1
    /\ pc[t] = "close" <=> closing[t] # NONE

(* The RLock belongs to the one thread of the process that is past it.     *)
LocalOK ==
  \A p \in Processes : registry[p] # NONE =>
    /\ owner[registry[p]] = NONE => count[registry[p]] = 0
    /\ owner[registry[p]] # NONE =>
         /\ ProcessOf[owner[registry[p]]] = p
         /\ depth[owner[registry[p]]] > 0
         /\ count[registry[p]] = depth[owner[registry[p]]]
    /\ \A t \in Threads :
         ProcessOf[t] = p /\ depth[t] > 0 => owner[registry[p]] = t

(* The open handles are those of the registered states and those being     *)
(* closed, and a call past _os_lock_handle_for has its state's.            *)
HandlesOK ==
  /\ \A p \in Processes :
       registry[p] # NONE /\ handle[registry[p]] # NONE =>
         /\ handle[registry[p]] \in open
         /\ \A t \in Threads : closing[t] # handle[registry[p]]
  /\ \A t \in Threads : closing[t] # NONE =>
       /\ closing[t] \in open
       /\ \A u \in Threads : closing[u] = closing[t] => u = t
  /\ \A h \in open :
       \/ \E t \in Threads : closing[t] = h
       \/ \E p \in Processes : registry[p] # NONE /\ handle[registry[p]] = h
  /\ \A t \in Threads : pc[t] = "os" \/ Inside(t) =>
       /\ fd[t][1] # NONE
       /\ fd[t][1] = handle[Reg(t)]

(* The OS lock is held for the thread that is inside.                      *)
OsOK ==
  /\ os # NONE => \E t \in Threads : Inside(t) /\ fd[t][1] = os
  /\ \A t \in Threads : Inside(t) => os = fd[t][1] /\ os_locked[t][1]

IInv ==
  /\ TypeOK /\ FramesOK /\ CountOK /\ ApartOK
  /\ StepsOK /\ LocalOK /\ HandlesOK /\ OsOK

-----------------------------------------------------------------------------
(* Facts about the invariant.                                              *)

\* A thread in a call has a process, a registered state and a frame.
LEMMA TopFacts ==
  ASSUME TypeOK, FramesOK, NEW t \in Threads, level[t] > 0
  PROVE  /\ level[t] \in Levels /\ 1 \in Levels /\ 1 <= level[t]
         /\ ProcessOf[t] \in Processes
         /\ Reg(t) \in States /\ Reg(t) # NONE
         /\ MyState(t) = Reg(t)
BY LockConstants DEF TypeOK, FramesOK, Levels, Reg, MyState

\* What a thread's step says of its counters.
LEMMA StepFacts ==
  ASSUME TypeOK, StepsOK, NEW t \in Threads
  PROVE  /\ level[t] \in Nat /\ depth[t] \in Nat /\ pc[t] \in Steps
         /\ pc[t] \in {"local", "handle", "os", "in", "leave", "unregister"} => level[t] > 0
         /\ pc[t] \in {"handle", "os", "in", "leave"} => depth[t] = level[t]
         /\ pc[t] \in {"local", "unregister"} => depth[t] = level[t] - 1
         /\ pc[t] = "os" => level[t] = 1 /\ depth[t] = 1 /\ ~Inside(t)
         /\ pc[t] \in {"idle", "close"} => level[t] = 0 /\ ~Inside(t)
         /\ Inside(t) => level[t] > 0 /\ depth[t] > 0
<1>1. level[t] \in Nat /\ depth[t] \in Nat /\ pc[t] \in Steps
  BY LockConstants DEF TypeOK
<1>2. /\ pc[t] \in {"idle", "close"} <=> level[t] = 0
      /\ pc[t] \in {"local", "unregister"} => depth[t] = level[t] - 1
      /\ pc[t] \notin {"local", "unregister"} => depth[t] = level[t]
      /\ pc[t] = "os" => level[t] = 1
  BY DEF StepsOK
<1>3. Inside(t) <=> IF pc[t] \in {"idle", "in", "close"} THEN level[t] > 0 ELSE level[t] - 1 > 0
  BY DEF Inside, Entered
<1> QED BY <1>1, <1>2, <1>3 DEF Steps

\* A process has finitely many calls.
LEMMA UsersFinite ==
  ASSUME TypeOK, NEW p \in Processes
  PROVE  IsFiniteSet(Users(p))
<1>1. IsFiniteSet(Levels) BY LockConstants, FS_Interval DEF Levels
<1>2. IsFiniteSet(Threads \X Levels) BY <1>1, LockConstants, FS_Product
<1>3. Users(p) \subseteq Threads \X Levels BY DEF Users
<1> QED BY <1>2, <1>3, FS_Subset

\* A step that leaves the stacks and the handles alone.
LEMMA FramesStay ==
  ASSUME TypeOK, FramesOK, UNCHANGED <<registry, level, locals, handle>>
  PROVE  FramesOK'
BY DEF FramesOK, Reg, locals

\* Two threads inside hold the lock with one handle, hence one state, hence one
\* RLock.
LEMMA MutexHolds ==
  ASSUME IInv, NEW t \in Threads, NEW u \in Threads, Inside(t), Inside(u)
  PROVE  t = u
<1>1. level[t] > 0 /\ level[u] > 0 /\ depth[t] > 0 /\ depth[u] > 0
  BY StepFacts DEF IInv
<1>2. Reg(t) # NONE /\ Reg(u) # NONE
  BY <1>1, TopFacts DEF IInv
<1>3. handle[Reg(t)] = os /\ handle[Reg(u)] = os /\ os # NONE
  BY DEF IInv, HandlesOK, OsOK
<1>4. ProcessOf[t] = ProcessOf[u]
  BY <1>2, <1>3, LockConstants DEF IInv, ApartOK, Reg
<1> QED BY <1>1, <1>2, <1>4, LockConstants DEF IInv, LocalOK, Reg

-----------------------------------------------------------------------------
(* Every step keeps the invariant.                                         *)

\* local_lock.acquire gives the RLock to the thread that is now past it.
LEMMA AcquireLocalKeeps ==
  ASSUME IInv, NEW t \in Threads, AcquireLocal(t)
  PROVE  IInv'
<1>t. level[t] > 0 /\ pc[t] = "local" /\ depth[t] = level[t] - 1
  BY StepFacts DEF IInv, AcquireLocal
<1>f. level[t] \in Levels /\ 1 \in Levels /\ ProcessOf[t] \in Processes
      /\ Reg(t) \in States /\ Reg(t) # NONE /\ MyState(t) = Reg(t)
  BY <1>t, TopFacts DEF IInv
<1>s. /\ owner' = [owner EXCEPT ![Reg(t)] = t]
      /\ count' = [count EXCEPT ![Reg(t)] = @ + 1]
      /\ owner[Reg(t)] \in {NONE, t}
      /\ depth' = [depth EXCEPT ![t] = @ + 1]
      /\ pc' = [pc EXCEPT ![t] = "handle"]
      /\ UNCHANGED <<registry, handle, active, open, os, level, locals, closing>>
  BY <1>f DEF AcquireLocal
<1>TypeOK. TypeOK'
  BY <1>f, <1>s DEF IInv, TypeOK, Steps, locals
<1>FramesOK. FramesOK'
  BY <1>s, FramesStay DEF IInv
<1>CountOK. CountOK'
  BY <1>s DEF IInv, CountOK, Users
<1>ApartOK. ApartOK'
  BY <1>s DEF IInv, ApartOK
<1>StepsOK. StepsOK'
  BY <1>t, <1>f, <1>s DEF IInv, TypeOK, StepsOK
<1>LocalOK. LocalOK'
  BY <1>t, <1>f, <1>s, LockConstants DEF IInv, TypeOK, LocalOK, StepsOK, ApartOK, Reg
<1>HandlesOK. HandlesOK'
  BY <1>t, <1>s DEF IInv, TypeOK, HandlesOK, Reg, Inside, Entered, locals
<1>OsOK. OsOK'
  BY <1>t, <1>s DEF IInv, TypeOK, OsOK, Inside, Entered, locals
<1> QED
  BY <1>TypeOK, <1>FramesOK, <1>CountOK, <1>ApartOK, <1>StepsOK, <1>LocalOK, <1>HandlesOK, <1>OsOK DEF IInv

\* A call that times out on the RLock has taken nothing.
LEMMA LocalTimesOutKeeps ==
  ASSUME IInv, NEW t \in Threads, LocalTimesOut(t)
  PROVE  IInv'
<1>t. level[t] > 0 /\ pc[t] = "local"
  BY StepFacts DEF IInv, LocalTimesOut
<1>s. /\ pc' = [pc EXCEPT ![t] = "unregister"]
      /\ UNCHANGED <<registry, fields, open, os, level, depth, locals, closing>>
  BY DEF LocalTimesOut
<1>TypeOK. TypeOK'
  BY <1>s DEF IInv, TypeOK, Steps, fields, locals
<1>FramesOK. FramesOK'
  BY <1>s, FramesStay DEF IInv, fields
<1>CountOK. CountOK'
  BY <1>s DEF IInv, CountOK, Users, fields
<1>ApartOK. ApartOK'
  BY <1>s DEF IInv, ApartOK, fields
<1>StepsOK. StepsOK'
  BY <1>t, <1>s DEF IInv, TypeOK, StepsOK
<1>LocalOK. LocalOK'
  BY <1>s DEF IInv, LocalOK, fields
<1>HandlesOK. HandlesOK'
  BY <1>t, <1>s DEF IInv, TypeOK, HandlesOK, Reg, Inside, Entered, fields, locals
<1>OsOK. OsOK'
  BY <1>t, <1>s DEF IInv, TypeOK, OsOK, Inside, Entered, locals
<1> QED
  BY <1>TypeOK, <1>FramesOK, <1>CountOK, <1>ApartOK, <1>StepsOK, <1>LocalOK, <1>HandlesOK, <1>OsOK DEF IInv

\* A call that cannot open the file still holds the RLock.
LEMMA OpenFailsKeeps ==
  ASSUME IInv, NEW t \in Threads, OpenFails(t)
  PROVE  IInv'
<1>t. level[t] > 0 /\ pc[t] = "handle"
  BY StepFacts DEF IInv, OpenFails
<1>s. /\ pc' = [pc EXCEPT ![t] = "leave"]
      /\ UNCHANGED <<registry, fields, open, os, level, depth, locals, closing>>
  BY DEF OpenFails
<1>TypeOK. TypeOK'
  BY <1>s DEF IInv, TypeOK, Steps, fields, locals
<1>FramesOK. FramesOK'
  BY <1>s, FramesStay DEF IInv, fields
<1>CountOK. CountOK'
  BY <1>s DEF IInv, CountOK, Users, fields
<1>ApartOK. ApartOK'
  BY <1>s DEF IInv, ApartOK, fields
<1>StepsOK. StepsOK'
  BY <1>t, <1>s DEF IInv, TypeOK, StepsOK
<1>LocalOK. LocalOK'
  BY <1>s DEF IInv, LocalOK, fields
<1>HandlesOK. HandlesOK'
  BY <1>t, <1>s DEF IInv, TypeOK, HandlesOK, Reg, Inside, Entered, fields, locals
<1>OsOK. OsOK'
  BY <1>t, <1>s DEF IInv, TypeOK, OsOK, Inside, Entered, locals
<1> QED
  BY <1>TypeOK, <1>FramesOK, <1>CountOK, <1>ApartOK, <1>StepsOK, <1>LocalOK, <1>HandlesOK, <1>OsOK DEF IInv

\* A call that does not get the OS lock still holds the RLock.
LEMMA OsLockFailsKeeps ==
  ASSUME IInv, NEW t \in Threads, OsLockFails(t)
  PROVE  IInv'
<1>t. level[t] > 0 /\ pc[t] = "os"
  BY StepFacts DEF IInv, OsLockFails
<1>s. /\ pc' = [pc EXCEPT ![t] = "leave"]
      /\ UNCHANGED <<registry, fields, open, os, level, depth, locals, closing>>
  BY DEF OsLockFails
<1>TypeOK. TypeOK'
  BY <1>s DEF IInv, TypeOK, Steps, fields, locals
<1>FramesOK. FramesOK'
  BY <1>s, FramesStay DEF IInv, fields
<1>CountOK. CountOK'
  BY <1>s DEF IInv, CountOK, Users, fields
<1>ApartOK. ApartOK'
  BY <1>s DEF IInv, ApartOK, fields
<1>StepsOK. StepsOK'
  BY <1>t, <1>s DEF IInv, TypeOK, StepsOK
<1>LocalOK. LocalOK'
  BY <1>s DEF IInv, LocalOK, fields
<1>HandlesOK. HandlesOK'
  BY <1>t, <1>s DEF IInv, TypeOK, HandlesOK, Reg, Inside, Entered, fields, locals
<1>OsOK. OsOK'
  BY <1>t, <1>s DEF IInv, TypeOK, OsOK, Inside, Entered, locals
<1> QED
  BY <1>TypeOK, <1>FramesOK, <1>CountOK, <1>ApartOK, <1>StepsOK, <1>LocalOK, <1>HandlesOK, <1>OsOK DEF IInv

\* The end of the outermost body frees the OS lock, that of a nested one keeps it.
LEMMA LeaveBodyKeeps ==
  ASSUME IInv, NEW t \in Threads, LeaveBody(t)
  PROVE  IInv'
<1>t. level[t] > 0 /\ pc[t] = "in" /\ Inside(t) /\ Entered(t) = level[t]
  BY StepFacts DEF IInv, LeaveBody, Inside, Entered
<1>f. level[t] \in Levels /\ 1 \in Levels /\ ProcessOf[t] \in Processes
      /\ Reg(t) \in States /\ Reg(t) # NONE /\ MyState(t) = Reg(t)
  BY <1>t, TopFacts DEF IInv
<1>s. /\ pc' = [pc EXCEPT ![t] = "leave"]
      /\ UNCHANGED <<registry, fields, open, level, depth, locals, closing>>
  BY DEF LeaveBody
<1>o. /\ level[t] = 1 => os' = NONE
      /\ level[t] # 1 => os' = os
  BY <1>t, <1>f DEF LeaveBody, IInv, TypeOK, FramesOK, OsOK, MyHandle, Levels
<1>x. \A u \in Threads : Inside(u) => u = t
  BY <1>t, MutexHolds
<1>e. \A u \in Threads : Entered(u)' = IF u = t THEN level[t] - 1 ELSE Entered(u)
  BY <1>t, <1>s DEF Entered, IInv, TypeOK
<1>TypeOK. TypeOK'
  BY <1>s, <1>t, <1>o DEF IInv, TypeOK, Steps, fields, locals
<1>FramesOK. FramesOK'
  BY <1>s, FramesStay DEF IInv, fields
<1>CountOK. CountOK'
  BY <1>s DEF IInv, CountOK, Users, fields
<1>ApartOK. ApartOK'
  BY <1>s DEF IInv, ApartOK, fields
<1>StepsOK. StepsOK'
  BY <1>t, <1>s DEF IInv, TypeOK, StepsOK
<1>LocalOK. LocalOK'
  BY <1>s DEF IInv, LocalOK, fields
<1>HandlesOK. HandlesOK'
  BY <1>t, <1>s, <1>e DEF IInv, TypeOK, HandlesOK, Reg, Inside, fields, locals
<1>OsOK. OsOK'
  <2>1. level[t] \in Nat /\ level[t] > 0
    BY <1>t, StepFacts DEF IInv
  <2>2. CASE level[t] = 1
    BY <1>x, <1>o, <1>e, <2>2 DEF OsOK, Inside
  <2>3. CASE level[t] # 1
    <3>1. \A u \in Threads : Inside(u)' <=> Inside(u)
      BY <1>t, <1>e, <2>1, <2>3 DEF Inside
    <3> QED BY <1>s, <1>o, <2>3, <3>1 DEF IInv, OsOK, locals
  <2> QED BY <2>2, <2>3
<1> QED
  BY <1>TypeOK, <1>FramesOK, <1>CountOK, <1>ApartOK, <1>StepsOK, <1>LocalOK, <1>HandlesOK, <1>OsOK DEF IInv

\* The OS lock is free when a call takes it: a thread inside with the same handle
\* would own the RLock.
LEMMA OsFree ==
  ASSUME IInv, NEW t \in Threads, AcquireOs(t), NEW u \in Threads
  PROVE  ~Inside(u)
<1> SUFFICES ASSUME Inside(u) PROVE FALSE
  OBVIOUS
<1>t. level[t] = 1 /\ pc[t] = "os" /\ depth[t] = 1 /\ level[t] > 0 /\ ~Inside(t)
  BY StepFacts DEF IInv, AcquireOs
<1>f. ProcessOf[t] \in Processes /\ Reg(t) # NONE
  BY <1>t, TopFacts DEF IInv
<1>1. os = handle[Reg(u)] /\ os # NONE /\ level[u] > 0 /\ depth[u] > 0
  BY StepFacts DEF IInv, OsOK, HandlesOK
<1>2. os = handle[Reg(t)] /\ Reg(u) # NONE
  BY <1>t, <1>1, TopFacts DEF IInv, AcquireOs, MyHandle, HandlesOK
<1>3. ProcessOf[u] = ProcessOf[t]
  BY <1>1, <1>2, <1>f, LockConstants DEF IInv, ApartOK, Reg
<1>4. u = t
  BY <1>t, <1>f, <1>1, <1>3, LockConstants DEF IInv, LocalOK, Reg
<1> QED BY <1>4, <1>t

\* The call that takes the OS lock is the only one inside.
LEMMA AcquireOsKeeps ==
  ASSUME IInv, NEW t \in Threads, AcquireOs(t)
  PROVE  IInv'
<1>t. level[t] = 1 /\ pc[t] = "os" /\ depth[t] = 1 /\ level[t] > 0 /\ ~Inside(t)
  BY StepFacts DEF IInv, AcquireOs
<1>f. level[t] \in Levels /\ 1 \in Levels /\ ProcessOf[t] \in Processes
      /\ Reg(t) \in States /\ Reg(t) # NONE /\ MyState(t) = Reg(t)
  BY <1>t, TopFacts DEF IInv
<1>s. /\ pc' = [pc EXCEPT ![t] = "in"]
      /\ os_locked' = [os_locked EXCEPT ![t][1] = TRUE]
      /\ os \in {NONE, fd[t][1]}
      /\ os' = fd[t][1]
      /\ fd[t][1] # NONE
      /\ fd[t][1] = handle[Reg(t)]
      /\ UNCHANGED <<registry, fields, open, level, depth, uses, fd, closing>>
  BY <1>t, <1>f DEF AcquireOs, MyHandle, IInv, HandlesOK
<1>x. \A u \in Threads : ~Inside(u)
  BY OsFree
<1>e. \A u \in Threads : Entered(u)' = IF u = t THEN 1 ELSE Entered(u)
  BY <1>t, <1>s DEF Entered, IInv, TypeOK
<1>TypeOK. TypeOK'
  BY <1>f, <1>s DEF IInv, TypeOK, Steps, fields
<1>FramesOK. FramesOK'
  BY <1>t, <1>f, <1>s DEF IInv, TypeOK, FramesOK, Reg, Levels, fields
<1>CountOK. CountOK'
  BY <1>s DEF IInv, CountOK, Users, fields
<1>ApartOK. ApartOK'
  BY <1>s DEF IInv, ApartOK, fields
<1>StepsOK. StepsOK'
  BY <1>t, <1>s DEF IInv, TypeOK, StepsOK
<1>LocalOK. LocalOK'
  BY <1>s DEF IInv, LocalOK, fields
<1>HandlesOK. HandlesOK'
  <2>1. \A u \in Threads : pc'[u] = "os" \/ Inside(u)' => pc[u] = "os" \/ Inside(u)
    BY <1>t, <1>s, <1>e DEF Inside, IInv, TypeOK
  <2> QED BY <1>s, <2>1 DEF IInv, HandlesOK, Reg, fields
<1>OsOK. OsOK'
  BY <1>t, <1>f, <1>s, <1>x, <1>e DEF IInv, TypeOK, OsOK, Inside
<1> QED
  BY <1>TypeOK, <1>FramesOK, <1>CountOK, <1>ApartOK, <1>StepsOK, <1>LocalOK, <1>HandlesOK, <1>OsOK DEF IInv

\* local_lock.release gives back one level, the last one frees the RLock.
LEMMA ReleaseLocalKeeps ==
  ASSUME IInv, NEW t \in Threads, ReleaseLocal(t)
  PROVE  IInv'
<1>t. level[t] > 0 /\ pc[t] = "leave" /\ depth[t] = level[t]
  BY StepFacts DEF IInv, ReleaseLocal
<1>f. level[t] \in Levels /\ 1 \in Levels /\ ProcessOf[t] \in Processes
      /\ Reg(t) \in States /\ Reg(t) # NONE /\ MyState(t) = Reg(t)
  BY <1>t, TopFacts DEF IInv
<1>r. owner[Reg(t)] = t /\ count[Reg(t)] = depth[t] /\ t # NONE /\ depth[t] \in Nat
  <2>1. depth[t] \in Nat /\ depth[t] > 0
    BY <1>t, StepFacts DEF IInv
  <2> QED BY <2>1, <1>f, LockConstants DEF IInv, LocalOK, Reg
<1>s. /\ pc' = [pc EXCEPT ![t] = "unregister"]
      /\ depth' = [depth EXCEPT ![t] = depth[t] - 1]
      /\ count' = [count EXCEPT ![Reg(t)] = depth[t] - 1]
      /\ owner' = [owner EXCEPT ![Reg(t)] = IF depth[t] = 1 THEN NONE ELSE t]
      /\ UNCHANGED <<registry, handle, active, open, os, level, locals, closing>>
  <2>1. depth[t] \in Nat /\ depth[t] > 0
    BY <1>t, <1>r
  <2>2. (IF depth[t] > 1 THEN depth[t] - 1 ELSE 0) = depth[t] - 1 /\ (depth[t] - 1 = 0 <=> depth[t] = 1)
    BY <2>1
  <2> QED BY <1>f, <1>r, <2>2 DEF ReleaseLocal
<1>TypeOK. TypeOK'
  BY <1>t, <1>f, <1>r, <1>s DEF IInv, TypeOK, Steps, locals
<1>FramesOK. FramesOK'
  BY <1>s, FramesStay DEF IInv
<1>CountOK. CountOK'
  BY <1>s DEF IInv, CountOK, Users
<1>ApartOK. ApartOK'
  BY <1>s DEF IInv, ApartOK
<1>StepsOK. StepsOK'
  BY <1>t, <1>s DEF IInv, TypeOK, StepsOK
<1>LocalOK. LocalOK'
  BY <1>t, <1>f, <1>r, <1>s, LockConstants DEF IInv, TypeOK, LocalOK, ApartOK, Reg
<1>HandlesOK. HandlesOK'
  BY <1>t, <1>s DEF IInv, TypeOK, HandlesOK, Reg, Inside, Entered, locals
<1>OsOK. OsOK'
  BY <1>t, <1>s DEF IInv, TypeOK, OsOK, Inside, Entered, locals
<1> QED
  BY <1>TypeOK, <1>FramesOK, <1>CountOK, <1>ApartOK, <1>StepsOK, <1>LocalOK, <1>HandlesOK, <1>OsOK DEF IInv

\* The handle that is closed is nobody's: the OS lock is not held with it.
LEMMA CloseKeeps ==
  ASSUME IInv, NEW t \in Threads, Close(t)
  PROVE  IInv'
<1>t. level[t] = 0 /\ pc[t] = "close" /\ closing[t] # NONE /\ closing[t] \in Handles
  BY StepFacts DEF IInv, Close, StepsOK, TypeOK
<1>s. /\ pc' = [pc EXCEPT ![t] = "idle"]
      /\ open' = open \ {closing[t]}
      /\ closing' = [closing EXCEPT ![t] = NONE]
      /\ UNCHANGED <<registry, fields, level, depth, locals>>
  BY <1>t DEF Close
<1>o. os' = os
  <2>1. ASSUME os # NONE PROVE os # closing[t]
    <3>1. PICK u \in Threads : Inside(u) /\ fd[u][1] = os
      BY <2>1 DEF IInv, OsOK
    <3>2. level[u] > 0
      BY <3>1, StepFacts DEF IInv
    <3>3. Reg(u) # NONE /\ ProcessOf[u] \in Processes
      BY <3>2, TopFacts DEF IInv
    <3>4. os = handle[Reg(u)]
      BY <3>1 DEF IInv, HandlesOK
    <3> QED BY <2>1, <3>3, <3>4 DEF IInv, HandlesOK, Reg
  <2> QED BY <1>t, <2>1 DEF Close
<1>e. \A u \in Threads : Entered(u)' = Entered(u)
  BY <1>t, <1>s DEF Entered, IInv, TypeOK
<1>TypeOK. TypeOK'
  BY <1>s, <1>o DEF IInv, TypeOK, Steps, fields, locals
<1>FramesOK. FramesOK'
  BY <1>s, FramesStay DEF IInv, fields
<1>CountOK. CountOK'
  BY <1>s DEF IInv, CountOK, Users, fields
<1>ApartOK. ApartOK'
  BY <1>s DEF IInv, ApartOK, fields
<1>StepsOK. StepsOK'
  BY <1>t, <1>s DEF IInv, TypeOK, StepsOK
<1>LocalOK. LocalOK'
  BY <1>s DEF IInv, LocalOK, fields
<1>HandlesOK. HandlesOK'
  BY <1>t, <1>s, <1>e, LockConstants DEF IInv, TypeOK, HandlesOK, Reg, Inside, fields, locals
<1>OsOK. OsOK'
  BY <1>s, <1>o, <1>e DEF IInv, OsOK, Inside, locals
<1> QED
  BY <1>TypeOK, <1>FramesOK, <1>CountOK, <1>ApartOK, <1>StepsOK, <1>LocalOK, <1>HandlesOK, <1>OsOK DEF IInv

\* A new handle is opened only when the state has none, and then nobody of the
\* process is inside.
LEMMA OsLockHandleForKeeps ==
  ASSUME IInv, NEW t \in Threads, OsLockHandleFor(t)
  PROVE  IInv'
<1>t. level[t] > 0 /\ pc[t] = "handle" /\ depth[t] = level[t] /\ level[t] \in Nat
  BY StepFacts DEF IInv, OsLockHandleFor
<1>f. level[t] \in Levels /\ 1 \in Levels /\ ProcessOf[t] \in Processes
      /\ Reg(t) \in States /\ Reg(t) # NONE /\ MyState(t) = Reg(t)
  BY <1>t, TopFacts DEF IInv
<1>h. PICK h \in Handles :
        /\ fd' = [fd EXCEPT ![t][level[t]] = h]
        /\ \/ handle[Reg(t)] \in open /\ h = handle[Reg(t)] /\ UNCHANGED <<handle, open>>
           \/ /\ handle[Reg(t)] \notin open /\ Unopened(h)
              /\ open' = open \cup {h} /\ handle' = [handle EXCEPT ![Reg(t)] = h]
  BY <1>f DEF OsLockHandleFor
<1>s. /\ pc' = [pc EXCEPT ![t] = IF level[t] = 1 THEN "os" ELSE "in"]
      /\ UNCHANGED <<registry, owner, count, active, os, level, depth, uses, os_locked, closing>>
  BY <1>t DEF OsLockHandleFor, AfterHandle
<1>n. h # NONE /\ handle'[Reg(t)] = h /\ h \in open'
      /\ handle[Reg(t)] \in {NONE, h}
      /\ \A s \in States \ {Reg(t)} : handle'[s] = handle[s]
  BY <1>f, <1>h, LockConstants DEF IInv, TypeOK, HandlesOK, Reg
<1>o. \A u \in Threads : \A n \in Levels : u # t \/ n # level[t] => fd'[u][n] = fd[u][n]
  BY <1>f, <1>h DEF IInv, TypeOK
<1>p. fd'[t][level[t]] = h
  BY <1>f, <1>h DEF IInv, TypeOK
<1>e. \A u \in Threads : Inside(u)' <=> Inside(u)
  BY <1>t, <1>s DEF Inside, Entered, IInv, TypeOK
<1>q. \A p \in Processes : registry[p] # NONE /\ p # ProcessOf[t] => handle'[registry[p]] = handle[registry[p]] /\ handle[registry[p]] # h
  <2> SUFFICES ASSUME NEW p \in Processes, registry[p] # NONE, p # ProcessOf[t]
               PROVE  handle'[registry[p]] = handle[registry[p]] /\ handle[registry[p]] # h
    OBVIOUS
  <2>1. registry[p] # Reg(t) /\ registry[p] \in States
    BY <1>f DEF IInv, TypeOK, ApartOK, Reg
  <2>2. handle[registry[p]] # NONE /\ handle[Reg(t)] # NONE => handle[registry[p]] # handle[Reg(t)]
    BY <1>f DEF IInv, ApartOK, Reg
  <2>3. CASE handle[Reg(t)] \in open
    BY <1>h, <1>n, <2>1, <2>2, <2>3
  <2>4. CASE handle[Reg(t)] \notin open
    BY <1>h, <1>n, <2>1, <2>4 DEF Unopened
  <2> QED BY <2>3, <2>4
<1>TypeOK. TypeOK'
  BY <1>f, <1>h, <1>s DEF IInv, TypeOK, Steps
<1>FramesOK. FramesOK'
  <2> SUFFICES ASSUME NEW u \in Threads, NEW n \in Levels
               PROVE  /\ n <= level[u] => fd'[u][n] \in {NONE, handle'[Reg(u)]}
                      /\ n > level[u] => fd'[u][n] = NONE
    BY <1>s DEF IInv, FramesOK, Reg
  <2>1. n <= level[u] => Reg(u) # NONE /\ fd[u][n] \in {NONE, handle[Reg(u)]}
    BY DEF IInv, FramesOK
  <2>2. n > level[u] => fd[u][n] = NONE
    BY DEF IInv, FramesOK
  <2>3. level[t] \in Nat /\ level[u] \in Nat /\ n \in Nat /\ ProcessOf[u] \in Processes
    BY StepFacts, LockConstants DEF IInv, Levels
  <2>4. CASE u = t
    BY <1>n, <1>o, <1>p, <2>1, <2>2, <2>3, <2>4
  <2>5. CASE u # t /\ ProcessOf[u] = ProcessOf[t]
    BY <1>n, <1>o, <2>1, <2>2, <2>5 DEF Reg
  <2>6. CASE u # t /\ ProcessOf[u] # ProcessOf[t]
    BY <1>o, <1>q, <2>1, <2>2, <2>3, <2>6 DEF Reg
  <2> QED BY <2>4, <2>5, <2>6
<1>CountOK. CountOK'
  BY <1>s DEF IInv, CountOK, Users
<1>ApartOK. ApartOK'
  <2> SUFFICES ASSUME NEW p \in Processes, NEW q \in Processes, p # q, registry[p] # NONE,
                      registry[q] # NONE, handle'[registry[p]] # NONE
               PROVE  handle'[registry[p]] # handle'[registry[q]]
    BY <1>s DEF IInv, ApartOK
  <2>1. handle[registry[p]] # NONE => handle[registry[p]] # handle[registry[q]]
    BY DEF IInv, ApartOK
  <2>2. CASE p = ProcessOf[t]
    BY <1>n, <1>q, <2>2 DEF Reg
  <2>3. CASE q = ProcessOf[t]
    BY <1>n, <1>q, <2>3 DEF Reg
  <2>4. CASE p # ProcessOf[t] /\ q # ProcessOf[t]
    BY <1>q, <2>1, <2>4
  <2> QED BY <2>2, <2>3, <2>4
<1>StepsOK. StepsOK'
  BY <1>t, <1>s DEF IInv, TypeOK, StepsOK
<1>LocalOK. LocalOK'
  BY <1>s DEF IInv, LocalOK
<1>HandlesOK. HandlesOK'
  <2>1. open \subseteq open' /\ \A g \in open' : g \in open \/ g = h
    BY <1>h
  <2>2. \A u \in Threads : closing[u] # h
    BY <1>f, <1>h, <1>n DEF IInv, HandlesOK, Unopened, Reg
  <2>3. \A p \in Processes : registry[p] # NONE /\ handle'[registry[p]] # NONE =>
          handle'[registry[p]] \in open' /\ \A u \in Threads : closing[u] # handle'[registry[p]]
    <3> SUFFICES ASSUME NEW p \in Processes, registry[p] # NONE, handle'[registry[p]] # NONE
                 PROVE  handle'[registry[p]] \in open' /\ \A u \in Threads : closing[u] # handle'[registry[p]]
      OBVIOUS
    <3>1. CASE p = ProcessOf[t]
      BY <1>n, <2>2, <3>1 DEF Reg
    <3>2. CASE p # ProcessOf[t]
      BY <1>q, <2>1, <3>2 DEF IInv, HandlesOK
    <3> QED BY <3>1, <3>2
  <2>4. \A g \in open' :
          \/ \E u \in Threads : closing[u] = g
          \/ \E p \in Processes : registry[p] # NONE /\ handle'[registry[p]] = g
    <3> SUFFICES ASSUME NEW g \in open', \A u \in Threads : closing[u] # g
                 PROVE  \E p \in Processes : registry[p] # NONE /\ handle'[registry[p]] = g
      OBVIOUS
    <3>1. CASE g = h
      BY <1>f, <1>n, <3>1 DEF Reg
    <3>2. CASE g # h /\ g \in open
      <4>1. PICK p \in Processes : registry[p] # NONE /\ handle[registry[p]] = g
        BY <3>2 DEF IInv, HandlesOK
      <4>2. p # ProcessOf[t]
        BY <4>1, <3>2, <1>n, LockConstants DEF IInv, TypeOK, Reg
      <4> QED BY <1>q, <4>1, <4>2
    <3> QED BY <2>1, <3>1, <3>2
  <2>5. ASSUME NEW u \in Threads, pc'[u] = "os" \/ Inside(u)
        PROVE  fd'[u][1] # NONE /\ fd'[u][1] = handle'[Reg(u)]
    <3>1. CASE u = t /\ level[t] = 1
      BY <1>n, <1>p, <3>1
    <3>2. CASE u = t /\ level[t] # 1
      <4>1. Inside(t)
        BY <1>s, <2>5, <3>2 DEF IInv, TypeOK
      <4>2. fd[t][1] # NONE /\ fd[t][1] = handle[Reg(t)]
        BY <4>1 DEF IInv, HandlesOK
      <4> QED BY <1>f, <1>n, <1>o, <3>2, <4>2
    <3>3. CASE u # t
      <4>1. pc[u] = "os" \/ Inside(u)
        BY <1>s, <2>5, <3>3 DEF IInv, TypeOK
      <4>2. fd[u][1] # NONE /\ fd[u][1] = handle[Reg(u)] /\ level[u] > 0
        BY <4>1, StepFacts DEF IInv, HandlesOK
      <4>3. Reg(u) # NONE /\ ProcessOf[u] \in Processes
        BY <4>2, TopFacts DEF IInv
      <4> QED BY <1>f, <1>n, <1>o, <1>q, <3>3, <4>2, <4>3 DEF Reg
    <3> QED BY <3>1, <3>2, <3>3
  <2>6. \A u \in Threads : pc'[u] = "os" \/ Inside(u) => fd'[u][1] # NONE /\ fd'[u][1] = handle'[Reg(u)]
    BY <2>5
  <2>7. \A u \in Threads : closing[u] # NONE =>
          closing[u] \in open' /\ \A v \in Threads : closing[v] = closing[u] => v = u
    BY <2>1 DEF IInv, HandlesOK
  <2> QED BY <1>s, <1>e, <2>3, <2>4, <2>6, <2>7 DEF HandlesOK, Reg
<1>OsOK. OsOK'
  <2>1. \A u \in Threads : Inside(u) => fd'[u][1] = fd[u][1]
    BY <1>t, <1>f, <1>o DEF Inside, Entered
  <2> QED BY <1>s, <1>e, <2>1 DEF IInv, OsOK
<1> QED
  BY <1>TypeOK, <1>FramesOK, <1>CountOK, <1>ApartOK, <1>StepsOK, <1>LocalOK, <1>HandlesOK, <1>OsOK DEF IInv

\* A new user of a process: one call more.
LEMMA UsersGrow ==
  ASSUME TypeOK, NEW t \in Threads, level[t] + 1 <= MaxLevel,
         level' = [level EXCEPT ![t] = level[t] + 1]
  PROVE  /\ Users(ProcessOf[t])' = Users(ProcessOf[t]) \cup {<<t, level[t] + 1>>}
         /\ Users(ProcessOf[t])' # {}
         /\ Cardinality(Users(ProcessOf[t])') = Cardinality(Users(ProcessOf[t])) + 1
         /\ Cardinality(Users(ProcessOf[t])) \in Nat
         /\ \A p \in Processes \ {ProcessOf[t]} : Users(p)' = Users(p)
<1>0. \A u \in Threads : level[u] \in Nat /\ level[u] <= MaxLevel
  BY LockConstants DEF TypeOK
<1>c. level'[t] = level[t] + 1 /\ \A u \in Threads \ {t} : level'[u] = level[u]
  BY DEF TypeOK
<1>1. /\ level[t] \in Nat /\ level[t] + 1 \in Levels /\ ProcessOf[t] \in Processes
      /\ \A u \in Threads : level[u] \in Nat /\ level'[u] = IF u = t THEN level[t] + 1 ELSE level[u]
  BY <1>0, <1>c, LockConstants DEF Levels
<1>2. Users(ProcessOf[t])' = Users(ProcessOf[t]) \cup {<<t, level[t] + 1>>}
  <2>1. ASSUME NEW u \in Threads, NEW n \in Levels
        PROVE  n <= level'[u] <=> n <= level[u] \/ (u = t /\ n = level[t] + 1)
    BY <1>1 DEF Levels
  <2> QED BY <1>1, <2>1 DEF Users
<1>3. <<t, level[t] + 1>> \notin Users(ProcessOf[t])
  BY <1>1 DEF Users
<1>4. \A p \in Processes \ {ProcessOf[t]} : Users(p)' = Users(p)
  BY <1>1 DEF Users
<1>5. IsFiniteSet(Users(ProcessOf[t]))
  BY <1>1, UsersFinite
<1>6. /\ Cardinality(Users(ProcessOf[t]) \cup {<<t, level[t] + 1>>}) = Cardinality(Users(ProcessOf[t])) + 1
      /\ Cardinality(Users(ProcessOf[t])) \in Nat
  BY <1>3, <1>5, FS_AddElement, FS_CardinalityType
<1> QED BY <1>2, <1>4, <1>6

\* A call that unregisters: one call less, and a process without a call has
\* no thread on a stack.
LEMMA UsersShrink ==
  ASSUME TypeOK, NEW t \in Threads, level[t] > 0,
         level' = [level EXCEPT ![t] = level[t] - 1]
  PROVE  /\ Cardinality(Users(ProcessOf[t])) \in Nat \ {0}
         /\ Cardinality(Users(ProcessOf[t])') = Cardinality(Users(ProcessOf[t])) - 1
         /\ Users(ProcessOf[t])' = {} <=> Cardinality(Users(ProcessOf[t])) = 1
         /\ \A p \in Processes \ {ProcessOf[t]} : Users(p)' = Users(p)
<1>0. \A u \in Threads : level[u] \in Nat /\ level[u] <= MaxLevel
  BY LockConstants DEF TypeOK
<1>c. level'[t] = level[t] - 1 /\ \A u \in Threads \ {t} : level'[u] = level[u]
  BY DEF TypeOK
<1>1. /\ level[t] \in Nat /\ level[t] \in Levels /\ ProcessOf[t] \in Processes
      /\ \A u \in Threads : level[u] \in Nat /\ level'[u] = IF u = t THEN level[t] - 1 ELSE level[u]
  BY <1>0, <1>c, LockConstants DEF Levels
<1>2. Users(ProcessOf[t])' = Users(ProcessOf[t]) \ {<<t, level[t]>>}
  <2>1. ASSUME NEW u \in Threads, NEW n \in Levels
        PROVE  n <= level'[u] <=> n <= level[u] /\ ~(u = t /\ n = level[t])
    BY <1>1 DEF Levels
  <2> QED BY <1>1, <2>1 DEF Users
<1>3. <<t, level[t]>> \in Users(ProcessOf[t])
  BY <1>1 DEF Users
<1>4. \A p \in Processes \ {ProcessOf[t]} : Users(p)' = Users(p)
  BY <1>1 DEF Users
<1>a. IsFiniteSet(Users(ProcessOf[t]))
  BY <1>1, UsersFinite
<1>b. /\ IsFiniteSet(Users(ProcessOf[t]) \ {<<t, level[t]>>})
      /\ Cardinality(Users(ProcessOf[t]) \ {<<t, level[t]>>}) = Cardinality(Users(ProcessOf[t])) - 1
  BY <1>a, <1>3, FS_RemoveElement
<1>5. IsFiniteSet(Users(ProcessOf[t])) /\ IsFiniteSet(Users(ProcessOf[t])')
  BY <1>2, <1>a, <1>b
<1>6. /\ Cardinality(Users(ProcessOf[t])') = Cardinality(Users(ProcessOf[t])) - 1
      /\ Cardinality(Users(ProcessOf[t])) \in Nat /\ Cardinality(Users(ProcessOf[t])') \in Nat
  BY <1>2, <1>5, <1>b, FS_CardinalityType
<1>7. Users(ProcessOf[t])' = {} <=> Cardinality(Users(ProcessOf[t])') = 0
  BY <1>5, FS_EmptySet
<1> QED BY <1>4, <1>6, <1>7

\* A process whose calls are all gone has no thread on a stack.
LEMMA UsersNone ==
  ASSUME TypeOK, NEW p \in Processes
  PROVE  Users(p) = {} <=> \A u \in Threads : ProcessOf[u] = p => level[u] = 0
<1>1. \A u \in Threads : level[u] \in Nat /\ (level[u] # 0 => 1 \in Levels /\ 1 <= level[u])
  BY LockConstants DEF TypeOK, Levels
<1>2. ASSUME NEW u \in Threads, ProcessOf[u] = p, level[u] # 0 PROVE <<u, 1>> \in Users(p)
  BY <1>1, <1>2 DEF Users
<1>3. ASSUME \A u \in Threads : ProcessOf[u] = p => level[u] = 0 PROVE Users(p) = {}
  BY <1>3 DEF Users, Levels
<1> QED BY <1>2, <1>3

\* A call that registers finds the state of its process, or makes one that has
\* neither owner nor handle.
LEMMA RegisterKeeps ==
  ASSUME IInv, NEW t \in Threads, Register(t)
  PROVE  IInv'
<1>t. /\ pc[t] \in {"idle", "in"} /\ level[t] \in Nat /\ depth[t] = level[t]
      /\ level[t] + 1 <= MaxLevel /\ level[t] + 1 \in Levels /\ 1 \in Levels
      /\ ProcessOf[t] \in Processes
  BY StepFacts, LockConstants DEF IInv, Register, StepsOK, Levels
<1>s. /\ pc' = [pc EXCEPT ![t] = "local"]
      /\ level' = [level EXCEPT ![t] = level[t] + 1]
      /\ UNCHANGED <<open, os, depth, fd, os_locked, closing>>
  BY DEF Register
<1>p. PICK s \in States :
        /\ \/ /\ Reg(t) = NONE /\ Unused(s)
              /\ owner' = [owner EXCEPT ![s] = NONE]
              /\ count' = [count EXCEPT ![s] = 0]
              /\ handle' = [handle EXCEPT ![s] = NONE]
              /\ active' = [active EXCEPT ![s] = 1]
           \/ /\ Reg(t) # NONE /\ s = Reg(t)
              /\ active' = [active EXCEPT ![s] = @ + 1]
              /\ UNCHANGED <<owner, count, handle>>
        /\ registry' = [registry EXCEPT ![ProcessOf[t]] = s]
        /\ uses' = [uses EXCEPT ![t][level[t] + 1] = s]
  BY DEF Register, Reg
<1>n. s # NONE /\ Reg(t)' = s /\ registry'[ProcessOf[t]] = s
  BY <1>t, <1>p, LockConstants DEF IInv, TypeOK, Reg
<1>q. \A p \in Processes \ {ProcessOf[t]} :
        /\ registry'[p] = registry[p]
        /\ registry[p] # NONE => /\ registry[p] # s
                                 /\ owner'[registry[p]] = owner[registry[p]]
                                 /\ count'[registry[p]] = count[registry[p]]
                                 /\ handle'[registry[p]] = handle[registry[p]]
                                 /\ active'[registry[p]] = active[registry[p]]
  <2> SUFFICES ASSUME NEW p \in Processes \ {ProcessOf[t]}
               PROVE  /\ registry'[p] = registry[p]
                      /\ registry[p] # NONE => registry[p] # s /\ registry[p] \in States
    BY <1>p DEF IInv, TypeOK
  <2> QED BY <1>t, <1>p DEF IInv, TypeOK, ApartOK, Unused, Reg
<1>z. Reg(t) = NONE => \A u \in Threads : ProcessOf[u] = ProcessOf[t] => level[u] = 0 /\ depth[u] = 0 /\ pc[u] \in {"idle", "close"}
  <2> SUFFICES ASSUME Reg(t) = NONE, NEW u \in Threads, ProcessOf[u] = ProcessOf[t]
               PROVE  level[u] = 0 /\ depth[u] = 0 /\ pc[u] \in {"idle", "close"}
    OBVIOUS
  <2>1. Reg(u) = NONE
    BY DEF Reg
  <2>2. ~(level[u] > 0) /\ level[u] \in Nat
    BY <2>1, TopFacts, StepFacts DEF IInv
  <2> QED BY <2>2, StepFacts DEF IInv, StepsOK
<1>h. handle'[s] = IF Reg(t) = NONE THEN NONE ELSE handle[s]
  BY <1>p DEF IInv, TypeOK
<1>e. \A u \in Threads : Entered(u)' = Entered(u)
  BY <1>t, <1>s DEF Entered, IInv, TypeOK
<1>i. \A u \in Threads : pc'[u] = "os" \/ Inside(u) => Reg(u) # NONE /\ Reg(u)' = Reg(u) /\ handle'[Reg(u)] = handle[Reg(u)]
  <2> SUFFICES ASSUME NEW u \in Threads, pc'[u] = "os" \/ Inside(u)
               PROVE  Reg(u) # NONE /\ Reg(u)' = Reg(u) /\ handle'[Reg(u)] = handle[Reg(u)]
    OBVIOUS
  <2>1. pc[u] = "os" \/ Inside(u)
    BY <1>s DEF IInv, TypeOK
  <2>2. level[u] > 0
    BY <2>1, StepFacts DEF IInv
  <2>3. Reg(u) # NONE /\ ProcessOf[u] \in Processes
    BY <2>2, TopFacts DEF IInv
  <2>4. CASE ProcessOf[u] = ProcessOf[t]
    BY <1>n, <1>p, <2>3, <2>4 DEF Reg
  <2>5. CASE ProcessOf[u] # ProcessOf[t]
    BY <1>q, <2>3, <2>5 DEF Reg
  <2> QED BY <2>4, <2>5
<1>TypeOK. TypeOK'
  <2>1. level' \in [Threads -> 0..MaxLevel] /\ pc' \in [Threads -> Steps]
    BY <1>t, <1>s, LockConstants DEF IInv, TypeOK, Steps, Levels
  <2>2. owner' \in [States -> Threads \cup {NONE}] /\ handle' \in [States -> Handles \cup {NONE}]
    BY <1>p DEF IInv, TypeOK
  <2>5. count' \in [States -> Nat]
    <3>1. count' = [count EXCEPT ![s] = 0] \/ count' = count
      BY <1>p
    <3> QED BY <3>1 DEF IInv, TypeOK
  <2>4. active' \in [States -> Nat]
    <3>1. active \in [States -> Nat] /\ active[s] + 1 \in Nat
      BY DEF IInv, TypeOK
    <3>2. active' = [active EXCEPT ![s] = 1] \/ active' = [active EXCEPT ![s] = active[s] + 1]
      BY <1>p
    <3> QED BY <3>1, <3>2
  <2>3. /\ registry' \in [Processes -> States \cup {NONE}]
        /\ uses' \in [Threads -> [Levels -> States \cup {NONE}]]
    BY <1>t, <1>p DEF IInv, TypeOK
  <2> QED BY <1>s, <2>1, <2>2, <2>3, <2>4, <2>5 DEF IInv, TypeOK
<1>FramesOK. FramesOK'
  <2> SUFFICES ASSUME NEW u \in Threads, NEW m \in Levels
               PROVE  /\ m <= level'[u] => /\ Reg(u)' # NONE
                                           /\ uses'[u][m] = Reg(u)'
                                           /\ fd[u][m] \in {NONE, handle'[Reg(u)']}
                                           /\ m > 1 => ~os_locked[u][m]
                      /\ m > level'[u] => uses'[u][m] = NONE /\ fd[u][m] = NONE /\ ~os_locked[u][m]
    BY <1>s DEF FramesOK, Reg
  <2>1. /\ m <= level[u] => /\ Reg(u) # NONE /\ uses[u][m] = Reg(u)
                            /\ fd[u][m] \in {NONE, handle[Reg(u)]} /\ (m > 1 => ~os_locked[u][m])
        /\ m > level[u] => uses[u][m] = NONE /\ fd[u][m] = NONE /\ ~os_locked[u][m]
    BY DEF IInv, FramesOK
  <2>2. m \in Nat /\ level[u] \in Nat /\ level[t] \in Nat /\ ProcessOf[u] \in Processes
    BY StepFacts, LockConstants DEF IInv, Levels
  <2>3. /\ level'[u] = IF u = t THEN level[t] + 1 ELSE level[u]
        /\ uses'[u][m] = IF u = t /\ m = level[t] + 1 THEN s ELSE uses[u][m]
    BY <1>t, <1>s, <1>p DEF IInv, TypeOK
  <2>4. CASE u = t /\ m = level[t] + 1
    BY <1>n, <2>1, <2>2, <2>3, <2>4
  <2>5. CASE ~(u = t /\ m = level[t] + 1) /\ m <= level[u]
    <3>1. Reg(u)' = Reg(u) /\ handle'[Reg(u)] = handle[Reg(u)]
      <4>1. CASE ProcessOf[u] = ProcessOf[t]
        BY <1>n, <1>p, <2>1, <2>5, <4>1 DEF Reg
      <4>2. CASE ProcessOf[u] # ProcessOf[t]
        BY <1>q, <2>1, <2>2, <2>5, <4>2 DEF Reg
      <4> QED BY <4>1, <4>2
    <3> QED BY <2>1, <2>2, <2>3, <2>5, <3>1
  <2>6. CASE ~(u = t /\ m = level[t] + 1) /\ m > level[u]
    BY <2>1, <2>2, <2>3, <2>6
  <2> QED BY <2>2, <2>4, <2>5, <2>6
<1>CountOK. CountOK'
  <2> SUFFICES ASSUME NEW p \in Processes, registry'[p] # NONE
               PROVE  Users(p)' # {} /\ active'[registry'[p]] = Cardinality(Users(p)')
    BY DEF CountOK
  <2>1. /\ Users(ProcessOf[t])' # {}
        /\ Cardinality(Users(ProcessOf[t])') = Cardinality(Users(ProcessOf[t])) + 1
        /\ Cardinality(Users(ProcessOf[t])) \in Nat
        /\ \A q \in Processes \ {ProcessOf[t]} : Users(q)' = Users(q)
    BY <1>t, <1>s, UsersGrow DEF IInv
  <2>2. CASE p # ProcessOf[t]
    BY <1>q, <2>1, <2>2 DEF IInv, CountOK
  <2>3. CASE p = ProcessOf[t] /\ Reg(t) # NONE
    <3>1. active'[s] = active[s] + 1 /\ active[s] = Cardinality(Users(p))
      BY <1>p, <2>3 DEF IInv, TypeOK, CountOK, Reg
    <3> QED BY <1>n, <2>1, <2>3, <3>1
  <2>4. CASE p = ProcessOf[t] /\ Reg(t) = NONE
    <3>1. Users(p) = {}
      BY <1>z, <2>4, UsersNone DEF IInv
    <3>2. Cardinality(Users(p)) = 0
      BY <3>1, FS_EmptySet
    <3>3. active'[s] = 1
      BY <1>p, <2>4 DEF IInv, TypeOK
    <3> QED BY <1>n, <2>1, <2>4, <3>2, <3>3
  <2> QED BY <2>2, <2>3, <2>4
<1>ApartOK. ApartOK'
  <2> SUFFICES ASSUME NEW p \in Processes, NEW q \in Processes, p # q, registry'[p] # NONE
               PROVE  /\ registry'[p] # registry'[q]
                      /\ registry'[q] # NONE /\ handle'[registry'[p]] # NONE =>
                           handle'[registry'[p]] # handle'[registry'[q]]
    BY DEF ApartOK
  <2>1. CASE p = ProcessOf[t]
    BY <1>n, <1>q, <1>h, <1>p, <2>1 DEF IInv, ApartOK, Reg
  <2>2. CASE q = ProcessOf[t]
    BY <1>n, <1>q, <1>h, <1>p, <2>2 DEF IInv, ApartOK, Reg
  <2>3. CASE p # ProcessOf[t] /\ q # ProcessOf[t]
    BY <1>q, <2>3 DEF IInv, ApartOK
  <2> QED BY <2>1, <2>2, <2>3
<1>StepsOK. StepsOK'
  <2>1. /\ pc'[t] = "local" /\ level'[t] = level[t] + 1
        /\ \A u \in Threads \ {t} : pc'[u] = pc[u] /\ level'[u] = level[u]
    BY <1>s DEF IInv, TypeOK
  <2>2. closing[t] = NONE
    BY <1>t DEF IInv, StepsOK
  <2>3. depth[t] = level'[t] - 1 /\ level'[t] # 0
    BY <1>t, <2>1
  <2> QED BY <1>s, <2>1, <2>2, <2>3 DEF IInv, StepsOK
<1>LocalOK. LocalOK'
  <2> SUFFICES ASSUME NEW p \in Processes, registry'[p] # NONE
               PROVE  /\ owner'[registry'[p]] = NONE => count'[registry'[p]] = 0
                      /\ owner'[registry'[p]] # NONE =>
                           /\ ProcessOf[owner'[registry'[p]]] = p
                           /\ depth[owner'[registry'[p]]] > 0
                           /\ count'[registry'[p]] = depth[owner'[registry'[p]]]
                      /\ \A u \in Threads :
                           ProcessOf[u] = p /\ depth[u] > 0 => owner'[registry'[p]] = u
    BY <1>s DEF LocalOK
  <2>1. CASE p # ProcessOf[t]
    BY <1>q, <2>1 DEF IInv, LocalOK
  <2>2. CASE p = ProcessOf[t] /\ Reg(t) # NONE
    BY <1>n, <1>p, <2>2 DEF IInv, LocalOK, Reg
  <2>3. CASE p = ProcessOf[t] /\ Reg(t) = NONE
    <3>1. owner'[s] = NONE /\ count'[s] = 0
      BY <1>p, <2>3 DEF IInv, TypeOK
    <3> QED BY <1>n, <1>z, <2>3, <3>1
  <2> QED BY <2>1, <2>2, <2>3
<1>HandlesOK. HandlesOK'
  <2>1. \A p \in Processes :
          registry'[p] # NONE /\ handle'[registry'[p]] # NONE =>
            registry[p] # NONE /\ handle[registry[p]] = handle'[registry'[p]]
    BY <1>n, <1>q, <1>h, <1>p DEF Reg
  <2>2. \A p \in Processes : registry[p] # NONE =>
          registry'[p] # NONE /\ handle'[registry'[p]] = handle[registry[p]]
    BY <1>n, <1>q, <1>h, <1>p DEF Reg
  <2>3. \A u \in Threads : pc'[u] = "os" \/ Inside(u) => pc[u] = "os" \/ Inside(u)
    BY <1>s DEF IInv, TypeOK
  <2>4. \A u \in Threads : pc'[u] = "os" \/ Inside(u) =>
          fd[u][1] # NONE /\ fd[u][1] = handle'[Reg(u)']
    BY <1>i, <2>3 DEF IInv, HandlesOK
  <2>5. \A u \in Threads : Inside(u)' <=> Inside(u)
    BY <1>e DEF Inside
  <2> QED BY <1>s, <2>1, <2>2, <2>4, <2>5 DEF IInv, HandlesOK
<1>OsOK. OsOK'
  BY <1>s, <1>e DEF IInv, OsOK, Inside
<1> QED
  BY <1>TypeOK, <1>FramesOK, <1>CountOK, <1>ApartOK, <1>StepsOK, <1>LocalOK, <1>HandlesOK, <1>OsOK DEF IInv

\* The last call of a process takes the handle with it when it drops the state;
\* until then the state and the handle stay for the other calls.
LEMMA UnregisterKeeps ==
  ASSUME IInv, NEW t \in Threads, Unregister(t)
  PROVE  IInv'
<1>t. pc[t] = "unregister" /\ level[t] > 0 /\ level[t] \in Nat /\ depth[t] = level[t] - 1 /\ closing[t] = NONE
  BY StepFacts DEF IInv, Unregister, StepsOK
<1>f. level[t] \in Levels /\ 1 \in Levels /\ ProcessOf[t] \in Processes
      /\ Reg(t) \in States /\ Reg(t) # NONE /\ MyState(t) = Reg(t)
  BY <1>t, TopFacts DEF IInv
<1>s. /\ level' = [level EXCEPT ![t] = level[t] - 1]
      /\ uses' = [uses EXCEPT ![t][level[t]] = NONE]
      /\ fd' = [fd EXCEPT ![t][level[t]] = NONE]
      /\ os_locked' = [os_locked EXCEPT ![t][level[t]] = FALSE]
      /\ UNCHANGED <<owner, count, open, os, depth>>
  BY DEF Unregister
<1>a. /\ active[Reg(t)] = Cardinality(Users(ProcessOf[t]))
      /\ Cardinality(Users(ProcessOf[t])) \in Nat \ {0}
      /\ Cardinality(Users(ProcessOf[t])') = Cardinality(Users(ProcessOf[t])) - 1
      /\ Users(ProcessOf[t])' = {} <=> Cardinality(Users(ProcessOf[t])) = 1
      /\ \A p \in Processes \ {ProcessOf[t]} : Users(p)' = Users(p)
  BY <1>t, <1>f, <1>s, UsersShrink DEF IInv, CountOK, Reg
<1>l. \/ /\ active[Reg(t)] = 1
         /\ active' = [active EXCEPT ![Reg(t)] = 0]
         /\ handle' = [handle EXCEPT ![Reg(t)] = NONE]
         /\ registry' = [registry EXCEPT ![ProcessOf[t]] = NONE]
         /\ closing' = [closing EXCEPT ![t] = handle[Reg(t)]]
         /\ pc' = [pc EXCEPT ![t] = IF handle[Reg(t)] # NONE THEN "close" ELSE IF level[t] > 1 THEN "in" ELSE "idle"]
      \/ /\ active[Reg(t)] > 1 /\ active[Reg(t)] \in Nat
         /\ active' = [active EXCEPT ![Reg(t)] = active[Reg(t)] - 1]
         /\ UNCHANGED <<handle, registry, closing>>
         /\ pc' = [pc EXCEPT ![t] = IF level[t] > 1 THEN "in" ELSE "idle"]
  <2>1. active[Reg(t)] \in Nat \ {0}
    BY <1>a
  <2>2. CASE active[Reg(t)] = 1
    BY <1>f, <2>2 DEF Unregister, Reg
  <2>3. CASE active[Reg(t)] # 1
    <3>1. ~(active[Reg(t)] <= 1)
      BY <2>1, <2>3
    <3>2. /\ active' = [active EXCEPT ![Reg(t)] = active[Reg(t)] - 1]
          /\ handle' = [handle EXCEPT ![Reg(t)] = handle[Reg(t)]]
          /\ registry' = registry
          /\ closing' = [closing EXCEPT ![t] = NONE]
          /\ pc' = [pc EXCEPT ![t] = IF level[t] > 1 THEN "in" ELSE "idle"]
      BY <1>f, <3>1 DEF Unregister, Reg
    <3>3. handle' = handle /\ closing' = closing
      BY <1>t, <3>2 DEF IInv, TypeOK
    <3> QED BY <2>1, <3>1, <3>2, <3>3
  <2> QED BY <2>2, <2>3
<1>v. /\ level'[t] = level[t] - 1
      /\ \A u \in Threads \ {t} : level'[u] = level[u] /\ pc'[u] = pc[u] /\ closing'[u] = closing[u]
  BY <1>s, <1>l DEF IInv, TypeOK
<1>w. /\ uses'[t][level[t]] = NONE /\ fd'[t][level[t]] = NONE /\ ~os_locked'[t][level[t]]
      /\ \A u \in Threads : \A m \in Levels : u # t \/ m # level[t] =>
           uses'[u][m] = uses[u][m] /\ fd'[u][m] = fd[u][m] /\ os_locked'[u][m] = os_locked[u][m]
  BY <1>f, <1>s DEF IInv, TypeOK
<1>z. active[Reg(t)] = 1 => /\ level[t] = 1
                            /\ \A u \in Threads : ProcessOf[u] = ProcessOf[t] => level'[u] = 0
  <2> SUFFICES ASSUME active[Reg(t)] = 1
               PROVE  \A u \in Threads : ProcessOf[u] = ProcessOf[t] => level'[u] = 0
    BY <1>t, <1>v
  <2>1. Users(ProcessOf[t])' = {}
    BY <1>a
  <2>2. \A u \in Threads : level'[u] \in Nat /\ (level'[u] # 0 => 1 \in Levels /\ 1 <= level'[u])
    BY <1>t, <1>f, <1>v, StepFacts DEF IInv
  <2>3. ASSUME NEW u \in Threads, ProcessOf[u] = ProcessOf[t], level'[u] # 0
        PROVE  <<u, 1>> \in Users(ProcessOf[t])'
    BY <2>2, <2>3 DEF Users
  <2> QED BY <2>1, <2>3
<1>c. /\ active[Reg(t)] = 1 /\ handle[Reg(t)] # NONE => pc'[t] = "close"
      /\ active[Reg(t)] = 1 /\ handle[Reg(t)] = NONE => pc'[t] = "idle"
      /\ active[Reg(t)] # 1 => pc'[t] = IF level[t] > 1 THEN "in" ELSE "idle"
      /\ closing'[t] = IF active[Reg(t)] = 1 THEN handle[Reg(t)] ELSE NONE
  BY <1>t, <1>l, <1>z DEF IInv, TypeOK
<1>e. \A u \in Threads : Entered(u)' = Entered(u)
  <2>1. Entered(t) = level[t] - 1
    BY <1>t DEF Entered
  <2>2. Entered(t)' = level'[t]
    BY <1>c DEF Entered
  <2>3. \A u \in Threads \ {t} : Entered(u)' = Entered(u)
    BY <1>v DEF Entered
  <2> QED BY <1>v, <2>1, <2>2, <2>3
<1>q. \A p \in Processes : registry'[p] # NONE =>
        /\ registry[p] = registry'[p]
        /\ handle'[registry[p]] = handle[registry[p]]
        /\ p # ProcessOf[t] => active'[registry[p]] = active[registry[p]]
        /\ p = ProcessOf[t] => active[Reg(t)] # 1 /\ active'[registry[p]] = active[registry[p]] - 1
  <2> SUFFICES ASSUME NEW p \in Processes, registry'[p] # NONE
               PROVE  /\ registry[p] = registry'[p]
                      /\ handle'[registry[p]] = handle[registry[p]]
                      /\ p # ProcessOf[t] => active'[registry[p]] = active[registry[p]]
                      /\ p = ProcessOf[t] => active[Reg(t)] # 1 /\ active'[registry[p]] = active[registry[p]] - 1
    OBVIOUS
  <2>1. registry[p] = registry'[p] /\ (p = ProcessOf[t] => active[Reg(t)] # 1)
    BY <1>f, <1>l DEF IInv, TypeOK
  <2>2. CASE p = ProcessOf[t]
    BY <1>f, <1>l, <2>1, <2>2 DEF IInv, TypeOK, Reg
  <2>3. CASE p # ProcessOf[t]
    <3>1. registry[p] # Reg(t) /\ registry[p] \in States
      BY <1>f, <2>1, <2>3 DEF IInv, TypeOK, ApartOK, Reg
    <3> QED BY <1>f, <1>l, <2>1, <2>3, <3>1 DEF IInv, TypeOK
  <2> QED BY <2>2, <2>3
<1>TypeOK. TypeOK'
  <2>1. level' \in [Threads -> 0..MaxLevel]
    BY <1>t, <1>s, LockConstants DEF IInv, TypeOK
  <2>2. /\ uses' \in [Threads -> [Levels -> States \cup {NONE}]]
        /\ fd' \in [Threads -> [Levels -> Handles \cup {NONE}]]
        /\ os_locked' \in [Threads -> [Levels -> BOOLEAN]]
    BY <1>f, <1>s DEF IInv, TypeOK
  <2>3. /\ registry' \in [Processes -> States \cup {NONE}]
        /\ handle' \in [States -> Handles \cup {NONE}]
        /\ closing' \in [Threads -> Handles \cup {NONE}]
    BY <1>f, <1>l DEF IInv, TypeOK
  <2>4. pc' \in [Threads -> Steps]
    BY <1>l DEF IInv, TypeOK, Steps
  <2>5. active' \in [States -> Nat]
    <3>1. active' = [active EXCEPT ![Reg(t)] = 0] \/ (active' = [active EXCEPT ![Reg(t)] = active[Reg(t)] - 1] /\ active[Reg(t)] - 1 \in Nat)
      BY <1>l
    <3> QED BY <3>1 DEF IInv, TypeOK
  <2> QED BY <1>s, <2>1, <2>2, <2>3, <2>4, <2>5 DEF IInv, TypeOK
<1>FramesOK. FramesOK'
  <2> SUFFICES ASSUME NEW u \in Threads, NEW m \in Levels
               PROVE  /\ m <= level'[u] => /\ Reg(u)' # NONE
                                           /\ uses'[u][m] = Reg(u)'
                                           /\ fd'[u][m] \in {NONE, handle'[Reg(u)']}
                                           /\ m > 1 => ~os_locked'[u][m]
                      /\ m > level'[u] => uses'[u][m] = NONE /\ fd'[u][m] = NONE /\ ~os_locked'[u][m]
    BY DEF FramesOK, Reg
  <2>1. /\ m <= level[u] => /\ Reg(u) # NONE /\ uses[u][m] = Reg(u)
                            /\ fd[u][m] \in {NONE, handle[Reg(u)]} /\ (m > 1 => ~os_locked[u][m])
        /\ m > level[u] => uses[u][m] = NONE /\ fd[u][m] = NONE /\ ~os_locked[u][m]
    BY DEF IInv, FramesOK
  <2>2. m \in Nat /\ m >= 1 /\ level[u] \in Nat /\ ProcessOf[u] \in Processes
    BY StepFacts, LockConstants DEF IInv, Levels
  <2>5. level'[u] \in Nat
    BY <1>t, <1>v, <2>2
  <2>3. CASE m <= level'[u]
    <3>1. m <= level[u] /\ ~(u = t /\ m = level[t]) /\ level'[u] # 0
      BY <1>t, <1>v, <2>2, <2>3
    <3>2. Reg(u)' # NONE
      <4>1. CASE ProcessOf[u] = ProcessOf[t]
        <5>1. active[Reg(t)] # 1
          BY <1>z, <3>1, <4>1
        <5>2. registry' = registry
          BY <1>l, <5>1
        <5> QED BY <5>2, <2>1, <3>1 DEF Reg
      <4>2. CASE ProcessOf[u] # ProcessOf[t]
        BY <1>f, <1>l, <2>1, <2>2, <3>1, <4>2 DEF IInv, TypeOK, Reg
      <4> QED BY <4>1, <4>2
    <3>3. Reg(u)' = Reg(u) /\ handle'[Reg(u)] = handle[Reg(u)]
      BY <1>q, <2>2, <3>2 DEF Reg
    <3> QED BY <1>w, <2>1, <2>2, <2>3, <2>5, <3>1, <3>2, <3>3
  <2>4. CASE m > level'[u]
    <3>1. CASE u = t /\ m = level[t]
      BY <1>w, <2>2, <2>4, <3>1, <1>v
    <3>2. CASE ~(u = t /\ m = level[t])
      <4>1. m > level[u]
        BY <1>t, <1>v, <2>2, <2>4, <3>2
      <4> QED BY <1>w, <2>1, <2>2, <2>4, <3>2, <4>1, <1>t, <1>v
    <3> QED BY <3>1, <3>2
  <2> QED BY <2>2, <2>3, <2>4, <2>5
<1>CountOK. CountOK'
  <2> SUFFICES ASSUME NEW p \in Processes, registry'[p] # NONE
               PROVE  Users(p)' # {} /\ active'[registry'[p]] = Cardinality(Users(p)')
    BY DEF CountOK
  <2>1. CASE p # ProcessOf[t]
    BY <1>q, <1>a, <2>1 DEF IInv, CountOK
  <2>2. CASE p = ProcessOf[t]
    <3>1. registry'[p] = Reg(t) /\ active[Reg(t)] # 1 /\ active'[Reg(t)] = active[Reg(t)] - 1
      BY <1>q, <2>2 DEF Reg
    <3> QED BY <1>a, <2>2, <3>1
  <2> QED BY <2>1, <2>2
<1>ApartOK. ApartOK'
  BY <1>q DEF IInv, ApartOK
<1>StepsOK. StepsOK'
  <2>1. \A u \in Threads \ {t} : depth'[u] = depth[u]
    BY <1>s
  <2>2. /\ pc'[t] \in {"idle", "close"} <=> level'[t] = 0
        /\ pc'[t] \notin {"local", "unregister", "os"}
        /\ depth'[t] = level'[t]
        /\ pc'[t] = "close" <=> closing'[t] # NONE
    BY <1>t, <1>s, <1>v, <1>c, <1>z
  <2> QED BY <1>v, <2>1, <2>2 DEF IInv, StepsOK
<1>LocalOK. LocalOK'
  BY <1>s, <1>q DEF IInv, LocalOK
<1>HandlesOK. HandlesOK'
  <2>1. \A p \in Processes :
          registry'[p] # NONE /\ handle'[registry'[p]] # NONE =>
            /\ handle'[registry'[p]] \in open
            /\ \A u \in Threads : closing'[u] # handle'[registry'[p]]
    <3> SUFFICES ASSUME NEW p \in Processes, registry'[p] # NONE, handle'[registry'[p]] # NONE
                 PROVE  /\ handle'[registry'[p]] \in open
                        /\ \A u \in Threads : closing'[u] # handle'[registry'[p]]
      OBVIOUS
    <3>1. /\ registry[p] # NONE /\ handle[registry[p]] # NONE
          /\ handle'[registry'[p]] = handle[registry[p]]
          /\ p = ProcessOf[t] => active[Reg(t)] # 1
      BY <1>q
    <3>2. closing'[t] # handle[registry[p]]
      BY <1>c, <1>f, <3>1 DEF IInv, ApartOK, Reg
    <3> QED BY <1>v, <3>1, <3>2 DEF IInv, HandlesOK
  <2>2. \A u \in Threads : closing'[u] # NONE =>
          closing'[u] \in open /\ \A x \in Threads : closing'[x] = closing'[u] => x = u
    <3>1. closing'[t] # NONE => closing'[t] = handle[Reg(t)]
      BY <1>c
    <3>2. closing'[t] # NONE => closing'[t] \in open /\ \A x \in Threads : closing[x] # closing'[t]
      BY <3>1, <1>f DEF IInv, HandlesOK, Reg
    <3> QED BY <1>v, <3>2 DEF IInv, HandlesOK
  <2>3. \A g \in open :
          \/ \E u \in Threads : closing'[u] = g
          \/ \E p \in Processes : registry'[p] # NONE /\ handle'[registry'[p]] = g
    <3> SUFFICES ASSUME NEW g \in open, \A u \in Threads : closing'[u] # g
                 PROVE  \E p \in Processes : registry'[p] # NONE /\ handle'[registry'[p]] = g
      OBVIOUS
    <3>0. g # NONE
      BY LockConstants DEF IInv, TypeOK
    <3>1. \A u \in Threads : closing[u] # g
      BY <1>t, <1>v, <3>0
    <3>2. PICK p \in Processes : registry[p] # NONE /\ handle[registry[p]] = g
      BY <3>1 DEF IInv, HandlesOK
    <3>3. p = ProcessOf[t] => active[Reg(t)] # 1
      BY <1>c, <3>2 DEF Reg
    <3>4. registry'[p] # NONE
      BY <1>l, <3>2, <3>3 DEF IInv, TypeOK
    <3> QED BY <1>q, <3>2, <3>4
  <2>4. \A u \in Threads : pc'[u] = "os" \/ Inside(u) =>
          fd'[u][1] # NONE /\ fd'[u][1] = handle'[Reg(u)']
    <3> SUFFICES ASSUME NEW u \in Threads, pc'[u] = "os" \/ Inside(u)
                 PROVE  fd'[u][1] # NONE /\ fd'[u][1] = handle'[Reg(u)']
      OBVIOUS
    <3>1. pc[u] = "os" \/ Inside(u)
      BY <1>c, <1>v
    <3>2. u = t => level[t] # 1
      BY <1>t, <3>1 DEF Inside, Entered
    <3>3. level'[u] # 0 /\ level'[u] \in Nat /\ ProcessOf[u] \in Processes
      BY <1>t, <1>v, <3>1, <3>2, StepFacts, LockConstants DEF IInv
    <3>4. Reg(u)' # NONE
      BY <1>f, <1>FramesOK, <3>3 DEF FramesOK, Levels
    <3>5. Reg(u)' = Reg(u) /\ handle'[Reg(u)] = handle[Reg(u)]
      BY <1>q, <3>3, <3>4 DEF Reg
    <3>6. fd[u][1] # NONE /\ fd[u][1] = handle[Reg(u)]
      BY <3>1 DEF IInv, HandlesOK
    <3> QED BY <1>f, <1>w, <3>2, <3>5, <3>6
  <2>5. \A u \in Threads : Inside(u)' <=> Inside(u)
    BY <1>e DEF Inside
  <2> QED BY <1>s, <2>1, <2>2, <2>3, <2>4, <2>5 DEF HandlesOK
<1>OsOK. OsOK'
  <2>1. \A u \in Threads : Inside(u) => fd'[u][1] = fd[u][1] /\ os_locked'[u][1] = os_locked[u][1]
    BY <1>t, <1>f, <1>w DEF Inside, Entered
  <2> QED BY <1>s, <1>e, <2>1 DEF IInv, OsOK, Inside
<1> QED
  BY <1>TypeOK, <1>FramesOK, <1>CountOK, <1>ApartOK, <1>StepsOK, <1>LocalOK, <1>HandlesOK, <1>OsOK DEF IInv

\* A process that dies takes its own handles, and only those: the OS lock is
\* freed exactly when a thread of it was inside.
LEMMA ProcessDiesKeeps ==
  ASSUME IInv, NEW p \in Processes, ProcessDies(p)
  PROVE  IInv'
<1>s. /\ \A u \in Threads : ProcessOf[u] = p =>
           /\ pc'[u] = "idle" /\ level'[u] = 0 /\ depth'[u] = 0 /\ closing'[u] = NONE
           /\ \A n \in Levels : uses'[u][n] = NONE /\ fd'[u][n] = NONE /\ ~os_locked'[u][n]
      /\ \A u \in Threads : ProcessOf[u] # p =>
           /\ pc'[u] = pc[u] /\ level'[u] = level[u] /\ depth'[u] = depth[u] /\ closing'[u] = closing[u]
           /\ uses'[u] = uses[u] /\ fd'[u] = fd[u] /\ os_locked'[u] = os_locked[u]
  BY DEF ProcessDies
<1>o. /\ open' = open \ HandlesOf(p)
      /\ os' = IF os \in HandlesOf(p) THEN NONE ELSE os
  BY DEF ProcessDies
<1>q. \A k \in Processes : registry'[k] # NONE =>
        /\ k # p /\ registry[k] = registry'[k] /\ registry[k] # registry[p] /\ registry[k] \in States
        /\ owner'[registry[k]] = owner[registry[k]] /\ count'[registry[k]] = count[registry[k]]
        /\ handle'[registry[k]] = handle[registry[k]] /\ active'[registry[k]] = active[registry[k]]
  <2> SUFFICES ASSUME NEW k \in Processes, registry'[k] # NONE
               PROVE  k # p /\ registry[k] = registry'[k] /\ registry[k] # registry[p] /\ registry[k] \in States
    BY DEF ProcessDies
  <2> QED BY DEF ProcessDies, IInv, TypeOK, ApartOK
<1>r. \A k \in Processes : k # p => registry'[k] = registry[k]
  BY DEF ProcessDies, IInv, TypeOK
<1>h. \A k \in Processes : k # p /\ registry[k] # NONE => handle[registry[k]] \notin HandlesOf(p)
  <2> SUFFICES ASSUME NEW k \in Processes, k # p, registry[k] # NONE, handle[registry[k]] \in HandlesOf(p)
               PROVE  FALSE
    OBVIOUS
  <2>1. handle[registry[k]] # NONE
    BY LockConstants DEF HandlesOf
  <2> QED BY <2>1 DEF HandlesOf, IInv, ApartOK, HandlesOK
<1>c. \A u \in Threads : ProcessOf[u] # p => closing[u] \notin HandlesOf(p)
  <2> SUFFICES ASSUME NEW u \in Threads, ProcessOf[u] # p, closing[u] \in HandlesOf(p)
               PROVE  FALSE
    OBVIOUS
  <2>1. closing[u] # NONE
    BY LockConstants DEF HandlesOf
  <2> QED BY <2>1 DEF HandlesOf, IInv, HandlesOK
<1>u. \A u \in Threads : ProcessOf[u] # p /\ (pc[u] = "os" \/ Inside(u)) =>
        /\ Reg(u) # NONE /\ Reg(u)' = Reg(u) /\ handle'[Reg(u)] = handle[Reg(u)]
        /\ handle[Reg(u)] \notin HandlesOf(p)
  <2> SUFFICES ASSUME NEW u \in Threads, ProcessOf[u] # p, pc[u] = "os" \/ Inside(u)
               PROVE  /\ Reg(u) # NONE /\ Reg(u)' = Reg(u) /\ handle'[Reg(u)] = handle[Reg(u)]
                      /\ handle[Reg(u)] \notin HandlesOf(p)
    OBVIOUS
  <2>1. Reg(u) # NONE /\ ProcessOf[u] \in Processes
    BY StepFacts, TopFacts DEF IInv
  <2> QED BY <1>q, <1>r, <1>h, <2>1 DEF Reg
<1>TypeOK. TypeOK'
  <2>1. /\ registry' \in [Processes -> States \cup {NONE}]
        /\ owner' \in [States -> Threads \cup {NONE}] /\ handle' \in [States -> Handles \cup {NONE}]
    BY DEF IInv, TypeOK, ProcessDies
  <2>2. count' \in [States -> Nat] /\ active' \in [States -> Nat]
    BY DEF IInv, TypeOK, ProcessDies
  <2>3. open' \in SUBSET Handles /\ os' \in Handles \cup {NONE}
    BY <1>o DEF IInv, TypeOK
  <2>4. level' \in [Threads -> 0..MaxLevel] /\ depth' \in [Threads -> Nat]
    BY LockConstants DEF IInv, TypeOK, ProcessDies
  <2>5. pc' \in [Threads -> Steps]
    BY DEF IInv, TypeOK, ProcessDies, Steps
  <2>6. /\ uses' \in [Threads -> [Levels -> States \cup {NONE}]]
        /\ fd' \in [Threads -> [Levels -> Handles \cup {NONE}]]
        /\ os_locked' \in [Threads -> [Levels -> BOOLEAN]]
        /\ closing' \in [Threads -> Handles \cup {NONE}]
    BY DEF IInv, TypeOK, ProcessDies
  <2> QED BY <2>1, <2>2, <2>3, <2>4, <2>5, <2>6 DEF TypeOK
<1>FramesOK. FramesOK'
  <2> SUFFICES ASSUME NEW u \in Threads, NEW m \in Levels
               PROVE  /\ m <= level'[u] => /\ Reg(u)' # NONE
                                           /\ uses'[u][m] = Reg(u)'
                                           /\ fd'[u][m] \in {NONE, handle'[Reg(u)']}
                                           /\ m > 1 => ~os_locked'[u][m]
                      /\ m > level'[u] => uses'[u][m] = NONE /\ fd'[u][m] = NONE /\ ~os_locked'[u][m]
    BY DEF FramesOK, Reg
  <2>1. CASE ProcessOf[u] = p
    <3>1. ~(m <= level'[u])
      BY <1>s, <2>1 DEF Levels
    <3> QED BY <1>s, <2>1, <3>1
  <2>2. CASE ProcessOf[u] # p
    <3>1. Reg(u) # NONE => Reg(u)' = Reg(u) /\ handle'[Reg(u)] = handle[Reg(u)]
      BY <1>q, <1>r, <2>2, LockConstants DEF Reg
    <3> QED BY <1>s, <2>2, <3>1 DEF IInv, FramesOK
  <2> QED BY <2>1, <2>2
<1>CountOK. CountOK'
  <2> SUFFICES ASSUME NEW k \in Processes, registry'[k] # NONE
               PROVE  Users(k)' # {} /\ active'[registry'[k]] = Cardinality(Users(k)')
    BY DEF CountOK
  <2>1. Users(k)' = Users(k)
    BY <1>s, <1>q DEF Users
  <2> QED BY <1>q, <2>1 DEF IInv, CountOK
<1>ApartOK. ApartOK'
  BY <1>q DEF IInv, ApartOK
<1>StepsOK. StepsOK'
  BY <1>s DEF IInv, StepsOK
<1>LocalOK. LocalOK'
  <2> SUFFICES ASSUME NEW k \in Processes, registry'[k] # NONE
               PROVE  /\ owner'[registry'[k]] = NONE => count'[registry'[k]] = 0
                      /\ owner'[registry'[k]] # NONE =>
                           /\ ProcessOf[owner'[registry'[k]]] = k
                           /\ depth'[owner'[registry'[k]]] > 0
                           /\ count'[registry'[k]] = depth'[owner'[registry'[k]]]
                      /\ \A u \in Threads :
                           ProcessOf[u] = k /\ depth'[u] > 0 => owner'[registry'[k]] = u
    BY DEF LocalOK
  <2>1. owner[registry[k]] \in Threads \cup {NONE}
    BY <1>q DEF IInv, TypeOK
  <2> QED BY <1>s, <1>q, <2>1 DEF IInv, LocalOK
<1>HandlesOK. HandlesOK'
  <2>1. \A k \in Processes :
          registry'[k] # NONE /\ handle'[registry'[k]] # NONE =>
            /\ handle'[registry'[k]] \in open'
            /\ \A u \in Threads : closing'[u] # handle'[registry'[k]]
    BY <1>s, <1>o, <1>q, <1>h DEF IInv, HandlesOK
  <2>2. \A u \in Threads : closing'[u] # NONE =>
          closing'[u] \in open' /\ \A x \in Threads : closing'[x] = closing'[u] => x = u
    BY <1>s, <1>o, <1>c DEF IInv, HandlesOK
  <2>3. \A g \in open' :
          \/ \E u \in Threads : closing'[u] = g
          \/ \E k \in Processes : registry'[k] # NONE /\ handle'[registry'[k]] = g
    <3> SUFFICES ASSUME NEW g \in open', \A u \in Threads : closing'[u] # g
                 PROVE  \E k \in Processes : registry'[k] # NONE /\ handle'[registry'[k]] = g
      OBVIOUS
    <3>1. g \in open /\ g \notin HandlesOf(p) /\ g \in Handles
      BY <1>o DEF IInv, TypeOK
    <3>2. \A u \in Threads : closing[u] # g
      BY <1>s, <3>1 DEF HandlesOf
    <3>3. PICK k \in Processes : registry[k] # NONE /\ handle[registry[k]] = g
      BY <3>1, <3>2 DEF IInv, HandlesOK
    <3>4. k # p
      BY <3>1, <3>3 DEF HandlesOf
    <3> QED BY <1>q, <1>r, <3>3, <3>4
  <2>4. \A u \in Threads : pc'[u] = "os" \/ Inside(u)' =>
          fd'[u][1] # NONE /\ fd'[u][1] = handle'[Reg(u)']
    <3> SUFFICES ASSUME NEW u \in Threads, pc'[u] = "os" \/ Entered(u)' > 0
                 PROVE  fd'[u][1] # NONE /\ fd'[u][1] = handle'[Reg(u)']
      BY DEF Inside
    <3>1. ProcessOf[u] # p
      BY <1>s DEF Entered
    <3>2. pc[u] = "os" \/ Inside(u)
      BY <1>s, <3>1 DEF Inside, Entered
    <3>3. fd[u][1] # NONE /\ fd[u][1] = handle[Reg(u)]
      BY <3>2 DEF IInv, HandlesOK
    <3> QED BY <1>s, <1>u, <3>1, <3>2, <3>3
  <2> QED BY <2>1, <2>2, <2>3, <2>4 DEF HandlesOK
<1>OsOK. OsOK'
  <2>1. ASSUME NEW u \in Threads, Inside(u)'
        PROVE  os' = fd'[u][1] /\ os_locked'[u][1]
    <3>0. Entered(u)' > 0
      BY <2>1 DEF Inside
    <3>a. ProcessOf[u] # p /\ Inside(u)
      BY <1>s, <3>0 DEF Inside, Entered
    <3>1. ProcessOf[u] # p /\ Inside(u) /\ os = fd[u][1] /\ os_locked[u][1] /\ os = handle[Reg(u)]
      BY <3>a DEF IInv, OsOK, HandlesOK
    <3> QED BY <1>s, <1>o, <1>u, <3>1
  <2>2. ASSUME os' # NONE
        PROVE  \E u \in Threads : Inside(u)' /\ fd'[u][1] = os'
    <3>1. os # NONE /\ os' = os /\ os \notin HandlesOf(p) /\ os \in Handles
      BY <1>o, <2>2 DEF IInv, TypeOK
    <3>2. PICK u \in Threads : Inside(u) /\ fd[u][1] = os
      BY <3>1 DEF IInv, OsOK
    <3>3. os = handle[Reg(u)] /\ Reg(u) # NONE
      BY <3>2, StepFacts, TopFacts DEF IInv, HandlesOK
    <3>4. ProcessOf[u] # p
      BY <3>1, <3>3 DEF HandlesOf, Reg
    <3>5. Entered(u)' > 0
      BY <1>s, <3>2, <3>4 DEF Inside, Entered
    <3> QED BY <1>s, <3>1, <3>2, <3>4, <3>5 DEF Inside
  <2> QED BY <2>1, <2>2 DEF OsOK
<1> QED
  BY <1>TypeOK, <1>FramesOK, <1>CountOK, <1>ApartOK, <1>StepsOK, <1>LocalOK, <1>HandlesOK, <1>OsOK DEF IInv

\* At the start nobody is in a call.
LEMMA InitKeeps == Init => IInv
<1> SUFFICES ASSUME Init PROVE IInv
  OBVIOUS
<1>1. TypeOK
  BY LockConstants DEF Init, TypeOK, Steps
<1>2. \A t \in Threads : level[t] = 0 /\ ~Inside(t) /\ pc[t] = "idle"
  BY DEF Init, Inside, Entered
<1>3. FramesOK
  <2>1. \A n \in Levels : ~(n <= 0)
    BY DEF Levels
  <2> QED BY <2>1 DEF Init, FramesOK
<1>4. CountOK /\ ApartOK /\ LocalOK
  BY DEF Init, CountOK, ApartOK, LocalOK
<1>5. StepsOK
  BY DEF Init, StepsOK
<1>6. HandlesOK
  BY <1>2 DEF Init, HandlesOK
<1>7. OsOK
  BY <1>2 DEF Init, OsOK
<1> QED BY <1>1, <1>3, <1>4, <1>5, <1>6, <1>7 DEF IInv

\* Nothing changes.
LEMMA StutterKeeps == IInv /\ UNCHANGED vars => IInv'
<1> SUFFICES ASSUME IInv, UNCHANGED vars PROVE IInv'
  OBVIOUS
<1>1. TypeOK'
  BY DEF IInv, TypeOK, vars, fields, locals
<1>2. FramesOK'
  BY FramesStay DEF IInv, vars, fields
<1>3. CountOK' /\ ApartOK'
  BY DEF IInv, CountOK, ApartOK, Users, vars, fields
<1>4. StepsOK' /\ LocalOK'
  BY DEF IInv, StepsOK, LocalOK, vars, fields
<1>5. HandlesOK'
  BY DEF IInv, HandlesOK, Reg, Inside, Entered, vars, fields, locals
<1>6. OsOK'
  BY DEF IInv, OsOK, Inside, Entered, vars, fields, locals
<1> QED BY <1>1, <1>2, <1>3, <1>4, <1>5, <1>6 DEF IInv

\* Every step of a thread and the death of a process keep the invariant.
LEMMA NextKeeps == IInv /\ [Next]_vars => IInv'
<1> SUFFICES ASSUME IInv, [Next]_vars PROVE IInv'
  OBVIOUS
<1>1. ASSUME NEW t \in Threads, Step(t) PROVE IInv'
  BY <1>1, RegisterKeeps, AcquireLocalKeeps, LocalTimesOutKeeps, OsLockHandleForKeeps,
     OpenFailsKeeps, AcquireOsKeeps, OsLockFailsKeeps, LeaveBodyKeeps, ReleaseLocalKeeps,
     UnregisterKeeps, CloseKeeps DEF Step
<1>2. ASSUME NEW p \in Processes, ProcessDies(p) PROVE IInv'
  BY <1>2, ProcessDiesKeeps
<1> QED BY <1>1, <1>2, StutterKeeps DEF Next

-----------------------------------------------------------------------------
(* The theorems.                                                           *)

\* IInv is an invariant of interprocess_file_lock.
THEOREM Invariance == Spec => []IInv
BY InitKeeps, NextKeeps, PTL DEF Spec

\* The registry, the states and the stacks of interprocess_lock.py keep their types.
THEOREM TypeCorrect == Spec => []TypeOK
<1>1. IInv => TypeOK BY DEF IInv
<1> QED BY <1>1, Invariance, PTL

\* Two threads are never inside the lock at once, of one process or of two.
THEOREM MutualExclusion ==
  Spec => [](\A t, u \in Threads : Inside(t) /\ Inside(u) => t = u)
<1>1. IInv => \A t, u \in Threads : Inside(t) /\ Inside(u) => t = u
  BY MutexHolds
<1> QED BY <1>1, Invariance, PTL

\* A thread inside has the OS lock, with the open handle its process shares, from
\* the first body to the end of the last (LockHeld).
THEOREM AlwaysHeld == Spec => []LockHeld
<1>1. ASSUME IInv PROVE LockHeld
  <2> SUFFICES ASSUME NEW t \in Threads, Inside(t)
               PROVE  /\ os \in open
                      /\ os = fd[t][1]
                      /\ registry[ProcessOf[t]] # NONE
                      /\ os = handle[registry[ProcessOf[t]]]
    BY DEF LockHeld
  <2>1. Reg(t) # NONE /\ ProcessOf[t] \in Processes
    BY <1>1, StepFacts, TopFacts DEF IInv
  <2>2. os = fd[t][1] /\ fd[t][1] # NONE /\ fd[t][1] = handle[Reg(t)]
    BY <1>1 DEF IInv, OsOK, HandlesOK
  <2>3. os \in open
    BY <1>1, <2>1, <2>2 DEF IInv, HandlesOK, Reg
  <2> QED BY <2>1, <2>2, <2>3 DEF Reg
<1> QED BY <1>1, Invariance, PTL

\* A process out of all its calls keeps no state, and every open handle is one
\* that will be closed (NothingLeaks).
THEOREM NoLeak == Spec => []NothingLeaks
<1>1. ASSUME IInv PROVE NothingLeaks
  <2>1. ASSUME NEW p \in Processes, \A t \in Threads : ProcessOf[t] = p => pc[t] = "idle"
        PROVE  registry[p] = NONE
    <3>1. \A t \in Threads : ProcessOf[t] = p => level[t] = 0
      BY <1>1, <2>1 DEF IInv, StepsOK
    <3>2. Users(p) = {}
      BY <1>1, <3>1, UsersNone DEF IInv
    <3> QED BY <1>1, <3>2 DEF IInv, CountOK
  <2>2. ASSUME os # NONE PROVE os \in open
    <3>1. PICK t \in Threads : Inside(t) /\ fd[t][1] = os
      BY <1>1, <2>2 DEF IInv, OsOK
    <3>2. Reg(t) # NONE /\ ProcessOf[t] \in Processes
      BY <1>1, <3>1, StepFacts, TopFacts DEF IInv
    <3> QED BY <1>1, <2>2, <3>1, <3>2 DEF IInv, HandlesOK, Reg
  <2> QED BY <1>1, <2>1, <2>2 DEF NothingLeaks, IInv, HandlesOK
<1> QED BY <1>1, Invariance, PTL

-----------------------------------------------------------------------------
(* The refinement.                                                         *)

Held == [t \in Threads |-> Entered(t)]

\* A step of a thread enters or leaves one body of that thread, or none.
LEMMA StepHeld ==
  ASSUME IInv, NEW t \in Threads, Step(t)
  PROVE  /\ \A u \in Threads \ {t} : Entered(u)' = Entered(u)
         /\ \/ Entered(t)' = Entered(t)
            \/ Entered(t)' = Entered(t) + 1 /\ \A u \in Threads \ {t} : Entered(u) = 0
            \/ Entered(t) > 0 /\ Entered(t)' = Entered(t) - 1
<1>0. /\ level[t] \in Nat
      /\ pc[t] \in {"handle", "os", "in", "leave", "local", "unregister"} => level[t] > 0
      /\ pc[t] = "handle" => depth[t] = level[t]
      /\ pc[t] \in {"idle", "close"} => level[t] = 0
      /\ pc[t] = "os" => level[t] = 1
      /\ pc[t] \in Steps
  BY StepFacts DEF IInv
<1>n. \A u \in Threads : Entered(u) \in Nat
  <2> SUFFICES ASSUME NEW u \in Threads PROVE Entered(u) \in Nat
    OBVIOUS
  <2>1. /\ level[u] \in Nat /\ pc[u] \in Steps
        /\ pc[u] \in {"local", "handle", "os", "in", "leave", "unregister"} => level[u] > 0
    BY StepFacts DEF IInv
  <2> QED BY <2>1 DEF Entered, Steps
<1>1. CASE Register(t)
  BY <1>1, <1>0 DEF Register, Entered, IInv, TypeOK
<1>2. CASE AcquireLocal(t)
  BY <1>2, <1>0 DEF AcquireLocal, Entered, IInv, TypeOK
<1>3. CASE LocalTimesOut(t)
  BY <1>3, <1>0 DEF LocalTimesOut, Entered, IInv, TypeOK
<1>4. CASE OsLockHandleFor(t)
  <2>1. /\ pc[t] = "handle" /\ level' = level /\ level[t] > 0
        /\ pc' = [pc EXCEPT ![t] = IF level[t] = 1 THEN "os" ELSE "in"]
    BY <1>4, <1>0 DEF OsLockHandleFor, AfterHandle
  <2>2. CASE level[t] = 1
    BY <1>0, <2>1, <2>2 DEF Entered, IInv, TypeOK
  <2>3. CASE level[t] # 1
    <3>1. Entered(t)' = Entered(t) + 1 /\ \A u \in Threads \ {t} : Entered(u)' = Entered(u)
      BY <1>0, <2>1, <2>3 DEF Entered, IInv, TypeOK
    <3>2. Inside(t)
      BY <1>0, <2>1, <2>3 DEF Entered, Inside
    <3>3. \A u \in Threads \ {t} : ~Inside(u)
      BY <3>2, MutexHolds
    <3> QED BY <1>n, <3>1, <3>3 DEF Inside
  <2> QED BY <2>2, <2>3
<1>5. CASE OpenFails(t)
  BY <1>5, <1>0 DEF OpenFails, Entered, IInv, TypeOK
<1>6. CASE AcquireOs(t)
  <2>1. Entered(t) = 0 /\ Entered(t)' = 1 /\ \A u \in Threads \ {t} : Entered(u)' = Entered(u)
    BY <1>6, <1>0 DEF AcquireOs, Entered, IInv, TypeOK
  <2>2. \A u \in Threads : ~Inside(u)
    BY <1>6, OsFree
  <2> QED BY <1>n, <2>1, <2>2 DEF Inside
<1>7. CASE OsLockFails(t)
  BY <1>7, <1>0 DEF OsLockFails, Entered, IInv, TypeOK
<1>8. CASE LeaveBody(t)
  BY <1>8, <1>0 DEF LeaveBody, Entered, IInv, TypeOK
<1>9. CASE ReleaseLocal(t)
  BY <1>9, <1>0 DEF ReleaseLocal, Entered, IInv, TypeOK
<1>10. CASE Unregister(t)
  <2>1. /\ pc[t] = "unregister" /\ level' = [level EXCEPT ![t] = level[t] - 1]
        /\ \E c \in {"close", "in", "idle"} : pc' = [pc EXCEPT ![t] = c]
    BY <1>10 DEF Unregister
  <2> QED BY <1>0, <2>1 DEF Entered, IInv, TypeOK
<1>11. CASE Close(t)
  BY <1>11, <1>0 DEF Close, Entered, IInv, TypeOK
<1> QED BY <1>1, <1>2, <1>3, <1>4, <1>5, <1>6, <1>7, <1>8, <1>9, <1>10, <1>11 DEF Step

\* interprocess_file_lock implements the reentrant lock of FileLock: every step
\* enters one body while nobody else is in one, leaves one, or changes nothing
\* that a caller sees; a dying process leaves all of its own.
THEOREM Refinement == Spec => ImplementsFileLock
<1>1. Init => Promise!FileLockInit
  <2> SUFFICES ASSUME Init PROVE Held = [t \in Threads |-> 0]
    BY DEF Promise!FileLockInit, Held
  <2> QED BY DEF Init, Held, Entered
<1>2. ASSUME IInv, [Next]_vars PROVE [Promise!FileLockNext]_Held
  <2>1. CASE UNCHANGED vars
    BY <2>1 DEF vars, Held, Entered
  <2>2. ASSUME NEW t \in Threads, Step(t) PROVE [Promise!FileLockNext]_Held
    <3>0. /\ Held \in [Threads -> {Entered(u) : u \in Threads}]
          /\ \A u \in Threads : Held[u] = Entered(u) /\ Held'[u] = Entered(u)'
          /\ Held' = [u \in Threads |-> Entered(u)']
      BY DEF Held
    <3>1. \A u \in Threads \ {t} : Entered(u)' = Entered(u)
      BY <1>2, <2>2, StepHeld
    <3>2. CASE Entered(t)' = Entered(t)
      BY <3>1, <3>2 DEF Held
    <3>3. CASE Entered(t)' = Entered(t) + 1 /\ \A u \in Threads \ {t} : Entered(u) = 0
      <4>1. Held' = [Held EXCEPT ![t] = Held[t] + 1]
        BY <3>0, <3>1, <3>3 DEF Held
      <4>2. Promise!Enter(t)
        BY <3>0, <3>3, <4>1 DEF Promise!Enter, Held
      <4> QED BY <4>2 DEF Promise!FileLockNext
    <3>4. CASE Entered(t) > 0 /\ Entered(t)' = Entered(t) - 1
      <4>1. Held' = [Held EXCEPT ![t] = Held[t] - 1]
        BY <3>0, <3>1, <3>4 DEF Held
      <4>2. Promise!Leave(t)
        BY <3>0, <3>4, <4>1 DEF Promise!Leave, Held
      <4> QED BY <4>2 DEF Promise!FileLockNext
    <3> QED BY <1>2, <2>2, <3>2, <3>3, <3>4, StepHeld
  <2>3. ASSUME NEW p \in Processes, ProcessDies(p) PROVE [Promise!FileLockNext]_Held
    <3>1. \A u \in Threads : Entered(u)' = IF ProcessOf[u] = p THEN 0 ELSE Entered(u)
      BY <2>3 DEF ProcessDies, Entered
    <3>2. Promise!Die(p)
      BY <3>1 DEF Promise!Die, Held
    <3> QED BY <3>2 DEF Promise!FileLockNext
  <2> QED BY <1>2, <2>1, <2>2, <2>3 DEF Next
<1> QED BY <1>1, <1>2, Invariance, PTL DEF Spec, ImplementsFileLock, Promise!FileLockSpec, Held
=============================================================================
