-------------------------- MODULE InterprocessLock --------------------------
(***************************************************************************)
(* core/interprocess_lock.py: the lock on one file, between the threads of *)
(* a process and between processes.                                        *)
(*                                                                         *)
(* A process keeps one _LocalLockState per lock file while any of its      *)
(* threads is in a call (registry): its RLock (owner, count), the shared   *)
(* file handle, and the number of calls that use it (active).  The last    *)
(* call to leave closes the handle and drops the state.  The lock of the   *)
(* operating system belongs to an open handle (os) and ends when the       *)
(* handle is closed or its process dies.                                   *)
(*                                                                         *)
(* A thread may call again from inside the body: level[t] calls are on its *)
(* stack, uses, fd and os_locked hold the local variables of each, and     *)
(* depth[t] is the thread-local count of calls past the RLock.             *)
(***************************************************************************)
EXTENDS Naturals, FiniteSets

CONSTANTS
  Threads, Processes,
  ProcessOf,          \* the process of a thread
  Timed,              \* the threads whose calls pass timeout_seconds
  States, Handles,    \* identities of the _LocalLockState and handle objects
  MaxLevel,           \* bound: calls on a thread's stack
  NONE

ASSUME LockConstants ==
  /\ IsFiniteSet(Threads)
  /\ ProcessOf \in [Threads -> Processes]
  /\ Timed \subseteq Threads
  /\ MaxLevel \in Nat \ {0}
  /\ NONE \notin Threads \cup States \cup Handles

VARIABLES
  registry,   \* _LOCAL_STATES of each process
  owner, count, handle, active,   \* the fields of the _LocalLockState objects
  open,       \* the handles that are open
  os,         \* the handle that holds the lock of the operating system
  pc, level, depth,
  uses, fd, os_locked,   \* the state, handle and os_locked of each call on a stack
  closing     \* the handle a thread took out of its state to close it

fields == <<owner, count, handle, active>>
locals == <<uses, fd, os_locked>>
vars == <<registry, fields, open, os, pc, level, depth, locals, closing>>

Levels == 1..MaxLevel

Steps == {"idle", "local", "handle", "os", "in", "leave", "unregister", "close"}

(* The state and the handle of the call on top of a thread's stack.        *)
MyState(t) == uses[t][level[t]]
MyHandle(t) == fd[t][level[t]]

(* The bodies a thread is inside.                                          *)
Entered(t) ==
  IF pc[t] \in {"idle", "in", "close"} THEN level[t] ELSE level[t] - 1

Inside(t) == Entered(t) > 0

Init ==
  /\ registry = [p \in Processes |-> NONE]
  /\ owner = [s \in States |-> NONE]
  /\ count = [s \in States |-> 0]
  /\ handle = [s \in States |-> NONE]
  /\ active = [s \in States |-> 0]
  /\ open = {}
  /\ os = NONE
  /\ pc = [t \in Threads |-> "idle"]
  /\ level = [t \in Threads |-> 0]
  /\ depth = [t \in Threads |-> 0]
  /\ uses = [t \in Threads |-> [n \in Levels |-> NONE]]
  /\ fd = [t \in Threads |-> [n \in Levels |-> NONE]]
  /\ os_locked = [t \in Threads |-> [n \in Levels |-> FALSE]]
  /\ closing = [t \in Threads |-> NONE]

-----------------------------------------------------------------------------
(* Entering.                                                               *)

(* A new object: nothing refers to it.  Which of the unused identities it  *)
(* gets makes no difference.                                               *)
Unused(s) ==
  /\ \A p \in Processes : registry[p] # s
  /\ \A t \in Threads, n \in Levels : uses[t][n] # s

Unopened(h) ==
  /\ h \notin open
  /\ \A s \in States : handle[s] # h
  /\ \A t \in Threads, n \in Levels : fd[t][n] # h
  /\ \A t \in Threads : closing[t] # h

(* _register_local_state: the state of the process, or a new one.          *)
Register(t) ==
  LET p == ProcessOf[t]
      n == level[t] + 1
  IN /\ pc[t] \in {"idle", "in"}
     /\ n <= MaxLevel
     /\ \E s \in States :
          /\ IF registry[p] = NONE
             THEN /\ Unused(s) /\ s = CHOOSE r \in States : Unused(r)
                  /\ owner' = [owner EXCEPT ![s] = NONE]
                  /\ count' = [count EXCEPT ![s] = 0]
                  /\ handle' = [handle EXCEPT ![s] = NONE]
                  /\ active' = [active EXCEPT ![s] = 1]
             ELSE /\ s = registry[p]
                  /\ active' = [active EXCEPT ![s] = @ + 1]
                  /\ UNCHANGED <<owner, count, handle>>
          /\ registry' = [registry EXCEPT ![p] = s]
          /\ uses' = [uses EXCEPT ![t][n] = s]
     /\ level' = [level EXCEPT ![t] = n]
     /\ pc' = [pc EXCEPT ![t] = "local"]
     /\ UNCHANGED <<open, os, depth, fd, os_locked, closing>>

(* Mutant: the threads of a process are not kept apart.                    *)
AcquireLocalShared(t) ==
  LET s == MyState(t) IN
  /\ pc[t] = "local"
  /\ owner' = [owner EXCEPT ![s] = t]
  /\ count' = [count EXCEPT ![s] = @ + 1]
  /\ depth' = [depth EXCEPT ![t] = @ + 1]
  /\ pc' = [pc EXCEPT ![t] = "handle"]
  /\ UNCHANGED <<registry, handle, active, open, os, level, locals, closing>>

(* local_lock.acquire: an RLock that is free or already the thread's own.  *)
AcquireLocal(t) ==
  LET s == MyState(t) IN
  /\ pc[t] = "local"
  /\ owner[s] \in {NONE, t}
  /\ owner' = [owner EXCEPT ![s] = t]
  /\ count' = [count EXCEPT ![s] = @ + 1]
  /\ depth' = [depth EXCEPT ![t] = @ + 1]
  /\ pc' = [pc EXCEPT ![t] = "handle"]
  /\ UNCHANGED <<registry, handle, active, open, os, level, locals, closing>>

(* Mutant: the timeout forgets _unregister_local_state.                    *)
LocalTimesOutForgets(t) ==
  /\ pc[t] = "local"
  /\ t \in Timed
  /\ owner[MyState(t)] \notin {NONE, t}
  /\ pc' = [pc EXCEPT ![t] = IF level[t] > 1 THEN "in" ELSE "idle"]
  /\ level' = [level EXCEPT ![t] = @ - 1]
  /\ uses' = [uses EXCEPT ![t][level[t]] = NONE]
  /\ UNCHANGED <<registry, fields, open, os, depth, fd, os_locked, closing>>

(* Mutant: the timeout is not passed to the RLock.                         *)
LocalWaits(t) ==
  /\ pc[t] = "local" /\ FALSE
  /\ UNCHANGED vars

(* The RLock stays with another thread for the caller's whole timeout.     *)
LocalTimesOut(t) ==
  /\ pc[t] = "local"
  /\ t \in Timed
  /\ owner[MyState(t)] \notin {NONE, t}
  /\ pc' = [pc EXCEPT ![t] = "unregister"]
  /\ UNCHANGED <<registry, fields, open, os, level, depth, locals, closing>>

(* The handle is in hand: only the outermost call takes the OS lock.       *)
AfterHandle(t) == IF depth[t] = 1 THEN "os" ELSE "in"

(* _os_lock_handle_for: the open handle of the state, or a new one.        *)
OsLockHandleFor(t) ==
  LET s == MyState(t) IN
  /\ pc[t] = "handle"
  /\ \E h \in Handles :
       /\ fd' = [fd EXCEPT ![t][level[t]] = h]
       /\ \/ /\ handle[s] \in open
             /\ h = handle[s]
             /\ UNCHANGED <<handle, open>>
          \/ /\ handle[s] \notin open
             /\ Unopened(h) /\ h = CHOOSE g \in Handles : Unopened(g)
             /\ open' = open \cup {h}
             /\ handle' = [handle EXCEPT ![s] = h]
  /\ pc' = [pc EXCEPT ![t] = AfterHandle(t)]
  /\ UNCHANGED <<registry, owner, count, active, os, level, depth, uses, os_locked, closing>>

(* Mutant: the handle is opened before the try, its failure skips the      *)
(* release of the RLock.                                                   *)
OpenFailsHolding(t) ==
  /\ pc[t] = "handle"
  /\ handle[MyState(t)] \notin open
  /\ pc' = [pc EXCEPT ![t] = "unregister"]
  /\ depth' = [depth EXCEPT ![t] = @ - 1]
  /\ UNCHANGED <<registry, fields, open, os, level, locals, closing>>

(* The file or its directory cannot be opened: the outer finally runs.     *)
OpenFails(t) ==
  /\ pc[t] = "handle"
  /\ handle[MyState(t)] \notin open
  /\ pc' = [pc EXCEPT ![t] = "leave"]
  /\ UNCHANGED <<registry, fields, open, os, level, depth, locals, closing>>

(* _acquire_os_lock: granted while no other handle holds the lock.         *)
AcquireOs(t) ==
  /\ pc[t] = "os"
  /\ MyHandle(t) \in open
  /\ os \in {NONE, MyHandle(t)}
  /\ os' = MyHandle(t)
  /\ os_locked' = [os_locked EXCEPT ![t][level[t]] = TRUE]
  /\ pc' = [pc EXCEPT ![t] = "in"]
  /\ UNCHANGED <<registry, fields, open, level, depth, uses, fd, closing>>

(* The lock stays busy for the whole timeout, or for all the attempts of a *)
(* call without one; a closed handle raises at once.                       *)
OsLockFails(t) ==
  /\ pc[t] = "os"
  /\ os \notin {NONE, MyHandle(t)} \/ MyHandle(t) \notin open
  /\ pc' = [pc EXCEPT ![t] = "leave"]
  /\ UNCHANGED <<registry, fields, open, os, level, depth, locals, closing>>

-----------------------------------------------------------------------------
(* Leaving.                                                                *)

(* Mutant: every call releases the OS lock, not only the one that took it. *)
LeaveBodyReleases(t) ==
  /\ pc[t] = "in"
  /\ level[t] > 0
  /\ os' = IF os = MyHandle(t) THEN NONE ELSE os
  /\ pc' = [pc EXCEPT ![t] = "leave"]
  /\ UNCHANGED <<registry, fields, open, level, depth, locals, closing>>

(* The end of the body: the call that took the OS lock releases it.        *)
LeaveBody(t) ==
  /\ pc[t] = "in"
  /\ level[t] > 0
  /\ os' = IF os_locked[t][level[t]] /\ os = MyHandle(t) THEN NONE ELSE os
  /\ pc' = [pc EXCEPT ![t] = "leave"]
  /\ UNCHANGED <<registry, fields, open, level, depth, locals, closing>>

(* The thread-local depth and the RLock.                                   *)
ReleaseLocal(t) ==
  LET s == MyState(t)
      c == count[s] - 1
  IN /\ pc[t] = "leave"
     /\ depth' = [depth EXCEPT ![t] = IF @ > 1 THEN @ - 1 ELSE 0]
     /\ count' = [count EXCEPT ![s] = c]
     /\ owner' = [owner EXCEPT ![s] = IF c = 0 THEN NONE ELSE @]
     /\ pc' = [pc EXCEPT ![t] = "unregister"]
     /\ UNCHANGED <<registry, handle, active, open, os, level, locals, closing>>

(* _unregister_local_state: the last call takes the handle out of the      *)
(* state and drops the state.                                              *)
Unregister(t) ==
  LET s == MyState(t)
      p == ProcessOf[t]
      n == level[t]
      last == active[s] <= 1
      h == IF last THEN handle[s] ELSE NONE
  IN /\ pc[t] = "unregister"
     /\ active' = [active EXCEPT ![s] = IF last THEN 0 ELSE @ - 1]
     /\ handle' = [handle EXCEPT ![s] = IF last THEN NONE ELSE @]
     /\ registry' = IF last /\ registry[p] = s
                    THEN [registry EXCEPT ![p] = NONE]
                    ELSE registry
     /\ closing' = [closing EXCEPT ![t] = h]
     /\ uses' = [uses EXCEPT ![t][n] = NONE]
     /\ fd' = [fd EXCEPT ![t][n] = NONE]
     /\ os_locked' = [os_locked EXCEPT ![t][n] = FALSE]
     /\ level' = [level EXCEPT ![t] = n - 1]
     /\ pc' = [pc EXCEPT ![t] = IF h # NONE THEN "close"
                                ELSE IF n > 1 THEN "in" ELSE "idle"]
     /\ UNCHANGED <<owner, count, open, os, depth>>

(* handle.close(), outside the guard: a lock the handle holds ends.        *)
Close(t) ==
  /\ pc[t] = "close"
  /\ open' = open \ {closing[t]}
  /\ os' = IF os = closing[t] THEN NONE ELSE os
  /\ closing' = [closing EXCEPT ![t] = NONE]
  /\ pc' = [pc EXCEPT ![t] = IF level[t] > 0 THEN "in" ELSE "idle"]
  /\ UNCHANGED <<registry, fields, level, depth, locals>>

-----------------------------------------------------------------------------
(* The process dies: the operating system closes its handles.              *)
HandlesOf(p) ==
  {h \in Handles :
     \/ registry[p] # NONE /\ handle[registry[p]] = h
     \/ \E t \in Threads : ProcessOf[t] = p /\ closing[t] = h}

ProcessDies(p) ==
  LET Reset(f, v) == [t \in Threads |-> IF ProcessOf[t] = p THEN v ELSE f[t]]
      Gone(f, v) == [s \in States |-> IF s = registry[p] THEN v ELSE f[s]]
  IN /\ \E t \in Threads : ProcessOf[t] = p /\ pc[t] # "idle"
     /\ registry' = [registry EXCEPT ![p] = NONE]
     /\ owner' = Gone(owner, NONE)
     /\ count' = Gone(count, 0)
     /\ handle' = Gone(handle, NONE)
     /\ active' = Gone(active, 0)
     /\ open' = open \ HandlesOf(p)
     /\ os' = IF os \in HandlesOf(p) THEN NONE ELSE os
     /\ pc' = Reset(pc, "idle")
     /\ level' = Reset(level, 0)
     /\ depth' = Reset(depth, 0)
     /\ uses' = Reset(uses, [n \in Levels |-> NONE])
     /\ fd' = Reset(fd, [n \in Levels |-> NONE])
     /\ os_locked' = Reset(os_locked, [n \in Levels |-> FALSE])
     /\ closing' = Reset(closing, NONE)

-----------------------------------------------------------------------------
Step(t) ==
  \/ Register(t)
  \/ AcquireLocal(t) \/ LocalTimesOut(t)
  \/ OsLockHandleFor(t) \/ OpenFails(t)
  \/ AcquireOs(t) \/ OsLockFails(t)
  \/ LeaveBody(t) \/ ReleaseLocal(t) \/ Unregister(t) \/ Close(t)

Next ==
  \/ \E t \in Threads : Step(t)
  \/ \E p \in Processes : ProcessDies(p)

Spec == Init /\ [][Next]_vars

(* A running thread goes on, and a body ends.  A call to a lock that is    *)
(* busy makes no progress of its own; a timed one gives up.  No fairness   *)
(* between waiting threads is assumed: neither RLock nor the lock of the   *)
(* operating system queues them.                                           *)
Onward(t) ==
  \/ OsLockHandleFor(t) \/ AcquireLocal(t) \/ LocalTimesOut(t)
  \/ AcquireOs(t) \/ (t \in Timed /\ OsLockFails(t))
  \/ LeaveBody(t) \/ ReleaseLocal(t) \/ Unregister(t) \/ Close(t)

Fairness == \A t \in Threads : WF_vars(Onward(t))

FairSpec == Spec /\ Fairness

-----------------------------------------------------------------------------
(* Properties.                                                             *)

\* Types of the state of interprocess_lock.py.
TypeOK ==
  /\ registry \in [Processes -> States \cup {NONE}]
  /\ owner \in [States -> Threads \cup {NONE}]
  /\ count \in [States -> Nat]
  /\ handle \in [States -> Handles \cup {NONE}]
  /\ active \in [States -> Nat]
  /\ open \in SUBSET Handles
  /\ os \in Handles \cup {NONE}
  /\ pc \in [Threads -> Steps]
  /\ level \in [Threads -> 0..MaxLevel]
  /\ depth \in [Threads -> Nat]
  /\ uses \in [Threads -> [Levels -> States \cup {NONE}]]
  /\ fd \in [Threads -> [Levels -> Handles \cup {NONE}]]
  /\ os_locked \in [Threads -> [Levels -> BOOLEAN]]
  /\ closing \in [Threads -> Handles \cup {NONE}]

\* From the first body a thread enters to the end of the last, the lock of the
\* operating system stays with an open handle of the thread's process, the one
\* every other call of the process uses: whatever calls nest, time out or fail
\* in between, and whichever thread is the last to unregister.
LockHeld ==
  \A t \in Threads : Inside(t) =>
    /\ os \in open
    /\ os = fd[t][1]
    /\ registry[ProcessOf[t]] # NONE
    /\ os = handle[registry[ProcessOf[t]]]

\* A process with no call in progress keeps no state and no open handle, so the
\* lock it would hold with one is free; an open handle is always one that a
\* call of some process still has to close (_unregister_local_state).
NothingLeaks ==
  /\ \A p \in Processes :
       (\A t \in Threads : ProcessOf[t] = p => pc[t] = "idle")
         => registry[p] = NONE
  /\ \A h \in open :
       \/ \E t \in Threads : closing[t] = h
       \/ \E p \in Processes : registry[p] # NONE /\ handle[registry[p]] = h
  /\ os \in open \cup {NONE}

\* The lock behaves as the reentrant lock of FileLock: interprocess_file_lock
\* (RLock within a process, OS lock between processes) lets a thread into a body only while no other thread is in one, at any level
\* of nesting, and a thread leaves the bodies one at a time or all with its
\* process.
Promise == INSTANCE FileLock WITH held <- [t \in Threads |-> Entered(t)]

ImplementsFileLock == Promise!FileLockSpec

\* A call with a timeout enters its body or returns with TimeoutError.
TimedCallEnds ==
  \A t \in Timed : pc[t] = "local" ~> pc[t] \in {"idle", "in"}

\* The lock is not lost: a thread that waits for it for ever is overtaken for
\* ever, by threads that leave a call or by processes that die.  Nobody keeps
\* the RLock or the lock of the operating system without being in a call.
LockIsServed ==
  \A t \in Threads :
    \/ []<>(pc[t] \notin {"local", "os"})
    \/ []<>(\E u \in Threads \ {t} : pc[u] = "leave")
    \/ []<><<\E p \in Processes : ProcessDies(p)>>_vars
=============================================================================
