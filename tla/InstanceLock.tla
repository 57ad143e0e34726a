---------------------------- MODULE InstanceLock ----------------------------
(***************************************************************************)
(* core/backend_instance_lock.py: the lock on a data root, and the warm    *)
(* handoff from the backend of one site to the backend of another.         *)
(*                                                                         *)
(* Two files carry a lock of the operating system: netconsole-backend.lock *)
(* (main), whose text is the record of its last owner, and                 *)
(* netconsole-backend-transition.lock (transition).  An ordinary start     *)
(* takes both, writes its record and lets transition go.  A warm start     *)
(* names the instance_id Electron read from the record; it keeps           *)
(* transition and serves, and its monitor thread polls main, writes its    *)
(* own record and lets transition go once the old owner has left.  release *)
(* waits at most a second for that thread, so the thread may go on after   *)
(* the backend has let everything go.                                      *)
(*                                                                         *)
(* mine and mine_transition say that self.handle and                       *)
(* self.transition_handle are set; main and transition name the process    *)
(* whose handle holds the lock.  A process that ends frees both.           *)
(***************************************************************************)
EXTENDS Naturals

CONSTANTS
  Backends,       \* processes; one is used again after it has ended
  Sites, NoSite,  \* NoSite: no active site was given
  MaxStarts,      \* bound: processes started
  MaxFailures,    \* bound: opens and writes of the main file that fail
  NONE

ASSUME InstanceConstants ==
  /\ NONE \notin Backends
  /\ NoSite \notin Sites
  /\ MaxStarts \in Nat
  /\ MaxFailures \in Nat

VARIABLES
  main, transition,
  owner_id, owner_site,   \* the record; id 0 when it cannot be read
  issued,                 \* instance ids drawn
  pc,                     \* the thread that calls acquire and release
  monitor,                \* the promotion thread
  stop,                   \* _promotion_stop
  mine, mine_transition,
  taken, taken_transition,  \* the handles release took out of the object
  site, expected,         \* active_site_id, warm_handoff_owner_id (0: none)
  id,                     \* the instance_id a process wrote last (0: none)
  starts, failures

locks == <<main, transition>>
file == <<owner_id, owner_site, issued, id>>
object == <<stop, mine, mine_transition, taken, taken_transition>>
start == <<site, expected>>
bounds == <<starts, failures>>
vars == <<locks, file, pc, monitor, object, start, bounds>>

Holders == Backends \cup {NONE}
AllSites == Sites \cup {NoSite}

Steps == {"out", "begun", "checked", "locked", "truncated", "written", "owned",
          "refused", "serving", "joining", "unlock", "unlock_transition", "released"}
MonitorSteps == {"none", "wait", "try", "locked", "truncated", "written", "handover", "done"}

Serving(b) == pc[b] = "serving"

Init ==
  /\ main = NONE /\ transition = NONE
  /\ owner_id = 0 /\ owner_site = NoSite /\ issued = 0
  /\ pc = [b \in Backends |-> "out"]
  /\ monitor = [b \in Backends |-> "none"]
  /\ stop = [b \in Backends |-> FALSE]
  /\ mine = [b \in Backends |-> FALSE]
  /\ mine_transition = [b \in Backends |-> FALSE]
  /\ taken = [b \in Backends |-> FALSE]
  /\ taken_transition = [b \in Backends |-> FALSE]
  /\ site = [b \in Backends |-> NoSite]
  /\ expected = [b \in Backends |-> 0]
  /\ id = [b \in Backends |-> 0]
  /\ starts = 0 /\ failures = 0

Goto(b, from, to) ==
  /\ pc[b] = from
  /\ pc' = [pc EXCEPT ![b] = to]

MonitorGoto(b, from, to) ==
  /\ monitor[b] = from
  /\ monitor' = [monitor EXCEPT ![b] = to]

-----------------------------------------------------------------------------
(* A process starts.  Which of the processes that are out makes no         *)
(* difference.                                                             *)

Begin(b, s, e) ==
  /\ starts < MaxStarts
  /\ b = CHOOSE c \in Backends : pc[c] = "out"
  /\ Goto(b, "out", "begun")
  /\ starts' = starts + 1
  /\ site' = [site EXCEPT ![b] = s]
  /\ expected' = [expected EXCEPT ![b] = e]
  /\ UNCHANGED <<locks, file, monitor, object, failures>>

Start(b, s) == Begin(b, s, 0)

(* readWarmHandoffOwnerId, then a process for another site.                *)
StartWarm(b, s) ==
  /\ owner_id # 0
  /\ owner_site # NoSite
  /\ s \in Sites \ {owner_site}
  /\ Begin(b, s, owner_id)

-----------------------------------------------------------------------------
(* acquire.                                                                *)

TakeTransition(b) ==
  /\ transition = NONE
  /\ Goto(b, "begun", "checked")
  /\ transition' = b
  /\ UNCHANGED <<main, file, monitor, object, start, bounds>>

(* Some other process holds transition: BackendInstanceInUseError.         *)
TransitionInUse(b) ==
  /\ transition # NONE
  /\ Goto(b, "begun", "released")
  /\ UNCHANGED <<locks, file, monitor, object, start, bounds>>

(* Mutant: any owner will do, not only the one Electron read.              *)
ValidOwnerAnyone(b) ==
  /\ site[b] # NoSite
  /\ owner_site # NoSite

(* _valid_warm_handoff_owner.                                              *)
ValidOwner(b) ==
  /\ site[b] # NoSite
  /\ owner_id = expected[b]
  /\ owner_site # NoSite
  /\ owner_site # site[b]

WarmAccepted(b) ==
  /\ expected[b] # 0
  /\ ValidOwner(b)
  /\ Goto(b, "checked", "serving")
  /\ mine_transition' = [mine_transition EXCEPT ![b] = TRUE]
  /\ monitor' = [monitor EXCEPT ![b] = "wait"]
  /\ UNCHANGED <<locks, file, stop, mine, taken, taken_transition, start, bounds>>

WarmRefused(b) ==
  /\ expected[b] # 0
  /\ ~ValidOwner(b)
  /\ Goto(b, "checked", "refused")
  /\ UNCHANGED <<locks, file, monitor, object, start, bounds>>

LockMain(b) ==
  /\ expected[b] = 0
  /\ main = NONE
  /\ Goto(b, "checked", "locked")
  /\ main' = b
  /\ UNCHANGED <<transition, file, monitor, object, start, bounds>>

MainInUse(b) ==
  /\ expected[b] = 0
  /\ main # NONE
  /\ Goto(b, "checked", "refused")
  /\ UNCHANGED <<locks, file, monitor, object, start, bounds>>

(* _write_owner empties the file first: until the new text is in it there  *)
(* is no record.                                                           *)
Empty ==
  /\ owner_id' = 0
  /\ owner_site' = NoSite
  /\ UNCHANGED <<issued, id>>

WriteOwner(b) ==
  /\ issued' = issued + 1
  /\ owner_id' = issued + 1
  /\ owner_site' = site[b]
  /\ id' = [id EXCEPT ![b] = issued + 1]

Truncate(b) ==
  /\ Goto(b, "locked", "truncated")
  /\ Empty
  /\ UNCHANGED <<locks, monitor, object, start, bounds>>

Write(b) ==
  /\ Goto(b, "truncated", "written")
  /\ WriteOwner(b)
  /\ UNCHANGED <<locks, monitor, object, start, bounds>>

(* Truncating or writing raises: main goes with its handle.                *)
WriteFails(b) ==
  /\ failures < MaxFailures
  /\ pc[b] \in {"locked", "truncated"}
  /\ pc' = [pc EXCEPT ![b] = "refused"]
  /\ main' = NONE
  /\ failures' = failures + 1
  /\ UNCHANGED <<transition, file, monitor, object, start, starts>>

(* The transition lock of an acquire that raises.                          *)
Refused(b) ==
  /\ Goto(b, "refused", "released")
  /\ transition' = NONE
  /\ UNCHANGED <<main, file, monitor, object, start, bounds>>

Owned(b) ==
  /\ Goto(b, "written", "owned")
  /\ mine' = [mine EXCEPT ![b] = TRUE]
  /\ UNCHANGED <<locks, file, monitor, stop, mine_transition, taken, taken_transition, start, bounds>>

Acquired(b) ==
  /\ Goto(b, "owned", "serving")
  /\ transition' = NONE
  /\ UNCHANGED <<main, file, monitor, object, start, bounds>>

-----------------------------------------------------------------------------
(* The promotion thread.                                                   *)

(* Mutant: the loop does not end with _promotion_stop.                     *)
LookForever(b) ==
  /\ MonitorGoto(b, "wait", "try")
  /\ UNCHANGED <<locks, file, pc, object, start, bounds>>

Look(b) ==
  /\ MonitorGoto(b, "wait", IF stop[b] THEN "done" ELSE "try")
  /\ UNCHANGED <<locks, file, pc, object, start, bounds>>

TryMain(b) ==
  /\ main = NONE
  /\ MonitorGoto(b, "try", "locked")
  /\ main' = b
  /\ UNCHANGED <<transition, file, pc, object, start, bounds>>

(* Mutant: one poll only.                                                  *)
TryFailsEnds(b) ==
  /\ main # NONE
  /\ MonitorGoto(b, "try", "done")
  /\ UNCHANGED <<locks, file, pc, object, start, bounds>>

(* Mutant: the record is written although main is locked.                  *)
TryFailsIgnored(b) ==
  /\ main # NONE
  /\ MonitorGoto(b, "try", "locked")
  /\ UNCHANGED <<locks, file, pc, object, start, bounds>>

TryFails(b) ==
  /\ main # NONE
  /\ MonitorGoto(b, "try", "wait")
  /\ UNCHANGED <<locks, file, pc, object, start, bounds>>

(* _open_lock_handle is called outside the try: what it raises ends the    *)
(* thread, and the successor is never promoted.                            *)
MonitorOpenFails(b) ==
  /\ failures < MaxFailures
  /\ MonitorGoto(b, "try", "done")
  /\ failures' = failures + 1
  /\ UNCHANGED <<locks, file, pc, object, start, starts>>

MonitorTruncate(b) ==
  /\ MonitorGoto(b, "locked", "truncated")
  /\ Empty
  /\ UNCHANGED <<locks, pc, object, start, bounds>>

MonitorWrite(b) ==
  /\ MonitorGoto(b, "truncated", "written")
  /\ WriteOwner(b)
  /\ UNCHANGED <<locks, pc, object, start, bounds>>

MonitorWriteFails(b) ==
  /\ failures < MaxFailures
  /\ monitor[b] \in {"locked", "truncated"}
  /\ monitor' = [monitor EXCEPT ![b] = "wait"]
  /\ main' = NONE
  /\ failures' = failures + 1
  /\ UNCHANGED <<transition, file, pc, object, start, starts>>

(* Mutant: the thread returns without unlocking main.                      *)
GiveUpKeeps(b) ==
  /\ stop[b]
  /\ MonitorGoto(b, "written", "done")
  /\ UNCHANGED <<locks, file, pc, object, start, bounds>>

(* Under _state_lock: release has already begun.                           *)
GiveUp(b) ==
  /\ stop[b]
  /\ MonitorGoto(b, "written", "done")
  /\ main' = NONE
  /\ UNCHANGED <<transition, file, pc, object, start, bounds>>

(* Under _state_lock: the backend becomes the owner.                       *)
Promoted(b) ==
  /\ ~stop[b]
  /\ MonitorGoto(b, "written", "handover")
  /\ mine' = [mine EXCEPT ![b] = TRUE]
  /\ mine_transition' = [mine_transition EXCEPT ![b] = FALSE]
  /\ UNCHANGED <<locks, file, pc, stop, taken, taken_transition, start, bounds>>

HandOver(b) ==
  /\ MonitorGoto(b, "handover", "done")
  /\ transition' = NONE
  /\ UNCHANGED <<main, file, pc, object, start, bounds>>

-----------------------------------------------------------------------------
(* release, and the end of the process.                                    *)

StopServing(b) ==
  /\ Goto(b, "serving", "joining")
  /\ stop' = [stop EXCEPT ![b] = TRUE]
  /\ UNCHANGED <<locks, file, monitor, mine, mine_transition, taken, taken_transition, start, bounds>>

(* The thread has ended or the second is over; then, under _state_lock.    *)
TakeHandles(b) ==
  /\ Goto(b, "joining", "unlock")
  /\ taken' = [taken EXCEPT ![b] = mine[b]]
  /\ taken_transition' = [taken_transition EXCEPT ![b] = mine_transition[b]]
  /\ mine' = [mine EXCEPT ![b] = FALSE]
  /\ mine_transition' = [mine_transition EXCEPT ![b] = FALSE]
  /\ UNCHANGED <<locks, file, monitor, stop, start, bounds>>

Unlock(b) ==
  /\ Goto(b, "unlock", "unlock_transition")
  /\ main' = IF taken[b] THEN NONE ELSE main
  /\ UNCHANGED <<transition, file, monitor, object, start, bounds>>

UnlockTransition(b) ==
  /\ Goto(b, "unlock_transition", "released")
  /\ transition' = IF taken_transition[b] THEN NONE ELSE transition
  /\ UNCHANGED <<main, file, monitor, object, start, bounds>>

(* The process ends, after release or acquire or at any other moment.      *)
Ends(b) ==
  /\ pc[b] # "out"
  /\ pc' = [pc EXCEPT ![b] = "out"]
  /\ monitor' = [monitor EXCEPT ![b] = "none"]
  /\ main' = IF main = b THEN NONE ELSE main
  /\ transition' = IF transition = b THEN NONE ELSE transition
  /\ stop' = [stop EXCEPT ![b] = FALSE]
  /\ mine' = [mine EXCEPT ![b] = FALSE]
  /\ mine_transition' = [mine_transition EXCEPT ![b] = FALSE]
  /\ taken' = [taken EXCEPT ![b] = FALSE]
  /\ taken_transition' = [taken_transition EXCEPT ![b] = FALSE]
  /\ id' = [id EXCEPT ![b] = 0]
  /\ site' = [site EXCEPT ![b] = NoSite]
  /\ expected' = [expected EXCEPT ![b] = 0]
  /\ UNCHANGED <<owner_id, owner_site, issued, bounds>>

Acquire(b) ==
  \/ TakeTransition(b) \/ TransitionInUse(b)
  \/ WarmAccepted(b) \/ WarmRefused(b)
  \/ LockMain(b) \/ MainInUse(b)
  \/ Truncate(b) \/ Write(b) \/ Owned(b) \/ Acquired(b) \/ Refused(b)

Promotion(b) ==
  \/ Look(b) \/ TryMain(b) \/ TryFails(b)
  \/ MonitorTruncate(b) \/ MonitorWrite(b)
  \/ GiveUp(b) \/ Promoted(b) \/ HandOver(b)

Release(b) == TakeHandles(b) \/ Unlock(b) \/ UnlockTransition(b)

Next ==
  \E b \in Backends :
    \/ \E s \in AllSites : Start(b, s)
    \/ \E s \in Sites : StartWarm(b, s)
    \/ Acquire(b) \/ Promotion(b) \/ Release(b)
    \/ WriteFails(b) \/ MonitorOpenFails(b) \/ MonitorWriteFails(b)
    \/ StopServing(b) \/ Ends(b)

Spec == Init /\ [][Next]_vars

(* Both threads run as long as the process does.  Nothing makes a backend  *)
(* start, stop or die.                                                     *)
FairSpec ==
  /\ Spec
  /\ \A b \in Backends : /\ WF_vars(Acquire(b) \/ Release(b))
                         /\ WF_vars(Promotion(b))

-----------------------------------------------------------------------------
(* Types of the locks, the record, the threads and the fields of the       *)
(* BackendInstanceLock objects.                                            *)
TypeOK ==
  /\ main \in Holders /\ transition \in Holders
  /\ owner_id \in Nat /\ owner_site \in AllSites /\ issued \in Nat
  /\ pc \in [Backends -> Steps]
  /\ monitor \in [Backends -> MonitorSteps]
  /\ stop \in [Backends -> BOOLEAN]
  /\ mine \in [Backends -> BOOLEAN]
  /\ mine_transition \in [Backends -> BOOLEAN]
  /\ taken \in [Backends -> BOOLEAN]
  /\ taken_transition \in [Backends -> BOOLEAN]
  /\ site \in [Backends -> AllSites]
  /\ expected \in [Backends -> Nat]
  /\ id \in [Backends -> Nat]
  /\ starts \in Nat /\ failures \in Nat

-----------------------------------------------------------------------------
(* The inductive invariant: which steps of its threads hold a lock for a   *)
(* process, and how the threads and the fields of the object agree.        *)

HasMain(b) ==
  \/ pc[b] \in {"locked", "truncated", "written", "owned"}
  \/ monitor[b] \in {"locked", "truncated", "written"}
  \/ mine[b]
  \/ pc[b] = "unlock" /\ taken[b]

HasTransition(b) ==
  \/ pc[b] \in {"checked", "locked", "truncated", "written", "owned", "refused"}
  \/ monitor[b] = "handover"
  \/ mine_transition[b]
  \/ pc[b] \in {"unlock", "unlock_transition"} /\ taken_transition[b]

LocksHeld ==
  \A b \in Backends : /\ main = b <=> HasMain(b)
                      /\ transition = b <=> HasTransition(b)

Recorded ==
  \A b \in Backends :
    (mine[b] \/ pc[b] = "written" \/ monitor[b] = "written") =>
      owner_id = id[b] /\ owner_site = site[b]

Polling == {"wait", "try", "locked", "truncated", "written"}
Settled == {"none", "handover", "done"}

Consistent(b) ==
  /\ pc[b] \in {"out", "begun", "checked", "locked", "truncated", "written", "refused", "owned"} =>
       /\ monitor[b] = "none"
       /\ ~stop[b] /\ ~mine_transition[b] /\ ~taken[b] /\ ~taken_transition[b]
       /\ mine[b] <=> pc[b] = "owned"
  /\ pc[b] \in {"serving", "joining"} =>
       /\ stop[b] <=> pc[b] = "joining"
       /\ ~taken[b] /\ ~taken_transition[b]
       /\ \/ mine[b] /\ ~mine_transition[b] /\ monitor[b] \in Settled
          \/ ~mine[b] /\ mine_transition[b] /\ monitor[b] \in Polling
          \/ ~mine[b] /\ mine_transition[b] /\ monitor[b] = "done"
  /\ pc[b] \in {"unlock", "unlock_transition"} =>
       /\ stop[b] /\ ~mine[b] /\ ~mine_transition[b]
       /\ \/ taken[b] /\ ~taken_transition[b] /\ monitor[b] \in Settled
          \/ ~taken[b] /\ taken_transition[b] /\ monitor[b] \in Polling \cup {"done"}
  /\ pc[b] = "released" =>
       /\ ~mine[b] /\ ~mine_transition[b]
       /\ stop[b] \/ monitor[b] = "none"

IInv ==
  /\ TypeOK
  /\ LocksHeld
  /\ Recorded
  /\ \A b \in Backends : Consistent(b)

-----------------------------------------------------------------------------
(* The record an owner is found by is its own: whenever a backend holds    *)
(* self.handle, main is locked by it and the file names the instance and   *)
(* the site it wrote, so a warm start is compared with the real owner and  *)
(* never with an earlier one or with a file half written.                  *)
OwnerNamed ==
  \A b \in Backends :
    mine[b] => /\ main = b
               /\ owner_id = id[b]
               /\ owner_site = site[b]

(* Once release or a failed acquire has returned and the promotion thread  *)
(* is over, the process holds neither lock: the next start is not told     *)
(* that the data root is in use.                                           *)
NothingLeft ==
  \A b \in Backends :
    pc[b] \in {"out", "released"} /\ monitor[b] \in {"none", "done"} =>
      main # b /\ transition # b

(* A serving backend is the owner once self.handle is set and a successor  *)
(* until then.                                                             *)
RoleOf(b) ==
  IF ~Serving(b) THEN "out" ELSE IF mine[b] THEN "owner" ELSE "successor"

Lease == INSTANCE DataRootLease
  WITH role <- [b \in Backends |-> RoleOf(b)],
       at <- [b \in Backends |-> IF Serving(b) THEN site[b] ELSE NoSite]

(* The backends that serve one data root follow the lease: one owner, one  *)
(* successor of another site, and the successor is promoted only when the  *)
(* owner is gone, whatever the order of starts, polls, failures, releases  *)
(* and deaths.                                                             *)
ImplementsLease == Lease!LeaseSpec

(* A successor becomes the owner as soon as no other backend serves,       *)
(* unless it is stopped or dies itself, or an open of the main file raised *)
(* and ended its promotion thread: the monitor does not miss the end of    *)
(* the old owner, whichever way it ends.                                   *)
HandoffCompletes ==
  \A b \in Backends :
    Serving(b) ~> \/ mine[b] \/ ~Serving(b)
                  \/ failures > 0 /\ monitor[b] = "done"
                  \/ \E c \in Backends \ {b} : Serving(c)

(* A release comes to its end: both locks are free of the process and the  *)
(* promotion thread has stopped, even when release did not wait for it.    *)
ReleaseFrees ==
  \A b \in Backends :
    pc[b] = "joining" ~> (/\ main # b /\ transition # b
                          /\ monitor[b] \in {"none", "done"})
=============================================================================
