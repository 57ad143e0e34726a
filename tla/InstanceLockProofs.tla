------------------------- MODULE InstanceLockProofs -------------------------
(***************************************************************************)
(* Proofs about InstanceLock, for every set of backends and sites.  IInv   *)
(* is inductive: a step of one backend changes only its own fields, takes  *)
(* a lock only when it is free and lets go only of its own, and writes the *)
(* record only while it holds main (Framed).                               *)
(***************************************************************************)
EXTENDS InstanceLock, TLAPS

-----------------------------------------------------------------------------
(* What a step of b does to the rest.                                      *)

Same(c) ==
  /\ pc'[c] = pc[c] /\ monitor'[c] = monitor[c]
  /\ stop'[c] = stop[c] /\ mine'[c] = mine[c] /\ mine_transition'[c] = mine_transition[c]
  /\ taken'[c] = taken[c] /\ taken_transition'[c] = taken_transition[c]
  /\ site'[c] = site[c] /\ id'[c] = id[c]

LocksMine(b) ==
  /\ (main = b)' <=> HasMain(b)'
  /\ (transition = b)' <=> HasTransition(b)'

LockMoves(b) ==
  /\ main' = main \/ {main, main'} \subseteq {b, NONE}
  /\ transition' = transition \/ {transition, transition'} \subseteq {b, NONE}

RecordMine(b) ==
  (mine'[b] \/ pc'[b] = "written" \/ monitor'[b] = "written") =>
    owner_id' = id'[b] /\ owner_site' = site'[b]

RecordMoves(b) ==
  (owner_id' = owner_id /\ owner_site' = owner_site) \/ main = b

(* A step of b that keeps the invariant of b and leaves the fields of the  *)
(* other processes, their locks and their record alone keeps it for all.   *)
LEMMA Framed ==
  ASSUME IInv, NEW b \in Backends, TypeOK',
         \A c \in Backends \ {b} : Same(c),
         LocksMine(b), Consistent(b)', LockMoves(b), RecordMine(b), RecordMoves(b)
  PROVE  IInv'
PROOF
  <1>1. ASSUME NEW c \in Backends, c # b
        PROVE  /\ (main = c)' <=> HasMain(c)'
               /\ (transition = c)' <=> HasTransition(c)'
    <2>1. main' = c <=> main = c
      BY <1>1, InstanceConstants DEF LockMoves
    <2>2. transition' = c <=> transition = c
      BY <1>1, InstanceConstants DEF LockMoves
    <2>3. HasMain(c)' <=> HasMain(c)
      BY <1>1 DEF Same, HasMain
    <2>4. HasTransition(c)' <=> HasTransition(c)
      BY <1>1 DEF Same, HasTransition
    <2>5. QED
      BY <2>1, <2>2, <2>3, <2>4 DEF IInv, LocksHeld
  <1>2. LocksHeld'
    BY <1>1 DEF LocksHeld, LocksMine
  <1>3. ASSUME NEW c \in Backends, c # b
        PROVE  Consistent(c)'
    BY <1>3 DEF IInv, Consistent, Same
  <1>4. ASSUME NEW c \in Backends, c # b,
               mine'[c] \/ pc'[c] = "written" \/ monitor'[c] = "written"
        PROVE  owner_id' = id'[c] /\ owner_site' = site'[c]
    <2>1. mine[c] \/ pc[c] = "written" \/ monitor[c] = "written"
      BY <1>4 DEF Same
    <2>2. main = c
      BY <2>1 DEF IInv, LocksHeld, HasMain
    <2>3. owner_id' = owner_id /\ owner_site' = owner_site
      BY <2>2, <1>4 DEF RecordMoves
    <2>4. QED
      BY <2>1, <2>3, <1>4 DEF IInv, Recorded, Same
  <1>5. Recorded'
    BY <1>4 DEF Recorded, RecordMine
  <1>6. QED
    BY <1>2, <1>3, <1>5 DEF IInv

(* The promotion thread exists only after acquire returned, and while it   *)
(* polls the backend is not the owner.                                     *)
LEMMA ThreadFacts ==
  ASSUME IInv, NEW b \in Backends
  PROVE  /\ monitor[b] # "none" =>
              pc[b] \in {"serving", "joining", "unlock", "unlock_transition", "released"}
         /\ monitor[b] \in Polling => ~mine[b] /\ ~(pc[b] = "unlock" /\ taken[b])
         /\ monitor[b] \in Polling /\ ~stop[b] =>
              pc[b] = "serving" /\ mine_transition[b] /\ ~taken_transition[b]
         /\ monitor[b] = "handover" =>
              ~mine_transition[b] /\ ~(pc[b] # "released" /\ taken_transition[b])
PROOF
  <1>1. Consistent(b) /\ pc[b] \in Steps
    BY DEF IInv, TypeOK
  <1>2. CASE pc[b] \in {"serving", "joining"}
    BY <1>1, <1>2 DEF Consistent, Polling, Settled
  <1>3. CASE pc[b] \in {"unlock", "unlock_transition"}
    BY <1>1, <1>3 DEF Consistent, Polling, Settled
  <1>4. CASE pc[b] = "released"
    BY <1>1, <1>4 DEF Consistent, Polling, Settled
  <1>5. CASE pc[b] \in {"out", "begun", "checked", "locked", "truncated", "written", "refused", "owned"}
    BY <1>1, <1>5 DEF Consistent, Polling, Settled
  <1>6. QED
    BY <1>1, <1>2, <1>3, <1>4, <1>5 DEF Steps

-----------------------------------------------------------------------------
(* One lemma per action.                                                   *)

(* An ordinary start: the process that was out holds nothing.              *)
LEMMA StartPreserves ==
  ASSUME IInv, NEW b \in Backends, NEW s \in AllSites, Start(b, s)
  PROVE  IInv'
PROOF
  <1>1. TypeOK'
    BY InstanceConstants DEF IInv, TypeOK, Start, Begin, Goto, locks, file, object, start, bounds, Holders, AllSites, Steps, MonitorSteps
  <1>2. \A c \in Backends \ {b} : Same(c)
    BY DEF IInv, TypeOK, Same, Start, Begin, Goto, locks, file, object, start, bounds
  <1>3. LocksMine(b)
    BY InstanceConstants DEF IInv, TypeOK, LocksMine, LocksHeld, HasMain, HasTransition, Consistent,
       Holders, Polling, Settled, Start, Begin, Goto, locks, file, object, start, bounds
  <1>4. Consistent(b)'
    BY DEF IInv, TypeOK, Consistent, Polling, Settled, Start, Begin, Goto, locks, file, object, start, bounds
  <1>5. LockMoves(b)
    BY DEF IInv, TypeOK, LockMoves, LocksHeld, HasMain, HasTransition, Consistent, Polling, Settled, Start, Begin, Goto, locks, file, object, start, bounds
  <1>6. RecordMine(b)
    BY DEF IInv, TypeOK, RecordMine, Recorded, LocksHeld, HasMain, Consistent, Polling, Settled, Start, Begin, Goto, locks, file, object, start, bounds
  <1>7. RecordMoves(b)
    BY DEF IInv, TypeOK, RecordMoves, LocksHeld, HasMain, Start, Begin, Goto, locks, file, object, start, bounds
  <1>8. QED
    BY <1>1, <1>2, <1>3, <1>4, <1>5, <1>6, <1>7, Framed

(* A warm start, with the instance_id Electron read.                       *)
LEMMA StartWarmPreserves ==
  ASSUME IInv, NEW b \in Backends, NEW s \in AllSites, StartWarm(b, s)
  PROVE  IInv'
PROOF
  <1>1. TypeOK'
    BY InstanceConstants DEF IInv, TypeOK, StartWarm, Begin, Goto, locks, file, object, start, bounds, Holders, AllSites, Steps, MonitorSteps
  <1>2. \A c \in Backends \ {b} : Same(c)
    BY DEF IInv, TypeOK, Same, StartWarm, Begin, Goto, locks, file, object, start, bounds
  <1>3. LocksMine(b)
    BY InstanceConstants DEF IInv, TypeOK, LocksMine, LocksHeld, HasMain, HasTransition, Consistent,
       Holders, Polling, Settled, StartWarm, Begin, Goto, locks, file, object, start, bounds
  <1>4. Consistent(b)'
    BY DEF IInv, TypeOK, Consistent, Polling, Settled, StartWarm, Begin, Goto, locks, file, object, start, bounds
  <1>5. LockMoves(b)
    BY DEF IInv, TypeOK, LockMoves, LocksHeld, HasMain, HasTransition, Consistent, Polling, Settled, StartWarm, Begin, Goto, locks, file, object, start, bounds
  <1>6. RecordMine(b)
    BY DEF IInv, TypeOK, RecordMine, Recorded, LocksHeld, HasMain, Consistent, Polling, Settled, StartWarm, Begin, Goto, locks, file, object, start, bounds
  <1>7. RecordMoves(b)
    BY DEF IInv, TypeOK, RecordMoves, LocksHeld, HasMain, StartWarm, Begin, Goto, locks, file, object, start, bounds
  <1>8. QED
    BY <1>1, <1>2, <1>3, <1>4, <1>5, <1>6, <1>7, Framed

(* acquire locks the transition file, which was free.                      *)
LEMMA TakeTransitionPreserves ==
  ASSUME IInv, NEW b \in Backends, TakeTransition(b)
  PROVE  IInv'
PROOF
  <1>1. TypeOK'
    BY InstanceConstants DEF IInv, TypeOK, TakeTransition, Goto, locks, file, object, start, bounds, Holders, AllSites, Steps, MonitorSteps
  <1>2. \A c \in Backends \ {b} : Same(c)
    BY DEF IInv, TypeOK, Same, TakeTransition, Goto, locks, file, object, start, bounds
  <1>3. LocksMine(b)
    BY InstanceConstants DEF IInv, TypeOK, LocksMine, LocksHeld, HasMain, HasTransition, Consistent,
       Holders, Polling, Settled, TakeTransition, Goto, locks, file, object, start, bounds
  <1>4. Consistent(b)'
    BY DEF IInv, TypeOK, Consistent, Polling, Settled, TakeTransition, Goto, locks, file, object, start, bounds
  <1>5. LockMoves(b)
    BY DEF IInv, TypeOK, LockMoves, LocksHeld, HasMain, HasTransition, Consistent, Polling, Settled, TakeTransition, Goto, locks, file, object, start, bounds
  <1>6. RecordMine(b)
    BY DEF IInv, TypeOK, RecordMine, Recorded, LocksHeld, HasMain, Consistent, Polling, Settled, TakeTransition, Goto, locks, file, object, start, bounds
  <1>7. RecordMoves(b)
    BY DEF IInv, TypeOK, RecordMoves, LocksHeld, HasMain, TakeTransition, Goto, locks, file, object, start, bounds
  <1>8. QED
    BY <1>1, <1>2, <1>3, <1>4, <1>5, <1>6, <1>7, Framed

(* acquire finds the transition file locked and raises.                    *)
LEMMA TransitionInUsePreserves ==
  ASSUME IInv, NEW b \in Backends, TransitionInUse(b)
  PROVE  IInv'
PROOF
  <1>1. TypeOK'
    BY InstanceConstants DEF IInv, TypeOK, TransitionInUse, Goto, locks, file, object, start, bounds, Holders, AllSites, Steps, MonitorSteps
  <1>2. \A c \in Backends \ {b} : Same(c)
    BY DEF IInv, TypeOK, Same, TransitionInUse, Goto, locks, file, object, start, bounds
  <1>3. LocksMine(b)
    BY InstanceConstants DEF IInv, TypeOK, LocksMine, LocksHeld, HasMain, HasTransition, Consistent,
       Holders, Polling, Settled, TransitionInUse, Goto, locks, file, object, start, bounds
  <1>4. Consistent(b)'
    BY DEF IInv, TypeOK, Consistent, Polling, Settled, TransitionInUse, Goto, locks, file, object, start, bounds
  <1>5. LockMoves(b)
    BY DEF IInv, TypeOK, LockMoves, LocksHeld, HasMain, HasTransition, Consistent, Polling, Settled, TransitionInUse, Goto, locks, file, object, start, bounds
  <1>6. RecordMine(b)
    BY DEF IInv, TypeOK, RecordMine, Recorded, LocksHeld, HasMain, Consistent, Polling, Settled, TransitionInUse, Goto, locks, file, object, start, bounds
  <1>7. RecordMoves(b)
    BY DEF IInv, TypeOK, RecordMoves, LocksHeld, HasMain, TransitionInUse, Goto, locks, file, object, start, bounds
  <1>8. QED
    BY <1>1, <1>2, <1>3, <1>4, <1>5, <1>6, <1>7, Framed

(* The record is the expected one: the backend serves and keeps            *)
(* transition.                                                             *)
LEMMA WarmAcceptedPreserves ==
  ASSUME IInv, NEW b \in Backends, WarmAccepted(b)
  PROVE  IInv'
PROOF
  <1>1. TypeOK'
    BY InstanceConstants DEF IInv, TypeOK, WarmAccepted, Goto, locks, file, object, start, bounds, Holders, AllSites, Steps, MonitorSteps
  <1>2. \A c \in Backends \ {b} : Same(c)
    BY DEF IInv, TypeOK, Same, WarmAccepted, Goto, locks, file, object, start, bounds
  <1>3. LocksMine(b)
    BY InstanceConstants DEF IInv, TypeOK, LocksMine, LocksHeld, HasMain, HasTransition, Consistent,
       Holders, Polling, Settled, WarmAccepted, Goto, locks, file, object, start, bounds
  <1>4. Consistent(b)'
    BY DEF IInv, TypeOK, Consistent, Polling, Settled, WarmAccepted, Goto, locks, file, object, start, bounds
  <1>5. LockMoves(b)
    BY DEF IInv, TypeOK, LockMoves, LocksHeld, HasMain, HasTransition, Consistent, Polling, Settled, WarmAccepted, Goto, locks, file, object, start, bounds
  <1>6. RecordMine(b)
    BY DEF IInv, TypeOK, RecordMine, Recorded, LocksHeld, HasMain, Consistent, Polling, Settled, WarmAccepted, Goto, locks, file, object, start, bounds
  <1>7. RecordMoves(b)
    BY DEF IInv, TypeOK, RecordMoves, LocksHeld, HasMain, WarmAccepted, Goto, locks, file, object, start, bounds
  <1>8. QED
    BY <1>1, <1>2, <1>3, <1>4, <1>5, <1>6, <1>7, Framed

(* The record is not the expected one: acquire is about to raise.          *)
LEMMA WarmRefusedPreserves ==
  ASSUME IInv, NEW b \in Backends, WarmRefused(b)
  PROVE  IInv'
PROOF
  <1>1. TypeOK'
    BY InstanceConstants DEF IInv, TypeOK, WarmRefused, Goto, locks, file, object, start, bounds, Holders, AllSites, Steps, MonitorSteps
  <1>2. \A c \in Backends \ {b} : Same(c)
    BY DEF IInv, TypeOK, Same, WarmRefused, Goto, locks, file, object, start, bounds
  <1>3. LocksMine(b)
    BY InstanceConstants DEF IInv, TypeOK, LocksMine, LocksHeld, HasMain, HasTransition, Consistent,
       Holders, Polling, Settled, WarmRefused, Goto, locks, file, object, start, bounds
  <1>4. Consistent(b)'
    BY DEF IInv, TypeOK, Consistent, Polling, Settled, WarmRefused, Goto, locks, file, object, start, bounds
  <1>5. LockMoves(b)
    BY DEF IInv, TypeOK, LockMoves, LocksHeld, HasMain, HasTransition, Consistent, Polling, Settled, WarmRefused, Goto, locks, file, object, start, bounds
  <1>6. RecordMine(b)
    BY DEF IInv, TypeOK, RecordMine, Recorded, LocksHeld, HasMain, Consistent, Polling, Settled, WarmRefused, Goto, locks, file, object, start, bounds
  <1>7. RecordMoves(b)
    BY DEF IInv, TypeOK, RecordMoves, LocksHeld, HasMain, WarmRefused, Goto, locks, file, object, start, bounds
  <1>8. QED
    BY <1>1, <1>2, <1>3, <1>4, <1>5, <1>6, <1>7, Framed

(* acquire locks the main file, which was free.                            *)
LEMMA LockMainPreserves ==
  ASSUME IInv, NEW b \in Backends, LockMain(b)
  PROVE  IInv'
PROOF
  <1>1. TypeOK'
    BY InstanceConstants DEF IInv, TypeOK, LockMain, Goto, locks, file, object, start, bounds, Holders, AllSites, Steps, MonitorSteps
  <1>2. \A c \in Backends \ {b} : Same(c)
    BY DEF IInv, TypeOK, Same, LockMain, Goto, locks, file, object, start, bounds
  <1>3. LocksMine(b)
    BY InstanceConstants DEF IInv, TypeOK, LocksMine, LocksHeld, HasMain, HasTransition, Consistent,
       Holders, Polling, Settled, LockMain, Goto, locks, file, object, start, bounds
  <1>4. Consistent(b)'
    BY DEF IInv, TypeOK, Consistent, Polling, Settled, LockMain, Goto, locks, file, object, start, bounds
  <1>5. LockMoves(b)
    BY DEF IInv, TypeOK, LockMoves, LocksHeld, HasMain, HasTransition, Consistent, Polling, Settled, LockMain, Goto, locks, file, object, start, bounds
  <1>6. RecordMine(b)
    BY DEF IInv, TypeOK, RecordMine, Recorded, LocksHeld, HasMain, Consistent, Polling, Settled, LockMain, Goto, locks, file, object, start, bounds
  <1>7. RecordMoves(b)
    BY DEF IInv, TypeOK, RecordMoves, LocksHeld, HasMain, LockMain, Goto, locks, file, object, start, bounds
  <1>8. QED
    BY <1>1, <1>2, <1>3, <1>4, <1>5, <1>6, <1>7, Framed

(* acquire finds the main file locked: it is about to raise.               *)
LEMMA MainInUsePreserves ==
  ASSUME IInv, NEW b \in Backends, MainInUse(b)
  PROVE  IInv'
PROOF
  <1>1. TypeOK'
    BY InstanceConstants DEF IInv, TypeOK, MainInUse, Goto, locks, file, object, start, bounds, Holders, AllSites, Steps, MonitorSteps
  <1>2. \A c \in Backends \ {b} : Same(c)
    BY DEF IInv, TypeOK, Same, MainInUse, Goto, locks, file, object, start, bounds
  <1>3. LocksMine(b)
    BY InstanceConstants DEF IInv, TypeOK, LocksMine, LocksHeld, HasMain, HasTransition, Consistent,
       Holders, Polling, Settled, MainInUse, Goto, locks, file, object, start, bounds
  <1>4. Consistent(b)'
    BY DEF IInv, TypeOK, Consistent, Polling, Settled, MainInUse, Goto, locks, file, object, start, bounds
  <1>5. LockMoves(b)
    BY DEF IInv, TypeOK, LockMoves, LocksHeld, HasMain, HasTransition, Consistent, Polling, Settled, MainInUse, Goto, locks, file, object, start, bounds
  <1>6. RecordMine(b)
    BY DEF IInv, TypeOK, RecordMine, Recorded, LocksHeld, HasMain, Consistent, Polling, Settled, MainInUse, Goto, locks, file, object, start, bounds
  <1>7. RecordMoves(b)
    BY DEF IInv, TypeOK, RecordMoves, LocksHeld, HasMain, MainInUse, Goto, locks, file, object, start, bounds
  <1>8. QED
    BY <1>1, <1>2, <1>3, <1>4, <1>5, <1>6, <1>7, Framed

(* acquire empties the record, holding main.                               *)
LEMMA TruncatePreserves ==
  ASSUME IInv, NEW b \in Backends, Truncate(b)
  PROVE  IInv'
PROOF
  <1>1. TypeOK'
    BY InstanceConstants DEF IInv, TypeOK, Truncate, Goto, Empty, locks, file, object, start, bounds, Holders, AllSites, Steps, MonitorSteps
  <1>2. \A c \in Backends \ {b} : Same(c)
    BY DEF IInv, TypeOK, Same, Truncate, Goto, Empty, locks, file, object, start, bounds
  <1>3. LocksMine(b)
    BY InstanceConstants DEF IInv, TypeOK, LocksMine, LocksHeld, HasMain, HasTransition, Consistent,
       Holders, Polling, Settled, Truncate, Goto, Empty, locks, file, object, start, bounds
  <1>4. Consistent(b)'
    BY DEF IInv, TypeOK, Consistent, Polling, Settled, Truncate, Goto, Empty, locks, file, object, start, bounds
  <1>5. LockMoves(b)
    BY DEF IInv, TypeOK, LockMoves, LocksHeld, HasMain, HasTransition, Consistent, Polling, Settled, Truncate, Goto, Empty, locks, file, object, start, bounds
  <1>6. RecordMine(b)
    BY DEF IInv, TypeOK, RecordMine, Recorded, LocksHeld, HasMain, Consistent, Polling, Settled, Truncate, Goto, Empty, locks, file, object, start, bounds
  <1>7. RecordMoves(b)
    BY DEF IInv, TypeOK, RecordMoves, LocksHeld, HasMain, Truncate, Goto, Empty, locks, file, object, start, bounds
  <1>8. QED
    BY <1>1, <1>2, <1>3, <1>4, <1>5, <1>6, <1>7, Framed

(* acquire writes its record, holding main.                                *)
LEMMA WritePreserves ==
  ASSUME IInv, NEW b \in Backends, Write(b)
  PROVE  IInv'
PROOF
  <1>1. TypeOK'
    BY InstanceConstants DEF IInv, TypeOK, Write, Goto, WriteOwner, locks, file, object, start, bounds, Holders, AllSites, Steps, MonitorSteps
  <1>2. \A c \in Backends \ {b} : Same(c)
    BY DEF IInv, TypeOK, Same, Write, Goto, WriteOwner, locks, file, object, start, bounds
  <1>3. LocksMine(b)
    BY InstanceConstants DEF IInv, TypeOK, LocksMine, LocksHeld, HasMain, HasTransition, Consistent,
       Holders, Polling, Settled, Write, Goto, WriteOwner, locks, file, object, start, bounds
  <1>4. Consistent(b)'
    BY DEF IInv, TypeOK, Consistent, Polling, Settled, Write, Goto, WriteOwner, locks, file, object, start, bounds
  <1>5. LockMoves(b)
    BY DEF IInv, TypeOK, LockMoves, LocksHeld, HasMain, HasTransition, Consistent, Polling, Settled, Write, Goto, WriteOwner, locks, file, object, start, bounds
  <1>6. RecordMine(b)
    BY DEF IInv, TypeOK, RecordMine, Recorded, LocksHeld, HasMain, Consistent, Polling, Settled, Write, Goto, WriteOwner, locks, file, object, start, bounds
  <1>7. RecordMoves(b)
    BY DEF IInv, TypeOK, RecordMoves, LocksHeld, HasMain, Write, Goto, WriteOwner, locks, file, object, start, bounds
  <1>8. QED
    BY <1>1, <1>2, <1>3, <1>4, <1>5, <1>6, <1>7, Framed

(* acquire lets transition go and raises.                                  *)
LEMMA RefusedPreserves ==
  ASSUME IInv, NEW b \in Backends, Refused(b)
  PROVE  IInv'
PROOF
  <1>1. TypeOK'
    BY InstanceConstants DEF IInv, TypeOK, Refused, Goto, locks, file, object, start, bounds, Holders, AllSites, Steps, MonitorSteps
  <1>2. \A c \in Backends \ {b} : Same(c)
    BY DEF IInv, TypeOK, Same, Refused, Goto, locks, file, object, start, bounds
  <1>3. LocksMine(b)
    BY InstanceConstants DEF IInv, TypeOK, LocksMine, LocksHeld, HasMain, HasTransition, Consistent,
       Holders, Polling, Settled, Refused, Goto, locks, file, object, start, bounds
  <1>4. Consistent(b)'
    BY DEF IInv, TypeOK, Consistent, Polling, Settled, Refused, Goto, locks, file, object, start, bounds
  <1>5. LockMoves(b)
    BY DEF IInv, TypeOK, LockMoves, LocksHeld, HasMain, HasTransition, Consistent, Polling, Settled, Refused, Goto, locks, file, object, start, bounds
  <1>6. RecordMine(b)
    BY DEF IInv, TypeOK, RecordMine, Recorded, LocksHeld, HasMain, Consistent, Polling, Settled, Refused, Goto, locks, file, object, start, bounds
  <1>7. RecordMoves(b)
    BY DEF IInv, TypeOK, RecordMoves, LocksHeld, HasMain, Refused, Goto, locks, file, object, start, bounds
  <1>8. QED
    BY <1>1, <1>2, <1>3, <1>4, <1>5, <1>6, <1>7, Framed

(* acquire sets self.handle after the record is written.                   *)
LEMMA OwnedPreserves ==
  ASSUME IInv, NEW b \in Backends, Owned(b)
  PROVE  IInv'
PROOF
  <1>1. TypeOK'
    BY InstanceConstants DEF IInv, TypeOK, Owned, Goto, locks, file, object, start, bounds, Holders, AllSites, Steps, MonitorSteps
  <1>2. \A c \in Backends \ {b} : Same(c)
    BY DEF IInv, TypeOK, Same, Owned, Goto, locks, file, object, start, bounds
  <1>3. LocksMine(b)
    BY InstanceConstants DEF IInv, TypeOK, LocksMine, LocksHeld, HasMain, HasTransition, Consistent,
       Holders, Polling, Settled, Owned, Goto, locks, file, object, start, bounds
  <1>4. Consistent(b)'
    BY DEF IInv, TypeOK, Consistent, Polling, Settled, Owned, Goto, locks, file, object, start, bounds
  <1>5. LockMoves(b)
    BY DEF IInv, TypeOK, LockMoves, LocksHeld, HasMain, HasTransition, Consistent, Polling, Settled, Owned, Goto, locks, file, object, start, bounds
  <1>6. RecordMine(b)
    BY DEF IInv, TypeOK, RecordMine, Recorded, LocksHeld, HasMain, Consistent, Polling, Settled, Owned, Goto, locks, file, object, start, bounds
  <1>7. RecordMoves(b)
    BY DEF IInv, TypeOK, RecordMoves, LocksHeld, HasMain, Owned, Goto, locks, file, object, start, bounds
  <1>8. QED
    BY <1>1, <1>2, <1>3, <1>4, <1>5, <1>6, <1>7, Framed

(* acquire lets transition go and returns.                                 *)
LEMMA AcquiredPreserves ==
  ASSUME IInv, NEW b \in Backends, Acquired(b)
  PROVE  IInv'
PROOF
  <1>1. TypeOK'
    BY InstanceConstants DEF IInv, TypeOK, Acquired, Goto, locks, file, object, start, bounds, Holders, AllSites, Steps, MonitorSteps
  <1>2. \A c \in Backends \ {b} : Same(c)
    BY DEF IInv, TypeOK, Same, Acquired, Goto, locks, file, object, start, bounds
  <1>3. LocksMine(b)
    BY InstanceConstants DEF IInv, TypeOK, LocksMine, LocksHeld, HasMain, HasTransition, Consistent,
       Holders, Polling, Settled, Acquired, Goto, locks, file, object, start, bounds
  <1>4. Consistent(b)'
    BY DEF IInv, TypeOK, Consistent, Polling, Settled, Acquired, Goto, locks, file, object, start, bounds
  <1>5. LockMoves(b)
    BY DEF IInv, TypeOK, LockMoves, LocksHeld, HasMain, HasTransition, Consistent, Polling, Settled, Acquired, Goto, locks, file, object, start, bounds
  <1>6. RecordMine(b)
    BY DEF IInv, TypeOK, RecordMine, Recorded, LocksHeld, HasMain, Consistent, Polling, Settled, Acquired, Goto, locks, file, object, start, bounds
  <1>7. RecordMoves(b)
    BY DEF IInv, TypeOK, RecordMoves, LocksHeld, HasMain, Acquired, Goto, locks, file, object, start, bounds
  <1>8. QED
    BY <1>1, <1>2, <1>3, <1>4, <1>5, <1>6, <1>7, Framed

(* The promotion thread looks at _promotion_stop.                          *)
LEMMA LookPreserves ==
  ASSUME IInv, NEW b \in Backends, Look(b)
  PROVE  IInv'
PROOF
  <1>1. TypeOK'
    BY InstanceConstants DEF IInv, TypeOK, Look, MonitorGoto, locks, file, object, start, bounds, Holders, AllSites, Steps, MonitorSteps
  <1>2. \A c \in Backends \ {b} : Same(c)
    BY DEF IInv, TypeOK, Same, Look, MonitorGoto, locks, file, object, start, bounds
  <1>3. LocksMine(b)
    BY ThreadFacts, InstanceConstants DEF IInv, TypeOK, LocksMine, LocksHeld, HasMain, HasTransition,
       Holders, Polling, Settled, Look, MonitorGoto, locks, file, object, start, bounds
  <1>4. Consistent(b)'
    BY DEF IInv, TypeOK, Consistent, Polling, Settled, Look, MonitorGoto, locks, file, object, start, bounds
  <1>5. LockMoves(b)
    BY DEF IInv, TypeOK, LockMoves, LocksHeld, HasMain, HasTransition, Consistent, Polling, Settled, Look, MonitorGoto, locks, file, object, start, bounds
  <1>6. RecordMine(b)
    BY ThreadFacts DEF IInv, TypeOK, RecordMine, Recorded, LocksHeld, HasMain, Polling, Settled, Look, MonitorGoto, locks, file, object, start, bounds
  <1>7. RecordMoves(b)
    BY DEF IInv, TypeOK, RecordMoves, LocksHeld, HasMain, Look, MonitorGoto, locks, file, object, start, bounds
  <1>8. QED
    BY <1>1, <1>2, <1>3, <1>4, <1>5, <1>6, <1>7, Framed

(* The promotion thread locks the main file, which was free.               *)
LEMMA TryMainPreserves ==
  ASSUME IInv, NEW b \in Backends, TryMain(b)
  PROVE  IInv'
PROOF
  <1>1. TypeOK'
    BY InstanceConstants DEF IInv, TypeOK, TryMain, MonitorGoto, locks, file, object, start, bounds, Holders, AllSites, Steps, MonitorSteps
  <1>2. \A c \in Backends \ {b} : Same(c)
    BY DEF IInv, TypeOK, Same, TryMain, MonitorGoto, locks, file, object, start, bounds
  <1>3. LocksMine(b)
    BY ThreadFacts, InstanceConstants DEF IInv, TypeOK, LocksMine, LocksHeld, HasMain, HasTransition,
       Holders, Polling, Settled, TryMain, MonitorGoto, locks, file, object, start, bounds
  <1>4. Consistent(b)'
    BY DEF IInv, TypeOK, Consistent, Polling, Settled, TryMain, MonitorGoto, locks, file, object, start, bounds
  <1>5. LockMoves(b)
    BY DEF IInv, TypeOK, LockMoves, LocksHeld, HasMain, HasTransition, Consistent, Polling, Settled, TryMain, MonitorGoto, locks, file, object, start, bounds
  <1>6. RecordMine(b)
    BY ThreadFacts DEF IInv, TypeOK, RecordMine, Recorded, LocksHeld, HasMain, Polling, Settled, TryMain, MonitorGoto, locks, file, object, start, bounds
  <1>7. RecordMoves(b)
    BY DEF IInv, TypeOK, RecordMoves, LocksHeld, HasMain, TryMain, MonitorGoto, locks, file, object, start, bounds
  <1>8. QED
    BY <1>1, <1>2, <1>3, <1>4, <1>5, <1>6, <1>7, Framed

(* The promotion thread finds the main file locked.                        *)
LEMMA TryFailsPreserves ==
  ASSUME IInv, NEW b \in Backends, TryFails(b)
  PROVE  IInv'
PROOF
  <1>1. TypeOK'
    BY InstanceConstants DEF IInv, TypeOK, TryFails, MonitorGoto, locks, file, object, start, bounds, Holders, AllSites, Steps, MonitorSteps
  <1>2. \A c \in Backends \ {b} : Same(c)
    BY DEF IInv, TypeOK, Same, TryFails, MonitorGoto, locks, file, object, start, bounds
  <1>3. LocksMine(b)
    BY ThreadFacts, InstanceConstants DEF IInv, TypeOK, LocksMine, LocksHeld, HasMain, HasTransition,
       Holders, Polling, Settled, TryFails, MonitorGoto, locks, file, object, start, bounds
  <1>4. Consistent(b)'
    BY DEF IInv, TypeOK, Consistent, Polling, Settled, TryFails, MonitorGoto, locks, file, object, start, bounds
  <1>5. LockMoves(b)
    BY DEF IInv, TypeOK, LockMoves, LocksHeld, HasMain, HasTransition, Consistent, Polling, Settled, TryFails, MonitorGoto, locks, file, object, start, bounds
  <1>6. RecordMine(b)
    BY ThreadFacts DEF IInv, TypeOK, RecordMine, Recorded, LocksHeld, HasMain, Polling, Settled, TryFails, MonitorGoto, locks, file, object, start, bounds
  <1>7. RecordMoves(b)
    BY DEF IInv, TypeOK, RecordMoves, LocksHeld, HasMain, TryFails, MonitorGoto, locks, file, object, start, bounds
  <1>8. QED
    BY <1>1, <1>2, <1>3, <1>4, <1>5, <1>6, <1>7, Framed

(* The promotion thread empties the record, holding main.                  *)
LEMMA MonitorTruncatePreserves ==
  ASSUME IInv, NEW b \in Backends, MonitorTruncate(b)
  PROVE  IInv'
PROOF
  <1>1. TypeOK'
    BY InstanceConstants DEF IInv, TypeOK, MonitorTruncate, MonitorGoto, Empty, locks, file, object, start, bounds, Holders, AllSites, Steps, MonitorSteps
  <1>2. \A c \in Backends \ {b} : Same(c)
    BY DEF IInv, TypeOK, Same, MonitorTruncate, MonitorGoto, Empty, locks, file, object, start, bounds
  <1>3. LocksMine(b)
    BY ThreadFacts, InstanceConstants DEF IInv, TypeOK, LocksMine, LocksHeld, HasMain, HasTransition,
       Holders, Polling, Settled, MonitorTruncate, MonitorGoto, Empty, locks, file, object, start, bounds
  <1>4. Consistent(b)'
    BY DEF IInv, TypeOK, Consistent, Polling, Settled, MonitorTruncate, MonitorGoto, Empty, locks, file, object, start, bounds
  <1>5. LockMoves(b)
    BY DEF IInv, TypeOK, LockMoves, LocksHeld, HasMain, HasTransition, Consistent, Polling, Settled, MonitorTruncate, MonitorGoto, Empty, locks, file, object, start, bounds
  <1>6. RecordMine(b)
    BY ThreadFacts DEF IInv, TypeOK, RecordMine, Recorded, LocksHeld, HasMain, Polling, Settled, MonitorTruncate, MonitorGoto, Empty, locks, file, object, start, bounds
  <1>7. RecordMoves(b)
    BY DEF IInv, TypeOK, RecordMoves, LocksHeld, HasMain, MonitorTruncate, MonitorGoto, Empty, locks, file, object, start, bounds
  <1>8. QED
    BY <1>1, <1>2, <1>3, <1>4, <1>5, <1>6, <1>7, Framed

(* The promotion thread writes its record, holding main.                   *)
LEMMA MonitorWritePreserves ==
  ASSUME IInv, NEW b \in Backends, MonitorWrite(b)
  PROVE  IInv'
PROOF
  <1>1. TypeOK'
    BY InstanceConstants DEF IInv, TypeOK, MonitorWrite, MonitorGoto, WriteOwner, locks, file, object, start, bounds, Holders, AllSites, Steps, MonitorSteps
  <1>2. \A c \in Backends \ {b} : Same(c)
    BY DEF IInv, TypeOK, Same, MonitorWrite, MonitorGoto, WriteOwner, locks, file, object, start, bounds
  <1>3. LocksMine(b)
    BY ThreadFacts, InstanceConstants DEF IInv, TypeOK, LocksMine, LocksHeld, HasMain, HasTransition,
       Holders, Polling, Settled, MonitorWrite, MonitorGoto, WriteOwner, locks, file, object, start, bounds
  <1>4. Consistent(b)'
    BY DEF IInv, TypeOK, Consistent, Polling, Settled, MonitorWrite, MonitorGoto, WriteOwner, locks, file, object, start, bounds
  <1>5. LockMoves(b)
    BY DEF IInv, TypeOK, LockMoves, LocksHeld, HasMain, HasTransition, Consistent, Polling, Settled, MonitorWrite, MonitorGoto, WriteOwner, locks, file, object, start, bounds
  <1>6. RecordMine(b)
    BY ThreadFacts DEF IInv, TypeOK, RecordMine, Recorded, LocksHeld, HasMain, Polling, Settled, MonitorWrite, MonitorGoto, WriteOwner, locks, file, object, start, bounds
  <1>7. RecordMoves(b)
    BY DEF IInv, TypeOK, RecordMoves, LocksHeld, HasMain, MonitorWrite, MonitorGoto, WriteOwner, locks, file, object, start, bounds
  <1>8. QED
    BY <1>1, <1>2, <1>3, <1>4, <1>5, <1>6, <1>7, Framed

(* The promotion thread sees that release has begun and lets main go.      *)
LEMMA GiveUpPreserves ==
  ASSUME IInv, NEW b \in Backends, GiveUp(b)
  PROVE  IInv'
PROOF
  <1>1. TypeOK'
    BY InstanceConstants DEF IInv, TypeOK, GiveUp, MonitorGoto, locks, file, object, start, bounds, Holders, AllSites, Steps, MonitorSteps
  <1>2. \A c \in Backends \ {b} : Same(c)
    BY DEF IInv, TypeOK, Same, GiveUp, MonitorGoto, locks, file, object, start, bounds
  <1>3. LocksMine(b)
    BY ThreadFacts, InstanceConstants DEF IInv, TypeOK, LocksMine, LocksHeld, HasMain, HasTransition,
       Holders, Polling, Settled, GiveUp, MonitorGoto, locks, file, object, start, bounds
  <1>4. Consistent(b)'
    BY DEF IInv, TypeOK, Consistent, Polling, Settled, GiveUp, MonitorGoto, locks, file, object, start, bounds
  <1>5. LockMoves(b)
    BY DEF IInv, TypeOK, LockMoves, LocksHeld, HasMain, HasTransition, Consistent, Polling, Settled, GiveUp, MonitorGoto, locks, file, object, start, bounds
  <1>6. RecordMine(b)
    BY ThreadFacts DEF IInv, TypeOK, RecordMine, Recorded, LocksHeld, HasMain, Polling, Settled, GiveUp, MonitorGoto, locks, file, object, start, bounds
  <1>7. RecordMoves(b)
    BY DEF IInv, TypeOK, RecordMoves, LocksHeld, HasMain, GiveUp, MonitorGoto, locks, file, object, start, bounds
  <1>8. QED
    BY <1>1, <1>2, <1>3, <1>4, <1>5, <1>6, <1>7, Framed

(* The promotion thread makes the backend the owner.                       *)
LEMMA PromotedPreserves ==
  ASSUME IInv, NEW b \in Backends, Promoted(b)
  PROVE  IInv'
PROOF
  <1>1. TypeOK'
    BY InstanceConstants DEF IInv, TypeOK, Promoted, MonitorGoto, locks, file, object, start, bounds, Holders, AllSites, Steps, MonitorSteps
  <1>2. \A c \in Backends \ {b} : Same(c)
    BY DEF IInv, TypeOK, Same, Promoted, MonitorGoto, locks, file, object, start, bounds
  <1>3. LocksMine(b)
    BY ThreadFacts, InstanceConstants DEF IInv, TypeOK, LocksMine, LocksHeld, HasMain, HasTransition,
       Holders, Polling, Settled, Promoted, MonitorGoto, locks, file, object, start, bounds
  <1>4. Consistent(b)'
    BY DEF IInv, TypeOK, Consistent, Polling, Settled, Promoted, MonitorGoto, locks, file, object, start, bounds
  <1>5. LockMoves(b)
    BY DEF IInv, TypeOK, LockMoves, LocksHeld, HasMain, HasTransition, Consistent, Polling, Settled, Promoted, MonitorGoto, locks, file, object, start, bounds
  <1>6. RecordMine(b)
    BY ThreadFacts DEF IInv, TypeOK, RecordMine, Recorded, LocksHeld, HasMain, Polling, Settled, Promoted, MonitorGoto, locks, file, object, start, bounds
  <1>7. RecordMoves(b)
    BY DEF IInv, TypeOK, RecordMoves, LocksHeld, HasMain, Promoted, MonitorGoto, locks, file, object, start, bounds
  <1>8. QED
    BY <1>1, <1>2, <1>3, <1>4, <1>5, <1>6, <1>7, Framed

(* The promotion thread lets transition go.                                *)
LEMMA HandOverPreserves ==
  ASSUME IInv, NEW b \in Backends, HandOver(b)
  PROVE  IInv'
PROOF
  <1>1. TypeOK'
    BY InstanceConstants DEF IInv, TypeOK, HandOver, MonitorGoto, locks, file, object, start, bounds, Holders, AllSites, Steps, MonitorSteps
  <1>2. \A c \in Backends \ {b} : Same(c)
    BY DEF IInv, TypeOK, Same, HandOver, MonitorGoto, locks, file, object, start, bounds
  <1>3. LocksMine(b)
    BY ThreadFacts, InstanceConstants DEF IInv, TypeOK, LocksMine, LocksHeld, HasMain, HasTransition,
       Holders, Polling, Settled, HandOver, MonitorGoto, locks, file, object, start, bounds
  <1>4. Consistent(b)'
    BY DEF IInv, TypeOK, Consistent, Polling, Settled, HandOver, MonitorGoto, locks, file, object, start, bounds
  <1>5. LockMoves(b)
    BY DEF IInv, TypeOK, LockMoves, LocksHeld, HasMain, HasTransition, Consistent, Polling, Settled, HandOver, MonitorGoto, locks, file, object, start, bounds
  <1>6. RecordMine(b)
    BY ThreadFacts DEF IInv, TypeOK, RecordMine, Recorded, LocksHeld, HasMain, Polling, Settled, HandOver, MonitorGoto, locks, file, object, start, bounds
  <1>7. RecordMoves(b)
    BY DEF IInv, TypeOK, RecordMoves, LocksHeld, HasMain, HandOver, MonitorGoto, locks, file, object, start, bounds
  <1>8. QED
    BY <1>1, <1>2, <1>3, <1>4, <1>5, <1>6, <1>7, Framed

(* release takes the handles out of the object, the thread running or      *)
(* not.                                                                    *)
LEMMA TakeHandlesPreserves ==
  ASSUME IInv, NEW b \in Backends, TakeHandles(b)
  PROVE  IInv'
PROOF
  <1>1. TypeOK'
    BY InstanceConstants DEF IInv, TypeOK, TakeHandles, Goto, locks, file, object, start, bounds, Holders, AllSites, Steps, MonitorSteps
  <1>2. \A c \in Backends \ {b} : Same(c)
    BY DEF IInv, TypeOK, Same, TakeHandles, Goto, locks, file, object, start, bounds
  <1>3. LocksMine(b)
    BY InstanceConstants DEF IInv, TypeOK, LocksMine, LocksHeld, HasMain, HasTransition, Consistent,
       Holders, Polling, Settled, TakeHandles, Goto, locks, file, object, start, bounds
  <1>4. Consistent(b)'
    BY DEF IInv, TypeOK, Consistent, Polling, Settled, TakeHandles, Goto, locks, file, object, start, bounds
  <1>5. LockMoves(b)
    BY DEF IInv, TypeOK, LockMoves, LocksHeld, HasMain, HasTransition, Consistent, Polling, Settled, TakeHandles, Goto, locks, file, object, start, bounds
  <1>6. RecordMine(b)
    BY DEF IInv, TypeOK, RecordMine, Recorded, LocksHeld, HasMain, Consistent, Polling, Settled, TakeHandles, Goto, locks, file, object, start, bounds
  <1>7. RecordMoves(b)
    BY DEF IInv, TypeOK, RecordMoves, LocksHeld, HasMain, TakeHandles, Goto, locks, file, object, start, bounds
  <1>8. QED
    BY <1>1, <1>2, <1>3, <1>4, <1>5, <1>6, <1>7, Framed

(* release lets main go when it took its handle.                           *)
LEMMA UnlockPreserves ==
  ASSUME IInv, NEW b \in Backends, Unlock(b)
  PROVE  IInv'
PROOF
  <1>1. TypeOK'
    BY InstanceConstants DEF IInv, TypeOK, Unlock, Goto, locks, file, object, start, bounds, Holders, AllSites, Steps, MonitorSteps
  <1>2. \A c \in Backends \ {b} : Same(c)
    BY DEF IInv, TypeOK, Same, Unlock, Goto, locks, file, object, start, bounds
  <1>3. LocksMine(b)
    BY InstanceConstants DEF IInv, TypeOK, LocksMine, LocksHeld, HasMain, HasTransition, Consistent,
       Holders, Polling, Settled, Unlock, Goto, locks, file, object, start, bounds
  <1>4. Consistent(b)'
    BY DEF IInv, TypeOK, Consistent, Polling, Settled, Unlock, Goto, locks, file, object, start, bounds
  <1>5. LockMoves(b)
    BY DEF IInv, TypeOK, LockMoves, LocksHeld, HasMain, HasTransition, Consistent, Polling, Settled, Unlock, Goto, locks, file, object, start, bounds
  <1>6. RecordMine(b)
    BY DEF IInv, TypeOK, RecordMine, Recorded, LocksHeld, HasMain, Consistent, Polling, Settled, Unlock, Goto, locks, file, object, start, bounds
  <1>7. RecordMoves(b)
    BY DEF IInv, TypeOK, RecordMoves, LocksHeld, HasMain, Unlock, Goto, locks, file, object, start, bounds
  <1>8. QED
    BY <1>1, <1>2, <1>3, <1>4, <1>5, <1>6, <1>7, Framed

(* release lets transition go when it took its handle.                     *)
LEMMA UnlockTransitionPreserves ==
  ASSUME IInv, NEW b \in Backends, UnlockTransition(b)
  PROVE  IInv'
PROOF
  <1>1. TypeOK'
    BY InstanceConstants DEF IInv, TypeOK, UnlockTransition, Goto, locks, file, object, start, bounds, Holders, AllSites, Steps, MonitorSteps
  <1>2. \A c \in Backends \ {b} : Same(c)
    BY DEF IInv, TypeOK, Same, UnlockTransition, Goto, locks, file, object, start, bounds
  <1>3. LocksMine(b)
    BY InstanceConstants DEF IInv, TypeOK, LocksMine, LocksHeld, HasMain, HasTransition, Consistent,
       Holders, Polling, Settled, UnlockTransition, Goto, locks, file, object, start, bounds
  <1>4. Consistent(b)'
    BY DEF IInv, TypeOK, Consistent, Polling, Settled, UnlockTransition, Goto, locks, file, object, start, bounds
  <1>5. LockMoves(b)
    BY DEF IInv, TypeOK, LockMoves, LocksHeld, HasMain, HasTransition, Consistent, Polling, Settled, UnlockTransition, Goto, locks, file, object, start, bounds
  <1>6. RecordMine(b)
    BY DEF IInv, TypeOK, RecordMine, Recorded, LocksHeld, HasMain, Consistent, Polling, Settled, UnlockTransition, Goto, locks, file, object, start, bounds
  <1>7. RecordMoves(b)
    BY DEF IInv, TypeOK, RecordMoves, LocksHeld, HasMain, UnlockTransition, Goto, locks, file, object, start, bounds
  <1>8. QED
    BY <1>1, <1>2, <1>3, <1>4, <1>5, <1>6, <1>7, Framed

(* The record cannot be written: acquire lets main go.                     *)
LEMMA WriteFailsPreserves ==
  ASSUME IInv, NEW b \in Backends, WriteFails(b)
  PROVE  IInv'
PROOF
  <1>1. TypeOK'
    BY InstanceConstants DEF IInv, TypeOK, WriteFails, locks, file, object, start, bounds, Holders, AllSites, Steps, MonitorSteps
  <1>2. \A c \in Backends \ {b} : Same(c)
    BY DEF IInv, TypeOK, Same, WriteFails, locks, file, object, start, bounds
  <1>3. LocksMine(b)
    BY InstanceConstants DEF IInv, TypeOK, LocksMine, LocksHeld, HasMain, HasTransition, Consistent,
       Holders, Polling, Settled, WriteFails, locks, file, object, start, bounds
  <1>4. Consistent(b)'
    BY DEF IInv, TypeOK, Consistent, Polling, Settled, WriteFails, locks, file, object, start, bounds
  <1>5. LockMoves(b)
    BY DEF IInv, TypeOK, LockMoves, LocksHeld, HasMain, HasTransition, Consistent, Polling, Settled, WriteFails, locks, file, object, start, bounds
  <1>6. RecordMine(b)
    BY DEF IInv, TypeOK, RecordMine, Recorded, LocksHeld, HasMain, Consistent, Polling, Settled, WriteFails, locks, file, object, start, bounds
  <1>7. RecordMoves(b)
    BY DEF IInv, TypeOK, RecordMoves, LocksHeld, HasMain, WriteFails, locks, file, object, start, bounds
  <1>8. QED
    BY <1>1, <1>2, <1>3, <1>4, <1>5, <1>6, <1>7, Framed

(* The promotion thread cannot open the main file and ends.                *)
LEMMA MonitorOpenFailsPreserves ==
  ASSUME IInv, NEW b \in Backends, MonitorOpenFails(b)
  PROVE  IInv'
PROOF
  <1>1. TypeOK'
    BY InstanceConstants DEF IInv, TypeOK, MonitorOpenFails, MonitorGoto, locks, file, object, start, bounds, Holders, AllSites, Steps, MonitorSteps
  <1>2. \A c \in Backends \ {b} : Same(c)
    BY DEF IInv, TypeOK, Same, MonitorOpenFails, MonitorGoto, locks, file, object, start, bounds
  <1>3. LocksMine(b)
    BY ThreadFacts, InstanceConstants DEF IInv, TypeOK, LocksMine, LocksHeld, HasMain, HasTransition,
       Holders, Polling, Settled, MonitorOpenFails, MonitorGoto, locks, file, object, start, bounds
  <1>4. Consistent(b)'
    BY DEF IInv, TypeOK, Consistent, Polling, Settled, MonitorOpenFails, MonitorGoto, locks, file, object, start, bounds
  <1>5. LockMoves(b)
    BY DEF IInv, TypeOK, LockMoves, LocksHeld, HasMain, HasTransition, Consistent, Polling, Settled, MonitorOpenFails, MonitorGoto, locks, file, object, start, bounds
  <1>6. RecordMine(b)
    BY ThreadFacts DEF IInv, TypeOK, RecordMine, Recorded, LocksHeld, HasMain, Polling, Settled, MonitorOpenFails, MonitorGoto, locks, file, object, start, bounds
  <1>7. RecordMoves(b)
    BY DEF IInv, TypeOK, RecordMoves, LocksHeld, HasMain, MonitorOpenFails, MonitorGoto, locks, file, object, start, bounds
  <1>8. QED
    BY <1>1, <1>2, <1>3, <1>4, <1>5, <1>6, <1>7, Framed

(* The record cannot be written: the thread lets main go and polls again.  *)
LEMMA MonitorWriteFailsPreserves ==
  ASSUME IInv, NEW b \in Backends, MonitorWriteFails(b)
  PROVE  IInv'
PROOF
  <1>1. TypeOK'
    BY InstanceConstants DEF IInv, TypeOK, MonitorWriteFails, locks, file, object, start, bounds, Holders, AllSites, Steps, MonitorSteps
  <1>2. \A c \in Backends \ {b} : Same(c)
    BY DEF IInv, TypeOK, Same, MonitorWriteFails, locks, file, object, start, bounds
  <1>3. LocksMine(b)
    BY ThreadFacts, InstanceConstants DEF IInv, TypeOK, LocksMine, LocksHeld, HasMain, HasTransition,
       Holders, Polling, Settled, MonitorWriteFails, locks, file, object, start, bounds
  <1>4. Consistent(b)'
    BY DEF IInv, TypeOK, Consistent, Polling, Settled, MonitorWriteFails, locks, file, object, start, bounds
  <1>5. LockMoves(b)
    BY DEF IInv, TypeOK, LockMoves, LocksHeld, HasMain, HasTransition, Consistent, Polling, Settled, MonitorWriteFails, locks, file, object, start, bounds
  <1>6. RecordMine(b)
    BY ThreadFacts DEF IInv, TypeOK, RecordMine, Recorded, LocksHeld, HasMain, Polling, Settled, MonitorWriteFails, locks, file, object, start, bounds
  <1>7. RecordMoves(b)
    BY DEF IInv, TypeOK, RecordMoves, LocksHeld, HasMain, MonitorWriteFails, locks, file, object, start, bounds
  <1>8. QED
    BY <1>1, <1>2, <1>3, <1>4, <1>5, <1>6, <1>7, Framed

(* release sets _promotion_stop.                                           *)
LEMMA StopServingPreserves ==
  ASSUME IInv, NEW b \in Backends, StopServing(b)
  PROVE  IInv'
PROOF
  <1>1. TypeOK'
    BY InstanceConstants DEF IInv, TypeOK, StopServing, Goto, locks, file, object, start, bounds, Holders, AllSites, Steps, MonitorSteps
  <1>2. \A c \in Backends \ {b} : Same(c)
    BY DEF IInv, TypeOK, Same, StopServing, Goto, locks, file, object, start, bounds
  <1>3. LocksMine(b)
    BY InstanceConstants DEF IInv, TypeOK, LocksMine, LocksHeld, HasMain, HasTransition, Consistent,
       Holders, Polling, Settled, StopServing, Goto, locks, file, object, start, bounds
  <1>4. Consistent(b)'
    BY DEF IInv, TypeOK, Consistent, Polling, Settled, StopServing, Goto, locks, file, object, start, bounds
  <1>5. LockMoves(b)
    BY DEF IInv, TypeOK, LockMoves, LocksHeld, HasMain, HasTransition, Consistent, Polling, Settled, StopServing, Goto, locks, file, object, start, bounds
  <1>6. RecordMine(b)
    BY DEF IInv, TypeOK, RecordMine, Recorded, LocksHeld, HasMain, Consistent, Polling, Settled, StopServing, Goto, locks, file, object, start, bounds
  <1>7. RecordMoves(b)
    BY DEF IInv, TypeOK, RecordMoves, LocksHeld, HasMain, StopServing, Goto, locks, file, object, start, bounds
  <1>8. QED
    BY <1>1, <1>2, <1>3, <1>4, <1>5, <1>6, <1>7, Framed

(* The process ends: the system frees its locks.                           *)
LEMMA EndsPreserves ==
  ASSUME IInv, NEW b \in Backends, Ends(b)
  PROVE  IInv'
PROOF
  <1>1. TypeOK'
    BY InstanceConstants DEF IInv, TypeOK, Ends, locks, file, object, start, bounds, Holders, AllSites, Steps, MonitorSteps
  <1>2. \A c \in Backends \ {b} : Same(c)
    BY DEF IInv, TypeOK, Same, Ends, locks, file, object, start, bounds
  <1>3. LocksMine(b)
    BY InstanceConstants DEF IInv, TypeOK, LocksMine, LocksHeld, HasMain, HasTransition, Consistent,
       Holders, Polling, Settled, Ends, locks, file, object, start, bounds
  <1>4. Consistent(b)'
    BY DEF IInv, TypeOK, Consistent, Polling, Settled, Ends, locks, file, object, start, bounds
  <1>5. LockMoves(b)
    BY DEF IInv, TypeOK, LockMoves, LocksHeld, HasMain, HasTransition, Consistent, Polling, Settled, Ends, locks, file, object, start, bounds
  <1>6. RecordMine(b)
    BY DEF IInv, TypeOK, RecordMine, Recorded, LocksHeld, HasMain, Consistent, Polling, Settled, Ends, locks, file, object, start, bounds
  <1>7. RecordMoves(b)
    BY DEF IInv, TypeOK, RecordMoves, LocksHeld, HasMain, Ends, locks, file, object, start, bounds
  <1>8. QED
    BY <1>1, <1>2, <1>3, <1>4, <1>5, <1>6, <1>7, Framed

-----------------------------------------------------------------------------
(* The initial state has no process and no lock.                           *)
LEMMA InitOK == Init => IInv
PROOF
  <1> SUFFICES ASSUME Init PROVE IInv
    OBVIOUS
  <1>1. TypeOK
    BY InstanceConstants DEF Init, TypeOK, Holders, AllSites, Steps, MonitorSteps
  <1>2. LocksHeld /\ Recorded
    BY InstanceConstants DEF Init, LocksHeld, HasMain, HasTransition, Recorded
  <1>3. \A b \in Backends : Consistent(b)
    BY DEF Init, Consistent
  <1>4. QED
    BY <1>1, <1>2, <1>3 DEF IInv

(* Every step of the backends, and a stutter, keeps the invariant.         *)
LEMMA NextOK == IInv /\ [Next]_vars => IInv'
PROOF
  <1> SUFFICES ASSUME IInv, [Next]_vars PROVE IInv'
    OBVIOUS
  <1>1. CASE UNCHANGED vars
    BY <1>1 DEF vars, locks, file, object, start, bounds, IInv, TypeOK, LocksHeld, HasMain, HasTransition, Recorded, Consistent
  <1>2. CASE Next
    <2>1. PICK b \in Backends :
            \/ \E s \in AllSites : Start(b, s)
            \/ \E s \in Sites : StartWarm(b, s)
            \/ Acquire(b) \/ Promotion(b) \/ Release(b)
            \/ WriteFails(b) \/ MonitorOpenFails(b) \/ MonitorWriteFails(b)
            \/ StopServing(b) \/ Ends(b)
      BY <1>2 DEF Next
    <2>2. CASE \E s \in AllSites : Start(b, s)
      BY <2>2, StartPreserves
    <2>3. CASE \E s \in Sites : StartWarm(b, s)
      BY <2>3, StartWarmPreserves DEF AllSites
    <2>4. CASE Acquire(b)
      BY <2>4, TakeTransitionPreserves, TransitionInUsePreserves,
       WarmAcceptedPreserves, WarmRefusedPreserves, LockMainPreserves,
       MainInUsePreserves, TruncatePreserves, WritePreserves,
       OwnedPreserves, AcquiredPreserves, RefusedPreserves DEF Acquire
    <2>5. CASE Promotion(b)
      BY <2>5, LookPreserves, TryMainPreserves, TryFailsPreserves,
       MonitorTruncatePreserves, MonitorWritePreserves,
       GiveUpPreserves, PromotedPreserves, HandOverPreserves DEF Promotion
    <2>6. CASE Release(b)
      BY <2>6, TakeHandlesPreserves, UnlockPreserves, UnlockTransitionPreserves DEF Release
    <2>7. CASE WriteFails(b) \/ MonitorOpenFails(b) \/ MonitorWriteFails(b) \/ StopServing(b) \/ Ends(b)
      BY <2>7, WriteFailsPreserves, MonitorOpenFailsPreserves, MonitorWriteFailsPreserves,
       StopServingPreserves, EndsPreserves
    <2>8. QED
      BY <2>1, <2>2, <2>3, <2>4, <2>5, <2>6, <2>7
  <1>3. QED
    BY <1>1, <1>2

(* The locks, the record and the fields of every backend object agree in   *)
(* every reachable state of acquire, release and the promotion threads.    *)
THEOREM Invariance == Spec => []IInv
PROOF
  BY InitOK, NextOK, PTL DEF Spec

(* Every variable of the model of the instance lock has its type.          *)
THEOREM TypeCorrect == Spec => []TypeOK
PROOF
  <1>1. IInv => TypeOK
    BY DEF IInv
  <1>2. QED
    BY <1>1, Invariance, PTL

(* A backend that holds self.handle has main locked and its own instance   *)
(* and site in the record, however starts, promotions and deaths           *)
(* interleave.                                                             *)
THEOREM OwnerIsNamed == Spec => []OwnerNamed
PROOF
  <1>1. IInv => OwnerNamed
    BY DEF IInv, OwnerNamed, LocksHeld, HasMain, Recorded
  <1>2. QED
    BY <1>1, Invariance, PTL

(* A process whose acquire or release is over and whose promotion thread   *)
(* has ended holds neither lock.                                           *)
THEOREM NothingIsLeft == Spec => []NothingLeft
PROOF
  <1>1. ASSUME IInv, NEW b \in Backends, pc[b] \in {"out", "released"}, monitor[b] \in {"none", "done"}
        PROVE  main # b /\ transition # b
    <2>1. ~mine[b] /\ ~mine_transition[b]
      BY <1>1 DEF IInv, Consistent
    <2>2. ~HasMain(b) /\ ~HasTransition(b)
      BY <1>1, <2>1 DEF HasMain, HasTransition
    <2>3. QED
      BY <1>1, <2>2 DEF IInv, LocksHeld
  <1>2. IInv => NothingLeft
    BY <1>1 DEF NothingLeft
  <1>3. QED
    BY <1>2, Invariance, PTL

-----------------------------------------------------------------------------
(* The refinement.                                                         *)

Role == [b \in Backends |-> RoleOf(b)]
At == [b \in Backends |-> IF Serving(b) THEN site[b] ELSE NoSite]

(* A serving backend that is not the owner holds transition; an owner      *)
(* holds main and is named in the record.                                  *)
LEMMA ServingFacts ==
  ASSUME IInv, NEW c \in Backends, pc[c] = "serving"
  PROVE  /\ mine[c] => main = c /\ owner_site = site[c]
         /\ ~mine[c] => transition = c
PROOF
  <1>1. mine[c] \/ mine_transition[c]
    BY DEF IInv, Consistent
  <1>2. QED
    BY <1>1 DEF IInv, LocksHeld, HasMain, HasTransition, Recorded

(* A step that leaves pc, mine and site of the serving backends as they    *)
(* are, and lets none in or out, is a stutter of the lease.                *)
LEMMA LeaseStutters ==
  ASSUME IInv, IInv',
         \A c \in Backends : /\ pc'[c] = "serving" <=> pc[c] = "serving"
                             /\ pc[c] = "serving" => mine'[c] = mine[c] /\ site'[c] = site[c]
  PROVE  Role' = Role /\ At' = At
PROOF
  BY DEF Role, At, RoleOf, Serving

(* A step that changes the role of one backend only.                       *)
LEMMA LeaseMoves ==
  ASSUME IInv, IInv', NEW b \in Backends,
         \A c \in Backends \ {b} : pc'[c] = pc[c] /\ mine'[c] = mine[c] /\ site'[c] = site[c]
  PROVE  /\ Role' = [Role EXCEPT ![b] = RoleOf(b)']
         /\ At' = [At EXCEPT ![b] = IF pc'[b] = "serving" THEN site'[b] ELSE NoSite]
PROOF
  BY DEF Role, At, RoleOf, Serving

(* Every step of the backends is a step of the lease or leaves it as it    *)
(* is.                                                                     *)
LEMMA NextRefines ==
  ASSUME IInv, IInv', [Next]_vars
  PROVE  [Lease!LeaseNext]_<<Role, At>>
PROOF
  <1>1. CASE UNCHANGED vars
    BY <1>1, LeaseStutters DEF vars, locks, file, object, start, bounds
  <1>2. ASSUME NEW b \in Backends,
               \A c \in Backends \ {b} : Same(c),
               pc'[b] = "serving" <=> pc[b] = "serving",
               pc[b] = "serving" => mine'[b] = mine[b] /\ site'[b] = site[b]
        PROVE  Role' = Role /\ At' = At
    BY <1>2, LeaseStutters DEF Same
  <1>3. ASSUME NEW b \in Backends, NEW s \in AllSites, Start(b, s) \/ StartWarm(b, s)
        PROVE  Role' = Role /\ At' = At
    BY <1>3, LeaseStutters DEF Start, StartWarm, Begin, Goto, locks, file, object, start, bounds, IInv, TypeOK
  <1>4. ASSUME NEW b \in Backends, TakeTransition(b)
        PROVE  Role' = Role /\ At' = At
    BY <1>4, LeaseStutters DEF TakeTransition, Goto, locks, file, object, start, bounds, IInv, TypeOK
  <1>5. ASSUME NEW b \in Backends, TransitionInUse(b)
        PROVE  Role' = Role /\ At' = At
    BY <1>5, LeaseStutters DEF TransitionInUse, Goto, locks, file, object, start, bounds, IInv, TypeOK
  <1>6. ASSUME NEW b \in Backends, WarmRefused(b)
        PROVE  Role' = Role /\ At' = At
    BY <1>6, LeaseStutters DEF WarmRefused, Goto, locks, file, object, start, bounds, IInv, TypeOK
  <1>7. ASSUME NEW b \in Backends, LockMain(b)
        PROVE  Role' = Role /\ At' = At
    BY <1>7, LeaseStutters DEF LockMain, Goto, locks, file, object, start, bounds, IInv, TypeOK
  <1>8. ASSUME NEW b \in Backends, MainInUse(b)
        PROVE  Role' = Role /\ At' = At
    BY <1>8, LeaseStutters DEF MainInUse, Goto, locks, file, object, start, bounds, IInv, TypeOK
  <1>9. ASSUME NEW b \in Backends, Truncate(b)
        PROVE  Role' = Role /\ At' = At
    BY <1>9, LeaseStutters DEF Truncate, Goto, Empty, locks, file, object, start, bounds, IInv, TypeOK
  <1>10. ASSUME NEW b \in Backends, Write(b)
        PROVE  Role' = Role /\ At' = At
    BY <1>10, LeaseStutters DEF Write, Goto, WriteOwner, locks, file, object, start, bounds, IInv, TypeOK
  <1>11. ASSUME NEW b \in Backends, Owned(b)
        PROVE  Role' = Role /\ At' = At
    BY <1>11, LeaseStutters DEF Owned, Goto, locks, file, object, start, bounds, IInv, TypeOK
  <1>12. ASSUME NEW b \in Backends, Refused(b)
        PROVE  Role' = Role /\ At' = At
    BY <1>12, LeaseStutters DEF Refused, Goto, locks, file, object, start, bounds, IInv, TypeOK
  <1>13. ASSUME NEW b \in Backends, Look(b)
        PROVE  Role' = Role /\ At' = At
    BY <1>13, LeaseStutters DEF Look, MonitorGoto, locks, file, object, start, bounds, IInv, TypeOK
  <1>14. ASSUME NEW b \in Backends, TryMain(b)
        PROVE  Role' = Role /\ At' = At
    BY <1>14, LeaseStutters DEF TryMain, MonitorGoto, locks, file, object, start, bounds, IInv, TypeOK
  <1>15. ASSUME NEW b \in Backends, TryFails(b)
        PROVE  Role' = Role /\ At' = At
    BY <1>15, LeaseStutters DEF TryFails, MonitorGoto, locks, file, object, start, bounds, IInv, TypeOK
  <1>16. ASSUME NEW b \in Backends, MonitorTruncate(b)
        PROVE  Role' = Role /\ At' = At
    BY <1>16, LeaseStutters DEF MonitorTruncate, MonitorGoto, Empty, locks, file, object, start, bounds, IInv, TypeOK
  <1>17. ASSUME NEW b \in Backends, MonitorWrite(b)
        PROVE  Role' = Role /\ At' = At
    BY <1>17, LeaseStutters DEF MonitorWrite, MonitorGoto, WriteOwner, locks, file, object, start, bounds, IInv, TypeOK
  <1>18. ASSUME NEW b \in Backends, GiveUp(b)
        PROVE  Role' = Role /\ At' = At
    BY <1>18, LeaseStutters DEF GiveUp, MonitorGoto, locks, file, object, start, bounds, IInv, TypeOK
  <1>19. ASSUME NEW b \in Backends, HandOver(b)
        PROVE  Role' = Role /\ At' = At
    BY <1>19, LeaseStutters DEF HandOver, MonitorGoto, locks, file, object, start, bounds, IInv, TypeOK
  <1>20. ASSUME NEW b \in Backends, TakeHandles(b)
        PROVE  Role' = Role /\ At' = At
    BY <1>20, LeaseStutters DEF TakeHandles, Goto, locks, file, object, start, bounds, IInv, TypeOK
  <1>21. ASSUME NEW b \in Backends, Unlock(b)
        PROVE  Role' = Role /\ At' = At
    BY <1>21, LeaseStutters DEF Unlock, Goto, locks, file, object, start, bounds, IInv, TypeOK
  <1>22. ASSUME NEW b \in Backends, UnlockTransition(b)
        PROVE  Role' = Role /\ At' = At
    BY <1>22, LeaseStutters DEF UnlockTransition, Goto, locks, file, object, start, bounds, IInv, TypeOK
  <1>23. ASSUME NEW b \in Backends, WriteFails(b)
        PROVE  Role' = Role /\ At' = At
    BY <1>23, LeaseStutters DEF WriteFails, locks, file, object, start, bounds, IInv, TypeOK
  <1>24. ASSUME NEW b \in Backends, MonitorWriteFails(b)
        PROVE  Role' = Role /\ At' = At
    BY <1>24, LeaseStutters DEF MonitorWriteFails, locks, file, object, start, bounds, IInv, TypeOK
  <1>25. ASSUME NEW b \in Backends, MonitorOpenFails(b)
        PROVE  Role' = Role /\ At' = At
    BY <1>25, LeaseStutters DEF MonitorOpenFails, MonitorGoto, locks, file, object, start, bounds, IInv, TypeOK
  <1>26. ASSUME NEW b \in Backends, WarmAccepted(b), NEW s \in AllSites, s = site[b]
        PROVE  Lease!Succeed(b, s) /\ s \in Sites
    <2>1. \A c \in Backends \ {b} : pc'[c] = pc[c] /\ mine'[c] = mine[c] /\ site'[c] = site[c]
      BY <1>26 DEF WarmAccepted, Goto, locks, file, object, start, bounds, IInv, TypeOK
    <2>2. pc[b] = "checked" /\ pc'[b] = "serving" /\ mine'[b] = mine[b] /\ site'[b] = site[b]
      BY <1>26 DEF WarmAccepted, Goto, start, IInv, TypeOK
    <2>3. ~mine[b] /\ transition = b
      BY <2>2 DEF IInv, Consistent, LocksHeld, HasTransition
    <2>4. \A c \in Backends : RoleOf(c) # "successor"
      BY <2>2, <2>3, ServingFacts DEF RoleOf, Serving
    <2>5. \A c \in Backends : RoleOf(c) = "owner" => pc[c] = "serving" /\ site[c] # s
      BY <1>26, ServingFacts DEF RoleOf, Serving, WarmAccepted, ValidOwner
    <2>6. /\ Role' = [Role EXCEPT ![b] = "successor"]
          /\ At' = [At EXCEPT ![b] = s]
      BY <1>26, <2>1, <2>2, <2>3, LeaseMoves DEF RoleOf, Serving
    <2>7. s \in Sites
      BY <1>26 DEF WarmAccepted, ValidOwner, IInv, TypeOK, AllSites
    <2>8. Role[b] = "out"
      BY <2>2 DEF Role, RoleOf, Serving
    <2>9. QED
      BY <2>4, <2>5, <2>6, <2>7, <2>8 DEF Role, At, Serving, Lease!Succeed, Lease!Successors, Lease!Owners
  <1>27. ASSUME NEW b \in Backends, Acquired(b), NEW s \in AllSites, s = site[b]
        PROVE  Lease!Own(b, s)
    <2>1. \A c \in Backends \ {b} : pc'[c] = pc[c] /\ mine'[c] = mine[c] /\ site'[c] = site[c]
      BY <1>27 DEF Acquired, Goto, locks, file, object, start, bounds, IInv, TypeOK
    <2>2. pc[b] = "owned" /\ pc'[b] = "serving" /\ mine'[b] = mine[b] /\ site'[b] = site[b]
      BY <1>27 DEF Acquired, Goto, object, start, IInv, TypeOK
    <2>3. mine[b] /\ transition = b /\ main = b
      BY <2>2 DEF IInv, Consistent, LocksHeld, HasTransition, HasMain
    <2>4. \A c \in Backends : RoleOf(c) \notin {"owner", "successor"}
      BY <2>2, <2>3, ServingFacts DEF RoleOf, Serving
    <2>5. /\ Role' = [Role EXCEPT ![b] = "owner"]
          /\ At' = [At EXCEPT ![b] = s]
      BY <1>27, <2>1, <2>2, <2>3, LeaseMoves DEF RoleOf, Serving
    <2>6. QED
      BY <2>4, <2>5 DEF Role, At, Lease!Own, Lease!Successors, Lease!Owners
  <1>28. ASSUME NEW b \in Backends, Promoted(b)
        PROVE  Lease!Promote(b)
    <2>1. \A c \in Backends \ {b} : pc'[c] = pc[c] /\ mine'[c] = mine[c] /\ site'[c] = site[c]
      BY <1>28 DEF Promoted, MonitorGoto, locks, file, object, start, bounds, IInv, TypeOK
    <2>2. pc'[b] = pc[b] /\ mine'[b] = TRUE /\ site'[b] = site[b] /\ ~stop[b] /\ monitor[b] = "written"
      BY <1>28 DEF Promoted, MonitorGoto, start, IInv, TypeOK
    <2>3. pc[b] = "serving" /\ ~mine[b] /\ main = b
      BY <2>2, ThreadFacts DEF Polling, IInv, LocksHeld, HasMain
    <2>4. \A c \in Backends : RoleOf(c) # "owner"
      BY <2>3, ServingFacts DEF RoleOf, Serving
    <2>5. /\ Role' = [Role EXCEPT ![b] = "owner"]
          /\ At' = [At EXCEPT ![b] = site[b]]
      BY <2>1, <2>2, <2>3, LeaseMoves DEF RoleOf, Serving
    <2>6. At[b] = site[b] /\ Role[b] = "successor"
      BY <2>3 DEF At, Role, RoleOf, Serving
    <2>7. At' = At
      BY <2>5, <2>6 DEF At
    <2>8. QED
      BY <2>4, <2>5, <2>6, <2>7 DEF Role, At, Lease!Promote, Lease!Owners
  <1>29. ASSUME NEW b \in Backends, StopServing(b) \/ Ends(b)
        PROVE  Lease!Quit(b)
    <2>1. \A c \in Backends \ {b} : pc'[c] = pc[c] /\ mine'[c] = mine[c] /\ site'[c] = site[c]
      BY <1>29 DEF StopServing, Ends, Goto, locks, file, object, start, bounds, IInv, TypeOK
    <2>2. pc'[b] # "serving"
      BY <1>29 DEF StopServing, Ends, Goto, IInv, TypeOK
    <2>3. /\ Role' = [Role EXCEPT ![b] = "out"]
          /\ At' = [At EXCEPT ![b] = NoSite]
      BY <2>1, <2>2, LeaseMoves DEF RoleOf, Serving
    <2>4. QED
      BY <2>3 DEF Role, At, Lease!Quit
  <1>30. ASSUME NEW b \in Backends, WarmAccepted(b) \/ Acquired(b) \/ Promoted(b) \/ StopServing(b) \/ Ends(b)
        PROVE  Lease!LeaseNext
    <2>1. PICK s \in AllSites : s = site[b]
      BY DEF IInv, TypeOK
    <2>2. CASE WarmAccepted(b)
      <3>1. Lease!Succeed(b, s) /\ s \in Sites
        BY <2>1, <2>2, <1>26
      <3>2. QED
        BY <3>1 DEF Lease!LeaseNext
    <2>3. CASE Acquired(b)
      <3>1. Lease!Own(b, s)
        BY <2>1, <2>3, <1>27
      <3>2. QED
        BY <3>1 DEF Lease!LeaseNext, AllSites
    <2>4. CASE Promoted(b)
      <3>1. Lease!Promote(b)
        BY <2>4, <1>28
      <3>2. QED
        BY <3>1 DEF Lease!LeaseNext
    <2>5. CASE StopServing(b) \/ Ends(b)
      <3>1. Lease!Quit(b)
        BY <2>5, <1>29
      <3>2. QED
        BY <3>1 DEF Lease!LeaseNext
    <2>6. QED
      BY <1>30, <2>2, <2>3, <2>4, <2>5
  <1>31. CASE Next
    <2>1. PICK b \in Backends :
            \/ \E s \in AllSites : Start(b, s)
            \/ \E s \in Sites : StartWarm(b, s)
            \/ Acquire(b) \/ Promotion(b) \/ Release(b)
            \/ WriteFails(b) \/ MonitorOpenFails(b) \/ MonitorWriteFails(b)
            \/ StopServing(b) \/ Ends(b)
      BY <1>31 DEF Next
    <2>2. CASE (\E s \in AllSites : Start(b, s)) \/ \E s \in Sites : StartWarm(b, s)
      BY <2>2, <1>3 DEF AllSites
    <2>3. CASE Acquire(b)
      BY <2>3, <1>4, <1>5, <1>6, <1>7, <1>8, <1>9, <1>10, <1>11, <1>12, <1>30 DEF Acquire
    <2>4. CASE Promotion(b)
      BY <2>4, <1>13, <1>14, <1>15, <1>16, <1>17, <1>18, <1>19, <1>30 DEF Promotion
    <2>5. CASE Release(b)
      BY <2>5, <1>20, <1>21, <1>22 DEF Release
    <2>6. CASE WriteFails(b) \/ MonitorOpenFails(b) \/ MonitorWriteFails(b) \/ StopServing(b) \/ Ends(b)
      BY <2>6, <1>23, <1>24, <1>30, <1>25
    <2>7. QED
      BY <2>1, <2>2, <2>3, <2>4, <2>5, <2>6
  <1>32. QED
    BY <1>1, <1>31

(* The instance lock implements the lease of the data root: one owner, at  *)
(* most one successor and that of another site, promoted only after the    *)
(* owner left.                                                             *)
THEOREM Refinement == Spec => ImplementsLease
PROOF
  <1>1. Init => Lease!LeaseInit
    BY DEF Init, Lease!LeaseInit, RoleOf, Serving
  <1>2. IInv /\ IInv' /\ [Next]_vars => [Lease!LeaseNext]_<<Role, At>>
    BY NextRefines
  <1>3. QED
    BY <1>1, <1>2, Invariance, PTL DEF Spec, ImplementsLease, Lease!LeaseSpec, Role, At
=============================================================================
