-------------------------- MODULE AgentTasksProofs --------------------------
(***************************************************************************)
(* Proofs about AgentTasks for every set of tasks and types and every      *)
(* number of restarts.                                                     *)
(***************************************************************************)
EXTENDS AgentTasks, TLAPS

(***************************************************************************)
(* A new manager on an empty directory satisfies the invariant.            *)
(***************************************************************************)
LEMMA InitOK == Init => IInv
<1> SUFFICES ASSUME Init PROVE IInv
  OBVIOUS
<1>1. TypeOK
  BY DEF Init, TypeOK, Steps
<1>2. Registry
  BY TasksAssumption, TypesAssumption DEF Init, Registry, Live, NoTask
<1>3. ExecuteOK
  BY DEF Init, ExecuteOK, Executing, Packaged
<1> QED BY <1>1, <1>2, <1>3 DEF IInv

(***************************************************************************)
(* Every step of the manager keeps the types.                              *)
(***************************************************************************)
LEMMA TypeStep == IInv /\ Next => TypeOK'
<1> SUFFICES ASSUME IInv, Next PROVE TypeOK'
  OBVIOUS
<1> USE DEF IInv, TypeOK, registry, files, Goto, Log, WriteTemporary, ReplaceFile
<1>1. ASSUME NEW t \in Tasks, Start(t) \/ StartFails(t) PROVE TypeOK'
  BY <1>1, TypesAssumption DEF Start, StartFails, Status, Live, Steps
<1>2. ASSUME NEW t \in Tasks, LogRunning(t) PROVE TypeOK'
  BY <1>2 DEF LogRunning, Status, Live, Steps
<1>3. ASSUME NEW t \in Tasks, Decide(t) PROVE TypeOK'
  <2>1. \A e : FinalStatus(t, e) \subseteq Ended
    BY DEF FinalStatus, Ended, Collected
  <2>2. verdict' \in [Tasks -> Ended \cup {"none"}]
    BY <1>3, <2>1 DEF Decide
  <2> QED BY <1>3, <2>2 DEF Decide, Steps
<1>4. ASSUME NEW t \in Tasks, SaveDecided(t) \/ SaveFinal(t) PROVE TypeOK'
  BY <1>4 DEF SaveDecided, SaveFinal, Status, Steps
<1>5. ASSUME NEW t \in Tasks, Package(t) PROVE TypeOK'
  BY <1>5 DEF Package, Ended, Collected, Steps
<1>6. ASSUME NEW t \in Tasks, LogFinal(t) PROVE TypeOK'
  <2>1. verdict[t] \in Status
    BY <1>6 DEF LogFinal, ExecuteOK, Packaged, Status
  <2> QED BY <1>6, <2>1 DEF LogFinal, Steps
<1>7. ASSUME NEW t \in Tasks, Commit(t) PROVE TypeOK'
  BY <1>7, TypesAssumption DEF Commit, Status, Steps
<1>8. ASSUME NEW t \in Tasks, Stop(t) \/ StopCancels(t) PROVE TypeOK'
  BY <1>8 DEF Stop, StopCancels, Status, Live
<1>9. CASE Restart
  BY <1>9 DEF Restart, Restored, Status, Live, Ended, Collected, Steps
<1> QED BY <1>1, <1>2, <1>3, <1>4, <1>5, <1>6, <1>7, <1>8, <1>9 DEF Next, Execute

(***************************************************************************)
(* The status shown, the running map and the active task of a type change  *)
(* together: only in start, Stop, at the end of execute and in a restart.  *)
(***************************************************************************)
LEMMA RegistryStep == IInv /\ Next => Registry'
<1> SUFFICES ASSUME IInv, Next PROVE Registry'
  OBVIOUS
<1> USE DEF IInv, TypeOK, Registry
<1>1. ASSUME NEW t \in Tasks, Start(t) PROVE Registry'
  <2> SUFFICES ASSUME NEW u \in Tasks
               PROVE  /\ mem'[u] \in Live <=> u \in running'
                      /\ u \in running' <=> activeTypes'[TypeOf[u]] = u
    OBVIOUS
  <2>1. TypeOf[t] \in Types /\ TypeOf[u] \in Types
    BY TypesAssumption
  <2>2. activeTypes[TypeOf[t]] # u
    BY <1>1, TasksAssumption DEF Start, NoTask
  <2>3. CASE u = t
    BY <1>1, <2>1, <2>3 DEF Start, Live
  <2>4. CASE u # t /\ TypeOf[u] = TypeOf[t]
    BY <1>1, <2>1, <2>2, <2>4 DEF Start
  <2>5. CASE u # t /\ TypeOf[u] # TypeOf[t]
    BY <1>1, <2>1, <2>5 DEF Start
  <2> QED BY <2>3, <2>4, <2>5
<1>2. ASSUME NEW t \in Tasks, Stop(t) PROVE Registry'
  BY <1>2 DEF Stop, Live
<1>3. ASSUME NEW t \in Tasks, Commit(t) PROVE Registry'
  <2>1. verdict[t] \in Ended /\ verdict[t] \notin Live /\ t \in running
    BY <1>3 DEF Commit, ExecuteOK, Executing, Packaged, Steps, Ended, Collected, Live
  <2>2. activeTypes[TypeOf[t]] = t
    BY <2>1
  <2> QED BY <1>3, <2>1, <2>2, TasksAssumption, TypesAssumption DEF Commit, NoTask
<1>4. CASE Restart
  BY <1>4, TasksAssumption, TypesAssumption
  DEF Restart, Restored, NoTask, Live, Status, Ended, Collected
<1>5. CASE UNCHANGED <<mem, running, activeTypes>>
  BY <1>5
<1>6. ASSUME NEW t \in Tasks, ~Start(t), ~Stop(t), ~Commit(t),
             StartFails(t) \/ Execute(t) \/ StopCancels(t)
      PROVE  UNCHANGED <<mem, running, activeTypes>>
  BY <1>6 DEF StartFails, Execute, StopCancels, LogRunning, Decide, SaveDecided,
     Package, SaveFinal, LogFinal, registry
<1> QED BY <1>1, <1>2, <1>3, <1>4, <1>5, <1>6 DEF Next, Execute

(***************************************************************************)
(* Every step keeps the agreement between goroutines and the manager.      *)
(***************************************************************************)
LEMMA ExecuteStep == IInv /\ Next => ExecuteOK'
<1> SUFFICES ASSUME IInv, Next PROVE ExecuteOK'
  OBVIOUS
<1> USE DEF IInv, TypeOK, ExecuteOK, registry, files, Goto, Log, Executing, Packaged, Steps
<1>1. ASSUME NEW t \in Tasks, Start(t) PROVE ExecuteOK'
  BY <1>1 DEF Start
<1>2. ASSUME NEW t \in Tasks, StartFails(t) PROVE ExecuteOK'
  BY <1>2 DEF StartFails
<1>3. ASSUME NEW t \in Tasks, LogRunning(t) PROVE ExecuteOK'
  BY <1>3 DEF LogRunning
<1>4. ASSUME NEW t \in Tasks, Decide(t) PROVE ExecuteOK'
  <2>1. \A e : FinalStatus(t, e) \subseteq Ended
    BY DEF FinalStatus, Ended, Collected
  <2>2. verdict'[t] \in Ended /\ \A u \in Tasks \ {t} : verdict'[u] = verdict[u]
    BY <1>4, <2>1 DEF Decide
  <2> QED BY <1>4, <2>2 DEF Decide
<1>5. ASSUME NEW t \in Tasks, SaveDecided(t) PROVE ExecuteOK'
  BY <1>5 DEF SaveDecided
<1>6. ASSUME NEW t \in Tasks, Package(t) PROVE ExecuteOK'
  BY <1>6 DEF Package, Ended, Collected
<1>7. ASSUME NEW t \in Tasks, SaveFinal(t) PROVE ExecuteOK'
  BY <1>7 DEF SaveFinal
<1>8. ASSUME NEW t \in Tasks, LogFinal(t) PROVE ExecuteOK'
  BY <1>8 DEF LogFinal
<1>9. ASSUME NEW t \in Tasks, Commit(t) PROVE ExecuteOK'
  BY <1>9 DEF Commit
<1>10. ASSUME NEW t \in Tasks, Stop(t) PROVE ExecuteOK'
  BY <1>10 DEF Stop
<1>11. ASSUME NEW t \in Tasks, StopCancels(t) PROVE ExecuteOK'
  BY <1>11 DEF StopCancels
<1>12. CASE Restart
  BY <1>12 DEF Restart
<1> QED BY <1>1, <1>2, <1>3, <1>4, <1>5, <1>6, <1>7, <1>8, <1>9, <1>10, <1>11, <1>12
        DEF Next, Execute

(***************************************************************************)
(* IInv is an inductive invariant of the task manager.                     *)
(***************************************************************************)
THEOREM Invariance == Spec => []IInv
<1>1. IInv /\ [Next]_vars => IInv'
  <2>1. IInv /\ Next => IInv'
    BY TypeStep, RegistryStep, ExecuteStep DEF IInv
  <2>2. IInv /\ UNCHANGED vars => IInv'
    BY DEF IInv, TypeOK, Registry, ExecuteOK, vars
  <2> QED BY <2>1, <2>2
<1> QED BY <1>1, InitOK, PTL DEF Spec

(***************************************************************************)
(* The variables of the manager keep their types.                          *)
(***************************************************************************)
THEOREM TypeCorrect == Spec => []TypeOK
<1>1. IInv => TypeOK
  BY DEF IInv
<1> QED BY <1>1, Invariance, PTL

(***************************************************************************)
(* The status shown, the running map and activeTypes always agree; so at   *)
(* most one task of a type is active.                                      *)
(***************************************************************************)
THEOREM RegistryAgrees == Spec => []Registry
<1>1. IInv => Registry
  BY DEF IInv
<1> QED BY <1>1, Invariance, PTL

(***************************************************************************)
(* A published end state is final while the agent lives, whenever Stop is  *)
(* called.                                                                 *)
(***************************************************************************)
THEOREM EndFinal == Spec => EndStays
<1> DEFINE Final == \A t \in Tasks : mem[t] \in Ended => mem'[t] = mem[t]
<1>1. IInv /\ [Next]_vars => [crashes' = crashes => Final]_vars
  <2> SUFFICES ASSUME IInv, Next, crashes' = crashes PROVE Final
    OBVIOUS
  <2> USE DEF IInv, TypeOK, Registry
  <2>1. ASSUME NEW t \in Tasks, Start(t) PROVE Final
    BY <2>1 DEF Start, Ended, Collected
  <2>2. ASSUME NEW t \in Tasks, Stop(t) PROVE Final
    BY <2>2 DEF Stop, Live, Ended, Collected
  <2>3. ASSUME NEW t \in Tasks, Commit(t) PROVE Final
    BY <2>3 DEF Commit, ExecuteOK, Executing, Steps, Live, Ended, Collected
  <2>4. ASSUME NEW t \in Tasks, ~Start(t), ~Stop(t), ~Commit(t),
               StartFails(t) \/ Execute(t) \/ StopCancels(t)
        PROVE  UNCHANGED mem
    BY <2>4 DEF StartFails, Execute, StopCancels, LogRunning, Decide, SaveDecided,
       Package, SaveFinal, LogFinal, registry
  <2>5. ~Restart
    BY DEF Restart
  <2> QED BY <2>1, <2>2, <2>3, <2>4, <2>5 DEF Next, Execute
<1> QED BY <1>1, Invariance, PTL DEF Spec, EndStays

(***************************************************************************)
(* The end state execute publishes is logged and its package committed.    *)
(***************************************************************************)
THEOREM Published == Spec => []PublishedLast
<1> USE DEF PublishedLast
<1>1. Init => PublishedLast
  BY DEF Init
<1>2. IInv /\ PublishedLast /\ [Next]_vars => PublishedLast'
  <2> SUFFICES ASSUME IInv, PublishedLast, [Next]_vars PROVE PublishedLast'
    OBVIOUS
  <2> USE DEF IInv, TypeOK
  <2>1. ASSUME NEW t \in Tasks, Start(t) PROVE PublishedLast'
    BY <2>1 DEF Start, Goto
  \* A task that is done is not running, so Stop does not touch it.
  <2>2. ASSUME NEW t \in Tasks, Stop(t) PROVE PublishedLast'
    <3>1. pc[t] # "done"
      BY <2>2 DEF Stop, ExecuteOK, Executing, Steps
    <3> QED BY <2>2, <3>1 DEF Stop
  \* What execute has decided is in the event log and the package.
  <2>3. ASSUME NEW t \in Tasks, Commit(t) PROVE PublishedLast'
    BY <2>3 DEF Commit, Goto, files, ExecuteOK, Packaged
  <2>4. ASSUME UNCHANGED mem, zip \subseteq zip',
               \A t \in Tasks : logged[t] \subseteq logged'[t],
               \A t \in Tasks : pc'[t] = "done" => pc[t] = "done"
        PROVE  PublishedLast'
    BY <2>4
  <2>5. ASSUME NEW t \in Tasks, ~Start(t), ~Stop(t), ~Commit(t),
               StartFails(t) \/ Execute(t) \/ StopCancels(t)
        PROVE  /\ UNCHANGED mem /\ zip \subseteq zip'
               /\ \A u \in Tasks : logged[u] \subseteq logged'[u]
               /\ \A u \in Tasks : pc'[u] = "done" => pc[u] = "done"
    BY <2>5 DEF StartFails, Execute, StopCancels, LogRunning, Decide, SaveDecided,
       Package, SaveFinal, LogFinal, registry, files, Log, Goto
  <2>6. CASE Restart
    BY <2>6 DEF Restart
  <2>7. CASE UNCHANGED vars
    BY <2>7 DEF vars
  <2> QED BY <2>1, <2>2, <2>3, <2>4, <2>5, <2>6, <2>7 DEF Next, Execute
<1> QED BY <1>1, <1>2, Invariance, PTL DEF Spec
=============================================================================
