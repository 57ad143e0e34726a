------------------------------ MODULE FileLock ------------------------------
(***************************************************************************)
(* What interprocess_file_lock promises its callers: a reentrant lock on   *)
(* one file that all the threads of all the processes share.  held[t] is   *)
(* the number of bodies of "with interprocess_file_lock(path)" thread t is *)
(* inside.  A process that dies leaves all of them.                        *)
(***************************************************************************)
EXTENDS Naturals

CONSTANTS Threads, Processes, ProcessOf

VARIABLE held

FileLockInit == held = [t \in Threads |-> 0]

Enter(t) ==
  /\ \A u \in Threads \ {t} : held[u] = 0
  /\ held' = [held EXCEPT ![t] = @ + 1]

Leave(t) ==
  /\ held[t] > 0
  /\ held' = [held EXCEPT ![t] = @ - 1]

Die(p) == held' = [t \in Threads |-> IF ProcessOf[t] = p THEN 0 ELSE held[t]]

FileLockNext ==
  \/ \E t \in Threads : Enter(t) \/ Leave(t)
  \/ \E p \in Processes : Die(p)

FileLockSpec == FileLockInit /\ [][FileLockNext]_held
=============================================================================
