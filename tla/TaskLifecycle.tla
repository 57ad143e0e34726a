--------------------------- MODULE TaskLifecycle ---------------------------
(***************************************************************************)
(* What the Job Center promises of the durable record of a task, whatever  *)
(* the interleaving of hosts, API calls, recovery and cleanup: a task is   *)
(* created once, moves between active states, is closed once with one      *)
(* outcome, may have a completed outcome withdrawn (its artifact was       *)
(* refused), and once retired never comes back.                            *)
(***************************************************************************)
EXTENDS TaskStates

CONSTANT Tasks
VARIABLE life      \* life[t]: "absent", a task state, or "retired"

Init == life = [t \in Tasks |-> "absent"]

Create(t) == /\ life[t] = "absent"
             /\ life' = [life EXCEPT ![t] = "PENDING"]

Move(t) == /\ life[t] \in Active
           /\ \E s \in Active : life' = [life EXCEPT ![t] = s]

Close(t) == /\ life[t] \in Active
            /\ \E s \in Terminal : life' = [life EXCEPT ![t] = s]

Withdraw(t) == /\ life[t] = "COMPLETED"
               /\ life' = [life EXCEPT ![t] = "FAILED"]

Retire(ts) == /\ \A t \in ts : life[t] \in Terminal
              /\ life' = [t \in Tasks |-> IF t \in ts THEN "retired" ELSE life[t]]

Next == \/ \E t \in Tasks : Create(t) \/ Move(t) \/ Close(t) \/ Withdraw(t)
        \/ \E ts \in SUBSET Tasks : Retire(ts)

Spec == Init /\ [][Next]_life
=============================================================================
