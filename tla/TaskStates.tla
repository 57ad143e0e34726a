----------------------------- MODULE TaskStates -----------------------------
(***************************************************************************)
(* The task state contract of the Job Center and the two pure functions    *)
(* every persisted task event goes through: which status an event gives a  *)
(* snapshot (_apply_event) and which statuses the stored row may have for  *)
(* the event to be written (_allowed_from).  Used by every module that     *)
(* writes rows of tasks.db.                                                *)
(***************************************************************************)

Active == {"PENDING", "STARTING", "RUNNING", "STOPPING"}
Terminal == {"COMPLETED", "FAILED", "CANCELLED"}
States == Active \cup Terminal

(***************************************************************************)
(* An event: its type, the status it asks for ("keep" when the type does   *)
(* not carry one) and whether the result it stores has business warnings.  *)
(* Texts, counters and timestamps of the payload are left out.             *)
(***************************************************************************)
StateEvent(s) == [type |-> "state", to |-> s, warn |-> FALSE]
ProgressEvent == [type |-> "progress", to |-> "keep", warn |-> FALSE]
FinishedEvent(s, w) == [type |-> "finished", to |-> s, warn |-> w]
ErrorEvent == [type |-> "error", to |-> "FAILED", warn |-> FALSE]
CancelledEvent == [type |-> "cancelled", to |-> "CANCELLED", warn |-> FALSE]
FinalizedEvent(w) == [type |-> "artifact_finalized", to |-> "keep", warn |-> w]
RejectedEvent(s) == [type |-> "artifact_rejected", to |-> s, warn |-> FALSE]

Closing == {"finished", "error", "cancelled"}
EventTypes == {"state", "progress", "artifact_finalized", "artifact_rejected"}
              \cup Closing
Events == [type : EventTypes, to : States \cup {"keep"}, warn : BOOLEAN]

\* The status of the snapshot an event produces from a snapshot with status s.
ApplyEvent(s, ev) == IF ev.to = "keep" THEN s ELSE ev.to

\* Whether the produced snapshot's result carries warnings.
ApplyWarning(w, ev) ==
  IF ev.type \in {"finished", "artifact_finalized"} THEN ev.warn
  ELSE w /\ ev.type # "artifact_rejected"

\* Faulty variants: a state event may overtake an accepted cancel; a terminal
\* state event is refused on a row that is being stopped.
StateSourcesAny(to) == Active
StateSourcesNoStop(to) == {r \in Active : to \in Active \/ r # "STOPPING"}

\* The rows a state event of a running task may still move to state to.
StateSources(to) ==
  {r \in Active : /\ to = "PENDING" => r = "PENDING"
                  /\ to = "STARTING" => r \in {"PENDING", "STARTING"}
                  /\ to = "RUNNING" => r # "STOPPING"}

\* Faulty variant: the guard trusts the status that was read, not the row's.
AllowedFromStale(s, ev) == IF s \in Active THEN States ELSE {s}

(***************************************************************************)
(* The statuses the stored row may have for the event to be written, given *)
(* the status s of the snapshot that was read when the event was handled.  *)
(***************************************************************************)
AllowedFrom(s, ev) ==
  {r \in States :
     \/ ev.type = "artifact_finalized" /\ r = "COMPLETED"
     \/ ev.type = "artifact_rejected" /\ r = s
     \/ ev.type = "state" /\ s \in Terminal /\ r = s /\ ev.to = s
     \/ ev.type = "state" /\ s \in Active /\ r \in StateSources(ev.to)
     \/ ev.type = "progress" /\ s \in Active /\ r = s
     \/ ev.type \in Closing /\ s \in Active /\ r \in Active}

\* task_requires_attention: a failure, or a completion with warnings.
RequiresAttention(s, w) == s = "FAILED" \/ (s = "COMPLETED" /\ w)
=============================================================================
