---------------------------- MODULE MCAgentTasks ----------------------------
(***************************************************************************)
(* Small instances of AgentTasks: two tasks of the same type, and a        *)
(* collection task of another.                                             *)
(***************************************************************************)
EXTENDS AgentTasks

CONSTANTS a, b, d, ping, mr

MCTypeOf == [t \in Tasks |-> IF t \in Collect THEN mr ELSE ping]
=============================================================================
