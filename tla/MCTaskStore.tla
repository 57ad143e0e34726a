---------------------------- MODULE MCTaskStore ----------------------------
(***************************************************************************)
(* Small instances of TaskStore.  Every local task asks for the key k, so  *)
(* that two of them always compete.                                        *)
(***************************************************************************)
EXTENDS TaskStore

CONSTANTS a, b, x, k, u, v

MCKeysOf == [t \in Tasks |-> IF t \in LocalTasks THEN {k} ELSE {}]
============================================================================
