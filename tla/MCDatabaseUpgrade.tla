-------------------------- MODULE MCDatabaseUpgrade --------------------------
(***************************************************************************)
(* Instances of DatabaseUpgrade for TLC: the operations a and b on one     *)
(* profile.                                                                *)
(***************************************************************************)
EXTENDS DatabaseUpgrade

CONSTANTS a, b

ASSUME OperationsAssumption == a # b
=============================================================================
