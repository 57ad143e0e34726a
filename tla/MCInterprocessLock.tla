------------------------- MODULE MCInterprocessLock -------------------------
(* Two processes: left with the threads t1 and t2, right with t3.          *)
EXTENDS InterprocessLock

CONSTANTS t1, t2, t3, left, right

MCProcessOf == [t \in Threads |-> IF t \in {t1, t2} THEN left ELSE right]
=============================================================================
