--------------------------- MODULE MCFrontierQueue ---------------------------
EXTENDS FrontierQueue

(* Rows 1 and 2 belong to the first case, row 3 to the second.             *)
MCCaseOf == [i \in Rows |-> IF i <= 2 THEN 1 ELSE 2]

(* The money of a case may go from any of its rows to any other.           *)
MCOnward == [i \in Rows |-> {j \in Rows : MCCaseOf[j] = MCCaseOf[i]}]

-----------------------------------------------------------------------------
(* Two routes to one address X: the trace of root -> X left X -> Y behind  *)
(* (row 2), and that of root -> Z left Z -> X (row 1), both at its depth   *)
(* limit.                                                                  *)
OneCase == [i \in Rows |-> 1]

TwoRoutes == [i \in Rows |-> IF i = 1 THEN {2} ELSE {}]
=============================================================================
