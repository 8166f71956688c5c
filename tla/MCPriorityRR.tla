---------------------------- MODULE MCPriorityRR ----------------------------
(***************************************************************************)
(* The instance of PriorityRR that TLC checks.  Its lowest priority is the *)
(* -1 at which the search for the highest starts.                          *)
(***************************************************************************)
EXTENDS PriorityRR

MCPriorities == {-1, 0, 2}
=============================================================================
