-------------------------- MODULE MCUpdatePlanner --------------------------
(* Instance of the planner for TLC, and the mistakes its properties catch.  *)
EXTENDS UpdatePlanner
CONSTANTS p1, p2
=============================================================================
