---------------------------- MODULE MCAssignments ----------------------------
(*****************************************************************************)
(* Assignments for TLC: two tasks, one professional with room for one and    *)
(* one with room for two, two requests at a time.                            *)
(*****************************************************************************)
EXTENDS Assignments

CONSTANTS t1, t2, p1, p2, h1, h2

MCCapacity == [p \in Pros |-> IF p = p1 THEN 1 ELSE 2]

=============================================================================
