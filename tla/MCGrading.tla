----------------------------- MODULE MCGrading -----------------------------
(***************************************************************************)
(* Model checking of Grading: a controller and a managed target, and a     *)
(* grader with a child in its process group, one that has left it, and a   *)
(* daemon that has also closed the grader's pipes.                         *)
(***************************************************************************)
EXTENDS Grading

CONSTANTS controller, node, inside, outside, daemon

TwoVms == {controller, node}
Targets == {node}
ThreeKids == {inside, outside, daemon}
TwoOut == {outside, daemon}
Daemons == {daemon}
=============================================================================
