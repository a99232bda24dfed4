-------------------------- MODULE MCPracticeAccess --------------------------
(* Model checking of PracticeAccess: a controller and two targets. *)
EXTENDS PracticeAccess

CONSTANTS c, s, t

Both    == {s, t}
KeySet  == 1 .. 6
Resets  == {{c}, {s}, {c, s, t}}
=============================================================================
