----------------------------- MODULE MCPowerOps -----------------------------
(***************************************************************************)
(* Model checking of PowerOps: a virtual machine and one that depends on   *)
(* it, both in the controller access, with one interference by others.     *)
(***************************************************************************)
EXTENDS PowerOps

TwoVms == 2
Pair == <<{}, {1}>>
Both == {1, 2}
OneEvent == 1
=============================================================================
