----------------------------- MODULE MCResetTxn -----------------------------
(***************************************************************************)
(* Model checking of ResetTxn: two virtual machines, so that a selection   *)
(* can be a part of the lab and a failure can meet one VM that is done and *)
(* one that is not.                                                        *)
(***************************************************************************)
EXTENDS ResetTxn

TwoVms == 2

(* Names in the order of vm_order, like app and proxy ... *)
Alphabetical == <<1, 2>>
(* ... and against it, like target and controller in the bundled lab AN001. *)
TargetController == <<2, 1>>
=============================================================================
