---------------------------- MODULE MCCreateTxn ----------------------------
(***************************************************************************)
(* Model checking of CreateTxn: two virtual machines, so that a rollback   *)
(* or a recovery can meet one that is finished and one that is not.        *)
(***************************************************************************)
EXTENDS CreateTxn

OneVm == 1
TwoVms == 2
=============================================================================
