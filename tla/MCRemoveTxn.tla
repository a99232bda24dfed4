---------------------------- MODULE MCRemoveTxn ----------------------------
(***************************************************************************)
(* Model checking of RemoveTxn: three virtual machines in a chain, so that *)
(* a dependant can be a transitive one and a removal can meet a VM that is *)
(* already gone, one that it is at, and one that is still to come.         *)
(***************************************************************************)
EXTENDS RemoveTxn

ThreeVms == 3
Chain == <<{}, {1}, {2}>>
=============================================================================
