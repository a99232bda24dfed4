-------------------------- MODULE RemovalContract --------------------------
(***************************************************************************)
(* What the removal of a lab promises: a kept lab may lose and regain      *)
(* virtual machines, but nothing of its core; once its removal has begun   *)
(* its core only goes, and a machine that comes back is taken away again;  *)
(* and the lab is forgotten only when nothing of it is left.               *)
(***************************************************************************)
CONSTANTS
    Parts,      \* everything a lab may own on the host
    Core        \* what every one of its virtual machines needs; a subset of Parts

VARIABLES
    phase,      \* "kept", "leaving" (a removal is on record) or "gone"
    left        \* the parts that exist

removalVars == <<phase, left>>

RemovalInit == phase = "kept" /\ left = Parts

(* Virtual machines come and go; the core stays as it is. *)
Change == /\ phase = "kept" /\ UNCHANGED phase
          /\ left' \subseteq Parts /\ left' \intersect Core = left \intersect Core

Begin == phase = "kept" /\ phase' = "leaving" /\ UNCHANGED left

Shrink == phase = "leaving" /\ left' \subseteq left /\ UNCHANGED phase

Return == /\ phase = "leaving" /\ UNCHANGED phase
          /\ left \subseteq left' /\ left' \subseteq left \union (Parts \ Core)

Finish == phase = "leaving" /\ left = {} /\ phase' = "gone" /\ UNCHANGED left

(* A removal that failed in its very last step puts an empty lab on record. *)
Reappear == phase = "gone" /\ phase' = "kept" /\ UNCHANGED left

RemovalNext == Change \/ Begin \/ Shrink \/ Return \/ Finish \/ Reappear

Removal == RemovalInit /\ [][RemovalNext]_removalVars
=============================================================================
