---------------------------- MODULE LabContract ----------------------------
(***************************************************************************)
(* What the creation of a lab promises to whoever looks at the host from   *)
(* outside: a lab is absent, pending, or ready.  While nothing is recorded *)
(* about a lab nothing of it exists; while it is ready everything of it    *)
(* exists and stays; and only a pending lab, whose recovery record is on   *)
(* disk, may own a part of its resources.  The promise has a limit: a      *)
(* creation that was not clean, because a step of it raised with its       *)
(* effect in place, may end broken, with a part of the lab and without a   *)
(* usable record.  It is never ready then.                                 *)
(***************************************************************************)
VARIABLES
    phase,      \* "absent", "pending" (a recovery record), "ready" or "broken"
    resources,  \* how much of the lab exists: "none", "some" or "all"
    clean       \* no step of this creation raised with its effect in place

contractVars == <<phase, resources, clean>>

ContractInit == phase = "absent" /\ resources = "none" /\ clean = TRUE

(* A durable record precedes the first resource.  It is that of a new lab,
   also where an earlier creation ended broken. *)
Begin == /\ phase \in {"absent", "broken"} /\ phase' = "pending"
         /\ resources' = "none" /\ clean' = TRUE

(* Resources come and go only under a record. *)
Work == /\ phase = "pending" /\ UNCHANGED phase
        /\ resources' \in {"none", "some", "all"}
        /\ clean' \in {clean, FALSE}

(* A creation commits only when it is clean and everything exists ... *)
CommitLab == /\ phase = "pending" /\ resources = "all" /\ clean = TRUE
             /\ phase' = "ready" /\ UNCHANGED <<resources, clean>>

(* ... and is forgotten only when nothing does. *)
Discard == /\ phase = "pending" /\ resources = "none" /\ clean = TRUE
           /\ phase' = "absent" /\ UNCHANGED <<resources, clean>>

(* A creation that is not clean may break, and may still be undone. *)
Break == /\ phase \in {"pending", "broken"} /\ clean' = FALSE
         /\ phase' \in {"pending", "broken"}
         /\ resources' \in {"none", "some", "all"}

ContractNext == Begin \/ Work \/ CommitLab \/ Discard \/ Break

Contract == ContractInit /\ [][ContractNext]_contractVars
=============================================================================
