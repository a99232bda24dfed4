---------------------------- MODULE Definitions ----------------------------
(***************************************************************************)
(* What a lab definition must satisfy to be loaded, and the order in which *)
(* its VMs are created and started (definitions.py).  A definition is      *)
(*   form    does each field on its own have the form that is asked for?   *)
(*   vms     the names of its VMs, in the order of the file                *)
(*   needs   of each, the sequence depends_on                              *)
(*   resets  grading.reset_vms                                             *)
(*   access  the controller and the targets of controller_access           *)
(* where resets and access are there only when the section is.             *)
(***************************************************************************)
EXTENDS SequencesExt

Names(d) == ToSet(d.vms)

IsDefinition(d) ==
    /\ d.vms \in Seq(Names(d))
    /\ \A name \in Names(d) : d.needs[name] \in Seq(ToSet(d.needs[name]))

(* dependency_order.  Active are the VMs on the way to these names, and done is
   the outcome so far: the order, and whether there was a cycle. *)
Outcomes(d) == [order : Seq(Names(d)), cycle : BOOLEAN]
Calls(d)    == Seq(Names(d)) \X (SUBSET Names(d)) \X Outcomes(d)

(* visit, of one VM: its dependencies come first, if it was not visited. *)
Visit(d, all, name, active, done) ==
    IF name \in active THEN [done EXCEPT !.cycle = TRUE]
    ELSE IF name \in ToSet(done.order) THEN done
    ELSE LET below == all[<<d.needs[name], active \union {name}, done>>]
         IN [below EXCEPT !.order = Append(@, name)]

(* The loops over the VMs and over depends_on, which an error ends. *)
VisitAll(d) ==
    LET all[call \in Calls(d)] ==
            IF call[1] = <<>> \/ call[3].cycle THEN call[3]
            ELSE all[<<Tail(call[1]), call[2],
                       Visit(d, all, Head(call[1]), call[2], call[3])>>]
    IN all

Visited(d) == VisitAll(d)[<<d.vms, {}, [order |-> <<>>, cycle |-> FALSE]>>]

DependencyOrder(d) == Visited(d).order

(* load_definition: what it refuses, with the order as its last step. *)
Sound(d) ==
    /\ d.form /\ d.vms # <<>> /\ IsInjective(d.vms)
    /\ \A name \in Names(d) : ToSet(d.needs[name]) \subseteq Names(d) \ {name}

SoundResets(d) ==
    "resets" \in DOMAIN d =>
        d.resets # <<>> /\ IsInjective(d.resets) /\ ToSet(d.resets) \subseteq Names(d)

SoundAccess(d) ==
    "access" \in DOMAIN d =>
        /\ d.access.controller \in Names(d) /\ d.access.targets # {}
        /\ d.access.targets \subseteq Names(d) \ {d.access.controller}

Acceptable(d) == Sound(d) /\ SoundResets(d) /\ SoundAccess(d) /\ ~Visited(d).cycle

-----------------------------------------------------------------------------

(* The reference for the order: every VM once, after all that it needs. *)
Before(order, a, b) ==
    \E i, j \in DOMAIN order : i < j /\ order[i] = a /\ order[j] = b

Topological(d, order) ==
    /\ IsInjective(order) /\ ToSet(order) = Names(d)
    /\ \A name \in Names(d) : \A other \in ToSet(d.needs[name]) : Before(order, other, name)
=============================================================================
