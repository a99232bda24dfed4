----------------------------- MODULE MCLabHost -----------------------------
(***************************************************************************)
(* Model checking of LabHost: one process creates the lab or looks at it   *)
(* while another creates it or works on its image; the definition has a    *)
(* version with the dependency later in the file, one the other way round, *)
(* and one with a cycle.                                                   *)
(***************************************************************************)
EXTENDS LabHost

CONSTANTS p, q, a, b

Both  == {p, q}

Case(made, first, second, disturbances) ==
    [lab |-> made, commands |-> (p :> first) @@ (q :> second), disturbances |-> disturbances]

(* A creation beside another, beside a command on the image, and while its
   definition is edited; one who looks at the lab beside a creation, a change of
   it, and while guests go off and on and libvirt does not answer; and a change
   beside another, or a creation. *)
Host == {
    Case(FALSE, {"create"}, {"create", "remove", "vm", "connect"}, {"kill"}),
    Case(FALSE, {"create"}, {"pull", "import", "rm"}, {"corrupt", "source"}),
    Case(FALSE, {"create", "ls", "show"}, {"rm"}, {"corrupt", "definition"}),
    Case(FALSE, {"list"}, {"create"}, {}),
    Case(TRUE, {"list"}, Changing, {}),
    Case(TRUE, {"ls", "list", "vm", "connect", "show"}, {"power"}, {"toggle", "hang", "kill"}),
    Case(TRUE, {"create", "remove"}, Changing, {"kill"})}

TwoVms == {a, b}
Some   == {{}, {a, b}}

Plain == [form |-> TRUE, vms |-> <<a, b>>, needs |-> (a :> <<b>>) @@ (b :> <<>>),
          resets |-> <<b>>, access |-> [controller |-> a, targets |-> {b}]]

Texts == [later   |-> Plain,
          swapped |-> [Plain EXCEPT !.vms = <<b, a>>, !.needs = (a :> <<>>) @@ (b :> <<a>>)],
          cyclic  |-> [Plain EXCEPT !.needs = (a :> <<b>>) @@ (b :> <<a>>)]]

Contents == {"pinned", "local"}
TheOne   == "pinned"
Imported == "local"
First    == "later"
NoOther  == {}
Edited   == DOMAIN Texts

(* dependency_order, for every definition of three VMs in any order of the
   file: it finds a cycle if there is no order, and a right order otherwise. *)
Three == 1..3

Orders == {s \in [Three -> Three] : IsInjective(s)}

Cases == {[Plain EXCEPT !.vms = s, !.needs = n] : s \in Orders,
          n \in {f \in [Three -> {<<>>, <<1>>, <<2>>, <<3>>, <<1, 2>>, <<1, 3>>, <<3, 2>>}] :
                   \A i \in Three : i \notin ToSet(f[i])}}

ASSUME OrderingAssumption ==
    \A d \in Cases :
        IF Visited(d).cycle THEN \A s \in Orders : ~Topological(d, s)
        ELSE Topological(d, DependencyOrder(d))
=============================================================================
