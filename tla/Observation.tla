---------------------------- MODULE Observation ----------------------------
(***************************************************************************)
(* What the read-only commands lab ls, lab inspect, vm ls and vm inspect   *)
(* tell of a lab (runtime.py): they take no lock, and read the record, the *)
(* journal and libvirt one after the other while the lab may change.       *)
(***************************************************************************)
EXTENDS HostCommand

CONSTANT VM         \* the VMs of the lab

(* The statuses that a record may have. *)
Statuses == {"provisioning", "ready", "running", "stopped", "degraded", "failed_cleanup"}

ASSUME StatusAssumption == None \notin Statuses

VARIABLES
    record,     \* labs/ID.json, or None
    journal,    \* transactions/ID.json, the operation and its VMs, or None
    dom,        \* the domains of the lab's instance: absent, bare (no metadata), on, off
    hung,       \* does libvirt not answer?
    view        \* what each process knows of the lab

lab  == <<record, journal, dom>>
seen == <<lab, hung>>

(* A view has a copy of the record's state and VMs, whether that instance still
   exists (a new one has a new UUID, and other names for its domains), whether
   an operation is pending, and for each VM what libvirt said; todo are the VMs
   whose XML is still to be examined.  Active are those that were powered on when
   libvirt told of them: it is there for the properties alone. *)
NoView == [status |-> None, vms |-> {}, live |-> FALSE, pending |-> FALSE,
           power |-> [v \in VM |-> "unasked"], todo |-> {}, active |-> {}]

Look(p, value) == view' = [view EXCEPT ![p] = value]

ObservationInit == hung = FALSE /\ view = [p \in Procs |-> NoView]

-----------------------------------------------------------------------------

(* lab ls reads the catalogue first; lab inspect and vm ls ("list") and vm inspect
   do not. *)
BeginLs(p)   == Parse(p, "ls", "catalogue") /\ UNCHANGED <<seen, view>>
BeginList(p) == Parse(p, "list", "records") /\ UNCHANGED <<seen, view>>
BeginVm(p)   == Parse(p, "vm", "records") /\ UNCHANGED <<seen, view>>

ReadCatalogue(p, loads) ==
    /\ At(p, "catalogue") /\ UNCHANGED <<seen, view>>
    /\ IF loads THEN Proceed(p, "records") ELSE Leave(p, "operation")

(* status_records: the record, and then the journal. *)
ReadRecords(p) ==
    /\ At(p, "records") /\ Proceed(p, "journal_summary") /\ UNCHANGED seen
    /\ IF record = None THEN UNCHANGED view
       ELSE Look(p, [NoView EXCEPT !.status = record.status, !.vms = record.vms, !.live = TRUE])

ReadSummary(p) ==
    /\ At(p, "journal_summary") /\ UNCHANGED seen
    /\ IF view[p].status = None /\ journal = None
       THEN Proceed(p, "no_lab") /\ UNCHANGED view
       ELSE /\ Look(p, [view[p] EXCEPT !.pending = (journal # None)])
            /\ Proceed(p, IF op[p] = "vm" THEN "select" ELSE "inventory")

(* No lab: lab ls has nothing to show, lab inspect shows a definition that the
   catalogue has, vm ls and vm inspect fail. *)
NoLab(p) ==
    /\ At(p, "no_lab") /\ UNCHANGED <<seen, view>>
    /\ \/ op[p] \in {"ls", "list"} /\ Leave(p, "success")
       \/ op[p] # "ls" /\ Leave(p, "absent")

(* vm inspect keeps only its VM. *)
SelectVm(p) ==
    /\ At(p, "select") /\ UNCHANGED seen
    /\ \E v \in VM :
         \/ /\ v \in view[p].vms /\ Look(p, [view[p] EXCEPT !.vms = {v}])
            /\ Proceed(p, "inventory")
         \/ v \notin view[p].vms /\ Leave(p, "absent") /\ Look(p, NoView)

-----------------------------------------------------------------------------

(* observe_states has one query for the power of all domains; libvirt answers it
   domain by domain, while they may change. *)
Active(v, live) == live /\ dom[v] \in {"bare", "on"}

Answer(v, live) ==
    IF ~live \/ dom[v] = "absent" THEN "missing" ELSE IF dom[v] = "off" THEN "off" ELSE "on"

Unasked(p) == {v \in view[p].vms : view[p].power[v] = "unasked"}

Ask(p) ==
    /\ At(p, "inventory") /\ ~hung /\ UNCHANGED <<seen, command>>
    /\ \E v \in Unasked(p) :
         Look(p, [view[p] EXCEPT !.power[v] = Answer(v, view[p].live),
                                 !.active = @ \union (IF Active(v, view[p].live) THEN {v} ELSE {})])

Inventory(p) ==
    /\ At(p, "inventory") /\ ~hung /\ Unasked(p) = {} /\ UNCHANGED seen /\ Proceed(p, "examine")
    /\ Look(p, [view[p] EXCEPT !.todo = {v \in view[p].vms : view[p].power[v] \in {"on", "off"}}])

(* The query fails, or its group of processes is killed after three seconds. *)
Unbounded(p) ==   \* mutant: the query has no timeout
    /\ At(p, "inventory") /\ ~hung /\ UNCHANGED seen /\ Proceed(p, "examine")
    /\ LET power == [v \in VM |-> IF v \in view[p].vms THEN "unknown" ELSE "unasked"]
       IN Look(p, [view[p] EXCEPT !.power = power])

Unanswered(p) ==
    /\ At(p, "inventory") /\ UNCHANGED seen /\ Proceed(p, "examine")
    /\ LET power == [v \in VM |-> IF v \in view[p].vms THEN "unknown" ELSE "unasked"]
       IN Look(p, [view[p] EXCEPT !.power = power])

(* The XML of a domain that was listed must name the instance as its owner; a
   domain that is gone, a query that is late and a budget that is used up are
   all unknown. *)
Examine(p) ==
    /\ At(p, "examine") /\ ~hung /\ UNCHANGED <<seen, command>>
    /\ \E v \in view[p].todo :
         /\ view[p].live /\ dom[v] \in {"on", "off"}
         /\ Look(p, [view[p] EXCEPT !.todo = @ \ {v}])

Unexamined(p) ==
    /\ At(p, "examine") /\ UNCHANGED <<seen, command>>
    /\ \E v \in view[p].todo :
         Look(p, [view[p] EXCEPT !.todo = @ \ {v}, !.power[v] = "unknown"])

-----------------------------------------------------------------------------

Powers(p) == {view[p].power[v] : v \in view[p].vms}

(* _aggregate: the state that is shown of the lab. *)
Aggregate(p) ==
    CASE Powers(p) = {} \/ "unknown" \in Powers(p) -> "unknown"
      [] Powers(p) = {"on"}                        -> "running"
      [] Powers(p) = {"off"}                       -> "stopped"
      [] Powers(p) = {"on", "off"}                 -> "partial"
      [] OTHER                                     -> "degraded"

(* status_diagnostics: what is shown beside it. *)
Unfinished == {"provisioning", "degraded", "failed_cleanup"}

PowerOnly(p) ==   \* mutant: the recorded lifecycle is not looked at
    "unknown" \in Powers(p) \/ "missing" \in Powers(p) \/ view[p].vms = {} \/ view[p].pending

Diagnosed(p) ==
    \/ "unknown" \in Powers(p) \/ "missing" \in Powers(p) \/ view[p].vms = {}
    \/ view[p].pending \/ view[p].status \in Unfinished

Report(p) ==
    /\ At(p, "examine") /\ view[p].todo = {} /\ UNCHANGED seen
    /\ Leave(p, "success") /\ Look(p, NoView)

-----------------------------------------------------------------------------

(* lab ssh, lab console, vm ssh and vm console: the record is read, twice when
   the VM is not given, and a child connects to what it says. *)
BeginConnect(p) ==
    /\ \E first \in {"default_vm", "connection"} : Parse(p, "connect", first)
    /\ UNCHANGED <<seen, view>>

Recorded == IF record = None THEN {} ELSE record.vms

DefaultVm(p) ==
    /\ At(p, "default_vm") /\ UNCHANGED <<seen, view>>
    /\ \/ record = None /\ Leave(p, "absent")
       \/ record # None /\ Cardinality(Recorded) # 1 /\ Leave(p, "parse")
       \/ record # None /\ Proceed(p, "connection")

(* It may have no address yet; --uri may not be the instance's. *)
Connect(p) ==
    /\ At(p, "connection") /\ UNCHANGED <<seen, view>>
    /\ \/ Recorded # VM /\ Leave(p, "absent")
       \/ Recorded # {} /\ Proceed(p, "child")
       \/ Recorded # {} /\ Leave(p, "conflict")
       \/ Recorded # {} /\ record.status = "provisioning" /\ Leave(p, "prerequisite")

Child(p) ==
    /\ At(p, "child") /\ UNCHANGED <<seen, view>>
    /\ \E status \in {"success", "operation"} : Leave(p, status)

ObserveStep(p) ==
    \/ ReadRecords(p) \/ ReadSummary(p) \/ SelectVm(p)
    \/ Ask(p) \/ Inventory(p) \/ Unanswered(p) \/ Examine(p) \/ Unexamined(p) \/ Report(p)
    \/ DefaultVm(p) \/ Connect(p)

(* The instance of every view is gone for good. *)
InstanceGone == view' = [p \in Procs |-> [view[p] EXCEPT !.live = FALSE]]
=============================================================================
