---------------------------- MODULE LabChanges ----------------------------
(***************************************************************************)
(* The commands that change a lab which exists: lab rm, vm rm, reset, and  *)
(* those that only switch VMs or repair the record.  They hold the lock of *)
(* the lab, and go through their steps while others look.  Of each, this   *)
(* has what others can see: the journal, the domains one after the other,  *)
(* the status of the record.  What they do in full is in the modules       *)
(* RemoveTxn, ResetTxn and PowerOps.                                       *)
(***************************************************************************)
EXTENDS Observation, Definitions

CONSTANT Selections     \* bound: the VMs that a reset, a start or a stop may be about

ASSUME SelectionsAssumption == Selections \subseteq SUBSET VM

VARIABLES
    base,       \* the bytes of the copied base image: None, good, bad
    llock       \* who holds the lock of the lab: None or a process

store == <<lab, base>>

(* The journal of an operation on some of the VMs. *)
Journal(operation, some) == [operation |-> operation, vms |-> some]

Journals == [operation : {"create", "remove", "remove-vm", "reset"}, vms : SUBSET VM]

ASSUME JournalAssumption == None \notin Journals

Pending(operation) == journal # None /\ journal.operation = operation

(* What _set_power_state gives to a record, of which some VMs are off, on, or
   either; and a repair or a failure. *)
Lowered  == {"stopped", "degraded"}
Raised   == {"ready", "degraded"}
Switched == Lowered \union Raised
Marks    == Switched \union {"failed_cleanup"}

Marked(status) == record' = [record EXCEPT !.status = status]

(* A creation that has begun and was not committed. *)
Uncommitted == IF record = None THEN FALSE ELSE record.status # "ready"

Quit(p, error) == Leave(p, error) /\ llock' = None

(* The VMs of loc that are left: some, or after the end of a phase all again. *)
KeepTodo(p, some) == Keep(p, [loc[p] EXCEPT !.todo = some])

-----------------------------------------------------------------------------

Changing == {"remove", "remove-vm", "reset", "power"}

BeginChange(p, name) == Parse(p, name, "lab_lock") /\ UNCHANGED <<seen, view, base, llock>>

(* The lock is not waited for: lab create comes from "lock". *)
TakeLab(p) ==
    /\ UNCHANGED <<seen, view, base>>
    /\ \/ llock = None /\ llock' = p /\ At(p, "lock") /\ Proceed(p, "pending")
       \/ llock = None /\ llock' = p /\ At(p, "lab_lock") /\ Proceed(p, "opened")
       \/ pc[p] \in {"lock", "lab_lock"} /\ llock # None /\ Leave(p, "locked") /\ UNCHANGED llock

(* No record, the journal of another operation, a domain that is not the lab's,
   a VM that is running or needed, and whatever else is asked for. *)
Refuse(p) ==
    /\ At(p, "opened") /\ UNCHANGED <<seen, view, base>>
    /\ \/ record = None /\ Quit(p, "absent")
       \/ Quit(p, "operation")

(* The command starts to work on some VMs. *)
Start(p, some, where) ==
    /\ Goto(p, where) /\ Keep(p, [loc[p] EXCEPT !.chosen = some, !.todo = some])
    /\ UNCHANGED llock

(* remove.  A creation that was cut off is undone, or its journal is dropped when
   it had come to its end; a removal that was cut off goes on. *)
OpenRemove(p) ==
    /\ At(p, "opened") /\ op[p] = "remove" /\ UNCHANGED <<hung, view, record, dom, base>>
    /\ \/ /\ Pending("create") /\ record # None /\ ~Uncommitted /\ journal' = None
          /\ UNCHANGED <<command, llock>>
       \/ /\ Pending("create") /\ Uncommitted
          /\ Proceed(p, "undo") /\ UNCHANGED <<journal, llock>>
       \/ /\ (Pending("create") \/ Pending("remove"))
          /\ record = None /\ journal' = None /\ Quit(p, "success")
       \/ /\ (journal = None \/ Pending("remove"))
          /\ record # None /\ journal' = Journal("remove", VM) /\ Start(p, VM, "shut")

(* remove_vm, of one VM; a retry must be for the same one. *)
OpenVm(p) ==
    /\ At(p, "opened") /\ op[p] = "remove-vm" /\ record # None
    /\ UNCHANGED <<hung, view, record, dom, base>>
    /\ \E v \in record.vms :
         /\ journal \in {None, Journal("remove-vm", {v})}
         /\ journal' = Journal("remove-vm", {v}) /\ Start(p, {v}, "shut")

(* reset.  One that was cut off is taken back first, or had been committed. *)
OpenReset(p) ==
    /\ At(p, "opened") /\ op[p] = "reset" /\ ~hung /\ record # None
    /\ UNCHANGED <<hung, view, record, dom, base>>
    /\ \/ Pending("reset") /\ Start(p, journal.vms, "restore") /\ UNCHANGED journal
       \/ Pending("reset") /\ journal' = None /\ Quit(p, "success")
       \/ /\ journal = None /\ base = "good"
          /\ \E some \in Selections :
               /\ some # {} /\ some \subseteq record.vms
               /\ \A v \in some : dom[v] \in {"on", "off"}
               /\ journal' = Journal("reset", some) /\ Start(p, some, "shut")

(* start, stop, restart, of the lab or a VM with those that belong to it; and
   reconcile, which switches none. *)
OpenPower(p) ==
    /\ At(p, "opened") /\ op[p] = "power" /\ ~hung /\ record # None /\ journal = None
    /\ UNCHANGED <<seen, view, base>>
    /\ \E some \in Selections :
         /\ some \subseteq {v \in record.vms : dom[v] \in {"on", "off"}}
         /\ \E where \in {"switch_on", "switch_off"} : Start(p, some, where)

-----------------------------------------------------------------------------

(* VMs are taken in the order of the record, or in its reverse; one domain changes. *)
Foremost(some) == {v \in some : \A w \in some \ {v} : Before(record.order, v, w)}
Hindmost(some) == {v \in some : \A w \in some \ {v} : Before(record.order, w, v)}

Turn(v, to) == dom' = [dom EXCEPT ![v] = to]

Other == [on |-> "off", off |-> "on"]

(* The VMs are shut down or switched off, before anything goes. *)
Shut(p) ==
    /\ At(p, "shut") /\ ~hung /\ UNCHANGED <<hung, view, base, llock, journal>>
    /\ \/ \E v \in Hindmost({w \in loc[p].todo : dom[w] = "on"}) :
            Turn(v, "off") /\ UNCHANGED <<command, record>>
       \/ /\ \A v \in loc[p].todo : dom[v] # "on"
          /\ UNCHANGED dom
          /\ \/ op[p] = "remove" /\ Proceed(p, "undo") /\ UNCHANGED record
             \/ op[p] = "remove" /\ Proceed(p, "undo") /\ \E status \in Lowered : Marked(status)
             \/ op[p] = "remove-vm" /\ Proceed(p, "drop") /\ UNCHANGED record
             \/ op[p] = "reset" /\ Proceed(p, "renew") /\ \E status \in Lowered : Marked(status)

(* vm rm: the domain is undefined, and the record says so. *)
Drop(p) ==
    /\ At(p, "drop") /\ ~hung /\ UNCHANGED <<hung, view, journal, base, llock>>
    /\ \/ \E v \in loc[p].chosen : dom[v] = "off" /\ Turn(v, "absent") /\ UNCHANGED <<command, record>>
       \/ /\ \A v \in loc[p].chosen : dom[v] = "absent"
          /\ Marked("degraded") /\ Proceed(p, "dropped") /\ UNCHANGED dom

(* The disks go, and then the journal. *)
Dropped(p) ==
    /\ At(p, "dropped") /\ UNCHANGED <<hung, view, base, dom>>
    /\ \/ journal' = None /\ Quit(p, "success") /\ UNCHANGED record
       \/ Marked("failed_cleanup") /\ Quit(p, "operation") /\ UNCHANGED journal

-----------------------------------------------------------------------------

(* lab rm, and a creation that is taken back ("undo") or was cut off
   ("recover"): the domains go one by one, the others also when one cannot, then
   the storage, the record and the journal. *)
TakeDown(p) ==
    /\ pc[p] \in {"undo", "recover"} /\ ~hung
    /\ \E v \in VM :
         \/ dom[v] \in {"bare", "on"} /\ Turn(v, "off")
         \/ dom[v] \in {"bare", "off"} /\ Turn(v, "absent")
    /\ UNCHANGED <<command, hung, view, record, journal, base, llock>>

Gone == \A v \in VM : dom[v] = "absent"

TakeStorage(p) ==
    /\ pc[p] \in {"undo", "recover"} /\ ~hung /\ Gone /\ base # None /\ base' = None
    /\ UNCHANGED <<command, seen, view, llock>>

TakeRecord(p) ==
    /\ pc[p] \in {"undo", "recover"} /\ ~hung /\ Gone /\ base = None /\ record # None
    /\ record' = None /\ InstanceGone
    /\ UNCHANGED <<command, hung, journal, dom, base, llock>>

TakeJournal(p) ==
    /\ pc[p] \in {"undo", "recover"} /\ record = None /\ journal' = None
    /\ UNCHANGED <<hung, view, record, dom, base>>
    /\ \/ At(p, "recover") /\ Proceed(p, "absent") /\ UNCHANGED llock
       \/ At(p, "undo") /\ Quit(p, IF op[p] = "create" THEN "operation" ELSE "success")

(* A step fails: the journal stays for another try, and the record is marked,
   unless it was a recovery.  When the record was removed and the journal cannot
   be, or its removal is not known to last, the record is written again. *)
GiveUp(p) ==
    /\ pc[p] \in {"undo", "recover"} /\ ~hung /\ Quit(p, "operation")
    /\ UNCHANGED <<hung, view, dom, base>>
    /\ \/ UNCHANGED <<record, journal>>
       \/ /\ At(p, "undo") /\ record # None /\ Marked("failed_cleanup")
          /\ op[p] = "create" \/ Pending("remove")
          /\ UNCHANGED journal \/ (Gone /\ base = None /\ journal' = None)

-----------------------------------------------------------------------------

(* start and stop, of one VM after the other. *)
Switch(p) ==
    /\ pc[p] \in {"switch_on", "switch_off"} /\ ~hung /\ UNCHANGED <<hung, view, record, journal, base>>
    /\ \/ /\ \E v \in IF At(p, "switch_on") THEN Foremost(loc[p].todo) ELSE Hindmost(loc[p].todo) :
               /\ dom[v] \in {"on", "off"}
               /\ Turn(v, IF At(p, "switch_on") THEN "on" ELSE "off")
               /\ KeepTodo(p, loc[p].todo \ {v}) /\ Goto(p, pc[p])
          /\ UNCHANGED llock
       \/ Goto(p, "back") /\ KeepTodo(p, loc[p].chosen) /\ UNCHANGED <<dom, llock>>

(* restart turns round when all are off. *)
SwitchedAll(p) ==
    /\ pc[p] \in {"switch_on", "switch_off"} /\ loc[p].todo = {}
    /\ UNCHANGED <<hung, view, journal, dom, base>>
    /\ \/ \E status \in Marks : Marked(status) /\ Quit(p, "success")
       \/ At(p, "switch_off") /\ Goto(p, "switch_on") /\ KeepTodo(p, loc[p].chosen)
          /\ UNCHANGED <<record, llock>>

(* reset, which leaves all on; its rollback; and the recovery of one that was cut
   off: a domain is undefined, installed again, and gets its metadata. *)
Rework(p) ==
    /\ pc[p] \in {"renew", "rollback", "restore"} /\ ~hung
    /\ \E v \in IF At(p, "restore") THEN Hindmost(loc[p].todo) ELSE Foremost(loc[p].todo) :
         \/ dom[v] = "on" /\ ~At(p, "renew") /\ Turn(v, "off") /\ UNCHANGED command
         \/ dom[v] = "off" /\ Turn(v, "absent") /\ UNCHANGED command
         \/ dom[v] = "absent" /\ Turn(v, "bare") /\ UNCHANGED command
         \/ dom[v] = "bare" /\ Turn(v, "on") /\ KeepTodo(p, loc[p].todo \ {v}) /\ Goto(p, pc[p])
         \/ ~At(p, "renew") /\ UNCHANGED dom /\ KeepTodo(p, loc[p].todo \ {v}) /\ Goto(p, pc[p])
    /\ UNCHANGED <<hung, view, record, journal, base, llock>>

NextPhase == [renew |-> "settle", rollback |-> "revert", restore |-> "resettle"]

Reworked(p) ==
    /\ pc[p] \in {"renew", "rollback", "restore"} /\ loc[p].todo = {}
    /\ Goto(p, NextPhase[pc[p]]) /\ KeepTodo(p, loc[p].chosen)
    /\ IF At(p, "renew") THEN \E status \in Raised : Marked(status) ELSE UNCHANGED record
    /\ UNCHANGED <<hung, view, journal, dom, base, llock>>

(* The journal goes, unless the backup of a disk cannot be removed. *)
Settle(p) ==
    /\ At(p, "settle") /\ journal' \in {None, journal} /\ Quit(p, "success")
    /\ UNCHANGED <<hung, view, record, dom, base>>

(* Power becomes what it was before. *)
Restoring == {"revert", "resettle", "back"}

Restore(p) ==
    /\ pc[p] \in Restoring /\ ~hung
    /\ \E v \in Hindmost(loc[p].todo) :
         /\ (UNCHANGED dom \/ (dom[v] \in {"on", "off"} /\ Turn(v, Other[dom[v]])))
         /\ KeepTodo(p, loc[p].todo \ {v}) /\ Goto(p, pc[p])
    /\ UNCHANGED <<hung, view, record, journal, base, llock>>

Restored(p) ==
    /\ pc[p] \in Restoring /\ loc[p].todo = {} /\ UNCHANGED <<hung, view, dom, base>>
    /\ \E status \in Switched : Marked(status)
    /\ \/ At(p, "resettle") /\ journal' = None /\ Proceed(p, "opened") /\ UNCHANGED llock
       \/ pc[p] \in {"revert", "back"} /\ Quit(p, "operation") /\ UNCHANGED journal

(* What may fail, and what is done then. *)
FailChange(p) ==
    /\ ~hung /\ UNCHANGED <<seen, view, base>>
    /\ \/ At(p, "shut") /\ op[p] = "remove" /\ Goto(p, "back") /\ KeepTodo(p, loc[p].chosen)
          /\ UNCHANGED llock
       \/ At(p, "renew") /\ Goto(p, "rollback") /\ KeepTodo(p, loc[p].chosen) /\ UNCHANGED llock
       \/ pc[p] \in {"shut", "drop", "rollback", "restore", "settle"} \union Restoring /\ Quit(p, "operation")

ChangeStep(p) ==
    \/ TakeLab(p) \/ Refuse(p) \/ OpenRemove(p) \/ OpenVm(p) \/ OpenReset(p) \/ OpenPower(p)
    \/ Shut(p) \/ Drop(p) \/ Dropped(p)
    \/ TakeDown(p) \/ TakeStorage(p) \/ TakeRecord(p) \/ TakeJournal(p) \/ GiveUp(p)
    \/ Switch(p) \/ SwitchedAll(p) \/ Rework(p) \/ Reworked(p) \/ Settle(p)
    \/ Restore(p) \/ Restored(p) \/ FailChange(p)
=============================================================================
