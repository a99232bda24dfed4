--------------------------- MODULE PracticeAccess ---------------------------
(***************************************************************************)
(* Practice access from the controller of a lab to its targets: the refresh *)
(* at the end of start, restart and reset                                  *)
(* (KVMOrchestrator._refresh_controller_access) and the scripts that it    *)
(* runs in the guests (controller_access.py).                              *)
(*                                                                         *)
(* What it publishes is spread over the disks of several guests, which a   *)
(* selective reset replaces and its rollback brings back one by one.  The  *)
(* reset itself is in ResetTxn; here it is reduced to its disks, journal   *)
(* and record.  A command holds the lab lock until its process dies.       *)
(* Addresses are left out, and learners do not edit the managed files.     *)
(***************************************************************************)
EXTENDS Naturals

CONSTANTS
    Controller,
    Targets,
    Keys,       \* names for key pairs; one that is nowhere any more is used again
    Selections  \* the sets of VMs that resets are given

ASSUME ControllerAssumption == Controller \notin Targets
ASSUME KeysAssumption == Keys \subseteq Nat \ {0} /\ 1 \in Keys

VMs == {Controller} \union Targets

ASSUME SelectionsAssumption == Selections \subseteq (SUBSET VMs) \ {{}}

(* known_hosts, config, the inventory and the include in ~/.ssh/config: none of
   them is there, or a part, or all. *)
Files == {"none", "part", "all"}

VARIABLES
    (* Durable: the state file, the reset journal, and disks. *)
    access,     \* controller_access_status
    journal,    \* none, prepared, committed
    picked,     \* the VMs of the reset
    disk,       \* of each VM, the managed files on its disk
    kept,       \* of each VM, those on the backup of its disk, or NoDisk
    up,         \* do all the guests run?
    (* The process; lost when it dies. *)
    pc,
    op,         \* power (start or restart) or reset
    mem,        \* controller_access_status of the state it holds in memory
    key,        \* the controller's public key, as its guest printed it
    todo,       \* targets to authorise it at
    (* The environment. *)
    calm        \* TRUE: from now on nothing fails, dies or goes off

reset   == <<journal, picked, kept>>
process == <<pc, op, mem, key, todo>>
vars    == <<access, reset, disk, up, process, calm>>

MayFail == ~calm
None    == 0

(* The private and public key, the published files, and the key in the block
   of authorized_keys that is managed. *)
OnDisk(private, public, files, block) ==
    [private |-> private, public |-> public, files |-> files, block |-> block]

Fresh  == OnDisk(None, None, "none", None)
NoDisk == OnDisk(None, None, "nodisk", None)

(* Creation has ended with a refresh. *)
Init ==
    /\ access = "ready" /\ up = TRUE
    /\ journal = "none" /\ picked = {} /\ kept = [v \in VMs |-> NoDisk]
    /\ disk = [v \in VMs |-> IF v = Controller THEN OnDisk(1, 1, "all", None)
                              ELSE OnDisk(None, None, "none", 1)]
    /\ pc = "idle" /\ op = "none" /\ mem = "pending" /\ key = None /\ todo = {}
    /\ calm = FALSE

Forget == pc' = "idle" /\ op' = "none" /\ mem' = "pending" /\ key' = None /\ todo' = {}
Goto(where) == pc' = where /\ UNCHANGED <<op, mem, key, todo>>

(* An exception: start and restart restore power, reset its disks. *)
Unwind == pc' = (IF op = "reset" THEN "rollback" ELSE "restore") /\ key' = None /\ todo' = {}
Fault == Unwind /\ UNCHANGED <<op, mem>>

-----------------------------------------------------------------------------
(* start and restart.  Power is in PowerOps: some guests run afterwards. *)

BeginPower ==
    /\ pc = "idle" /\ journal = "none"
    /\ op' = "power" /\ up' \in {up, TRUE}
    /\ pc' = "definition" /\ mem' = access /\ key' = None /\ todo' = {}
    /\ UNCHANGED <<access, reset, disk, calm>>

-----------------------------------------------------------------------------
(* _refresh_controller_access. *)

(* The snapshot must have the recorded digest, and the lab's own keys be safe. *)
ReadDefinition ==
    /\ pc = "definition"
    /\ Goto("peers") \/ (MayFail /\ Fault)
    /\ UNCHANGED <<access, reset, disk, up, calm>>

(* Peers are never started; with one that is off, access is pending.  All that
   run are waited for. *)
Peers ==
    /\ pc = "peers"
    /\ mem' = "pending" /\ UNCHANGED op
    /\ \/ pc' = (IF up THEN "key" ELSE "save") /\ UNCHANGED <<key, todo>>
       \/ MayFail /\ Unwind
    /\ UNCHANGED <<access, reset, disk, up, calm>>

(* _practice_remote: a script that is cut off, or whose guest has gone off, may
   have done nothing, a part, or all. *)
CutOff == MayFail \/ ~up

(* key_script: a key that is there is kept.  A new one is made aside; then its
   private part is renamed into place, and then its public part.  What is
   printed is derived from the private part. *)
Used ==
    {disk[v].block : v \in VMs} \union {kept[v].block : v \in VMs}
    \union {disk[v].private : v \in VMs} \union {kept[v].private : v \in VMs}

Half(d, new) == IF d.private # None THEN d ELSE OnDisk(new, d.public, d.files, d.block)

GeneratedByPublic(d, new) ==   \* mutant: the public file tells whether there is a key
    IF d.public # None THEN d ELSE OnDisk(new, new, d.files, d.block)

Generated(d, new) ==
    IF d.private # None THEN d ELSE OnDisk(new, new, d.files, d.block)

PrepareKey ==
    /\ pc = "key"
    /\ \E new \in Keys \ Used :
         /\ \A other \in Keys \ Used : new <= other
         /\ \/ /\ disk' = [disk EXCEPT ![Controller] = Generated(@, new)]
               /\ key' = disk'[Controller].private
               /\ pc' = "authorize" /\ todo' = Targets /\ UNCHANGED <<op, mem>>
            \/ /\ CutOff /\ Fault
               /\ disk' \in {disk, [disk EXCEPT ![Controller] = Half(@, new)],
                             [disk EXCEPT ![Controller] = Generated(@, new)]}
    /\ UNCHANGED <<access, reset, up, calm>>

(* authorize_script: the managed block is replaced in one rename. *)
AuthorizedOnce(d) ==   \* mutant: a block that is there stays
    IF d.block # None THEN d ELSE OnDisk(d.private, d.public, d.files, key)

Authorized(d) == OnDisk(d.private, d.public, d.files, key)

Authorize ==
    /\ pc = "authorize"
    /\ \/ /\ todo = {} /\ pc' = "publish" /\ key' = None /\ UNCHANGED <<disk, op, mem, todo>>
       \/ \E t \in todo :
            \/ /\ disk' = [disk EXCEPT ![t] = Authorized(@)]
               /\ todo' = todo \ {t} /\ UNCHANGED <<pc, op, mem, key>>
            \/ /\ CutOff /\ Fault
               /\ disk' \in {disk, [disk EXCEPT ![t] = Authorized(@)]}
    /\ UNCHANGED <<access, reset, up, calm>>

(* controller_script: one rename for each file, in order. *)
Written(d, n) ==
    OnDisk(d.private, d.public, IF d.files = "all" \/ n = "none" THEN d.files ELSE n, d.block)

Publish ==
    /\ pc = "publish"
    /\ \/ /\ disk' = [disk EXCEPT ![Controller] = Written(@, "all")]
          /\ mem' = "ready" /\ pc' = "save" /\ UNCHANGED <<op, key, todo>>
       \/ /\ CutOff /\ Fault
          /\ \E n \in Files : disk' = [disk EXCEPT ![Controller] = Written(@, n)]
    /\ UNCHANGED <<access, reset, up, calm>>

(* save_state of the command; its error may come after the file is in place. *)
Save ==
    /\ pc = "save"
    /\ \/ access' = mem /\ IF op = "reset" THEN Goto("commit") ELSE Forget
       \/ MayFail /\ access' \in {access, mem} /\ Fault
    /\ UNCHANGED <<reset, disk, up, calm>>

(* The rollback of start and restart saves what is in memory. *)
Restore ==
    /\ pc = "restore" /\ Forget
    /\ access' = mem \/ (MayFail /\ UNCHANGED access)
    /\ up' \in {up, FALSE} /\ UNCHANGED <<reset, disk, calm>>

-----------------------------------------------------------------------------
(* reset and its rollback. *)

BeginReset ==
    /\ pc = "idle" /\ journal = "none"
    /\ picked' \in Selections /\ journal' = "prepared"
    /\ pc' = "invalidate" /\ op' = "reset" /\ UNCHANGED <<access, kept, disk, up, mem, key, todo, calm>>

(* "Persist invalidation before changing guest disks or peer credentials." *)
Invalidate ==
    /\ pc = "invalidate"
    /\ \/ access' = "pending" /\ Goto("replace")
       \/ MayFail /\ Forget /\ access' \in {access, "pending"}
    /\ UNCHANGED <<reset, disk, up, calm>>

(* Any part of the disks may have been replaced when it fails. *)
Replaced(set) ==
    /\ kept' = [v \in VMs |-> IF v \in set THEN disk[v] ELSE kept[v]]
    /\ disk' = [v \in VMs |-> IF v \in set THEN Fresh ELSE disk[v]]

Replace ==
    /\ pc = "replace"
    /\ \/ Replaced(picked) /\ up' \in {up, TRUE} /\ Goto("definition")
       \/ /\ MayFail /\ Fault /\ up' = FALSE
          /\ \E set \in SUBSET picked : Replaced(set)
    /\ UNCHANGED <<access, journal, picked, calm>>

Commit ==
    /\ pc = "commit"
    /\ \/ journal' = "committed" /\ Goto("drop")
       \/ MayFail /\ Fault /\ UNCHANGED journal
    /\ UNCHANGED <<access, picked, kept, disk, up, calm>>

Drop ==
    /\ pc = "drop" /\ Forget
    /\ \/ journal' = "none" /\ picked' = {} /\ kept' = [v \in VMs |-> NoDisk]
       \/ /\ MayFail /\ UNCHANGED <<journal, picked>>
          /\ \E set \in SUBSET picked : kept' = [v \in VMs |-> IF v \in set THEN NoDisk ELSE kept[v]]
    /\ UNCHANGED <<access, disk, up, calm>>

(* The old disks come back, some of them when one cannot; their guests run
   again or stay off. *)
Old == {v \in VMs : kept[v] # NoDisk}

Returned(set) ==
    /\ disk' = [v \in VMs |-> IF v \in set THEN kept[v] ELSE disk[v]]
    /\ kept' = [v \in VMs |-> IF v \in set THEN NoDisk ELSE kept[v]]
    /\ up' \in BOOLEAN

Rollback ==
    /\ pc = "rollback" /\ Goto("rollback_save")
    /\ Returned(Old) \/ (MayFail /\ \E set \in SUBSET Old : Returned(set))
    /\ UNCHANGED <<access, journal, picked, calm>>

(* "Even a completed refresh is invalid after restoring old disks." *)
RollbackSave ==
    /\ pc = "rollback_save" /\ Forget
    /\ access' = "pending" \/ (MayFail /\ UNCHANGED access)
    /\ UNCHANGED <<reset, disk, up, calm>>

-----------------------------------------------------------------------------
(* _recover_reset, by the next reset, which then repeats the one before. *)

BeginRecovery ==
    /\ pc = "idle" /\ journal # "none"
    /\ pc' = IF journal = "committed" THEN "drop" ELSE "recover"
    /\ op' = "reset" /\ UNCHANGED <<access, reset, disk, up, mem, key, todo, calm>>

Recover ==
    /\ pc = "recover"
    /\ \/ Returned(Old) /\ Goto("recover_save")
       \/ MayFail /\ Forget /\ \E set \in SUBSET Old : Returned(set)
    /\ UNCHANGED <<access, journal, picked, calm>>

(* "Never resurrect the journal's old ready assertion." *)
RecoveredAsBefore == access   \* mutant: the record keeps what it says
Recovered == "pending"

RecoverSave ==
    /\ pc = "recover_save"
    /\ \/ access' = Recovered /\ Goto("recover_done")
       \/ MayFail /\ Forget /\ access' \in {access, Recovered}
    /\ UNCHANGED <<reset, disk, up, calm>>

(* The journal goes, and that of the repeated reset takes its place. *)
RecoverDone ==
    /\ pc = "recover_done"
    /\ \/ journal' = "none" /\ Goto("again") /\ UNCHANGED picked
       \/ MayFail /\ Forget /\ UNCHANGED <<journal, picked>>
    /\ UNCHANGED <<access, kept, disk, up, calm>>

ResetAgain ==
    /\ pc = "again"
    /\ \/ journal' = "prepared" /\ Goto("invalidate") /\ UNCHANGED picked
       \/ MayFail /\ Forget /\ picked' = {} /\ UNCHANGED journal
    /\ UNCHANGED <<access, kept, disk, up, calm>>

-----------------------------------------------------------------------------
(* The environment. *)

Crash ==
    /\ MayFail /\ pc # "idle" /\ Forget
    /\ picked' = (IF journal = "none" THEN {} ELSE picked)
    /\ UNCHANGED <<access, journal, kept, disk, up, calm>>

(* Guests go off, or are stopped. *)
GuestOff ==
    /\ MayFail /\ up /\ up' = FALSE
    /\ UNCHANGED <<access, reset, disk, process, calm>>

CalmDown == ~calm /\ calm' = TRUE /\ UNCHANGED <<access, reset, disk, up, process>>

Refresh == ReadDefinition \/ Peers \/ PrepareKey \/ Authorize \/ Publish \/ Save \/ Restore

Reset ==
    \/ Invalidate \/ Replace \/ Commit \/ Drop \/ Rollback \/ RollbackSave
    \/ Recover \/ RecoverSave \/ RecoverDone \/ ResetAgain

Running == Refresh \/ Reset
Begin   == BeginPower \/ BeginReset \/ BeginRecovery
Next    == Begin \/ Running \/ Crash \/ GuestOff \/ CalmDown

Spec == Init /\ [][Next]_vars

(* A command that runs goes on; the operator repeats a reset that is pending,
   and starts the whole lab again and again. *)
StartLab == BeginPower /\ up'
FairSpec == Spec /\ WF_vars(Running) /\ SF_vars(BeginRecovery) /\ SF_vars(StartLab)

-----------------------------------------------------------------------------
(* Properties. *)

(* Every variable holds a value of its type. *)
Disks == [private : Keys \union {None}, public : Keys \union {None},
          files : Files \union {"nodisk"}, block : Keys \union {None}]

TypeRecord ==
    /\ access \in {"pending", "ready"} /\ mem \in {"pending", "ready"}
    /\ journal \in {"none", "prepared", "committed"} /\ key \in Keys \union {None}
    /\ op \in {"none", "power", "reset"}
TypeDisks == disk \in [VMs -> Disks] /\ kept \in [VMs -> Disks]
TypeSets  == picked \in SUBSET VMs /\ todo \in SUBSET Targets
TypeFlags == up \in BOOLEAN /\ calm \in BOOLEAN

TypeOK == TypeRecord /\ TypeDisks /\ TypeSets /\ TypeFlags

(* docs/definitions.md: only "once all participants are running and ready" is
   access recorded as ready, and "a failed or interrupted reset also leaves
   access pending: disk rollback cannot undo public-key changes already written
   to preserved peers".  So whenever no reset is pending and the record says
   ready, every target lets in the key that is on the controller's disk, and
   all that it needs to use it is there. *)
Connected ==
    /\ disk[Controller].private # None /\ disk[Controller].files = "all"
    /\ \A t \in Targets : disk[t].block = disk[Controller].private

ReadyIsConnected == journal # "prepared" /\ access = "ready" => Connected

(* The key of a controller changes only with its disk: a refresh that was cut
   off, in its own script or later, never makes another one in its place. *)
KeyIsStable ==
    [][/\ disk[Controller].private # None
       /\ disk'[Controller].private # disk[Controller].private
       => kept'[Controller] # kept[Controller]]_vars

(* docs/definitions.md: "A subsequent start with all participants running
   refreshes access and records ready", whatever was left behind before. *)
AccessReturns == calm ~> (access = "ready" /\ journal = "none" /\ Connected)
=============================================================================
