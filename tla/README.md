# A verification project for labctl

labctl builds teaching labs out of libvirt/KVM virtual machines: it creates a
lab (a network, a storage tree, a set of domains), starts and stops it, resets
its disks, removes it, and grades what a learner did in it.  It has no daemon.
Every command is a process that takes the lab's lock, does its work against
libvirt and the file system, and leaves two JSON files behind: the lab's *state*
and, while something is unfinished, a *journal* from which the next command can
recover.  What can go wrong is what happens between two durable effects: a step
that fails, a process that dies, a host that reboots, another libvirt user.
That is what these modules are about.

## The system

| part | where | state it keeps | operations |
|---|---|---|---|
| creation and its recovery | `orchestrator.py` `create`, `_create_locked`, `_validated_create_journal`, `_recover_create` | create journal (stage of each VM), state file, storage tree with its ownership marker, instance directory, domains, network | `lab create`, recovery by `lab create` and `lab rm` |
| reset | `orchestrator.py` `reset`, `_reset_locked`, `_recover_reset` | reset journal (phase, stage of each VM, original state, power), overlays and backups, domains | `lab reset`, recovery by the next reset, `grade --reset` |
| removal | `orchestrator.py` `_remove_locked`, `remove_vm` | removal journal (stages), everything of the lab | `lab rm`, `vm rm` |
| power | `orchestrator.py` `start`, `stop`, `restart`, `reconcile` | power of the domains, state file | `lab`/`vm` `start`, `stop`, `restart`, `lab reconcile` |
| lock and gate | `locks.py`, `_lab_lock`, `_require_no_pending_transaction` | one flock per lab, released by the kernel when a process dies | around every command that changes a lab |
| state file | `state.py` | one JSON file per lab; atomic replacement; version 0 is migrated once with a backup | `save_state`, `load_state` |
| image store | `images.py` | blobs by digest, references by name, one lock per name | pull, import, resolve, delete |
| trust store | `trust.py` | the accepted definition digests | accept, accepted |
| grading | `grading.py`, `grade_session` | a grader process, its pipes and children | `lab grade` |
| controller access | `controller_access.py`, `_refresh_controller_access` | a status (pending or ready) and keys in the guests | after create, start, restart, reset |
| readiness | `_wait_ready` | three deadlines | inside create, start, restart, reset |
| runtime status | `runtime.py` | none; reads states and libvirt without locks | `lab ls`, `lab inspect`, `vm ls`, `vm inspect` |
| command line and application | `cli.py`, `application.py`, `config.py`, `errors.py` | none | dispatch, confirmations, exit statuses, settings |
| KVM provider | `kvm.py`, `provider.py` | none | choice of the connection, health of the host |
| dependency order | `definitions.py`, `_start_order`, `_dependant_order` | none | used by all of the above |

Commands interact through files and libvirt only.  The lock admits one command
per lab and is never waited for; the journal outlives the process and decides
what the next command may do: `create` accepts a create journal, `reset` a reset
journal, `rm` a create or a remove journal, all others refuse.  Images are
resolved before the lock is taken, status is read without it.

What makes each part correct, in a sentence: *creation* leaves either a complete
lab, or nothing, or a record from which a retry finishes; *reset* leaves either
the new disks or the old ones, all under owned domains; *removal* forgets a lab
only when nothing of it is left; *power* operations follow the dependencies both
ways and put back what they changed; the *gate* lets nothing run over an
unfinished operation; the *image store* never hands out a blob that changed; the
*trust store* holds no digest that nobody accepted; a *grader* ends, with all of its children.
`PROJECT.json` lists under `hazards` the lines where each of these is at risk.

## The modules

| module | models | composed with |
|---|---|---|
| `CreateTxn`, `LabContract` | creation, rollback, recovery; what they promise | |
| `ResetTxn` | reset, its rollback and recovery | |
| `RemoveTxn`, `RemovalContract` | `lab rm`, `vm rm` and their retries; what they promise | |
| `PowerOps` | start, stop, restart, reconcile | |
| `PracticeAccess` | the refresh of controller access over resets | |
| `Grading` | `lab grade` and the containment of the grader | |
| `HostCommand` | a command from its arguments to its exit status | base of the next six but `Definitions` |
| `Definitions` | what a definition must satisfy; the dependency order | |
| `ImageStore` | the image cache and its commands | extends `HostCommand` |
| `TrustStore` | discovery, acceptance and snapshot of definitions | extends `HostCommand`, `Definitions` |
| `Observation` | the status commands, ssh and console | extends `HostCommand` |
| `LabChanges` | `lab rm`, `vm rm`, `lab reset` and the power commands, as others see them | extends `Observation`, `Definitions` |
| `LabHost` | several processes at once on one host | extends `ImageStore`, `TrustStore`, `LabChanges` |
| `CreateTxnProofs`, `ResetTxnProofs`, `RemoveTxnProofs`, `PowerOpsProofs`, `PracticeAccessProofs`, `GradingProofs`, `DefinitionsProofs`, `LabHostProofs` | nothing of their own: theorems and proofs (see Proofs) | each extends the module it is about; `LabHostProofs` also uses `DefinitionsProofs` |
| `MC...` | the instances that TLC checks | each extends the module it is about |

The first six take one lab and one command at a time, which the lab's lock
allows, and make every durable effect a step of its own.  `LabHost` puts
processes beside each other where nothing is locked, or not by the same lock,
and reduces the commands that change a lab to what the others see of them.

### CreateTxn: creation, rollback, recovery

One lab with `N` virtual machines `1..N` in `vm_order`.  The lock admits one
command, so there is one process; its environment is as bad as the code has to
expect.

State.  `journal` and `stage` are the create journal and the stage of its VM
records; `status` and `vms` the state file; `storage` the instance's storage
directory (`absent`, `unmarked`, `marked`: the ownership marker
`.labctl-owner.json` is what later commands check); `instance` the private
directory; `dom` what each derived domain name denotes (`foreign`, `bare`:
defined by our virt-install but without ownership metadata, `owned`); `running`;
`net` the network.  `pc`, `cmd`, `k` (the VM being created), `mem` (the state
document), `todo`, `netUndo` and `made` (the rollback stack) and `failed` (is the
list of cleanup errors non-empty) are memory that a crash loses.  `slips` is
history that no step reads: which steps of this creation raised although their
effect was there, or failed after "ready" was on disk.

Actions.  One action is one durable effect with the checks just before it and
the in-memory assignments around it.  `BeginCreate` .. `UnlinkJournal` are
`create` and `_create_locked` in program order, the VM loop being `PrepareVm` ..
`WaitReady`; `UndoDomain` .. `SaveFailure` are its `except` block;
`BeginRecovery` and the `Recover...` actions are `_recover_create`, entered from
`lab create` or from `lab rm`; `ValidJournal` stands for what
`_validated_create_journal` refuses.  Every action has the failing outcomes its
code has: a fault moves `create` into its rollback, adds an error in the
rollback, and ends a recovery.  A failing write may or may not have taken effect
(a directory fsync fails after the replacement).

Environment.  `Crash` between any two effects; `HostReboot`, after which domains
are off and only an autostarted network is back; `ForeignDomain` and
`ForeignNetwork`, another libvirt user under a derived name; `CalmDown`, after
which nothing fails any more.  Two facts of libvirt are taken from outside the
repository and marked external: only autostart networks come back after a
reboot, and `virsh metadata --live` is refused for a domain that is off.

Some steps raise after they took effect, and the rollback holds no entry for what
they did: the mode check or the fsync in `_mkdir_shared` after the directory is
made, `net-define` and `net-start` after libvirt did its part, the save of state
`ready` after the replacement.  And the `try` block ends only after the unlink
of the journal, so that *any* failure of that unlink, also one that touches
nothing, starts a rollback of a lab that already says ready.  The end of a
rollback has the same gap: an unlink that raises late saves its failure without
a journal.  All of these happen in the run, and `slips` remembers them, because
they are the only ways in which something of a lab escapes its records.  What
the properties still say, and the proofs with them:

- A domain never escapes: whatever failed, it has its marked storage, its
  instance directory and its state file (`CleanupOrder`, `ResourcesAreRecorded`).
- A network may be left only by a `net-define` or `net-start` that raised in
  place, an empty storage directory only by such a `mkdir`, a state file without
  its journal only by a failing commit or by the end of a rollback.
- A record that says ready without its domains is left only by a creation whose
  commit failed and whose rollback then died or could not save its failure;
  nothing but that rollback takes a ready lab apart (`ReadyIsComplete`, `CommitIsFinal`).
- A creation that is not clean in this sense may end `broken` in the contract.

The two saves before the `try` block that raise late need no outcome of their
own: the caller gets the error with the file written, which is the save followed
by a `Crash`.

Left out: the contents of snapshot, keys, network XML, overlays and seeds; image
resolution (before the lock); the legacy layout without a storage root, which
the application never configures; the log file.  A fresh UUID renames
everything, so `SaveJournal` starts from free names.  After the recovery of a
committed creation `lab rm` goes on to remove the lab: that is the removal's
module.

### LabContract

What creation promises to an observer of the host: a lab is absent, pending or
ready; nothing of an absent lab exists, everything of a ready one does and
stays, and only a pending one, which has its record on disk, may own a part.
The promise has a limit, `clean`: a creation a step of which raised with its
effect in place may end `broken`, with a part of the lab and without a usable
record, until another creation draws new names.  It is never ready or absent
then.
`CreateTxn!ImplementsContract` is the refinement: `phase` is read off the two
files (`LabPhase`), `resources` off libvirt and the trees (`LabResources`), `clean`
off `slips` (`LabClean`).

### ResetTxn: reset, its rollback, its recovery

The same lab after its creation: every domain is owned, the network is up.  A
command resets a non-empty selection of the VMs.

State.  `journal` (its phase), `picked` (`selected_vms`), `before` and `stage`
are the reset journal; `status`, `vms` and `access` the state file; `overlay`
and `backup` the generation of each VM's `disk.qcow2` and
`disk.qcow2.reset-backup` ("old" is what was there when the journal was written,
"new" what this reset creates); `dom` the domains; `guest` the disk that a
running guest has open, which need not be the one its definition names;
`granted` whether the disks in place carry the controller's access.  `pc`, `k`,
`todo`, the rollback's lists `recreated`, `backups` and `undefined`, and
`failed` are memory.  `stray` and `torn` are history that no step reads (below).

Actions.  `Reset` .. `UnlinkJournal` are `_reset_locked` in program order
(errors before `Undefine` are outside its `try` block and leave the journal),
the `Undo...` actions its `except` block, `BeginRecovery` and the `Recover...`
actions `_recover_reset`, which after a rollback starts the reset again with the
journal's selection (`ResetAgain`) and after a commit shares `DropBackup` ..
`UnlinkJournal`.  `RestorePower` is `_restore_power`, used by both.

`ListedInOrder` is there because saving is not the identity: `save_json` sorts
the keys of every object, so the records come back in alphabetical order while
`selected_vms`, a list, keeps the lab's order, and validation compares the two.
`Rank` gives each VM's name its place in the alphabet.

Commands fail here as they do in the code, and leave what they leave.
virt-install may report failure with the domain defined, running or not, and the
rollback does not know of it; `virsh metadata` may fail and leave the domain
unowned, on the way forward, in the rollback (`UndoInstall`) and in recovery
(`RecoverInstall`); destroy and undefine may fail in the rollback, which then
goes on to rename the disk without asking whether the guest still runs.  `stray`
collects the VMs whose domain such a failure left unowned or not removed, until
a recovery removes it or the next reset has found it owned and off, or switched
it off.  The save of the phase `committed` is the last statement of the `try` block and may raise with
the phase on disk: the rollback then puts old disks back under a committed
journal, and the recovery of that journal drops backups.  `torn` collects the
VMs of such a reset, until they are reset again.

The properties say what remains true, and of whom.  A stray VM has a domain, a
disk and no backup when the journal is gone, but may be unowned or run on a disk
that is unlinked; any other VM is whole.  Only below a stray guest is a disk
moved.  Only a torn reset is taken back after its commit, only by its own
rollback, and the disks of VMs outside its selection stay as they were as long
as its journal is there.

Left out: another user's domain under a derived name (see `CreateTxn`), the
network check before the journal, disk contents beyond their generation, and
guests that go off while a command runs (each shows as a failing step).

### RemoveTxn and RemovalContract: lab rm and vm rm

State.  `journal` and `target` are the removal journal; `status` and `vms` the
state file; `dom` and `net` libvirt, where `transient` is a domain or network
that runs without a definition; `storage`, `files` and `instance` the trees, and
`stripped` is a storage directory that has lost its ownership marker to a
deletion that was cut off.

Actions.  `BeginRemove` .. `UnlinkJournal` are `_remove_locked` in program order:
the domains that are gone are marked, the record is corrected, the guard refuses
a lab that runs unless `--force` is given, guests are stopped, then domains,
network, storage, instance, state and journal go, each only if nothing failed
before (`NextUnlessFailed`).  `FinishRemove` is the retry when only the journal
is left.  `BeginRemoveVm` .. `UnlinkVmJournal` are `_remove_vm_locked`.
`CrashInRmtree` dies in the middle of a tree; `PowerOn` and `Redefine` are
libvirt's operator.  `Dependants(v)`, the least set of VMs that depend on `v`
directly or through one another, is what `_dependant_order` collects.  The
stages listed in the journals are left out, because no step depends on them.
`StopVm` is coarser than the code: a guest goes
off in one step, without the deadline and the destroy, and a stop that fails may
bring back any of the guests that are off.  No property tells these apart, and
`PowerOps` has the deadline and the exact rollback.

`RemovalContract` is what a removal promises: the core of a kept lab stays as it
is, once a removal has begun its core only goes, and a lab is forgotten only
when nothing of it is left.  `ImplementsRemoval` is the refinement.

### PowerOps: start, stop, restart, reconcile

State.  The state file (`status`, `vms`, `access`), libvirt (`dom`, where
`booting` is on but not ready yet, and `net`), and what a command remembers:
`before`, the guests it saw running, `todo`, the record in memory `mem`, and
`unrestored`, the guests its rollback could not switch back.

Actions. `Begin...` computes the selection of the command (`Scope`: a start
takes the dependencies, a stop the dependants, a restart the VM alone; `Needs`
is the least set closed under dependencies) and observes power; `EnsureNetwork`,
`StartVm`, `AwaitStart`, `RefreshAccess`, `Save` are a start; `Shutdown`,
`AwaitStop`, `Destroy` a stop, with the deadline as a choice between the guest's
own end and the destroy; `RestartVm` goes from one to the other; `Restore` and
`RestoreSave` are the rollback. `InspectNetwork`, `Inspect` and `RepairRecord`
are `reconcile --repair`. Guests switch by themselves (`GuestOff`, `PowerOn`,
`NetGone`, `HostReboot`), `MaxEvents` times.

### PracticeAccess: controller access over resets

State.  For each VM, on its disk and on the backup of its disk: the two halves
of the controller's key, the managed files and the authorized key of a target;
the record's `access`; the reset's journal, reduced to its phase.

Actions.  `ReadDefinition`, `Peers`, `PrepareKey`, `Authorize` (per target),
`Publish` and `Save` are the refresh, each of which can be cut off in its guest
after a part of its effect (`Half`, `CutOff`, files in part); a reset invalidates
the access, replaces disks, refreshes, commits, drops the backups, or brings the
old disks back, in the process or by recovery.  Keys are names; one that is
nowhere any more is used again, so that finitely many are enough.  A save of the
journal that fails leaves the old one here; a commit that raises with its phase
on disk is in `ResetTxn`.

### Grading: lab grade

State.  The lab as far as grading changes it (lock, journal, power, whether a
disk is the learner's or fresh), the command with its consent, and the grader:
any program, with descendants `kids`, of which some leave its process group
(`Escaped`) or close its pipes (`Silent`).

Actions.  `BeginGrade` .. `BuildContext` are `_lab_grade` (drift check, question,
reset of the declared VMs or start of all); `Spawn`, `Collect`, `TimeOut`, `Scan`,
`Kill`, `Again`, `Join`, `Outcome`, `Report` are `run_grader`.  The termination
loop is modelled scan by scan, because processes may fork between a scan and its
kills.

### HostCommand, Definitions, ImageStore, TrustStore, Observation, LabChanges, LabHost

`HostCommand` gives every process its command `op`, its place `pc`, its exit
status `exit` and its local variables `loc`; `Parse`, `Leave`, `Return` are
`parse_args`, the error mapping of `execute` and `main`.  `Setting` is the
precedence of file, environment and argument.

`Definitions` has what `load_definition` refuses (`Acceptable`) and
`dependency_order`.  The recursion of the code's `visit` is a recursive function
`VisitAll` over calls: the names that are still to be visited, the VMs that are
active, and the outcome so far (the order, and whether a cycle was met).
`MCLabHost` checks it against a reference (`Topological`) for every definition of
three VMs in every order of the file, by an assumption that TLC evaluates;
`DefinitionsProofs` proves the same for every definition.

`ImageStore` has blobs by digest (`good`, `bad` or absent), one reference and
its lock: `pull`, `import`, `rm`, `ls`, `inspect`, and the `resolve` of a
creation, which runs twice, unlocked.  `TrustStore` has the definition's
directory, which its author edits at any time, the trust file with its unlocked
read and write, and the snapshot.  `approved` (what the user ever accepted) is
history that the properties need and no step reads.

`Observation` has the status commands step by step: record, journal, the inventory
of libvirt, which answers for one domain after the other while they may change,
and one query for the XML of each domain; any of it may go unanswered.  `active`
in a view (the VMs that were powered on when libvirt told of them) is history for
`StatusIsHonest`.  ssh and console read the record and start a child.

`LabChanges` has the commands that rewrite a lab while others look, one visible
effect per step and under the lab's lock: `lab rm` writes its journal while the
domains still run, shuts them down, removes them one by one, then the storage,
the record and the journal; `vm rm` and `lab reset` do the same to the domains
they are about, reset with its rollback and its recovery; start, stop and restart
switch one VM after the other and go back after a failure.  The record takes the
statuses that `_set_power_state` writes, "stopped" and "degraded" among them.
("running" is a status that a record may have, but no command of the orchestrator
writes it for a lab.)  What these commands do in full is in `RemoveTxn`,
`ResetTxn` and `PowerOps`; here their failures are choices.

`LabHost` runs them side by side, with a creation that goes through all of them:
discovery, trust, snapshot, image, health, lock, recovery, journal, record, base,
VMs, commit.  `Doctor` takes the connection from settings, any of which may name
the session, and refuses a connection that cannot have the network.  A command
that asks libvirt without a limit of time waits while it hangs: creation, lab
changes, and `provider inspect` and `provider doctor`.  Disturbances (`Disturb`,
at most `MaxChanges`) are a killed process, a guest that switches, a libvirt that
hangs, a damaged blob, an edited source file or definition; at most `MaxGiven`
commands are given, and `Scenarios` says which of them a process may be given and
what may disturb them.

## Properties and runs

Bounds are named constants; where none is mentioned there is none.

`MCCreateTxn` with `MCCreateTxn.cfg` (run `create`) has two VMs, so that a
rollback or a recovery meets one that is finished and one that is not; about
42 000 states.  No counter needs a bound: creations, crashes, faults and retries
are unlimited.

| property | what it says |
|---|---|
| `TypeOK` | types |
| `CleanupOrder` | a domain implies marked storage, storage implies instance, instance implies state; a network implies marked storage, any storage directory an instance, an unfinished state its journal, unless a step that raised in place left it: no other orphan, whatever failed wherever |
| `BareIsAdoptable` | a domain without metadata always has the durable `planned` record under which recovery adopts it |
| `ReadyIsComplete` | a lab recorded as ready has all it should, unless its creation failed at the commit |
| `RefusedHoldsNoResource` | a journal that validation refuses strands files, never a domain, and a network only if its define or start raised in place |
| `ForeignUntouched` | labctl changes no resource it does not own |
| `CommitIsFinal` | a lab recorded as ready is taken apart by nothing but the rollback of the very process whose commit failed, not by a recovery nor by another creation |
| `RecoveryCompletes` | once nothing fails any more, a valid pending creation is recovered |
| `ImplementsContract` | refinement of `LabContract`, with every failure |

Fairness.  A running command keeps running: there is no other process to wait
for, the waits for guests have deadlines; virsh and virt-install are taken to
return, although the runner gives them no timeout.  And an operator with a
pending creation keeps retrying it, as docs/troubleshooting.md asks.  Nothing is
assumed of the environment except that `RecoveryCompletes` speaks of the time
after `CalmDown`.  Deadlock is not checked: a ready lab, or one whose journal is
refused, may stay as it is.

`MCResetTxn` with `MCResetTxn.cfg` (run `reset`) has two VMs, so that a selection
can be a part of the lab and a failure can meet one VM that is done and one that
is not; about 620 000 states, every power state to begin with, no bounds.

| property | what it says |
|---|---|
| `TypeOK` | types |
| `DisksKept` | until the commit every old disk exists, as overlay or as backup; after it every new one does; a VM not selected keeps its disk; but for VMs whose commit is torn |
| `UnrecordedIsWhole` | a lab without journal has all domains, each with a disk and without a backup, and those no failing step left stray are owned and run on the disks their definitions name; but for VMs whose commit was torn |
| `AccessIsCurrent` | practice access recorded as ready is, unless a reset is pending or was torn |
| `EndsWhole` | the journal goes away with all selected disks new, or with all disks old and the power as it was; torn VMs excepted |
| `CommitStays` | a committed reset is taken back by nothing but the rollback of the very process whose commit raised |
| `DiskChangesOffline` | no disk is renamed or removed under a running guest, unless a failing step left that guest behind |
| `RetryFinishes` | once nothing fails any more, a retry ends in a finished reset of exactly the VMs it was started for, if its commit is not torn and a domain without metadata can be adopted |

The fairness is that of the creation: a running command goes on, and a pending
reset is retried.

`MCRemoveTxn` with `MCRemoveTxn.cfg` (run `remove`): three VMs in a chain, so that
a dependant can be a transitive one; about 600 000 states.

| property | what it says |
|---|---|
| `CleanupOrder` | files of a VM are touched only without its domain, storage only without domains and network, and nothing is left without a state file, whoever starts a guest meanwhile |
| `DependantsFirst` | in a lab that is kept, no VM without a domain has a dependant with one |
| `UnforcedLeavesGuests` | without `--force` no step of a lab removal, first try or retry, takes a running guest down |
| `RetryFinishes` | once nothing interferes, a pending removal whose storage has its marker is finished by retrying it |
| `ImplementsRemoval` | refinement of `RemovalContract` |

`MCPowerOps` with `MCPowerOps.cfg` (run `power`): a VM and one that depends on it,
both in the controller access; `MaxEvents` = 1, since a second interference can
only add a VM to those the properties excuse; about 190 000 states.

| property | what it says |
|---|---|
| `RecordIsConsistent` | a lab is recorded ready only if each VM is, stopped only if none is, after any sequence of failed, interrupted or repairing commands |
| `RecordTellsPower` | what a command writes, in success and after rollback, is how its VMs are powered |
| `RollbackRestoresPower` | a rollback leaves every VM as the command found it, wherever it failed |
| `DependencyOrder` | the loop of start starts a guest when what it needs is up, that of stop takes one down when nothing that needs it is left; restart and the rollbacks keep no such order |
| `SelectionIsClosed` | a start that succeeds leaves nothing out that its VMs need, a stop nothing running that needs them |
| `StartGetsReady` | whatever failed before, a lab that has all its domains can be started |

`MCPracticeAccess` with `MCPracticeAccess.cfg` (run `access`): a controller and two
targets, so that one can have the new key and the other the old; resets of the
controller, of a target, and of all; six key names are as many as there are
places for keys; about 400 000 states.

| property | what it says |
|---|---|
| `ReadyIsConnected` | recorded as ready, every target lets in the key that is on the controller's disk |
| `KeyIsStable` | the key changes only with the controller's disk, wherever a refresh was cut off |
| `AccessReturns` | whatever was left behind, a start with all participants running makes it ready again |

`MCGrading` with `MCGrading.cfg` (run `grade`): a VM that is reset and one that is
preserved; a grader with a child in its group, one outside, and a daemon that
closed the pipes.  Deadlock is checked.

| property | what it says |
|---|---|
| `NothingSurvives` | when a verdict is given, no process of the grader is left |
| `VerdictIsEarned` | PASS and FAIL are the grader's own statuses, in time and within the output limit |
| `ResetIsConsented` | disks are replaced after consent, before the grader, and only those declared |
| `GradingEnds` | a grading ends, whatever the grader does |

`MCLabHost` with `MCLabHost.cfg` (run `host`): two processes, of which one creates,
looks at or changes the lab while the other creates, changes it or works on the image; `MaxGiven` = 2 and
`MaxChanges` = 1: two commands are what the code's check-then-use gaps need, and
one disturbance inside one of them; about 380 000 states.  Seven scenarios bound
what runs beside what: creation beside creation, `lab rm`, the image commands and
edits of the definition; looking beside a creation, beside each change of a ready
lab, and while guests switch and libvirt hangs; and two changes beside each
other.  A reset, start or stop is about both VMs or, a reconcile, about none
(`Selections`).  All versions of the definition have the same two VMs, and nobody
vouches for the imported image (`Vouched` is empty), so that the import that
counts as verified and definitions that add or drop a VM never occur in the run.
Of the first the theorems speak for every value; the second `TextAssumption`
excludes.

| property | what it says |
|---|---|
| `CreatedIsTrusted` | a lab exists only with a definition as the user accepted it, and with an image that somebody vouched for or that was allowed |
| `CreatedIsExact` | a lab whose creation is finished and whose disks are not removed runs on the bytes its record names, with the VMs of its definition in an order that respects it, over a connection that can have its network |
| `ReferencesAreSound` | a reference names a blob that is there, and says verified only of a digest somebody vouched for |
| `StatusIsHonest` | running without a diagnostic is shown only if every VM of the definition was on when libvirt told of it, in the instance the record named, though nothing is locked and the lab is rewritten step by step meanwhile |
| `CommandsEnd` | every command ends; the status commands even when libvirt hangs, which creation, lab changes and the provider commands wait for |

Fairness of these runs.  A running command goes on: its waits have deadlines,
and locks are not waited for.  A pending removal or reset is repeated by the
operator, with strong fairness because a first try may be refused while a guest
runs, as the documentation asks.  `StartGetsReady` and `AccessReturns` assume an
operator who starts the lab again and again, and that a started guest boots.  In
`LabHost` a user who is asked, a session that is open and a server that is
downloaded from need not answer.  Liveness speaks of the time after `CalmDown`;
nothing else is assumed of the environment.  Deadlock is not checked where a
system may rest: a lab that is gone, or a host whose commands are all given.

## Where the code and its documentation part

Five runs show a counterexample:

- `create_stuck` (`AbsentIsAccepted`): recovery is documented to accept what is
  already absent, but a journal with VM records is validated against the storage
  marker; once storage is gone and the process dies before state and journal
  are, `create` and `rm` refuse the journal for ever.
- `create_reboot` (`RetryCompletes`): a domain defined but not yet marked as ours
  that is off, because its virt-install failed or the host restarted, cannot be
  adopted, and every retry fails.
- `reset_order` (`RetryAccepted`): the journal of an interrupted reset of VMs whose
  order is not alphabetical (`target`, `controller` in the bundled AN001) never
  passes validation again, so every command on the lab is refused.
- `reset_unowned` (`UnownedKeepsRecord`): rollback or recovery brings the old disk
  back and defines the domain again, but its metadata fails; without a backup the
  next recovery keeps the domain as it is and drops the journal.  The reset that
  follows then fails its ownership check, with no record left that could adopt
  the domain.
- `remove_stuck` (`InterruptedIsRetried`): a removal cut off in the deletion of
  storage, after the marker is gone and before the directory is, is refused by
  every retry; `RetryFinishes` excepts this case and holds otherwise.

Others came up while modelling and have no run:

- A creation that fails in the unlink of its journal (`orchestrator.py:1049`), or
  in a save of `ready` that raises late, rolls back a lab that says ready; if that
  rollback dies, or cannot save its failure, the record says ready without the
  domains.
- A `mkdir`, `net-define` or `net-start` that raises with its effect in place leaves
  a directory or a network that the rollback has no entry for, though
  docs/troubleshooting.md has cleanup failures keep their recovery metadata.
- A reset whose save of `committed` (`orchestrator.py:2885`) raises with the phase
  on disk is rolled back under a committed journal, whose recovery then removes
  backups.
- The rollback of a reset renames a disk under a guest that it could not destroy,
  and does not know of a domain that a failing virt-install defined.
- docs/definitions.md: access is pending "if a participant is stopped or
  missing".  After `vm rm` of a participant it is still in the record, its
  ownership check raises (`orchestrator.py:1187`), and the start or restart of
  another VM fails and is rolled back with access as it was.
- docs/architecture.md lists the recorded lifecycle transitions; the table is
  enforced in `lifecycle.py` only, which the program does not use (start writes
  stopped to ready, `orchestrator.py:1692`).
- docs/cli.md gives 4 for a conflict or lock; a locked image is an `ImageError`
  and exits with 6 (`application.py:147`), or 5 inside a creation.  `HostCommand`
  has what the code does.
- Two acceptances at the same time: the later write of the trust file forgets
  the other (`trust.py:28`), so its user is asked again.
- `image rm` looks for instances that use the image without their locks
  (`application.py:779`); a creation may take the reference in between.  Blobs
  are never deleted, so that `CreatedIsExact` holds all the same.
- `image ls` beside an `image rm` may fail on a reference that it has listed and
  cannot read any more (`images.py:355`).
- Migration of a version 0 record takes no lock (`state.py:112`): two commands may
  both migrate, the second backup then holds a version 1 record, and the second
  save may put back a record that the other command has changed or removed.
- A start that dies during the refresh keeps the old `ready`, while the files on
  the controller may be rewritten in part; a reset persists `pending` before.
  `PracticeAccess` shows that key and authorizations still agree.

## Proofs

Every safety invariant, every action property and both refinements that the
passing runs check are theorems as well, for every value of the constants that
the modules' named assumptions admit.  TLC evaluates those assumptions in the
runs; they say that there is a VM (`NAssumption`), that the names have an
alphabetical order (`RankAssumption`), that dependencies go to VMs earlier in the
lab's order, which is what `dependency_order` establishes (`DependsOnAssumption`),
that all versions of a definition that load are about the VMs of the host
(`TextAssumption`), that selections, participants and declared VMs are among the
VMs, and that names for "nothing" are not names of something.  None of them
restricts which steps fail.  `TypeOK` is proved of every component too.

No invariant about crashes is inductive: each says what must be true of the disk
and of libvirt wherever a process dies, and whether a step keeps it depends on
where the process is and what it still knows.  Each module therefore has an
`IInv` made of named parts, checked by TLC on the run's instance before it was
proved.  `TypeStep` and `SafeStep` (or a lemma per action) go through `Next`
action by action, `Invariance` joins them, and each theorem follows from it.  An
action property is a lemma about one step from a state in `IInv`.

**CreateTxnProofs.**  `TypeOK`, `CleanupOrder`, `ResourcesAreRecorded`,
`BareIsAdoptable`, `ReadyIsComplete`, `RefusedHoldsNoResource`, `ForeignUntouched`,
`CommitIsFinal` and the refinement of `LabContract`, whatever fails.  The
invariant's parts are `InvStatus` (the status at each point, and that the journal
outlives it), `InvTrees` (the directories at each point), `InvOrder` (what is left
implies what it rests on), `InvUndo` (while nothing has failed, every domain and
the network are on the rollback stack), `InvForward` (what the VM loop has done),
`InvRecords` (each domain has a record, each record a VM in the state),
`InvLocals`, and `InvSlips` (where the process can be after which slip).  What a
slip takes away is guarded by `StorageKnown`, `DefineKnown`, `StartKnown`,
`NetKnown`, `CommitKnown` or `JournalKnown`, each of which says that a certain
slip has not happened; that is how one invariant says of every failure what it
leaves intact.  The refinement needs `FileSteps` and `ReadySteps`, what a step may
do to the two files and to a ready lab, and `PhaseFacts`, what the abstract
variables say of an invariant state.

**ResetTxnProofs.**  `TypeOK`, `DisksKept`, `AccessIsCurrent`, `EndsWhole`,
`CommitStays`, `UnrecordedIsWhole` and `DiskChangesOffline`, whatever fails.  There
are two layers.  `DiskInv` is about disks and records: where the process is by
its journal (`InvJournal`), which disk each VM has at each stage (`InvDisks`,
`InvForward`), what the rollback's lists, recovery and the access record may claim
(`InvLists`, `InvRecovery`, `InvWhole`, `InvAccess`); it leaves torn VMs out.
`IInv` adds whose the domains are and which disk a running guest has open
(`InvOwned`, `InvGuests`, `InvBare`, `InvInstall`, `InvUndo`, `InvRebuilt`), and
leaves stray ones out; its main fact is that a disk which the rollback moves
belongs to no domain, or to a stray one.

**RemoveTxnProofs.**  `CleanupOrder`, `DependantsFirst`, `UnforcedLeavesGuests`
and the refinement of `RemovalContract`, for any dependencies.  The invariant
follows the order in which a lab goes (`InvLab`), a VM (`InvVm`), the storage
with its marker (`InvStorage`), and says of a kept lab how record, domains and
files of its VMs go together (`InvKept`).  `DependantsFirst` holds of chains of
any length because `Dependants` is a least closed set: it needs no induction.
The refinement goes over `Left`, the set of what is left of a lab.

**PowerOpsProofs.**  `RecordIsConsistent`, `RollbackRestoresPower` and
`SelectionIsClosed` as invariants, `RecordTellsPower` and `DependencyOrder` as
action properties, for any dependencies and any number of interferences.  A
command sees power once and works from what it saw, so `IInv` relates what is
true of each VM, what the command has seen or done, and what it will write:
`InvStop`, `InvStart`, `InvRestart` and `InvRestore` for the VMs a loop has
passed and those it has not, `InvStopped`, `InvFound` and `InvMissing` for the
record.  VMs that somebody else switched meanwhile (`disturbed`) are excepted, as
in the properties.

**PracticeAccessProofs.**  `ReadyIsConnected` and `KeyIsStable`, for any
controller, any set of targets, any keys and any selections of resets.  That a
record which says ready is true is not inductive: a refresh makes it true guest
by guest, and a command may carry the claim in memory while disks change.  `IInv`
adds where a reset is by its journal (`InvJournal`), that the claim in memory is
as true as it will have to be when it is written (`InvClaim`), what the refresh
has done so far (`InvKeys`), and that backups exist only while a reset needs them
(`InvBackups`).

**GradingProofs.**  `NothingSurvives`, `VerdictIsEarned` and `ResetIsConsented`,
for any processes, however they escape.  That nothing survives rests on where the
termination loop is and on the fact that only what is alive can fork (`InvTree`);
that a verdict is earned, on how labctl came to know the status, collected in
time or lost (`InvStatus`); consent, on which disks are replaced when
(`InvDisks`).

**DefinitionsProofs.**  `DependencyOrderIsRight`: of every definition that loads,
`dependency_order` lists each VM once and after all that it needs.
`CycleIsReal`: it reports a cycle only of a definition that has no order at all.
Of the recursion they prove that it is defined (the calls made are smaller: fewer
VMs that are not active, or fewer names), and that each call returns what it
should, by the smallest call that would not, which `LeastNumber` provides.

**LabHostProofs.**  `CreatedIsTrusted`, `CreatedIsExact`, `ReferencesAreSound`
and `StatusIsHonest`, for any number of processes, definitions and images.  The
invariant has a part for each thing they share: what a command took from the
trust file and the image cache still holds there (`InvLocal`, `InvStore`); who
works on the lab holds its lock and finds it as it left it (`InvWork`); what the
record, the journal, the base and the domains say of one another between any two
steps of any command (`InvLab`), where `Dead` is a lab never finished of which
only the record is left; what a command without a lock has seen was so when it
saw it (`InvView`).  That every action of `ImageStore` and `TrustStore` leaves the
lab alone is one lemma each (`...Quiet`).  `CreatedIsExact` uses
`DependencyOrderIsRight`.

Only model-checked:

- the liveness properties `RecoveryCompletes`, `RetryFinishes` (of reset and of
  removal), `StartGetsReady`, `AccessReturns`, `GradingEnds` and `CommandsEnd`:
  liveness under fairness rests on ENABLED, which the prover does not reason about;
- the violation runs: a counterexample is its own proof.

## Plan

1. `CreateTxn`, `LabContract`, `CreateTxnProofs`: done.
2. `ResetTxn`, `RemoveTxn`, `RemovalContract`, `PowerOps`, `Grading`,
   `PracticeAccess`: done, with one MC module each.
3. `LabHost` and the modules it composes: done, the changes of a lab step by step.
4. Theorems about each of them: done.
5. Left to do: the migration of version 0 records with two processes; a
   virt-install that outlives the labctl that started it; showing that the creation
   in `LabHost`, which is reduced to what other processes see, keeps the promise
   of `LabContract`; and the same of the commands of `LabChanges` and the
   modules that have them in full.

## Not modelled

The grammar of the command line, completion, tables and JSON output, paths,
rendering of cloud-init data, of SSH argument lists and of proxy settings, the
single probes of the host, platform detection: formatting and read-only I/O.
The bundled labs and graders, and the images' metadata, are course content.
`lifecycle.py` holds generic helpers that the orchestrator does not call.
`state.py` validates fields that no record written by this program gets wrong,
and migrates records of earlier releases; a save and a load are one step each.
`register_reference` of the image store is called by tests only.  A child of a
killed labctl that goes on alone is not modelled: whether it does depends on the
signal.  Several labs on one host share images, trust and libvirt, but no record
and no derived name, so that one lab is enough for what is stated here.
