------------------------------ MODULE LabHost ------------------------------
(***************************************************************************)
(* The host as a whole: commands of labctl that run at the same time and   *)
(* share the image cache, the trust file, the definition's directory, the  *)
(* lab's record and journal, and libvirt.  lab create goes through all of  *)
(* them.  Its transaction is reduced to what other commands see of it; it  *)
(* is in full in CreateTxn.                                                *)
(***************************************************************************)
EXTENDS Naturals, ImageStore, TrustStore, LabChanges

CONSTANTS
    Scenarios,      \* bound: what is there and what may happen together in a behaviour
    MaxChanges,     \* bound: disturbances from outside in a behaviour
    MaxGiven        \* bound: commands given in a behaviour

ASSUME ChangesAssumption == MaxChanges \in Nat /\ MaxGiven \in Nat
ASSUME TextAssumption ==
    \A v \in Versions :
        IsDefinition(Text[v]) /\ (Acceptable(Text[v]) => Names(Text[v]) = VM)

(* What the record says of a lab: its status, connection, order, definition,
   image and VMs, and how the image was vouched for. *)
Records ==
    [status : Statuses, uri : {"session", "system"}, order : Seq(VM), version : Versions,
     digest : Digests \union {None}, vms : SUBSET VM, verified : BOOLEAN, allowed : BOOLEAN]

ASSUME RecordAssumption == None \notin Records

(* Is there a lab at the beginning, which commands may each process run, and what
   may disturb them? *)
Disturbances == {"kill", "toggle", "hang", "corrupt", "source", "definition"}

ASSUME ScenariosAssumption ==
    Scenarios \subseteq [lab : BOOLEAN, commands : [Procs -> SUBSET STRING],
                        disturbances : SUBSET Disturbances]

VARIABLES
    scenario,   \* one of them
    changes,    \* disturbances so far
    given       \* commands so far

vars == <<command, images, trust, seen, view, base, llock, scenario, changes, given>>

(* There is no lab, or one was created before. *)
LabInit ==
    /\ journal = None /\ llock = None
    /\ IF ~scenario.lab
       THEN record = None /\ base = None /\ dom = [v \in VM |-> "absent"] /\ approved = {}
       ELSE /\ approved = {Original} /\ base = "good" /\ dom = [v \in VM |-> "on"]
            /\ Loads(Original) /\ ref # None
            /\ record = [status |-> "ready", uri |-> "system",
                         order |-> DependencyOrder(Text[Original]), version |-> Original,
                         digest |-> Pinned, vms |-> VM, verified |-> TRUE, allowed |-> FALSE]

Init ==
    /\ scenario \in Scenarios /\ CommandInit /\ ImageInit /\ LabInit /\ TrustInit /\ ObservationInit
    /\ changes = 0 /\ given = 0

-----------------------------------------------------------------------------

(* doctor, and connection_uri: the session cannot have the network, so that it
   is not chosen, and is not healthy when it was asked for. *)
Capable(uri, capability) == ~(uri = "session" /\ capability = "network")

Capabilities == {"compute", "storage", "network"}

Complete(uri) == \A c \in Capabilities : Capable(uri, c)

ConnectionUri(setting) ==
    IF setting # None THEN setting ELSE IF Complete("session") THEN "session" ELSE "system"

BeginCreate(p) ==
    Parse(p, "create", "discover") /\ UNCHANGED <<images, trust, seen, view, base, llock>>

outside == <<images, trust, hung, view>>

Doctor(p) ==
    /\ At(p, "doctor") /\ UNCHANGED <<outside, lab, base, llock>>
    /\ \/ /\ ~hung /\ Goto(p, "resolve_again")
          /\ \E file, environment, argument \in {None, "session", "system"} :
               LET uri == ConnectionUri(Setting(file, environment, argument))
               IN Complete(uri) /\ Keep(p, [loc[p] EXCEPT !.uri = uri])
       \/ ~hung /\ Leave(p, "prerequisite")

(* provider ls, inspect and doctor: the latter two ask libvirt what it can do, and
   wait for it without end. *)
BeginProvider(p) ==
    /\ \E first \in {"providers", "probe"} : Parse(p, "provider", first)
    /\ UNCHANGED <<outside, lab, base, llock>>

ShowProvider(p) ==
    /\ (At(p, "providers") \/ (At(p, "probe") /\ ~hung))
    /\ UNCHANGED <<outside, lab, base, llock>>
    /\ \E outcome \in {"success", "absent", "operation", "conflict", "prerequisite"} : Leave(p, outcome)

-----------------------------------------------------------------------------

(* create, under the lock of the lab: an interrupted creation is undone before
   the new one starts, or its journal is dropped; another operation is in the way. *)
Recover(p) ==
    /\ At(p, "pending") /\ UNCHANGED <<outside, record, dom, base>>
    /\ \/ journal = None /\ Proceed(p, "absent") /\ UNCHANGED <<journal, llock>>
       \/ /\ Pending("create") /\ ~Uncommitted
          /\ journal' = None /\ Proceed(p, "absent") /\ UNCHANGED llock
       \/ /\ Pending("create") /\ Uncommitted
          /\ Proceed(p, "recover") /\ UNCHANGED <<journal, llock>>
       \/ journal # None /\ Quit(p, "operation") /\ UNCHANGED journal

CheckAbsent(p) ==
    /\ At(p, "absent") /\ UNCHANGED <<outside, lab, base>>
    /\ \/ record = None /\ Proceed(p, "plan") /\ UNCHANGED llock
       \/ record # None /\ Quit(p, "exists")

(* The journal comes before the record; nothing is rolled back when one of them
   cannot be written. *)
PlanJournal(p) ==
    /\ At(p, "plan") /\ journal' = Journal("create", {}) /\ Proceed(p, "record")
    /\ UNCHANGED <<outside, record, dom, base, llock>>

PlanRecord(p) ==
    /\ At(p, "record") /\ Proceed(p, "prepare")
    /\ record' = [status |-> "provisioning", uri |-> loc[p].uri,
                  order |-> DependencyOrder(Text[loc[p].version]),
                  version |-> loc[p].version, digest |-> loc[p].digest, vms |-> {},
                  verified |-> loc[p].verified, allowed |-> loc[p].allowed]
    /\ UNCHANGED <<outside, journal, dom, base, llock>>

NotPlanned(p) ==
    /\ pc[p] \in {"plan", "record"} /\ Quit(p, "operation")
    /\ UNCHANGED <<outside, lab, base>>

NextVm == CHOOSE v \in VM :
    /\ v \notin record.vms
    /\ \A w \in VM \ record.vms : w = v \/ Before(record.order, v, w)

(* _copy_verified_base: the blob is copied and the copy hashed, once. *)
UnhashedBase(p) ==   \* mutant: the copy is not hashed
    /\ At(p, "prepare") /\ record.vms # VM /\ base' = blob[record.digest]
    /\ Proceed(p, "plan_vm") /\ UNCHANGED <<outside, lab, llock>>

CopyBase(p) ==
    /\ At(p, "prepare") /\ record.vms # VM /\ Proceed(p, "plan_vm")
    /\ base = None => blob[record.digest] = "good"
    /\ base' = "good" /\ UNCHANGED <<outside, lab, llock>>

PlanVm(p) ==
    /\ At(p, "plan_vm") /\ record' = [record EXCEPT !.vms = @ \union {NextVm}]
    /\ Proceed(p, "install") /\ UNCHANGED <<outside, journal, dom, base, llock>>

(* virt-install makes a domain without metadata, and then it gets them. *)
Planned == {v \in record.vms : dom[v] = "absent"}

Install(p) ==
    /\ At(p, "install") /\ ~hung /\ Proceed(p, "own")
    /\ dom' = [v \in VM |-> IF v \in Planned THEN "bare" ELSE dom[v]]
    /\ UNCHANGED <<outside, record, journal, base, llock>>

Own(p) ==
    /\ At(p, "own") /\ ~hung /\ Proceed(p, "await")
    /\ dom' = [v \in VM |-> IF dom[v] = "bare" THEN "on" ELSE dom[v]]
    /\ UNCHANGED <<outside, record, journal, base, llock>>

Await(p) ==
    /\ At(p, "await") /\ ~hung /\ UNCHANGED <<outside, lab, base, llock>>
    /\ Proceed(p, IF record.vms = VM THEN "commit" ELSE "prepare")

Commit(p) ==
    /\ At(p, "commit") /\ record' = [record EXCEPT !.status = "ready"] /\ Proceed(p, "finish")
    /\ UNCHANGED <<outside, journal, dom, base, llock>>

Finish(p) ==
    /\ At(p, "finish") /\ journal' = None /\ Quit(p, "success")
    /\ UNCHANGED <<outside, record, dom, base>>

(* Any of the steps may fail: what was made is removed.  The last one may fail
   before or after the journal is gone. *)
Creating == {"prepare", "plan_vm", "install", "own", "await", "commit", "finish"}

Rollback(p) ==
    /\ pc[p] \in Creating /\ Proceed(p, "undo") /\ UNCHANGED <<outside, record, dom, base, llock>>
    /\ UNCHANGED journal \/ (At(p, "finish") /\ journal' = None)

CreateStep(p) ==
    \/ Doctor(p) \/ Recover(p) \/ CheckAbsent(p) \/ PlanJournal(p) \/ PlanRecord(p) \/ NotPlanned(p)
    \/ CopyBase(p) \/ PlanVm(p) \/ Install(p) \/ Own(p) \/ Await(p) \/ Commit(p) \/ Finish(p)
    \/ Rollback(p)

-----------------------------------------------------------------------------

Change == changes < MaxChanges /\ changes' = changes + 1 /\ UNCHANGED given

(* A process is killed: its locks are free, what it wrote stays. *)
Kill(p) ==
    /\ op[p] # "none" /\ op' = [op EXCEPT ![p] = "none"] /\ pc' = [pc EXCEPT ![p] = "idle"]
    /\ exit' = [exit EXCEPT ![p] = "none"] /\ Keep(p, Blank) /\ Look(p, NoView)
    /\ ilock' = (IF ilock = p THEN None ELSE ilock) /\ llock' = (IF llock = p THEN None ELSE llock)
    /\ UNCHANGED <<blob, ref, source, trust, seen, base>>

(* Guests go off and on by themselves. *)
Toggle ==
    /\ \E v \in VM : dom[v] \in {"on", "off"} /\
         dom' = [dom EXCEPT ![v] = IF @ = "on" THEN "off" ELSE "on"]
    /\ UNCHANGED <<outside, command, record, journal, base, llock>>

Hang   == ~hung /\ hung' = TRUE /\ UNCHANGED <<command, images, trust, lab, view, base, llock>>
Answers == hung /\ hung' = FALSE /\ UNCHANGED <<command, images, trust, lab, view, base, llock>>

rest == <<seen, view, base, llock>>

May(disturbance) == disturbance \in scenario.disturbances

Disturb ==
    /\ Change
    /\ \/ May("kill") /\ \E p \in Procs : Kill(p)
       \/ May("toggle") /\ Toggle
       \/ May("hang") /\ Hang
       \/ May("corrupt") /\ Corrupt /\ UNCHANGED <<command, trust, rest>>
       \/ May("source") /\ EditSource /\ UNCHANGED <<command, trust, rest>>
       \/ May("definition") /\ EditDefinition /\ UNCHANGED <<command, images, rest>>

(* Commands that have nothing to do with the lab's record keep it. *)
ImageRun(p) ==
    /\ \/ ImageStep(p) \/ Download(p)
       \/ Referenced(p, record # None /\ record.vms # {})
    /\ UNCHANGED <<trust, rest>>

TrustRun(p) == (TrustStep(p) \/ Accept(p)) /\ UNCHANGED <<images, rest>>

ObserveRun(p) ==
    /\ ObserveStep(p) \/ Child(p) \/ ReadCatalogue(p, Discovers) \/ NoLab(p)
    /\ UNCHANGED <<images, trust, base, llock>>

Step(p) ==
    \/ op[p] \in {"create", "pull", "import", "rm", "images"} /\ ImageRun(p)
    \/ op[p] = "create" /\ (TrustRun(p) \/ CreateStep(p))
    \/ op[p] \in {"create"} \union Changing /\ ChangeStep(p) /\ UNCHANGED <<images, trust>>
    \/ op[p] \in {"ls", "list", "vm", "connect"} /\ ObserveRun(p)
    \/ op[p] = "provider" /\ ShowProvider(p)
    \/ Return(p) /\ UNCHANGED <<images, trust, rest>>

Gives(p, name) == name \in scenario.commands[p]

Begin(p) ==
    \/ Gives(p, "create") /\ BeginCreate(p)
    \/ Gives(p, "pull") /\ BeginPull(p) /\ UNCHANGED <<trust, rest>>
    \/ Gives(p, "import") /\ BeginImport(p) /\ UNCHANGED <<trust, rest>>
    \/ Gives(p, "rm") /\ BeginRemoveImage(p) /\ UNCHANGED <<trust, rest>>
    \/ \E name \in Changing : Gives(p, name) /\ BeginChange(p, name) /\ UNCHANGED <<images, trust>>
    \/ /\ UNCHANGED <<images, trust, base, llock>>
       /\ \/ Gives(p, "list") /\ BeginList(p)
          \/ Gives(p, "ls") /\ BeginLs(p)
          \/ Gives(p, "vm") /\ BeginVm(p)
          \/ Gives(p, "connect") /\ BeginConnect(p)
    \/ Gives(p, "show") /\ BeginShow(p) /\ UNCHANGED <<trust, rest>>
    \/ Gives(p, "show") /\ BeginProvider(p)

Next ==
    /\ UNCHANGED scenario
    /\ \/ /\ given < MaxGiven /\ given' = given + 1 /\ UNCHANGED changes
          /\ \E p \in Procs : Begin(p)
       \/ \E p \in Procs : Step(p) /\ UNCHANGED <<changes, given>>
       \/ Answers /\ UNCHANGED <<changes, given>>
       \/ Disturb

(* A process runs; a user who is asked or connected and a server that is
   downloaded from need not answer. *)
Asked(p) == pc[p] \in {"trust", "download", "child"}

FairSpec ==
    /\ Init /\ [][Next]_vars
    /\ \A p \in Procs : WF_vars(op[p] # "none" /\ ~Asked(p) /\ UNCHANGED <<scenario, changes, given>> /\ Step(p))

-----------------------------------------------------------------------------

(* A lab exists only with a definition that the user accepted, as it was when
   it was accepted, and with an image whose digest came from the catalogue or
   the user, or with --allow-untrusted-image; whatever else is pulled, imported,
   removed or edited meanwhile. *)
CreatedIsTrusted ==
    record # None =>
        /\ record.version \in approved
        /\ record.allowed \/ (record.verified /\ record.digest \in Vouched \union {Pinned})

(* A lab whose creation is finished and whose disks are not removed runs on the
   image that its record names, has the VMs of its definition in an order that
   respects its dependencies, and a connection that can have its network;
   whatever failed, was cut off, repaired or removed in part meanwhile. *)
CreatedIsExact ==
    record # None /\ record.status \notin {"provisioning", "failed_cleanup"} /\ base # None =>
        /\ base = "good" /\ record.vms = VM /\ Complete(record.uri)
        /\ Topological(Text[record.version], record.order)

(* A reference names a blob that is there (deletion keeps the blobs), and says
   verified only of a digest that somebody vouched for. *)
ReferencesAreSound ==
    ref # None =>
        /\ blob[ref.digest] # "absent"
        /\ ref.verified => ref.digest \in Vouched \union {Pinned}

(* Though nothing is locked, and the record, the journal and each domain are read
   at times of their own, a lab is shown running and without a diagnostic only if
   every VM of its definition was powered on when libvirt told of it, in the
   very instance that the record named; and a VM, only if it was. *)
StatusIsHonest ==
    \A p \in Procs :
        At(p, "examine") /\ view[p].todo = {} /\ Aggregate(p) = "running" /\ ~Diagnosed(p)
        => (IF op[p] = "vm" THEN view[p].vms ELSE VM) \subseteq view[p].active

(* The commands that ask libvirt without a limit of time. *)
Waiting == {"create", "provider"} \union Changing

(* Every command ends, except one whose user or server does not answer, and these
   when libvirt does not; the status commands end even then. *)
CommandsEnd ==
    \A p \in Procs :
        op[p] # "none" ~> op[p] = "none" \/ Asked(p) \/ (op[p] \in Waiting /\ hung)
=============================================================================
