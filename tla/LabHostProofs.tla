--------------------------- MODULE LabHostProofs ---------------------------
(***************************************************************************)
(* What commands that run at the same time cannot spoil.  The inductive    *)
(* invariant has a part for each of the things that they share: what a     *)
(* command holds in its variables and what the trust file and the image    *)
(* cache hold; the lab, which only the holder of its lock changes; and the *)
(* views that commands without a lock have of it.                          *)
(***************************************************************************)
EXTENDS LabHost, DefinitionsProofs

Locals ==
    [digest : Digests \union {None}, verified : BOOLEAN, version : Versions \union {None},
     trust : SUBSET Versions, allowed : BOOLEAN, uri : {None, "session", "system"},
     chosen : SUBSET VM, todo : SUBSET VM]

References == [digest : Digests, verified : BOOLEAN]

Powered == [VM -> {"unasked", "unknown", "missing", "off", "on"}]

Views ==
    [status : Statuses \union {None}, vms : SUBSET VM, live : BOOLEAN, pending : BOOLEAN,
     power : Powered, todo : SUBSET VM, active : SUBSET VM]

Domains == [VM -> {"absent", "bare", "on", "off"}]

Operations ==
    {"none", "create", "pull", "import", "rm", "images", "provider", "ls", "list", "vm",
     "connect"} \union Changing

(* The places of a creation, of a change of the lab, and of both, in which the
   lock of the lab is held. *)
Reworking == {"renew", "rollback", "restore"}
Altering  == {"shut", "drop", "dropped", "switch_on", "switch_off", "back", "renew", "rollback",
              "restore", "settle", "revert", "resettle"}
Undoing   == {"undo", "recover"}
Held      == {"pending", "absent", "plan", "record", "opened"}
             \union Creating \union Undoing \union Altering

Looking == {"journal_summary", "select", "inventory", "examine"}

Places ==
    {"idle", "exit", "providers", "probe", "child",
     "discover", "trust", "read_trust", "write_trust", "snapshot",
     "resolve", "hash_blob", "doctor", "resolve_again", "hash_blob_again",
     "pull", "pull_cached", "download", "replace", "publish",
     "hash", "import", "import_cached", "copy_source", "referenced", "rm", "unlink", "list", "show",
     "lock", "pending", "absent", "plan", "record",
     "prepare", "plan_vm", "install", "own", "await", "commit", "finish",
     "lab_lock", "opened", "undo", "recover", "shut", "drop", "dropped", "switch_on", "switch_off",
     "back", "renew", "rollback", "restore", "settle", "revert", "resettle",
     "catalogue", "records", "journal_summary", "no_lab", "select", "inventory", "examine",
     "default_vm", "connection"}

(* The type invariant, of everything but the exit statuses. *)
CommandType ==
    op \in [Procs -> Operations] /\ pc \in [Procs -> Places] /\ loc \in [Procs -> Locals]

StoreType ==
    /\ blob \in [Digests -> {"absent", "good", "bad"}] /\ ref \in References \union {None}
    /\ ilock \in Procs \union {None} /\ source \in Digests
    /\ defn \in Versions /\ trusted \subseteq Versions /\ approved \subseteq Versions

LabType ==
    /\ record \in Records \union {None} /\ journal \in Journals \union {None} /\ dom \in Domains
    /\ base \in {None, "good"} /\ llock \in Procs \union {None}

ViewType == hung \in BOOLEAN /\ view \in [Procs -> Views]

CountType == changes \in Nat /\ given \in Nat

TypeOK == CommandType /\ StoreType /\ LabType /\ ViewType /\ CountType

-----------------------------------------------------------------------------

(* Digests that somebody vouched for. *)
Checked == Vouched \union {Pinned}

Pulling == {"pull", "pull_cached", "download", "replace", "publish"}
Importing == {"hash", "import", "import_cached", "copy_source"}
Stored  == {"import", "import_cached", "copy_source", "replace", "publish"}
Cleared == {"lock", "pending", "recover", "absent", "plan", "record"}
Connected == {"resolve_again", "hash_blob_again"} \union Cleared
Snapped == {"resolve", "hash_blob", "doctor"} \union Connected
Fresh   == {"idle", "exit", "list"}
Asking  == {"read_trust", "write_trust", "snapshot"}

(* A command's variables: what it took from the stores still holds there. *)
LocalOK(p) ==
    /\ loc[p].verified => loc[p].digest \in Checked
    /\ loc[p].trust \subseteq approved
    /\ pc[p] \in Fresh => ~loc[p].verified
    /\ pc[p] \in Stored => loc[p].digest \in Digests
    /\ pc[p] = "publish" => blob[loc[p].digest] # "absent"
    /\ pc[p] \in Importing => op[p] # "create"
    /\ pc[p] \in Asking => loc[p].version \in approved
    /\ pc[p] \in Snapped \/ (op[p] = "create" /\ pc[p] \in Pulling) =>
         loc[p].version \in approved /\ Loads(loc[p].version)
    /\ pc[p] \in Connected => loc[p].uri \in {"session", "system"} /\ Complete(loc[p].uri)
    /\ pc[p] \in Cleared => loc[p].allowed \/ loc[p].verified

InvLocal == \A p \in Procs : LocalOK(p)

InvStore == trusted \subseteq approved /\ ReferencesAreSound

(* The lab: who is at work on it holds its lock, and what is there fits to
   where that one is. *)
WorkOK(p) ==
    /\ pc[p] \in Held => llock = p
    /\ pc[p] \in {"absent", "plan"} => journal = None
    /\ pc[p] \in {"plan", "record"} => record = None
    /\ pc[p] \in Creating \union {"record"} => Pending("create")
    /\ pc[p] \in Creating \union Altering => record # None
    /\ pc[p] \in Creating \ {"finish"} => record.status = "provisioning"
    /\ pc[p] = "finish" => record.status = "ready"
    /\ pc[p] = "plan_vm" => record.vms # VM
    /\ pc[p] \in {"commit", "finish"} => record.vms = VM
    /\ pc[p] \in Altering => ~Pending("create")
    /\ pc[p] \in Reworking \/ (pc[p] = "shut" /\ op[p] = "reset") => record.vms = VM

InvWork == \A p \in Procs : WorkOK(p)

(* A lab that was never finished and of which only the record is left. *)
Dead ==
    /\ record # None /\ record.vms # VM /\ record.status # "provisioning"
    /\ base = None /\ \A v \in VM : dom[v] = "absent"

InvLab ==
    record # None =>
        /\ record.status = "provisioning" => Pending("create")
        /\ record.vms # VM => \/ Pending("create") /\ record.status \in {"provisioning", "failed_cleanup"}
                              \/ Dead
        /\ Pending("reset") => record.vms = VM
        /\ Loads(record.version) /\ Complete(record.uri)
        /\ record.order = DependencyOrder(Text[record.version])

(* The views: one that shows only some of the VMs of a finished lab is of one
   that is dead, or gone. *)
Finished == {"ready", "running", "stopped"}

ViewOK(p) ==
    /\ view[p].live => record # None
    /\ view[p].status = None => view[p].vms = {}
    /\ pc[p] \notin Looking \/ (pc[p] = "journal_summary" /\ view[p].status = None)
         => view[p] = NoView
    /\ pc[p] = "select" => op[p] = "vm"
    /\ \A v \in VM : view[p].power[v] = "on" => v \in view[p].active
    /\ op[p] # "vm" /\ view[p].status \in Finished /\ view[p].vms # VM =>
         (view[p].live => Dead) /\ \A v \in VM : view[p].power[v] # "on"

InvView == \A p \in Procs : ViewOK(p)

IInv == TypeOK /\ InvLocal /\ InvStore /\ InvWork /\ InvLab /\ InvView /\ CreatedIsTrusted

-----------------------------------------------------------------------------

(* Steps of one command: nothing of the others changes. *)
Only(p) ==
    /\ CommandType'
    /\ \A q \in Procs \ {p} : op'[q] = op[q] /\ pc'[q] = pc[q] /\ loc'[q] = loc[q]

LEMMA NoViewType ==
    /\ NoView \in Views /\ ~NoView.live /\ NoView.vms = {} /\ NoView.status = None
    /\ NoView.status \notin Finished /\ \A v \in VM : NoView.power[v] # "on"
BY StatusAssumption DEF NoView, Views, Powered, Finished, Statuses

LEMMA BlankType == Blank \in Locals /\ ~Blank.verified /\ Blank.trust = {}
BY DEF Blank, Locals

LEMMA GotoMoves ==
    ASSUME CommandType, NEW p \in Procs, NEW w \in Places, NEW l \in Locals,
           Goto(p, w), Keep(p, l)
    PROVE  Only(p) /\ op'[p] = op[p] /\ pc'[p] = w /\ loc'[p] = l
BY DEF CommandType, Goto, Keep, Only

LEMMA ProceedMoves ==
    ASSUME CommandType, NEW p \in Procs, NEW w \in Places, Proceed(p, w)
    PROVE  Only(p) /\ op'[p] = op[p] /\ pc'[p] = w /\ loc'[p] = loc[p]
BY DEF CommandType, Proceed, Goto, Only

LEMMA LeaveMoves ==
    ASSUME CommandType, NEW p \in Procs, NEW e, Leave(p, e)
    PROVE  Only(p) /\ op'[p] = op[p] /\ pc'[p] = "exit" /\ loc'[p] = Blank
<1>1. /\ pc' = [pc EXCEPT ![p] = "exit"] /\ loc' = [loc EXCEPT ![p] = Blank]
      /\ op' = op
    BY Zenon DEF Leave, Keep
<1> QED
    BY <1>1, BlankType DEF CommandType, Only, Places

LEMMA ParseMoves ==
    ASSUME CommandType, NEW p \in Procs, NEW name \in Operations, NEW first \in Places,
           Parse(p, name, first)
    PROVE  /\ Only(p) /\ op'[p] = name /\ pc'[p] \in {first, "exit"} /\ loc'[p] = loc[p]
           /\ pc[p] = "idle"
<1>1. /\ pc[p] = "idle" /\ op' = [op EXCEPT ![p] = name] /\ loc' = loc
      /\ pc' = [pc EXCEPT ![p] = first] \/ pc' = [pc EXCEPT ![p] = "exit"]
    BY Zenon DEF Parse, At
<1>2. PICK w \in {first, "exit"} : pc' = [pc EXCEPT ![p] = w]
    BY <1>1, Zenon
<1>3. w \in Places
    BY <1>2 DEF Places
<1> QED
    BY <1>1, <1>2, <1>3 DEF CommandType, Only

-----------------------------------------------------------------------------

(* What holds of the others' variables, and of what such a step leaves alone,
   goes on to hold. *)
Grows ==
    /\ approved \subseteq approved'
    /\ \A d \in Digests : blob[d] # "absent" => blob'[d] # "absent"

LEMMA LocalKept ==
    ASSUME InvLocal, NEW p \in Procs, Only(p), LocalOK(p)', Grows
    PROVE  InvLocal'
<1> SUFFICES ASSUME NEW q \in Procs, q # p PROVE LocalOK(q)'
    BY DEF InvLocal
<1>1. LocalOK(q) /\ op'[q] = op[q] /\ pc'[q] = pc[q] /\ loc'[q] = loc[q]
    BY DEF InvLocal, Only
<1>2. pc[q] = "publish" => loc[q].digest \in Digests
    BY <1>1 DEF LocalOK, Stored
<1>3. approved \subseteq approved'
    BY DEF Grows
<1>4. pc[q] = "publish" => blob'[loc[q].digest] # "absent"
    BY <1>1, <1>2 DEF LocalOK, Grows
<1> QED
    BY <1>1, <1>3, <1>4 DEF LocalOK

LEMMA WorkKept ==
    ASSUME InvWork, NEW p \in Procs, Only(p), pc'[p] \notin Held, UNCHANGED <<lab, base, llock>>
    PROVE  InvWork'
<1>1. ASSUME NEW q \in Procs, q # p PROVE WorkOK(q)'
    <2>1. WorkOK(q) /\ pc'[q] = pc[q] /\ op'[q] = op[q]
        BY <1>1 DEF InvWork, Only
    <2> QED
        BY <2>1 DEF WorkOK, Pending, lab
<1>2. WorkOK(p)'
    BY DEF WorkOK, Held, Creating, Undoing, Altering, Reworking
<1> QED
    BY <1>1, <1>2 DEF InvWork

LEMMA ViewKept ==
    ASSUME InvView, NEW p \in Procs, Only(p), pc[p] \notin Looking, pc'[p] \notin Looking,
           UNCHANGED <<lab, base, view>>
    PROVE  InvView'
<1>0. Dead' = Dead
    BY DEF Dead, lab
<1>1. ASSUME NEW q \in Procs, q # p PROVE ViewOK(q)'
    <2>1. ViewOK(q) /\ pc'[q] = pc[q] /\ op'[q] = op[q]
        BY <1>1 DEF InvView, Only
    <2> QED
        BY <1>0, <2>1 DEF ViewOK, lab
<1>2. ViewOK(p)'
    <2>1. ViewOK(p) /\ view[p] = NoView
        BY DEF InvView, ViewOK
    <2>2. ~view[p].live /\ view[p].vms = {} /\ view[p].status \notin Finished
          /\ \A v \in VM : view[p].power[v] # "on"
        BY <2>1, NoViewType
    <2>3. pc'[p] \notin {"select", "inventory", "journal_summary", "examine"}
        BY DEF Looking
    <2> QED
        BY <1>0, <2>1, <2>2, <2>3 DEF ViewOK, lab
<1> QED
    BY <1>1, <1>2 DEF InvView

(* A step that looks at nothing of the lab and changes nothing of it. *)
Moved(p) ==
    Only(p) /\ LocalOK(p)' /\ pc[p] \notin Looking /\ pc'[p] \notin Looking \union Held

Quiet(p) == Moved(p) /\ Grows /\ StoreType' /\ InvStore'

LEMMA QuietStep ==
    ASSUME IInv, NEW p \in Procs, Quiet(p), CountType',
           UNCHANGED <<seen, view, base, llock>>
    PROVE  IInv'
<1>1. UNCHANGED <<lab, base, llock>> /\ UNCHANGED <<lab, base, view>> /\ UNCHANGED hung
    BY DEF seen
<1>2. TypeOK'
    BY <1>1 DEF IInv, TypeOK, Quiet, Moved, Only, LabType, ViewType, lab
<1>3. InvLocal'
    BY LocalKept DEF IInv, Quiet, Moved
<1>4. InvWork'
    BY <1>1, WorkKept DEF IInv, Quiet, Moved
<1>5. InvLab'
    BY <1>1 DEF IInv, InvLab, Dead, Pending, lab
<1>6. InvView'
    BY <1>1, ViewKept DEF IInv, Quiet, Moved
<1>7. CreatedIsTrusted'
    BY <1>1 DEF IInv, Quiet, Grows, CreatedIsTrusted, lab
<1> QED
    BY <1>2, <1>3, <1>4, <1>5, <1>6, <1>7 DEF IInv, Quiet, Moved

-----------------------------------------------------------------------------

LEMMA StoreKept ==
    ASSUME IInv, UNCHANGED <<blob, ref, source, trust>>, ilock' \in Procs \union {None}
    PROVE  Grows /\ StoreType' /\ InvStore'
BY DEF IInv, TypeOK, StoreType, InvStore, ReferencesAreSound, Grows, trust

LEMMA LeaveMoved ==
    ASSUME IInv, NEW p \in Procs, NEW e, Leave(p, e), pc[p] \notin Looking
    PROVE  Moved(p)
<1>1. Only(p) /\ op'[p] = op[p] /\ pc'[p] = "exit" /\ loc'[p] = Blank
    BY LeaveMoves DEF IInv, TypeOK
<1>2. LocalOK(p)'
    BY <1>1, BlankType DEF LocalOK, Stored, Importing, Asking, Snapped, Connected, Pulling, Cleared
<1> QED
    BY <1>1, <1>2 DEF Moved, Looking, Held, Creating, Undoing, Altering

LEMMA ProceedMoved ==
    ASSUME IInv, NEW p \in Procs, NEW w \in Places \ (Looking \union Held), Proceed(p, w),
           pc[p] \notin Looking, Grows,
           w \in Fresh => ~loc[p].verified,
           w \in Stored => loc[p].digest \in Digests,
           w = "publish" => blob'[loc[p].digest] # "absent",
           w \in Importing => op[p] # "create",
           w \in Asking => loc[p].version \in approved,
           w \in Snapped \/ (op[p] = "create" /\ w \in Pulling) =>
               loc[p].version \in approved /\ Loads(loc[p].version),
           w \in Connected => loc[p].uri \in {"session", "system"} /\ Complete(loc[p].uri),
           w \in Cleared => loc[p].allowed \/ loc[p].verified
    PROVE  Moved(p)
<1>1. Only(p) /\ op'[p] = op[p] /\ pc'[p] = w /\ loc'[p] = loc[p]
    BY ProceedMoves DEF IInv, TypeOK
<1>2. LocalOK(p) /\ approved \subseteq approved'
    BY DEF IInv, InvLocal, Grows
<1>3. LocalOK(p)'
    BY <1>1, <1>2 DEF LocalOK
<1> QED
    BY <1>1, <1>3 DEF Moved

LEMMA GotoMoved ==
    ASSUME IInv, NEW p \in Procs, NEW w \in Places \ (Looking \union Held), NEW l \in Locals,
           Goto(p, w), Keep(p, l), pc[p] \notin Looking,
           l.verified => l.digest \in Checked,
           l.trust \subseteq approved',
           w \in Fresh => ~l.verified,
           w \in Stored => l.digest \in Digests,
           w = "publish" => blob'[l.digest] # "absent",
           w \in Importing => op[p] # "create",
           w \in Asking => l.version \in approved',
           w \in Snapped \/ (op[p] = "create" /\ w \in Pulling) =>
               l.version \in approved' /\ Loads(l.version),
           w \in Connected => l.uri \in {"session", "system"} /\ Complete(l.uri),
           w \in Cleared => l.allowed \/ l.verified
    PROVE  Moved(p)
<1>1. Only(p) /\ op'[p] = op[p] /\ pc'[p] = w /\ loc'[p] = l
    BY GotoMoves DEF IInv, TypeOK
<1>2. LocalOK(p)'
    BY <1>1 DEF LocalOK
<1> QED
    BY <1>1, <1>2 DEF Moved

(* What a command may rely on where it is, and that no image or trust step is
   among those that look at the lab. *)
LEMMA CommandOK ==
    ASSUME IInv, NEW p \in Procs
    PROVE  LocalOK(p) /\ loc[p] \in Locals /\ op[p] \in Operations
BY DEF IInv, TypeOK, CommandType, InvLocal

-----------------------------------------------------------------------------

(* The image cache. *)
LEMMA LockMoved ==
    ASSUME IInv, NEW p \in Procs, NEW w \in {"pull_cached", "import_cached", "unlink"}, Lock(p, w),
           Grows, pc[p] \in {"pull", "import", "rm"},
           w = "pull_cached" => pc[p] = "pull",
           w = "import_cached" => pc[p] = "import"
    PROVE  Moved(p) /\ ilock' \in Procs \union {None}
<1>1. LocalOK(p) /\ ilock \in Procs \union {None}
    BY CommandOK DEF IInv, TypeOK, StoreType
<1>2. CASE ilock' = p /\ Proceed(p, w)
    BY <1>1, <1>2, ProceedMoved DEF Places, Looking, Held, Creating, Undoing, Altering, Stored, Fresh, Importing, Asking, Snapped, Connected, Pulling, Cleared, LocalOK
<1>3. CASE Leave(p, PullError(p)) /\ ilock' = ilock
    BY <1>1, <1>3, LeaveMoved DEF Looking
<1> QED
    BY <1>2, <1>3, Zenon DEF Lock

LEMMA PullLockQuiet ==
    ASSUME IInv, NEW p \in Procs, PullLock(p), UNCHANGED trust
    PROVE  Quiet(p)
<1>1. pc[p] = "pull" /\ Lock(p, "pull_cached") /\ UNCHANGED <<blob, ref, source>>
    BY Zenon DEF PullLock, At
<1>2. ilock' \in Procs \union {None}
    BY <1>1 DEF Lock, IInv, TypeOK, StoreType
<1>3. Grows /\ StoreType' /\ InvStore'
    BY <1>1, <1>2, StoreKept
<1>4. Moved(p)
    BY <1>1, <1>3, LockMoved
<1> QED
    BY <1>3, <1>4 DEF Quiet

LEMMA PullCachedQuiet ==
    ASSUME IInv, NEW p \in Procs, PullCached(p), UNCHANGED trust
    PROVE  Quiet(p)
<1>1. pc[p] = "pull_cached" /\ UNCHANGED <<blob, ref, source>>
      /\ (ilock' = ilock \/ ilock' = None)
    BY Zenon DEF PullCached, At, Fail, Unlock
<1>2. LocalOK(p) /\ loc[p] \in Locals /\ StoreType /\ InvStore
    BY CommandOK DEF IInv, TypeOK
<1>3. Grows /\ StoreType' /\ InvStore'
    <2>1. UNCHANGED <<blob, ref, source, trust>> /\ ilock' \in Procs \union {None}
        BY <1>1, <1>2 DEF StoreType
    <2> QED
        BY <2>1, StoreKept
<1>4. ASSUME Proceed(p, "download") PROVE Moved(p)
    BY <1>1, <1>2, <1>3, <1>4, ProceedMoved DEF Places, Looking, Held, Creating, Undoing, Altering, Stored, Fresh, Importing, Asking, Snapped, Connected, Pulling, Cleared, LocalOK
<1>5. ASSUME blob[Pinned] = "good", Goto(p, "publish"), Keep(p, [loc[p] EXCEPT !.digest = Pinned, !.verified = TRUE]) PROVE Moved(p)
    <2> DEFINE l == [loc[p] EXCEPT !.digest = Pinned, !.verified = TRUE]
    <2>1. /\ l \in Locals /\ l.verified /\ l.digest = Pinned /\ l.version = loc[p].version
          /\ l.trust = loc[p].trust /\ Pinned \in Digests /\ Pinned \in Checked
        BY <1>1, <1>2, <1>5, PinnedAssumption DEF Locals, Checked
    <2> HIDE DEF l
    <2>2. Goto(p, "publish") /\ Keep(p, l)
        BY <1>5, Zenon DEF l
    <2> QED
        BY <1>1, <1>2, <1>3, <1>5, <2>1, <2>2, GotoMoved DEF Places, Looking, Held, Creating, Undoing, Altering, Stored, Fresh, Importing, Asking, Snapped, Connected, Pulling, Cleared, LocalOK, Grows
<1>6. ASSUME Leave(p, PullError(p)) PROVE Moved(p)
    BY <1>1, <1>6, LeaveMoved DEF Looking
<1>7. Moved(p)
    BY <1>4, <1>5, <1>6, <1>1, Zenon DEF PullCached, Fail
<1> QED
    BY <1>3, <1>7 DEF Quiet

LEMMA DownloadQuiet ==
    ASSUME IInv, NEW p \in Procs, Download(p), UNCHANGED trust
    PROVE  Quiet(p)
<1>1. pc[p] = "download" /\ UNCHANGED <<blob, ref, source>>
      /\ (ilock' = ilock \/ ilock' = None)
    BY Zenon DEF Download, At, Fail, Unlock
<1>2. LocalOK(p) /\ loc[p] \in Locals /\ StoreType /\ InvStore
    BY CommandOK DEF IInv, TypeOK
<1>3. Grows /\ StoreType' /\ InvStore'
    <2>1. UNCHANGED <<blob, ref, source, trust>> /\ ilock' \in Procs \union {None}
        BY <1>1, <1>2 DEF StoreType
    <2> QED
        BY <2>1, StoreKept
<1>4. ASSUME Goto(p, "replace"), Keep(p, [loc[p] EXCEPT !.digest = Pinned, !.verified = TRUE]) PROVE Moved(p)
    <2> DEFINE l == [loc[p] EXCEPT !.digest = Pinned, !.verified = TRUE]
    <2>1. /\ l \in Locals /\ l.verified /\ l.digest = Pinned /\ l.version = loc[p].version
          /\ l.trust = loc[p].trust /\ Pinned \in Digests /\ Pinned \in Checked
        BY <1>1, <1>2, <1>4, PinnedAssumption DEF Locals, Checked
    <2> HIDE DEF l
    <2>2. Goto(p, "replace") /\ Keep(p, l)
        BY <1>4, Zenon DEF l
    <2> QED
        BY <1>1, <1>2, <1>3, <1>4, <2>1, <2>2, GotoMoved DEF Places, Looking, Held, Creating, Undoing, Altering, Stored, Fresh, Importing, Asking, Snapped, Connected, Pulling, Cleared, LocalOK, Grows
<1>5. ASSUME Leave(p, PullError(p)) PROVE Moved(p)
    BY <1>1, <1>5, LeaveMoved DEF Looking
<1>6. Moved(p)
    BY <1>4, <1>5, <1>1, Zenon DEF Download, Fail
<1> QED
    BY <1>3, <1>6 DEF Quiet

LEMMA ReplaceQuiet ==
    ASSUME IInv, NEW p \in Procs, Replace(p), UNCHANGED trust
    PROVE  Quiet(p)
<1>1. pc[p] = "replace" /\ UNCHANGED <<ref, ilock, source>> /\ Proceed(p, "publish")
      /\ blob' = [blob EXCEPT ![loc[p].digest] = "good"]
    BY Zenon DEF Replace, At
<1>2. LocalOK(p) /\ loc[p] \in Locals /\ StoreType /\ InvStore
    BY CommandOK DEF IInv, TypeOK
<1>3. Grows /\ StoreType' /\ InvStore'
    <2>1. loc[p].digest \in Digests
        BY <1>1, <1>2 DEF LocalOK, Stored
    <2>2. blob' \in [Digests -> {"absent", "good", "bad"}] /\ blob'[loc[p].digest] # "absent"
          /\ \A d \in Digests : blob[d] # "absent" => blob'[d] # "absent"
        BY <1>1, <1>2, <2>1 DEF StoreType
    <2>3. ref # None => ref.digest \in Digests
        BY <1>2 DEF StoreType, References
    <2> QED
        BY <1>1, <1>2, <2>2, <2>3 DEF StoreType, InvStore, ReferencesAreSound, Grows, trust
<1>4. ASSUME TRUE PROVE Moved(p)
    <2>1. loc[p].digest \in Digests
        BY <1>1, <1>2 DEF LocalOK, Stored
    <2>2. blob'[loc[p].digest] # "absent"
        BY <1>1, <1>2, <2>1 DEF StoreType
    <2> QED
        BY <1>1, <1>2, <1>3, <2>1, <2>2, ProceedMoved DEF Places, Looking, Held, Creating, Undoing, Altering, Stored, Fresh, Importing, Asking, Snapped, Connected, Pulling, Cleared, LocalOK
<1>5. Moved(p)
    BY <1>4, <1>1, Zenon DEF Replace
<1> QED
    BY <1>3, <1>5 DEF Quiet

LEMMA PublishQuiet ==
    ASSUME IInv, NEW p \in Procs, Publish(p), UNCHANGED trust
    PROVE  Quiet(p)
<1>1. /\ pc[p] = "publish" /\ UNCHANGED <<blob, source>> /\ ilock' = None
      /\ ref' = [digest |-> loc[p].digest, verified |-> loc[p].verified]
    BY Zenon DEF Publish, At, Unlock
<1>2. LocalOK(p) /\ loc[p] \in Locals /\ StoreType /\ InvStore
    BY CommandOK DEF IInv, TypeOK
<1>3. Grows /\ StoreType' /\ InvStore'
    <2>1. loc[p].digest \in Digests /\ blob[loc[p].digest] # "absent"
          /\ (loc[p].verified => loc[p].digest \in Checked) /\ loc[p].verified \in BOOLEAN
        BY <1>1, <1>2 DEF LocalOK, Stored, Locals
    <2>2. ref' \in References /\ ref'.digest = loc[p].digest /\ ref'.verified = loc[p].verified
        BY <1>1, <2>1 DEF References
    <2> QED
        BY <1>1, <1>2, <2>1, <2>2 DEF StoreType, InvStore, ReferencesAreSound, Grows, Checked, trust
<1>4. ASSUME op[p] = "create", Goto(p, "doctor"), Keep(p, [loc[p] EXCEPT !.digest = None, !.verified = FALSE]) PROVE Moved(p)
    <2> DEFINE l == [loc[p] EXCEPT !.digest = None, !.verified = FALSE]
    <2>1. /\ l \in Locals /\ ~l.verified /\ l.version = loc[p].version
          /\ l.trust = loc[p].trust
        BY <1>1, <1>2, <1>4 DEF Locals
    <2> HIDE DEF l
    <2>2. Goto(p, "doctor") /\ Keep(p, l)
        BY <1>4, Zenon DEF l
    <2> QED
        BY <1>1, <1>2, <1>3, <1>4, <2>1, <2>2, GotoMoved DEF Places, Looking, Held, Creating, Undoing, Altering, Stored, Fresh, Importing, Asking, Snapped, Connected, Pulling, Cleared, LocalOK, Grows
<1>5. ASSUME Leave(p, "success") PROVE Moved(p)
    BY <1>1, <1>5, LeaveMoved DEF Looking
<1>6. Moved(p)
    BY <1>4, <1>5, <1>1, Zenon DEF Publish
<1> QED
    BY <1>3, <1>6 DEF Quiet

LEMMA HashSourceQuiet ==
    ASSUME IInv, NEW p \in Procs, HashSource(p), UNCHANGED trust
    PROVE  Quiet(p)
<1>1. pc[p] = "hash" /\ UNCHANGED images
    BY Zenon DEF HashSource, At
<1>2. LocalOK(p) /\ loc[p] \in Locals /\ StoreType /\ InvStore
    BY CommandOK DEF IInv, TypeOK
<1>3. Grows /\ StoreType' /\ InvStore'
    <2>1. UNCHANGED <<blob, ref, source, trust>> /\ ilock' \in Procs \union {None}
        BY <1>1, <1>2 DEF StoreType, images
    <2> QED
        BY <2>1, StoreKept
<1>4. ASSUME Goto(p, "import"), NEW verified \in BOOLEAN, verified => source \in Vouched,
             Keep(p, [loc[p] EXCEPT !.digest = source, !.verified = verified]) PROVE Moved(p)
    <2> DEFINE l == [loc[p] EXCEPT !.digest = source, !.verified = verified]
    <2>1. /\ l \in Locals /\ (l.verified => l.digest \in Checked) /\ l.digest \in Digests
          /\ l.trust = loc[p].trust
        BY <1>1, <1>2, <1>4 DEF Locals, Checked, StoreType
    <2> HIDE DEF l
    <2>2. Goto(p, "import") /\ Keep(p, l)
        BY <1>4, Zenon DEF l
    <2> QED
        BY <1>1, <1>2, <1>3, <1>4, <2>1, <2>2, GotoMoved DEF Places, Looking, Held, Creating, Undoing, Altering, Stored, Fresh, Importing, Asking, Snapped, Connected, Pulling, Cleared, LocalOK, Grows
<1>5. ASSUME Leave(p, "image") PROVE Moved(p)
    BY <1>1, <1>5, LeaveMoved DEF Looking
<1>6. Moved(p)
    BY <1>4, <1>5, <1>1, Zenon DEF HashSource
<1> QED
    BY <1>3, <1>6 DEF Quiet

LEMMA ImportCachedQuiet ==
    ASSUME IInv, NEW p \in Procs, ImportCached(p), UNCHANGED trust
    PROVE  Quiet(p)
<1>1. /\ pc[p] = "import_cached" /\ UNCHANGED images
      /\ Proceed(p, IF blob[loc[p].digest] = "absent" THEN "copy_source" ELSE "publish")
    BY Zenon DEF ImportCached, At
<1>2. LocalOK(p) /\ loc[p] \in Locals /\ StoreType /\ InvStore
    BY CommandOK DEF IInv, TypeOK
<1>3. Grows /\ StoreType' /\ InvStore'
    <2>1. UNCHANGED <<blob, ref, source, trust>> /\ ilock' \in Procs \union {None}
        BY <1>1, <1>2 DEF StoreType, images
    <2> QED
        BY <2>1, StoreKept
<1>4. ASSUME blob[loc[p].digest] = "absent" PROVE Moved(p)
    <2>1. Proceed(p, "copy_source")
        BY <1>1, <1>4
    <2> QED
        BY <1>1, <1>2, <1>3, <2>1, ProceedMoved DEF Places, Looking, Held, Creating, Undoing, Altering, Stored, Fresh, Importing, Asking, Snapped, Connected, Pulling, Cleared, LocalOK
<1>5. ASSUME blob[loc[p].digest] # "absent" PROVE Moved(p)
    <2>1. Proceed(p, "publish") /\ blob' = blob
        BY <1>1, <1>5 DEF images
    <2> QED
        BY <1>1, <1>2, <1>3, <1>5, <2>1, ProceedMoved DEF Places, Looking, Held, Creating, Undoing, Altering, Stored, Fresh, Importing, Asking, Snapped, Connected, Pulling, Cleared, LocalOK
<1>6. Moved(p)
    BY <1>4, <1>5, <1>1, Zenon DEF ImportCached
<1> QED
    BY <1>3, <1>6 DEF Quiet

LEMMA CopySourceQuiet ==
    ASSUME IInv, NEW p \in Procs, CopySource(p), UNCHANGED trust
    PROVE  Quiet(p)
<1>1. pc[p] = "copy_source" /\ UNCHANGED <<blob, ref, source>>
      /\ (ilock' = ilock \/ ilock' = None)
    BY Zenon DEF CopySource, At, Fail, Unlock
<1>2. LocalOK(p) /\ loc[p] \in Locals /\ StoreType /\ InvStore
    BY CommandOK DEF IInv, TypeOK
<1>3. Grows /\ StoreType' /\ InvStore'
    <2>1. UNCHANGED <<blob, ref, source, trust>> /\ ilock' \in Procs \union {None}
        BY <1>1, <1>2 DEF StoreType
    <2> QED
        BY <2>1, StoreKept
<1>4. ASSUME Proceed(p, "replace") PROVE Moved(p)
    BY <1>1, <1>2, <1>3, <1>4, ProceedMoved DEF Places, Looking, Held, Creating, Undoing, Altering, Stored, Fresh, Importing, Asking, Snapped, Connected, Pulling, Cleared, LocalOK
<1>5. ASSUME Leave(p, PullError(p)) PROVE Moved(p)
    BY <1>1, <1>5, LeaveMoved DEF Looking
<1>6. Moved(p)
    BY <1>4, <1>5, <1>1, Zenon DEF CopySource, Fail
<1> QED
    BY <1>3, <1>6 DEF Quiet

LEMMA UnlinkQuiet ==
    ASSUME IInv, NEW p \in Procs, Unlink(p), UNCHANGED trust
    PROVE  Quiet(p)
<1>1. pc[p] = "unlink" /\ ref' = None /\ ilock' = None /\ UNCHANGED <<blob, source>>
      /\ Leave(p, "success")
    BY Zenon DEF Unlink, At, Unlock
<1>2. LocalOK(p) /\ loc[p] \in Locals /\ StoreType /\ InvStore
    BY CommandOK DEF IInv, TypeOK
<1>3. Grows /\ StoreType' /\ InvStore'
    BY <1>1, <1>2 DEF StoreType, InvStore, ReferencesAreSound, Grows, trust
<1>4. ASSUME TRUE PROVE Moved(p)
    BY <1>1, <1>4, LeaveMoved DEF Looking
<1>5. Moved(p)
    BY <1>4, <1>1, Zenon DEF Unlink
<1> QED
    BY <1>3, <1>5 DEF Quiet

LEMMA ReadReferenceQuiet ==
    ASSUME IInv, NEW p \in Procs, ReadReference(p), UNCHANGED trust
    PROVE  Quiet(p)
<1>1. pc[p] \in {"resolve", "resolve_again"} /\ UNCHANGED images
    BY Zenon DEF ReadReference, At
<1>2. LocalOK(p) /\ loc[p] \in Locals /\ StoreType /\ InvStore
    BY CommandOK DEF IInv, TypeOK
<1>3. Grows /\ StoreType' /\ InvStore'
    <2>1. UNCHANGED <<blob, ref, source, trust>> /\ ilock' \in Procs \union {None}
        BY <1>1, <1>2 DEF StoreType, images
    <2> QED
        BY <2>1, StoreKept
<1>4. ASSUME pc[p] = "resolve", Proceed(p, "pull") PROVE Moved(p)
    BY <1>1, <1>2, <1>3, <1>4, ProceedMoved DEF Places, Looking, Held, Creating, Undoing, Altering, Stored, Fresh, Importing, Asking, Snapped, Connected, Pulling, Cleared, LocalOK
<1>5. ASSUME Leave(p, "operation") PROVE Moved(p)
    BY <1>1, <1>5, LeaveMoved DEF Looking
<1>6. ASSUME ref # None, Goto(p, IF At(p, "resolve") THEN "hash_blob" ELSE "hash_blob_again"),
             Keep(p, [loc[p] EXCEPT !.digest = ref.digest, !.verified = ref.verified]) PROVE Moved(p)
    <2> DEFINE w == IF At(p, "resolve") THEN "hash_blob" ELSE "hash_blob_again"
    <2>3. w \in {"hash_blob", "hash_blob_again"} /\ (w = "hash_blob_again" => pc[p] # "resolve")
        BY DEF At
    <2> DEFINE l == [loc[p] EXCEPT !.digest = ref.digest, !.verified = ref.verified]
    <2>1. /\ l \in Locals /\ (l.verified => l.digest \in Checked)
          /\ l.version = loc[p].version /\ l.trust = loc[p].trust /\ l.uri = loc[p].uri
        BY <1>1, <1>2, <1>6 DEF Locals, Checked, StoreType, References, InvStore, ReferencesAreSound
    <2> HIDE DEF l, w
    <2>2. Goto(p, w) /\ Keep(p, l)
        BY <1>6, Zenon DEF l, w
    <2> QED
        BY <1>1, <1>2, <1>3, <1>6, <2>1, <2>2, <2>3, GotoMoved DEF Places, Looking, Held, Creating, Undoing, Altering, Stored, Fresh, Importing, Asking, Snapped, Connected, Pulling, Cleared, LocalOK, Grows
<1>7. Moved(p)
    BY <1>4, <1>5, <1>6, <1>1, Zenon DEF ReadReference, Unresolved, At
<1> QED
    BY <1>3, <1>7 DEF Quiet

LEMMA FindBlobQuiet ==
    ASSUME IInv, NEW p \in Procs, FindBlob(p), UNCHANGED trust
    PROVE  Quiet(p)
<1>1. /\ pc[p] = "hash_blob" /\ UNCHANGED images
    BY Zenon DEF FindBlob, At
<1>2. LocalOK(p) /\ loc[p] \in Locals /\ StoreType /\ InvStore
    BY CommandOK DEF IInv, TypeOK
<1>3. Grows /\ StoreType' /\ InvStore'
    <2>1. UNCHANGED <<blob, ref, source, trust>> /\ ilock' \in Procs \union {None}
        BY <1>1, <1>2 DEF StoreType, images
    <2> QED
        BY <2>1, StoreKept
<1>4. ASSUME NEW w \in {"doctor", "pull"}, Goto(p, w), Keep(p, [loc[p] EXCEPT !.digest = None, !.verified = FALSE]) PROVE Moved(p)
    <2> DEFINE l == [loc[p] EXCEPT !.digest = None, !.verified = FALSE]
    <2>1. /\ l \in Locals /\ ~l.verified /\ l.version = loc[p].version
          /\ l.trust = loc[p].trust
        BY <1>1, <1>2, <1>4 DEF Locals
    <2> HIDE DEF l
    <2>2. Goto(p, w) /\ Keep(p, l)
        BY <1>4, Zenon DEF l
    <2> QED
        BY <1>1, <1>2, <1>3, <1>4, <2>1, <2>2, GotoMoved DEF Places, Looking, Held, Creating, Undoing, Altering, Stored, Fresh, Importing, Asking, Snapped, Connected, Pulling, Cleared, LocalOK, Grows
<1>5. Moved(p)
    BY <1>4, <1>1, Zenon DEF FindBlob
<1> QED
    BY <1>3, <1>5 DEF Quiet

LEMMA TakeBlobQuiet ==
    ASSUME IInv, NEW p \in Procs, TakeBlob(p), UNCHANGED trust
    PROVE  Quiet(p)
<1>1. /\ pc[p] = "hash_blob_again" /\ UNCHANGED images
    BY Zenon DEF TakeBlob, At
<1>2. LocalOK(p) /\ loc[p] \in Locals /\ StoreType /\ InvStore
    BY CommandOK DEF IInv, TypeOK
<1>3. Grows /\ StoreType' /\ InvStore'
    <2>1. UNCHANGED <<blob, ref, source, trust>> /\ ilock' \in Procs \union {None}
        BY <1>1, <1>2 DEF StoreType, images
    <2> QED
        BY <2>1, StoreKept
<1>4. ASSUME Goto(p, "lock"), NEW allowed \in BOOLEAN, loc[p].verified \/ allowed,
             Keep(p, [loc[p] EXCEPT !.allowed = allowed]) PROVE Moved(p)
    <2> DEFINE l == [loc[p] EXCEPT !.allowed = allowed]
    <2>1. /\ l \in Locals /\ (l.verified = loc[p].verified) /\ l.version = loc[p].version
          /\ l.trust = loc[p].trust /\ l.digest = loc[p].digest /\ (l.allowed \/ l.verified)
          /\ l.uri = loc[p].uri
        BY <1>1, <1>2, <1>4 DEF Locals
    <2> HIDE DEF l
    <2>2. Goto(p, "lock") /\ Keep(p, l)
        BY <1>4, Zenon DEF l
    <2> QED
        BY <1>1, <1>2, <1>3, <1>4, <2>1, <2>2, GotoMoved DEF Places, Looking, Held, Creating, Undoing, Altering, Stored, Fresh, Importing, Asking, Snapped, Connected, Pulling, Cleared, LocalOK, Grows
<1>5. ASSUME Leave(p, "operation") PROVE Moved(p)
    BY <1>1, <1>5, LeaveMoved DEF Looking
<1>6. Moved(p)
    BY <1>4, <1>5, <1>1, Zenon DEF TakeBlob
<1> QED
    BY <1>3, <1>6 DEF Quiet

LEMMA ListReferencesQuiet ==
    ASSUME IInv, NEW p \in Procs, ListReferences(p), UNCHANGED trust
    PROVE  Quiet(p)
<1>1. /\ pc[p] = "list" /\ UNCHANGED images /\ Goto(p, "show")
      /\ Keep(p, [loc[p] EXCEPT !.digest = Listed])
    BY Zenon DEF ListReferences, At
<1>2. LocalOK(p) /\ loc[p] \in Locals /\ StoreType /\ InvStore
    BY CommandOK DEF IInv, TypeOK
<1>3. Grows /\ StoreType' /\ InvStore'
    <2>1. UNCHANGED <<blob, ref, source, trust>> /\ ilock' \in Procs \union {None}
        BY <1>1, <1>2 DEF StoreType, images
    <2> QED
        BY <2>1, StoreKept
<1>4. ASSUME TRUE PROVE Moved(p)
    <2> DEFINE l == [loc[p] EXCEPT !.digest = Listed]
    <2>1. Listed \in Digests \union {None}
        BY <1>2 DEF Listed, StoreType, References
    <2>2. l \in Locals /\ l.verified = loc[p].verified /\ l.trust = loc[p].trust
        BY <1>2, <2>1 DEF Locals
    <2> HIDE DEF l
    <2>3. Goto(p, "show") /\ Keep(p, l)
        BY <1>1, Zenon DEF l
    <2> QED
        BY <1>1, <1>2, <1>3, <2>2, <2>3, GotoMoved DEF Places, Looking, Held, Creating, Undoing, Altering, Stored, Fresh, Importing, Asking, Snapped, Connected, Pulling, Cleared, LocalOK, Grows
<1>5. Moved(p)
    BY <1>4, <1>1, Zenon DEF ListReferences
<1> QED
    BY <1>3, <1>5 DEF Quiet

LEMMA ShowImagesQuiet ==
    ASSUME IInv, NEW p \in Procs, ShowImages(p), UNCHANGED trust
    PROVE  Quiet(p)
<1>1. /\ pc[p] = "show" /\ UNCHANGED images
    BY Zenon DEF ShowImages, At
<1>2. LocalOK(p) /\ loc[p] \in Locals /\ StoreType /\ InvStore
    BY CommandOK DEF IInv, TypeOK
<1>3. Grows /\ StoreType' /\ InvStore'
    <2>1. UNCHANGED <<blob, ref, source, trust>> /\ ilock' \in Procs \union {None}
        BY <1>1, <1>2 DEF StoreType, images
    <2> QED
        BY <2>1, StoreKept
<1>4. ASSUME NEW e, Leave(p, e) PROVE Moved(p)
    BY <1>1, <1>4, LeaveMoved DEF Looking
<1>5. Moved(p)
    BY <1>4, <1>1, Zenon DEF ShowImages
<1> QED
    BY <1>3, <1>5 DEF Quiet

LEMMA ImportLockQuiet ==
    ASSUME IInv, NEW p \in Procs, ImportLock(p), UNCHANGED trust
    PROVE  Quiet(p)
<1>1. pc[p] = "import" /\ UNCHANGED <<blob, ref, source>>
    BY Zenon DEF ImportLock, At
<1>2. ilock' \in Procs \union {None}
    BY DEF ImportLock, Lock, IInv, TypeOK, StoreType
<1>3. Grows /\ StoreType' /\ InvStore'
    BY <1>1, <1>2, StoreKept
<1>4. CASE Lock(p, "import_cached")
    BY <1>1, <1>3, <1>4, LockMoved DEF Quiet
<1> QED
    BY <1>4, Zenon DEF ImportLock

LEMMA RemoveLockQuiet ==
    ASSUME IInv, NEW p \in Procs, RemoveLock(p), UNCHANGED trust
    PROVE  Quiet(p)
<1>1. pc[p] = "rm" /\ UNCHANGED <<blob, ref, source>>
    BY Zenon DEF RemoveLock, At
<1>2. ilock' \in Procs \union {None}
    BY DEF RemoveLock, Lock, IInv, TypeOK, StoreType
<1>3. Grows /\ StoreType' /\ InvStore'
    BY <1>1, <1>2, StoreKept
<1>4. CASE Lock(p, "unlink")
    BY <1>1, <1>3, <1>4, LockMoved DEF Quiet
<1>5. CASE Leave(p, "image")
    BY <1>1, <1>3, <1>5, LeaveMoved DEF Quiet, Looking
<1> QED
    BY <1>4, <1>5, Zenon DEF RemoveLock

LEMMA ReferencedQuiet ==
    ASSUME IInv, NEW p \in Procs, NEW used, Referenced(p, used), UNCHANGED trust
    PROVE  Quiet(p)
<1>1. /\ pc[p] = "referenced" /\ UNCHANGED images
    BY Zenon DEF Referenced, At
<1>2. LocalOK(p) /\ loc[p] \in Locals /\ StoreType /\ InvStore
    BY CommandOK DEF IInv, TypeOK
<1>3. Grows /\ StoreType' /\ InvStore'
    <2>1. UNCHANGED <<blob, ref, source, trust>> /\ ilock' \in Procs \union {None}
        BY <1>1, <1>2 DEF StoreType, images
    <2> QED
        BY <2>1, StoreKept
<1>4. ASSUME Proceed(p, "rm") PROVE Moved(p)
    BY <1>1, <1>2, <1>3, <1>4, ProceedMoved DEF Places, Looking, Held, Creating, Undoing, Altering, Stored, Fresh, Importing, Asking, Snapped, Connected, Pulling, Cleared, LocalOK
<1>5. ASSUME Leave(p, "exists") PROVE Moved(p)
    BY <1>1, <1>5, LeaveMoved DEF Looking
<1>6. Moved(p)
    BY <1>4, <1>5, <1>1, Zenon DEF Referenced
<1> QED
    BY <1>3, <1>6 DEF Quiet

LEMMA ImageRunQuiet ==
    ASSUME IInv, NEW p \in Procs, ImageRun(p)
    PROVE  Quiet(p) /\ UNCHANGED <<seen, view, base, llock>>
<1>1. UNCHANGED trust /\ UNCHANGED <<seen, view, base, llock>>
    BY DEF ImageRun, rest
<1> QED
    BY <1>1, PullLockQuiet, PullCachedQuiet, DownloadQuiet, ReplaceQuiet, PublishQuiet,
       HashSourceQuiet, ImportLockQuiet, ImportCachedQuiet, CopySourceQuiet, ReferencedQuiet,
       RemoveLockQuiet, UnlinkQuiet, ReadReferenceQuiet, FindBlobQuiet, TakeBlobQuiet,
       ListReferencesQuiet, ShowImagesQuiet, Zenon DEF ImageRun, ImageStep

-----------------------------------------------------------------------------

(* The trust store. *)

LEMMA DiscoverQuiet ==
    ASSUME IInv, NEW p \in Procs, Discover(p), UNCHANGED images
    PROVE  Quiet(p)
<1>1. pc[p] = "discover" /\ UNCHANGED trust
    BY Zenon DEF Discover, At
<1>2. LocalOK(p) /\ loc[p] \in Locals /\ StoreType /\ InvStore
    BY CommandOK DEF IInv, TypeOK
<1>3. Grows /\ StoreType' /\ InvStore'
    <2>1. UNCHANGED <<blob, ref, source, trust>> /\ ilock' \in Procs \union {None}
        BY <1>1, <1>2 DEF StoreType, images, trust
    <2> QED
        BY <2>1, StoreKept
<1>4. ASSUME Proceed(p, "trust") PROVE Moved(p)
    BY <1>1, <1>2, <1>3, <1>4, ProceedMoved DEF Places, Looking, Held, Creating, Undoing, Altering, Stored, Fresh, Importing, Asking, Snapped, Connected, Pulling, Cleared, LocalOK
<1>5. ASSUME NEW e, Leave(p, e) PROVE Moved(p)
    BY <1>1, <1>5, LeaveMoved DEF Looking
<1>6. Moved(p)
    BY <1>4, <1>5, <1>1, Zenon DEF Discover
<1> QED
    BY <1>3, <1>6 DEF Quiet

LEMMA ProvidersQuiet ==
    ASSUME IInv, NEW p \in Procs, Providers(p), UNCHANGED images
    PROVE  Quiet(p)
<1>1. pc[p] = "discover" /\ UNCHANGED trust
    BY Zenon DEF Providers, At
<1>2. LocalOK(p) /\ loc[p] \in Locals /\ StoreType /\ InvStore
    BY CommandOK DEF IInv, TypeOK
<1>3. Grows /\ StoreType' /\ InvStore'
    <2>1. UNCHANGED <<blob, ref, source, trust>> /\ ilock' \in Procs \union {None}
        BY <1>1, <1>2 DEF StoreType, images, trust
    <2> QED
        BY <2>1, StoreKept
<1>4. ASSUME NEW e, Leave(p, e) PROVE Moved(p)
    BY <1>1, <1>4, LeaveMoved DEF Looking
<1>5. Moved(p)
    BY <1>4, <1>1, Zenon DEF Providers
<1> QED
    BY <1>3, <1>5 DEF Quiet

LEMMA StorageRootQuiet ==
    ASSUME IInv, NEW p \in Procs, StorageRoot(p), UNCHANGED images
    PROVE  Quiet(p)
<1>1. pc[p] = "discover" /\ UNCHANGED trust
    BY Zenon DEF StorageRoot, At
<1>2. LocalOK(p) /\ loc[p] \in Locals /\ StoreType /\ InvStore
    BY CommandOK DEF IInv, TypeOK
<1>3. Grows /\ StoreType' /\ InvStore'
    <2>1. UNCHANGED <<blob, ref, source, trust>> /\ ilock' \in Procs \union {None}
        BY <1>1, <1>2 DEF StoreType, images, trust
    <2> QED
        BY <2>1, StoreKept
<1>4. ASSUME NEW e, Leave(p, e) PROVE Moved(p)
    BY <1>1, <1>4, LeaveMoved DEF Looking
<1>5. Moved(p)
    BY <1>4, <1>1, Zenon DEF StorageRoot
<1> QED
    BY <1>3, <1>5 DEF Quiet

LEMMA AcceptQuiet ==
    ASSUME IInv, NEW p \in Procs, Accept(p), UNCHANGED images
    PROVE  Quiet(p)
<1>1. pc[p] = "trust" /\ UNCHANGED <<defn, trusted>>
      /\ (approved' = approved \/ approved' = approved \union {defn})
    BY Zenon DEF Accept, At
<1>2. LocalOK(p) /\ loc[p] \in Locals /\ StoreType /\ InvStore
    BY CommandOK DEF IInv, TypeOK
<1>3. Grows /\ StoreType' /\ InvStore'
    BY <1>1, <1>2 DEF StoreType, InvStore, ReferencesAreSound, Grows, images
<1>4. ASSUME Goto(p, "read_trust"), Keep(p, [loc[p] EXCEPT !.version = defn]),
             approved' \in IF defn \in trusted THEN {approved} ELSE {approved \union {defn}} PROVE Moved(p)
    <2> DEFINE l == [loc[p] EXCEPT !.version = defn]
    <2>1. /\ l \in Locals /\ l.verified = loc[p].verified /\ l.version = defn
          /\ l.trust = loc[p].trust /\ l.digest = loc[p].digest
        BY <1>1, <1>2, <1>4 DEF Locals, StoreType
    <2> HIDE DEF l
    <2>2. Goto(p, "read_trust") /\ Keep(p, l)
        BY <1>4, Zenon DEF l
    <2>3. defn \in approved'
        BY <1>2, <1>4 DEF InvStore
    <2> QED
        BY <1>1, <1>2, <1>3, <1>4, <2>1, <2>2, <2>3, GotoMoved DEF Places, Looking, Held, Creating, Undoing, Altering, Stored, Fresh, Importing, Asking, Snapped, Connected, Pulling, Cleared, LocalOK, Grows
<1>5. ASSUME NEW e, Leave(p, e) PROVE Moved(p)
    BY <1>1, <1>5, LeaveMoved DEF Looking
<1>6. Moved(p)
    BY <1>4, <1>5, <1>1, Zenon DEF Accept
<1> QED
    BY <1>3, <1>6 DEF Quiet

LEMMA ReadTrustQuiet ==
    ASSUME IInv, NEW p \in Procs, ReadTrust(p), UNCHANGED images
    PROVE  Quiet(p)
<1>1. pc[p] = "read_trust" /\ UNCHANGED trust
    BY Zenon DEF ReadTrust, At
<1>2. LocalOK(p) /\ loc[p] \in Locals /\ StoreType /\ InvStore
    BY CommandOK DEF IInv, TypeOK
<1>3. Grows /\ StoreType' /\ InvStore'
    <2>1. UNCHANGED <<blob, ref, source, trust>> /\ ilock' \in Procs \union {None}
        BY <1>1, <1>2 DEF StoreType, images, trust
    <2> QED
        BY <2>1, StoreKept
<1>4. ASSUME Goto(p, "write_trust"), Keep(p, [loc[p] EXCEPT !.trust = trusted]) PROVE Moved(p)
    <2> DEFINE l == [loc[p] EXCEPT !.trust = trusted]
    <2>1. /\ l \in Locals /\ l.verified = loc[p].verified /\ l.version = loc[p].version
          /\ l.trust \subseteq approved /\ l.digest = loc[p].digest
        BY <1>1, <1>2, <1>4 DEF Locals, StoreType, InvStore
    <2> HIDE DEF l
    <2>2. Goto(p, "write_trust") /\ Keep(p, l)
        BY <1>4, Zenon DEF l
    <2> QED
        BY <1>1, <1>2, <1>3, <1>4, <2>1, <2>2, GotoMoved DEF Places, Looking, Held, Creating, Undoing, Altering, Stored, Fresh, Importing, Asking, Snapped, Connected, Pulling, Cleared, LocalOK, Grows
<1>5. Moved(p)
    BY <1>4, <1>1, Zenon DEF ReadTrust
<1> QED
    BY <1>3, <1>5 DEF Quiet

LEMMA WriteTrustQuiet ==
    ASSUME IInv, NEW p \in Procs, WriteTrust(p), UNCHANGED images
    PROVE  Quiet(p)
<1>1. pc[p] = "write_trust" /\ UNCHANGED <<defn, approved>>
      /\ trusted' = loc[p].trust \union {loc[p].version}
    BY Zenon DEF WriteTrust, At
<1>2. LocalOK(p) /\ loc[p] \in Locals /\ StoreType /\ InvStore
    BY CommandOK DEF IInv, TypeOK
<1>3. Grows /\ StoreType' /\ InvStore'
    <2>1. trusted' \subseteq approved
        BY <1>1, <1>2 DEF LocalOK, Asking
    <2> QED
        BY <1>1, <1>2, <2>1 DEF StoreType, InvStore, ReferencesAreSound, Grows, images
<1>4. ASSUME Goto(p, "snapshot"), Keep(p, [loc[p] EXCEPT !.trust = {}]) PROVE Moved(p)
    <2> DEFINE l == [loc[p] EXCEPT !.trust = {}]
    <2>1. /\ l \in Locals /\ l.verified = loc[p].verified /\ l.version = loc[p].version
          /\ l.trust = {} /\ l.digest = loc[p].digest
        BY <1>1, <1>2, <1>4 DEF Locals
    <2> HIDE DEF l
    <2>2. Goto(p, "snapshot") /\ Keep(p, l)
        BY <1>4, Zenon DEF l
    <2> QED
        BY <1>1, <1>2, <1>3, <1>4, <2>1, <2>2, GotoMoved DEF Places, Looking, Held, Creating, Undoing, Altering, Stored, Fresh, Importing, Asking, Snapped, Connected, Pulling, Cleared, LocalOK, Grows
<1>5. Moved(p)
    BY <1>4, <1>1, Zenon DEF WriteTrust
<1> QED
    BY <1>3, <1>5 DEF Quiet

LEMMA SnapshotQuiet ==
    ASSUME IInv, NEW p \in Procs, Snapshot(p), UNCHANGED images
    PROVE  Quiet(p)
<1>1. pc[p] = "snapshot" /\ UNCHANGED trust
    BY Zenon DEF Snapshot, At
<1>2. LocalOK(p) /\ loc[p] \in Locals /\ StoreType /\ InvStore
    BY CommandOK DEF IInv, TypeOK
<1>3. Grows /\ StoreType' /\ InvStore'
    <2>1. UNCHANGED <<blob, ref, source, trust>> /\ ilock' \in Procs \union {None}
        BY <1>1, <1>2 DEF StoreType, images, trust
    <2> QED
        BY <2>1, StoreKept
<1>4. ASSUME defn = loc[p].version, Loads(defn), Proceed(p, "resolve") PROVE Moved(p)
    BY <1>1, <1>2, <1>3, <1>4, ProceedMoved DEF Places, Looking, Held, Creating, Undoing, Altering, Stored, Fresh, Importing, Asking, Snapped, Connected, Pulling, Cleared, LocalOK
<1>5. ASSUME NEW e, Leave(p, e) PROVE Moved(p)
    BY <1>1, <1>5, LeaveMoved DEF Looking
<1>6. Moved(p)
    BY <1>4, <1>5, <1>1, Zenon DEF Snapshot
<1> QED
    BY <1>3, <1>6 DEF Quiet

LEMMA TrustRunQuiet ==
    ASSUME IInv, NEW p \in Procs, TrustRun(p)
    PROVE  Quiet(p) /\ UNCHANGED <<seen, view, base, llock>>
<1>1. UNCHANGED images /\ UNCHANGED <<seen, view, base, llock>>
    BY DEF TrustRun, rest
<1> QED
    BY <1>1, DiscoverQuiet, ProvidersQuiet, StorageRootQuiet, AcceptQuiet, ReadTrustQuiet,
       WriteTrustQuiet, SnapshotQuiet, Zenon DEF TrustRun, TrustStep

-----------------------------------------------------------------------------

(* Beginning, and ending. *)
LEMMA StoresKept ==
    ASSUME IInv, UNCHANGED <<images, trust>>
    PROVE  Grows /\ StoreType' /\ InvStore'
BY StoreKept DEF IInv, TypeOK, StoreType, images, trust

LEMMA ParseQuiet ==
    ASSUME IInv, NEW p \in Procs, NEW name \in Operations, NEW first \in Places,
           Parse(p, name, first), UNCHANGED <<images, trust>>,
           first \in {"discover", "pull", "hash", "referenced", "list", "catalogue", "records",
                     "default_vm", "connection", "providers", "probe", "lab_lock"},
           first = "pull" => name = "pull", first = "hash" => name = "import"
    PROVE  Quiet(p)
<1>1. /\ Only(p) /\ op'[p] = name /\ pc'[p] \in {first, "exit"} /\ loc'[p] = loc[p]
      /\ pc[p] = "idle"
    BY ParseMoves DEF IInv, TypeOK
<1>2. LocalOK(p) /\ Grows
    BY CommandOK, StoresKept
<1>3. LocalOK(p)'
    BY <1>1, <1>2 DEF Places, Looking, Held, Creating, Undoing, Altering, Stored, Fresh, Importing, Asking, Snapped, Connected, Pulling, Cleared, LocalOK, Grows
<1>4. pc[p] \notin Looking /\ pc'[p] \notin Looking \union Held
    BY <1>1 DEF Looking, Held, Creating, Undoing, Altering
<1> QED
    BY <1>1, <1>3, <1>4, StoresKept DEF Quiet, Moved

LEMMA BeginQuiet ==
    ASSUME IInv, NEW p \in Procs, Begin(p)
    PROVE  Quiet(p) /\ UNCHANGED <<seen, view, base, llock>>
<1>1. UNCHANGED <<images, trust>> /\ UNCHANGED <<seen, view, base, llock>>
    BY DEF Begin, BeginCreate, BeginPull, BeginImport, BeginRemoveImage, BeginChange, BeginLs, BeginList,
           BeginVm, BeginConnect, BeginShow, BeginProvider, rest, outside, seen
<1>2. \/ Parse(p, "create", "discover") \/ Parse(p, "pull", "pull") \/ Parse(p, "import", "hash")
      \/ Parse(p, "rm", "referenced") \/ Parse(p, "images", "list")
      \/ (\E name \in Changing : Parse(p, name, "lab_lock"))
      \/ Parse(p, "ls", "catalogue") \/ Parse(p, "list", "records") \/ Parse(p, "vm", "records")
      \/ (\E first \in {"default_vm", "connection"} : Parse(p, "connect", first))
      \/ (\E first \in {"providers", "probe"} : Parse(p, "provider", first))
    BY Zenon DEF Begin, BeginCreate, BeginPull, BeginImport, BeginRemoveImage, BeginChange, BeginLs,
           BeginList, BeginVm, BeginConnect, BeginShow, BeginProvider
<1>3. PICK name \in Operations, first \in Places :
        /\ Parse(p, name, first)
        /\ first \in {"discover", "pull", "hash", "referenced", "list", "catalogue", "records",
                      "default_vm", "connection", "providers", "probe", "lab_lock"}
        /\ (first = "pull" => name = "pull") /\ (first = "hash" => name = "import")
    BY <1>2 DEF Operations, Places, Changing
<1> QED
    BY <1>1, <1>3, ParseQuiet

LEMMA ReturnQuiet ==
    ASSUME IInv, NEW p \in Procs, Return(p), UNCHANGED <<images, trust>>
    PROVE  Quiet(p)
<1>1. /\ pc[p] = "exit" /\ op' = [op EXCEPT ![p] = "none"] /\ pc' = [pc EXCEPT ![p] = "idle"]
      /\ loc' = loc
    BY Zenon DEF Return, At
<1>2. LocalOK(p) /\ Grows /\ CommandType
    BY CommandOK, StoresKept DEF IInv, TypeOK
<1>3. Only(p) /\ op'[p] = "none" /\ pc'[p] = "idle" /\ loc'[p] = loc[p]
    BY <1>1, <1>2 DEF Only, CommandType, Operations, Places
<1>4. LocalOK(p)'
    BY <1>1, <1>2, <1>3 DEF Places, Looking, Held, Creating, Undoing, Altering, Stored, Fresh, Importing, Asking, Snapped, Connected, Pulling, Cleared, LocalOK, Grows
<1> QED
    BY <1>1, <1>3, <1>4, StoresKept DEF Quiet, Moved, Looking, Held, Creating, Undoing, Altering

LEMMA ShowProviderQuiet ==
    ASSUME IInv, NEW p \in Procs, ShowProvider(p)
    PROVE  Quiet(p) /\ UNCHANGED <<seen, view, base, llock>>
<1>1. pc[p] \in {"providers", "probe"} /\ UNCHANGED <<images, trust>>
      /\ UNCHANGED <<seen, view, base, llock>> /\ \E e : Leave(p, e)
    BY DEF ShowProvider, At, outside, seen
<1> QED
    BY <1>1, StoresKept, LeaveMoved DEF Quiet, Looking

(* The connection of a setting is one of the two, and is asked what it can do. *)
LEMMA UriChosen ==
    ASSUME NEW file \in {None, "session", "system"}, NEW environment \in {None, "session", "system"},
           NEW argument \in {None, "session", "system"}
    PROVE  ConnectionUri(Setting(file, environment, argument)) \in {"session", "system"}
<1>1. \E value \in {file, environment, argument} :
        \/ argument # None /\ value = argument
        \/ argument = None /\ environment # None /\ value = environment
        \/ argument = None /\ environment = None /\ value = file
    BY Zenon
<1>2. Setting(file, environment, argument) \in {file, environment, argument}
    BY <1>1, Zenon DEF Setting
<1> QED
    BY <1>2 DEF ConnectionUri

LEMMA DoctorQuiet ==
    ASSUME IInv, NEW p \in Procs, Doctor(p)
    PROVE  Quiet(p) /\ UNCHANGED <<seen, view, base, llock>>
<1>1. /\ pc[p] = "doctor" /\ UNCHANGED <<images, trust>> /\ UNCHANGED <<seen, view, base, llock>>
      /\ \/ /\ Goto(p, "resolve_again")
            /\ \E file, environment, argument \in {None, "session", "system"} :
                 LET uri == ConnectionUri(Setting(file, environment, argument))
                 IN Complete(uri) /\ Keep(p, [loc[p] EXCEPT !.uri = uri])
         \/ Leave(p, "prerequisite")
    BY Zenon DEF Doctor, At, outside, seen
<1>2. LocalOK(p) /\ loc[p] \in Locals /\ Grows /\ StoreType' /\ InvStore'
    BY <1>1, CommandOK, StoresKept
<1>3. ASSUME Goto(p, "resolve_again"),
             NEW file \in {None, "session", "system"}, NEW environment \in {None, "session", "system"},
             NEW argument \in {None, "session", "system"},
             Complete(ConnectionUri(Setting(file, environment, argument))),
             Keep(p, [loc[p] EXCEPT !.uri = ConnectionUri(Setting(file, environment, argument))])
      PROVE  Quiet(p)
    <2> DEFINE uri == ConnectionUri(Setting(file, environment, argument))
               l == [loc[p] EXCEPT !.uri = uri]
    <2>1. uri \in {"session", "system"} /\ Complete(uri)
        BY <1>3, UriChosen
    <2> HIDE DEF uri
    <2>2. /\ l \in Locals /\ l.verified = loc[p].verified /\ l.version = loc[p].version
          /\ l.trust = loc[p].trust /\ l.digest = loc[p].digest /\ l.uri = uri
        BY <1>2, <2>1 DEF Locals
    <2> HIDE DEF l
    <2>3. Keep(p, l)
        BY <1>3, Zenon DEF l, uri
    <2> QED
        BY <1>1, <1>2, <1>3, <2>1, <2>2, <2>3, GotoMoved DEF Places, Looking, Held, Creating, Undoing, Altering, Stored, Fresh, Importing, Asking, Snapped, Connected, Pulling, Cleared, LocalOK, Quiet, Grows
<1>4. CASE Leave(p, "prerequisite")
    BY <1>1, <1>2, <1>4, LeaveMoved DEF Quiet, Looking
<1> QED
    BY <1>1, <1>3, <1>4

-----------------------------------------------------------------------------

(* The commands that look at the lab. *)
Looks(p) ==
    /\ Only(p) /\ LocalOK(p)' /\ pc'[p] \notin Held
    /\ view' \in [Procs -> Views] /\ (\A q \in Procs \ {p} : view'[q] = view[q])
    /\ ViewOK(p)'

LEMMA LookStep ==
    ASSUME IInv, NEW p \in Procs, Looks(p), CountType', UNCHANGED <<images, trust, seen, base, llock>>
    PROVE  IInv'
<1>1. UNCHANGED <<lab, base, llock>> /\ UNCHANGED hung /\ UNCHANGED <<images, trust>>
    BY DEF seen
<1>2. Grows /\ StoreType' /\ InvStore'
    BY <1>1, StoresKept
<1>3. TypeOK'
    BY <1>1, <1>2 DEF IInv, TypeOK, Looks, Only, LabType, ViewType, lab
<1>4. InvLocal'
    BY <1>2, LocalKept DEF IInv, Looks
<1>5. InvWork'
    BY <1>1, WorkKept DEF IInv, Looks
<1>6. InvLab'
    BY <1>1 DEF IInv, InvLab, Dead, Pending, lab
<1>7. ASSUME NEW q \in Procs, q # p PROVE ViewOK(q)'
    <2>1. ViewOK(q) /\ pc'[q] = pc[q] /\ op'[q] = op[q] /\ view'[q] = view[q]
        BY <1>7 DEF IInv, InvView, Looks, Only
    <2> QED
        BY <1>1, <2>1 DEF ViewOK, Dead, lab
<1>8. InvView'
    BY <1>7 DEF InvView, Looks
<1>9. CreatedIsTrusted'
    BY <1>1, <1>2 DEF IInv, Grows, CreatedIsTrusted, lab
<1> QED
    BY <1>2, <1>3, <1>4, <1>5, <1>6, <1>8, <1>9 DEF IInv

LEMMA LookLocal ==
    ASSUME IInv, NEW p \in Procs, Grows, loc'[p] = loc[p], pc'[p] \in Looking \union {"no_lab"}
    PROVE  LocalOK(p)' /\ pc'[p] \notin Held
BY CommandOK DEF LocalOK, Grows, Looking, Held, Creating, Undoing, Altering, Stored, Fresh, Importing, Asking, Snapped,
       Connected, Pulling, Cleared

LEMMA ViewGiven ==
    ASSUME IInv, NEW p \in Procs
    PROVE  /\ ViewOK(p) /\ view \in [Procs -> Views] /\ view[p] \in Views
           /\ record \in Records \union {None} /\ InvLab
           /\ dom \in Domains
BY DEF IInv, TypeOK, ViewType, LabType, InvView

(* A step that gives p the view x. *)
LEMMA LookAt ==
    ASSUME IInv, NEW p \in Procs, NEW x \in Views, Look(p, x)
    PROVE  /\ view' \in [Procs -> Views] /\ view'[p] = x
           /\ \A q \in Procs \ {p} : view'[q] = view[q]
BY ViewGiven DEF Look

LEMMA ReadRecordsLooks ==
    ASSUME IInv, NEW p \in Procs, ReadRecords(p), UNCHANGED <<images, trust, base>>
    PROVE  Looks(p)
<1>1. /\ pc[p] = "records" /\ Proceed(p, "journal_summary") /\ UNCHANGED seen
      /\ IF record = None THEN UNCHANGED view
         ELSE Look(p, [NoView EXCEPT !.status = record.status, !.vms = record.vms, !.live = TRUE])
    BY Zenon DEF ReadRecords, At
<1>2. /\ ViewOK(p) /\ view \in [Procs -> Views] /\ view[p] \in Views
      /\ record \in Records \union {None} /\ InvLab
      /\ dom \in Domains /\ Grows /\ CommandType
    BY ViewGiven, StoresKept DEF IInv, TypeOK
<1>3. UNCHANGED <<record, journal, dom>> /\ Dead' = Dead
    BY <1>1 DEF seen, lab, Dead
<1>4. Only(p) /\ op'[p] = op[p] /\ pc'[p] = "journal_summary" /\ loc'[p] = loc[p]
    BY <1>1, <1>2, ProceedMoves DEF Places
<1>5. LocalOK(p)' /\ pc'[p] \notin Held
    BY <1>2, <1>4, LookLocal DEF Looking
<1>6. CASE record = None
    <2>1. view' = view /\ view[p] = NoView
        BY <1>1, <1>2, <1>6 DEF ViewOK, Looking
    <2>2. ViewOK(p)'
        BY <1>3, <1>4, <2>1, NoViewType DEF ViewOK, Looking
    <2> QED
        BY <1>2, <1>4, <1>5, <2>1, <2>2 DEF Looks
<1>7. CASE record # None
    <2> DEFINE x == [NoView EXCEPT !.status = record.status, !.vms = record.vms, !.live = TRUE]
    <2>1. /\ x \in Views /\ x.status = record.status /\ x.vms = record.vms /\ x.live
          /\ record.status \in Statuses /\ \A v \in VM : x.power[v] # "on"
        BY <1>2, <1>7 DEF Views, NoView, Records, Powered
    <2>2. record.status \in Finished /\ record.vms # VM => Dead
        BY <1>2, <1>7 DEF InvLab, Finished
    <2> HIDE DEF x
    <2>3. Look(p, x)
        BY <1>1, <1>7, Zenon DEF x
    <2>4. view' \in [Procs -> Views] /\ view'[p] = x /\ \A q \in Procs \ {p} : view'[q] = view[q]
        BY <2>1, <2>3, LookAt
    <2>5. ViewOK(p)'
        BY <1>3, <1>4, <1>7, <2>1, <2>2, <2>4, StatusAssumption DEF ViewOK, Looking, Statuses
    <2> QED
        BY <1>4, <1>5, <2>4, <2>5 DEF Looks
<1> QED
    BY <1>6, <1>7

LEMMA ReadSummaryLooks ==
    ASSUME IInv, NEW p \in Procs, ReadSummary(p), UNCHANGED <<images, trust, base>>
    PROVE  Looks(p)
<1>1. /\ pc[p] = "journal_summary" /\ UNCHANGED seen
      /\ IF view[p].status = None /\ journal = None
         THEN Proceed(p, "no_lab") /\ UNCHANGED view
         ELSE /\ Look(p, [view[p] EXCEPT !.pending = (journal # None)])
              /\ Proceed(p, IF op[p] = "vm" THEN "select" ELSE "inventory")
    BY Zenon DEF ReadSummary, At
<1>2. /\ ViewOK(p) /\ view \in [Procs -> Views] /\ view[p] \in Views
      /\ record \in Records \union {None} /\ InvLab
      /\ dom \in Domains /\ Grows /\ CommandType
    BY ViewGiven, StoresKept DEF IInv, TypeOK
<1>3. UNCHANGED <<record, journal, dom>> /\ Dead' = Dead
    BY <1>1 DEF seen, lab, Dead
<1>4. CASE view[p].status = None /\ journal = None
    <2>1. Proceed(p, "no_lab") /\ UNCHANGED view
        BY <1>1, <1>4
    <2>2. Only(p) /\ op'[p] = op[p] /\ pc'[p] = "no_lab" /\ loc'[p] = loc[p]
        BY <1>2, <2>1, ProceedMoves DEF Places
    <2>3. LocalOK(p)' /\ pc'[p] \notin Held
        BY <1>2, <2>2, LookLocal
    <2>4. view[p] = NoView
        BY <1>1, <1>2, <1>4 DEF ViewOK
    <2>5. ViewOK(p)'
        BY <1>2, <1>3, <2>1, <2>2, <2>4, NoViewType DEF ViewOK, Looking
    <2> QED
        BY <1>2, <2>1, <2>2, <2>3, <2>5 DEF Looks
<1>5. CASE ~(view[p].status = None /\ journal = None)
    <2> DEFINE x == [view[p] EXCEPT !.pending = (journal # None)]
               to == IF op[p] = "vm" THEN "select" ELSE "inventory"
    <2>1. /\ x \in Views /\ x.status = view[p].status /\ x.vms = view[p].vms
          /\ x.live = view[p].live /\ x.power = view[p].power /\ x.active = view[p].active
        BY <1>2 DEF Views
    <2> HIDE DEF x
    <2>2. Look(p, x) /\ Proceed(p, to)
        BY <1>1, <1>5, Zenon DEF x
    <2>3. to \in Places /\ to \in {"select", "inventory"} /\ (to = "select" <=> op[p] = "vm")
        BY DEF Places
    <2> HIDE DEF to
    <2>4. Only(p) /\ op'[p] = op[p] /\ pc'[p] = to /\ loc'[p] = loc[p]
        BY <1>2, <2>2, <2>3, ProceedMoves
    <2>5. LocalOK(p)' /\ pc'[p] \notin Held
        BY <1>2, <2>3, <2>4, LookLocal DEF Looking
    <2>6. view' \in [Procs -> Views] /\ view'[p] = x /\ \A q \in Procs \ {p} : view'[q] = view[q]
        BY <2>1, <2>2, LookAt
    <2>7. ViewOK(p)'
        BY <1>1, <1>2, <1>3, <2>1, <2>3, <2>4, <2>6 DEF ViewOK, Looking
    <2> QED
        BY <2>4, <2>5, <2>6, <2>7 DEF Looks
<1> QED
    BY <1>4, <1>5

LEMMA LeaveLooks ==
    ASSUME IInv, NEW p \in Procs, NEW e, Leave(p, e), Look(p, NoView), Grows
    PROVE  Looks(p)
<1>1. Only(p) /\ op'[p] = op[p] /\ pc'[p] = "exit" /\ loc'[p] = Blank
    BY LeaveMoves DEF IInv, TypeOK
<1>2. LocalOK(p)'
    BY <1>1, BlankType DEF LocalOK, Stored, Fresh, Importing, Asking, Snapped, Connected, Pulling, Cleared
<1>3. view' \in [Procs -> Views] /\ view'[p] = NoView /\ \A q \in Procs \ {p} : view'[q] = view[q]
    BY NoViewType, LookAt
<1>4. ViewOK(p)'
    BY <1>1, <1>3, NoViewType DEF ViewOK, Looking
<1> QED
    BY <1>1, <1>2, <1>3, <1>4 DEF Looks, Held, Creating, Undoing, Altering

LEMMA SelectVmLooks ==
    ASSUME IInv, NEW p \in Procs, SelectVm(p), UNCHANGED <<images, trust, base>>
    PROVE  Looks(p)
<1>1. /\ pc[p] = "select" /\ UNCHANGED seen
      /\ \E v \in VM :
           \/ /\ v \in view[p].vms /\ Look(p, [view[p] EXCEPT !.vms = {v}])
              /\ Proceed(p, "inventory")
           \/ Leave(p, "absent") /\ Look(p, NoView)
    BY Zenon DEF SelectVm, At
<1>2. /\ ViewOK(p) /\ view \in [Procs -> Views] /\ view[p] \in Views
      /\ record \in Records \union {None} /\ InvLab
      /\ dom \in Domains /\ Grows /\ CommandType
    BY ViewGiven, StoresKept DEF IInv, TypeOK
<1>3. UNCHANGED <<record, journal, dom>> /\ Dead' = Dead
    BY <1>1 DEF seen, lab, Dead
<1>4. ASSUME NEW v \in VM, v \in view[p].vms, Look(p, [view[p] EXCEPT !.vms = {v}]),
             Proceed(p, "inventory")
      PROVE  Looks(p)
    <2>1. Only(p) /\ op'[p] = op[p] /\ pc'[p] = "inventory" /\ loc'[p] = loc[p]
        BY <1>2, <1>4, ProceedMoves DEF Places
    <2>2. LocalOK(p)' /\ pc'[p] \notin Held
        BY <1>2, <2>1, LookLocal DEF Looking
    <2> DEFINE x == [view[p] EXCEPT !.vms = {v}]
    <2>3. /\ x \in Views /\ x.status = view[p].status /\ x.vms = {v}
          /\ x.live = view[p].live /\ x.power = view[p].power /\ x.active = view[p].active
        BY <1>2 DEF Views
    <2> HIDE DEF x
    <2>4. Look(p, x)
        BY <1>4, Zenon DEF x
    <2>5. view' \in [Procs -> Views] /\ view'[p] = x /\ \A q \in Procs \ {p} : view'[q] = view[q]
        BY <2>3, <2>4, LookAt
    <2>6. op[p] = "vm" /\ view[p].status # None
        BY <1>1, <1>2, <1>4 DEF ViewOK
    <2>7. ViewOK(p)'
        BY <1>1, <1>2, <1>3, <2>1, <2>3, <2>5, <2>6 DEF ViewOK, Looking
    <2> QED
        BY <2>1, <2>2, <2>5, <2>7 DEF Looks
<1>5. ASSUME Leave(p, "absent"), Look(p, NoView) PROVE Looks(p)
    BY <1>1, <1>2, <1>3, <1>5, LeaveLooks
<1> QED
    BY <1>1, <1>4, <1>5

LEMMA UnansweredLooks ==
    ASSUME IInv, NEW p \in Procs, Unanswered(p), UNCHANGED <<images, trust, base>>
    PROVE  Looks(p)
<1>1. /\ pc[p] = "inventory" /\ UNCHANGED seen /\ Proceed(p, "examine")
      /\ Look(p, [view[p] EXCEPT !.power = [v \in VM |-> IF v \in view[p].vms THEN "unknown" ELSE "unasked"]])
    BY Zenon DEF Unanswered, At
<1>2. /\ ViewOK(p) /\ view \in [Procs -> Views] /\ view[p] \in Views
      /\ record \in Records \union {None} /\ InvLab
      /\ dom \in Domains /\ Grows /\ CommandType
    BY ViewGiven, StoresKept DEF IInv, TypeOK
<1>3. UNCHANGED <<record, journal, dom>> /\ Dead' = Dead
    BY <1>1 DEF seen, lab, Dead
<1>4. Only(p) /\ op'[p] = op[p] /\ pc'[p] = "examine" /\ loc'[p] = loc[p]
    BY <1>1, <1>2, ProceedMoves DEF Places
<1>5. LocalOK(p)' /\ pc'[p] \notin Held
    BY <1>2, <1>4, LookLocal DEF Looking
<1> DEFINE f == [v \in VM |-> IF v \in view[p].vms THEN "unknown" ELSE "unasked"]
           x == [view[p] EXCEPT !.power = f]
<1>6. f \in Powered /\ \A v \in VM : f[v] # "on"
    BY DEF Powered
<1> HIDE DEF f
<1>7. /\ x \in Views /\ x.status = view[p].status /\ x.vms = view[p].vms
      /\ x.live = view[p].live /\ x.power = f
    BY <1>2, <1>6 DEF Views
<1>8. Look(p, x)
    BY <1>1, Zenon DEF x, f
<1> HIDE DEF x
<1>9. view' \in [Procs -> Views] /\ view'[p] = x /\ \A q \in Procs \ {p} : view'[q] = view[q]
    BY <1>7, <1>8, LookAt
<1>10. ViewOK(p)'
    BY <1>1, <1>2, <1>3, <1>4, <1>6, <1>7, <1>9 DEF ViewOK, Looking
<1> QED
    BY <1>4, <1>5, <1>9, <1>10 DEF Looks

LEMMA AskLooks ==
    ASSUME IInv, NEW p \in Procs, Ask(p), UNCHANGED <<images, trust, base>>
    PROVE  Looks(p)
<1>1. /\ pc[p] = "inventory" /\ UNCHANGED <<seen, command>>
      /\ \E v \in Unasked(p) :
           Look(p, [view[p] EXCEPT !.power[v] = Answer(v, view[p].live),
                                   !.active = @ \union (IF Active(v, view[p].live) THEN {v} ELSE {})])
    BY Zenon DEF Ask, At
<1>2. /\ ViewOK(p) /\ view \in [Procs -> Views] /\ view[p] \in Views
      /\ record \in Records \union {None} /\ InvLab
      /\ dom \in Domains /\ Grows /\ CommandType
    BY ViewGiven, StoresKept DEF IInv, TypeOK
<1>3. UNCHANGED <<record, journal, dom>> /\ Dead' = Dead
    BY <1>1 DEF seen, lab, Dead
<1>4. Only(p) /\ op'[p] = op[p] /\ pc'[p] = "inventory" /\ loc'[p] = loc[p]
    BY <1>1, <1>2 DEF Only, CommandType, command
<1>5. LocalOK(p)' /\ pc'[p] \notin Held
    BY <1>2, <1>4, LookLocal DEF Looking
<1>6. PICK v \in Unasked(p) :
          Look(p, [view[p] EXCEPT !.power[v] = Answer(v, view[p].live),
                                  !.active = @ \union (IF Active(v, view[p].live) THEN {v} ELSE {})])
    BY <1>1, Zenon
<1> DEFINE found == IF Active(v, view[p].live) THEN {v} ELSE {}
           x == [view[p] EXCEPT !.power[v] = Answer(v, view[p].live), !.active = @ \union found]
<1>7. v \in VM /\ view[p].power \in Powered
    BY <1>2 DEF Views, Unasked
<1>8. /\ Answer(v, view[p].live) \in {"missing", "off", "on"} /\ found \subseteq VM
      /\ Answer(v, view[p].live) = "on" => v \in found
    BY <1>2, <1>7 DEF Answer, Active, Domains
<1>d. (view[p].live => Dead) => Answer(v, view[p].live) # "on"
    BY <1>7 DEF Answer, Dead
<1>9. Look(p, x)
    BY <1>6, Zenon
<1> HIDE DEF found
<1>10. /\ x \in Views /\ x.status = view[p].status /\ x.vms = view[p].vms /\ x.live = view[p].live
       /\ x.active = view[p].active \union found /\ x.power[v] = Answer(v, view[p].live)
       /\ \A u \in VM \ {v} : x.power[u] = view[p].power[u]
    BY <1>2, <1>7, <1>8 DEF Views, Powered
<1> HIDE DEF x
<1>11. view' \in [Procs -> Views] /\ view'[p] = x /\ \A q \in Procs \ {p} : view'[q] = view[q]
    BY <1>9, <1>10, LookAt
<1>12. ViewOK(p)'
    BY <1>1, <1>2, <1>3, <1>4, <1>8, <1>d, <1>10, <1>11 DEF ViewOK, Looking
<1> QED
    BY <1>4, <1>5, <1>11, <1>12 DEF Looks

LEMMA InventoryLooks ==
    ASSUME IInv, NEW p \in Procs, Inventory(p), UNCHANGED <<images, trust, base>>
    PROVE  Looks(p)
<1>1. /\ pc[p] = "inventory" /\ UNCHANGED seen /\ Proceed(p, "examine")
      /\ Look(p, [view[p] EXCEPT !.todo = {v \in view[p].vms : view[p].power[v] \in {"on", "off"}}])
    BY Zenon DEF Inventory, At
<1>2. /\ ViewOK(p) /\ view \in [Procs -> Views] /\ view[p] \in Views
      /\ record \in Records \union {None} /\ InvLab
      /\ dom \in Domains /\ Grows /\ CommandType
    BY ViewGiven, StoresKept DEF IInv, TypeOK
<1>3. UNCHANGED <<record, journal, dom>> /\ Dead' = Dead
    BY <1>1 DEF seen, lab, Dead
<1>4. Only(p) /\ op'[p] = op[p] /\ pc'[p] = "examine" /\ loc'[p] = loc[p]
    BY <1>1, <1>2, ProceedMoves DEF Places
<1>5. LocalOK(p)' /\ pc'[p] \notin Held
    BY <1>2, <1>4, LookLocal DEF Looking
<1> DEFINE todo == {v \in view[p].vms : view[p].power[v] \in {"on", "off"}}
           x == [view[p] EXCEPT !.todo = todo]
<1>6. todo \subseteq VM
    BY <1>2 DEF Views
<1>7. Look(p, x)
    BY <1>1, Zenon
<1> HIDE DEF todo
<1>8. /\ x \in Views /\ x.status = view[p].status /\ x.vms = view[p].vms
      /\ x.live = view[p].live /\ x.power = view[p].power /\ x.active = view[p].active
    BY <1>2, <1>6 DEF Views
<1> HIDE DEF x
<1>9. view' \in [Procs -> Views] /\ view'[p] = x /\ \A q \in Procs \ {p} : view'[q] = view[q]
    BY <1>7, <1>8, LookAt
<1>10. ViewOK(p)'
    BY <1>1, <1>2, <1>3, <1>4, <1>8, <1>9 DEF ViewOK, Looking
<1> QED
    BY <1>4, <1>5, <1>9, <1>10 DEF Looks

LEMMA ExamineLooks ==
    ASSUME IInv, NEW p \in Procs, Examine(p), UNCHANGED <<images, trust, base>>
    PROVE  Looks(p)
<1>1. /\ pc[p] = "examine" /\ UNCHANGED <<seen, command>>
      /\ \E v \in view[p].todo : Look(p, [view[p] EXCEPT !.todo = @ \ {v}])
    BY Zenon DEF Examine, At
<1>2. /\ ViewOK(p) /\ view \in [Procs -> Views] /\ view[p] \in Views
      /\ record \in Records \union {None} /\ InvLab
      /\ dom \in Domains /\ Grows /\ CommandType
    BY ViewGiven, StoresKept DEF IInv, TypeOK
<1>3. UNCHANGED <<record, journal, dom>> /\ Dead' = Dead
    BY <1>1 DEF seen, lab, Dead
<1>4. Only(p) /\ op'[p] = op[p] /\ pc'[p] = "examine" /\ loc'[p] = loc[p]
    BY <1>1, <1>2 DEF Only, CommandType, command
<1>5. LocalOK(p)' /\ pc'[p] \notin Held
    BY <1>2, <1>4, LookLocal DEF Looking
<1>6. PICK v \in view[p].todo : Look(p, [view[p] EXCEPT !.todo = @ \ {v}])
    BY <1>1, Zenon
<1> DEFINE x == [view[p] EXCEPT !.todo = @ \ {v}]
<1>7. v \in VM /\ view[p].power \in Powered
    BY <1>2 DEF Views
<1>8. /\ x \in Views /\ x.status = view[p].status /\ x.vms = view[p].vms
      /\ x.live = view[p].live /\ x.power = view[p].power /\ x.active = view[p].active
    BY <1>2, <1>7 DEF Views
<1>9. Look(p, x)
    BY <1>6, Zenon
<1> HIDE DEF x
<1>10. view' \in [Procs -> Views] /\ view'[p] = x /\ \A q \in Procs \ {p} : view'[q] = view[q]
    BY <1>8, <1>9, LookAt
<1>11. \A u \in VM : x.power[u] = "on" => view[p].power[u] = "on"
    BY <1>7, <1>8
<1>12. ViewOK(p)'
    BY <1>1, <1>2, <1>3, <1>4, <1>8, <1>10, <1>11 DEF ViewOK, Looking
<1> QED
    BY <1>4, <1>5, <1>10, <1>12 DEF Looks

LEMMA UnexaminedLooks ==
    ASSUME IInv, NEW p \in Procs, Unexamined(p), UNCHANGED <<images, trust, base>>
    PROVE  Looks(p)
<1>1. /\ pc[p] = "examine" /\ UNCHANGED <<seen, command>>
      /\ \E v \in view[p].todo : Look(p, [view[p] EXCEPT !.todo = @ \ {v}, !.power[v] = "unknown"])
    BY Zenon DEF Unexamined, At
<1>2. /\ ViewOK(p) /\ view \in [Procs -> Views] /\ view[p] \in Views
      /\ record \in Records \union {None} /\ InvLab
      /\ dom \in Domains /\ Grows /\ CommandType
    BY ViewGiven, StoresKept DEF IInv, TypeOK
<1>3. UNCHANGED <<record, journal, dom>> /\ Dead' = Dead
    BY <1>1 DEF seen, lab, Dead
<1>4. Only(p) /\ op'[p] = op[p] /\ pc'[p] = "examine" /\ loc'[p] = loc[p]
    BY <1>1, <1>2 DEF Only, CommandType, command
<1>5. LocalOK(p)' /\ pc'[p] \notin Held
    BY <1>2, <1>4, LookLocal DEF Looking
<1>6. PICK v \in view[p].todo : Look(p, [view[p] EXCEPT !.todo = @ \ {v}, !.power[v] = "unknown"])
    BY <1>1, Zenon
<1> DEFINE x == [view[p] EXCEPT !.todo = @ \ {v}, !.power[v] = "unknown"]
<1>7. v \in VM /\ view[p].power \in Powered
    BY <1>2 DEF Views
<1>8. /\ x \in Views /\ x.status = view[p].status /\ x.vms = view[p].vms
      /\ x.live = view[p].live /\ x.active = view[p].active
      /\ x.power[v] = "unknown" /\ \A u \in VM \ {v} : x.power[u] = view[p].power[u]
    BY <1>2, <1>7 DEF Views, Powered
<1>9. Look(p, x)
    BY <1>6, Zenon
<1> HIDE DEF x
<1>10. view' \in [Procs -> Views] /\ view'[p] = x /\ \A q \in Procs \ {p} : view'[q] = view[q]
    BY <1>8, <1>9, LookAt
<1>11. \A u \in VM : x.power[u] = "on" => view[p].power[u] = "on"
    BY <1>7, <1>8
<1>12. ViewOK(p)'
    BY <1>1, <1>2, <1>3, <1>4, <1>8, <1>10, <1>11 DEF ViewOK, Looking
<1> QED
    BY <1>4, <1>5, <1>10, <1>12 DEF Looks

LEMMA ReportLooks ==
    ASSUME IInv, NEW p \in Procs, Report(p), UNCHANGED <<images, trust>>
    PROVE  Looks(p)
BY StoresKept, LeaveLooks DEF Report

(* Those that only read what is recorded. *)
LEMMA ReadQuiet ==
    ASSUME IInv, NEW p \in Procs, NEW loads, UNCHANGED <<images, trust>>,
           ReadCatalogue(p, loads) \/ NoLab(p) \/ DefaultVm(p) \/ Connect(p) \/ Child(p)
    PROVE  Quiet(p) /\ UNCHANGED <<seen, view>>
<1>1. UNCHANGED <<seen, view>> /\ pc[p] \in {"catalogue", "no_lab", "default_vm", "connection", "child"}
    BY DEF ReadCatalogue, NoLab, DefaultVm, Connect, Child, At
<1>2. \/ Proceed(p, "records") \/ Proceed(p, "connection") \/ Proceed(p, "child")
      \/ \E e : Leave(p, e)
    BY Zenon DEF ReadCatalogue, NoLab, DefaultVm, Connect, Child
<1>3. Grows /\ StoreType' /\ InvStore'
    BY StoresKept
<1>4. ASSUME NEW w \in {"records", "connection", "child"}, Proceed(p, w) PROVE Moved(p)
    BY <1>1, <1>3, <1>4, CommandOK, ProceedMoved DEF Places, Looking, Held, Creating, Undoing, Altering, Stored, Fresh, Importing, Asking, Snapped, Connected, Pulling, Cleared, LocalOK
<1>5. ASSUME NEW e, Leave(p, e) PROVE Moved(p)
    BY <1>1, <1>5, LeaveMoved DEF Looking
<1> QED
    BY <1>1, <1>2, <1>3, <1>4, <1>5 DEF Quiet

LEMMA ObserveRunStep ==
    ASSUME IInv, NEW p \in Procs, ObserveRun(p)
    PROVE  /\ (Quiet(p) /\ UNCHANGED view) \/ Looks(p)
           /\ UNCHANGED <<images, trust, seen, base, llock>>
<1>1. UNCHANGED <<images, trust>> /\ UNCHANGED <<base, llock>>
    BY Zenon DEF ObserveRun
<1>2. UNCHANGED seen
    BY DEF ObserveRun, ObserveStep, ReadRecords, ReadSummary, SelectVm, Ask, Inventory, Unanswered,
           Examine, Unexamined, Report, DefaultVm, Connect, Child, ReadCatalogue, NoLab
<1>3. CASE ReadCatalogue(p, Discovers) \/ NoLab(p) \/ DefaultVm(p) \/ Connect(p) \/ Child(p)
    BY <1>1, <1>2, <1>3, ReadQuiet
<1>4. CASE ~(ReadCatalogue(p, Discovers) \/ NoLab(p) \/ DefaultVm(p) \/ Connect(p) \/ Child(p))
    <2>1. Looks(p)
        BY <1>1, <1>4, ReadRecordsLooks, ReadSummaryLooks, SelectVmLooks, AskLooks, InventoryLooks,
           UnansweredLooks, ExamineLooks, UnexaminedLooks, ReportLooks, Zenon
           DEF ObserveRun, ObserveStep
    <2> QED
        BY <1>1, <1>2, <2>1
<1> QED
    BY <1>3, <1>4

-----------------------------------------------------------------------------

(* The work on the lab.  The views that others have of it stay right when the lab
   goes on, and one that is dead stays dead; or they are of one that is gone. *)
GoesOn == view' = view /\ (record # None => record' # None) /\ (Dead => Dead')

LabGoesOn == LabType' /\ InvLab' /\ CreatedIsTrusted' /\ (GoesOn \/ InstanceGone)

Moves(p) ==
    /\ Only(p) /\ op'[p] = op[p] /\ LocalOK(p)' /\ pc[p] \notin Looking /\ pc'[p] \notin Looking

Works(p) == Moves(p) /\ llock \in {p, None} /\ WorkOK(p)' /\ LabGoesOn

LEMMA NoViewGone == [NoView EXCEPT !.live = FALSE] = NoView
<1>1. ASSUME NEW r \in Views, ~r.live PROVE [r EXCEPT !.live = FALSE] = r
    BY <1>1 DEF Views
<1>2. NoView \in Views /\ ~NoView.live
    BY NoViewType
<1> QED
    BY <1>1, <1>2

(* Whoever looks at the lab meanwhile is not misled. *)
LEMMA ViewsStay ==
    ASSUME IInv, GoesOn \/ InstanceGone,
           \A q \in Procs : \/ pc'[q] = pc[q] /\ op'[q] = op[q]
                            \/ pc[q] \notin Looking /\ pc'[q] \notin Looking
    PROVE  view' \in [Procs -> Views] /\ InvView'
<1>1. view \in [Procs -> Views] /\ \A q \in Procs : ViewOK(q) /\ view[q] \in Views
    BY ViewGiven DEF IInv, TypeOK, ViewType
<1>2. CASE GoesOn
    <2>1. ASSUME NEW q \in Procs PROVE ViewOK(q)'
        <3>1. view'[q] = view[q] /\ ViewOK(q) /\ (record # None => record' # None) /\ (Dead => Dead')
            BY <1>1, <1>2 DEF GoesOn
        <3>2. CASE pc'[q] = pc[q] /\ op'[q] = op[q]
            BY <3>1, <3>2 DEF ViewOK
        <3>3. CASE pc[q] \notin Looking /\ pc'[q] \notin Looking
            <4>1. view'[q] = NoView
                BY <3>1, <3>3 DEF ViewOK
            <4> QED
                BY <3>3, <4>1, NoViewType DEF ViewOK, Looking
        <3> QED
            BY <2>1, <3>2, <3>3
    <2> QED
        BY <1>1, <1>2, <2>1 DEF InvView, GoesOn
<1>3. CASE InstanceGone
    <2>1. view' \in [Procs -> Views]
        BY <1>1, <1>3 DEF InstanceGone, Views
    <2>2. ASSUME NEW q \in Procs PROVE ViewOK(q)'
        <3> DEFINE x == view'[q]
        <3>1. /\ ViewOK(q) /\ view[q] \in Views /\ x = [view[q] EXCEPT !.live = FALSE]
            BY <1>1, <1>3 DEF InstanceGone
        <3>2. /\ ~x.live /\ x.status = view[q].status /\ x.vms = view[q].vms
              /\ x.power = view[q].power /\ x.active = view[q].active
            BY <3>1 DEF Views
        <3>3. view[q] = NoView => x = NoView
            BY <3>1, NoViewGone
        <3> HIDE DEF x
        <3>4. CASE pc'[q] = pc[q] /\ op'[q] = op[q]
            BY <3>1, <3>2, <3>3, <3>4 DEF ViewOK, x
        <3>5. CASE pc[q] \notin Looking /\ pc'[q] \notin Looking
            <4>1. x = NoView
                BY <3>1, <3>3, <3>5 DEF ViewOK
            <4> QED
                BY <3>5, <4>1, NoViewType DEF ViewOK, Looking, x
        <3> QED
            BY <2>2, <3>4, <3>5
    <2> QED
        BY <2>1, <2>2 DEF InvView
<1> QED
    BY <1>2, <1>3

LEMMA WorkStep ==
    ASSUME IInv, NEW p \in Procs, Works(p), CountType', UNCHANGED <<images, trust, hung>>
    PROVE  IInv'
<1>0. /\ Only(p) /\ LocalOK(p)' /\ pc[p] \notin Looking /\ pc'[p] \notin Looking
      /\ llock \in {p, None} /\ WorkOK(p)' /\ LabType' /\ InvLab' /\ CreatedIsTrusted'
      /\ (GoesOn \/ InstanceGone)
    BY DEF Works, Moves, LabGoesOn
<1>1. Grows /\ StoreType' /\ InvStore'
    BY StoresKept
<1>2. view' \in [Procs -> Views] /\ InvView'
    BY <1>0, ViewsStay DEF Only
<1>3. TypeOK'
    BY <1>0, <1>1, <1>2 DEF IInv, TypeOK, Only, ViewType
<1>4. InvLocal'
    BY <1>0, <1>1, LocalKept DEF IInv
<1>5. ASSUME NEW q \in Procs, q # p PROVE WorkOK(q)'
    <2>1. WorkOK(q) /\ pc'[q] = pc[q]
        BY <1>0, <1>5 DEF IInv, InvWork, Only
    <2>2. pc'[q] \notin Held
        BY <1>0, <1>5, <2>1, NoneAssumption DEF WorkOK
    <2> QED
        BY <2>2 DEF WorkOK, Held, Creating, Undoing, Altering, Reworking
<1>6. InvWork'
    BY <1>0, <1>5 DEF InvWork
<1> QED
    BY <1>0, <1>1, <1>2, <1>3, <1>4, <1>6 DEF IInv

(* What the holder of the lab's lock may rely on. *)
LEMMA WorkGiven ==
    ASSUME IInv, NEW p \in Procs
    PROVE  /\ WorkOK(p) /\ LocalOK(p) /\ loc[p] \in Locals /\ LabType /\ InvLab
           /\ CreatedIsTrusted /\ CommandType /\ StoreType
           /\ pc[p] \in Held => llock = p
BY CommandOK DEF IInv, TypeOK, InvWork, WorkOK

LEMMA HeldNotLooking == Held \intersect Looking = {}
BY DEF Held, Creating, Undoing, Altering, Looking

-----------------------------------------------------------------------------

(* Where a step of the holder leads: on, on with other VMs, nowhere, to the end. *)
LEMMA ProceedWorks ==
    ASSUME IInv, NEW p \in Procs, NEW w \in Cleared \union Creating \union Undoing \union {"opened"} \union Altering,
           Proceed(p, w), UNCHANGED <<images, trust>>, pc[p] \notin Looking,
           w \in Cleared => pc[p] \in Cleared
    PROVE  Moves(p) /\ pc'[p] = w /\ loc'[p] = loc[p]
<1>1. w \in Places /\ w \notin Looking
    BY DEF Places, Cleared, Creating, Undoing, Altering, Looking
<1>2. Only(p) /\ op'[p] = op[p] /\ pc'[p] = w /\ loc'[p] = loc[p]
    BY <1>1, WorkGiven, ProceedMoves
<1>3. LocalOK(p) /\ Grows
    BY CommandOK, StoresKept
<1>4. /\ w \notin Stored /\ w \notin Importing /\ w \notin Asking /\ w \notin Pulling
      /\ w # "publish" /\ w \notin Fresh
      /\ w \in Snapped \/ w \in Connected => w \in Cleared
    BY DEF Cleared, Creating, Undoing, Altering, Stored, Fresh, Importing, Asking, Snapped, Connected, Pulling
<1>5. LocalOK(p)'
    BY <1>2, <1>3, <1>4 DEF LocalOK, Grows, Snapped, Connected
<1> QED
    BY <1>1, <1>2, <1>5 DEF Moves

LEMMA GotoWorks ==
    ASSUME IInv, NEW p \in Procs, NEW w \in Altering, Goto(p, w), NEW l \in Locals, Keep(p, l),
           l.verified = loc[p].verified, l.digest = loc[p].digest, l.trust = loc[p].trust,
           UNCHANGED <<images, trust>>, pc[p] \notin Looking
    PROVE  Moves(p) /\ pc'[p] = w /\ loc'[p] = l
<1>1. w \in Places /\ w \notin Looking
    BY DEF Places, Altering, Looking
<1>2. Only(p) /\ op'[p] = op[p] /\ pc'[p] = w /\ loc'[p] = l
    BY <1>1, WorkGiven, GotoMoves
<1>3. LocalOK(p) /\ Grows
    BY CommandOK, StoresKept
<1>4. LocalOK(p)'
    BY <1>2, <1>3 DEF LocalOK, Grows, Stored, Fresh, Importing, Asking, Snapped, Connected, Pulling, Cleared,
                      Altering
<1> QED
    BY <1>1, <1>2, <1>4 DEF Moves

LEMMA LeftWorks ==
    ASSUME IInv, NEW p \in Procs, NEW w \in Altering, Goto(p, w), NEW some \in SUBSET VM, KeepTodo(p, some),
           UNCHANGED <<images, trust>>, pc[p] \notin Looking
    PROVE  Moves(p) /\ pc'[p] = w
<1> DEFINE l == [loc[p] EXCEPT !.todo = some]
<1>1. /\ l \in Locals /\ l.verified = loc[p].verified /\ l.digest = loc[p].digest
      /\ l.trust = loc[p].trust
    BY WorkGiven DEF Locals
<1>2. Keep(p, l)
    BY DEF KeepTodo
<1> HIDE DEF l
<1> QED
    BY <1>1, <1>2, GotoWorks

LEMMA StartWorks ==
    ASSUME IInv, NEW p \in Procs, NEW w \in Altering, NEW some \in SUBSET VM, Start(p, some, w),
           UNCHANGED <<images, trust>>, pc[p] \notin Looking
    PROVE  Moves(p) /\ pc'[p] = w /\ llock' = llock
<1> DEFINE l == [loc[p] EXCEPT !.chosen = some, !.todo = some]
<1>1. /\ l \in Locals /\ l.verified = loc[p].verified /\ l.digest = loc[p].digest
      /\ l.trust = loc[p].trust
    BY WorkGiven DEF Locals
<1>2. Keep(p, l) /\ Goto(p, w) /\ llock' = llock
    BY Zenon DEF Start
<1> HIDE DEF l
<1> QED
    BY <1>1, <1>2, GotoWorks

LEMMA StayWorks ==
    ASSUME IInv, NEW p \in Procs, UNCHANGED command, UNCHANGED <<images, trust>>, pc[p] \notin Looking
    PROVE  Moves(p) /\ pc'[p] = pc[p] /\ loc'[p] = loc[p]
<1>1. op' = op /\ pc' = pc /\ loc' = loc
    BY DEF command
<1>2. LocalOK(p) /\ Grows /\ CommandType /\ StoreType
    BY WorkGiven, StoresKept
<1>3. pc[p] = "publish" => loc[p].digest \in Digests
    BY <1>2 DEF LocalOK, Stored
<1>4. LocalOK(p)'
    BY <1>1, <1>2, <1>3 DEF LocalOK, Grows
<1> QED
    BY <1>1, <1>2, <1>4 DEF Moves, Only, CommandType

LEMMA QuitWorks ==
    ASSUME IInv, NEW p \in Procs, NEW e, Quit(p, e), pc[p] \in Held
    PROVE  Moves(p) /\ WorkOK(p)' /\ llock' = None
<1>1. pc[p] \notin Looking /\ Leave(p, e) /\ llock' = None
    BY HeldNotLooking, Zenon DEF Quit
<1>2. Moved(p) /\ op'[p] = op[p]
    BY <1>1, LeaveMoved, LeaveMoves, WorkGiven
<1>3. WorkOK(p)'
    BY <1>2 DEF Moved, WorkOK, Held, Creating, Undoing, Altering, Reworking
<1> QED
    BY <1>1, <1>2, <1>3 DEF Moved, Moves

LEMMA AlteringWorks ==
    ASSUME NEW p \in Procs, pc'[p] \in Altering, llock' = p, record' # None, ~Pending("create")',
           pc'[p] \in Reworking \/ (pc'[p] = "shut" /\ op'[p] = "reset") => record'.vms = VM
    PROVE  WorkOK(p)'
BY DEF WorkOK, Altering, Creating

LEMMA UndoingWorks ==
    ASSUME NEW p \in Procs, pc'[p] \in Undoing \union {"opened"}, llock' = p
    PROVE  WorkOK(p)'
BY DEF WorkOK, Altering, Creating, Undoing, Reworking

-----------------------------------------------------------------------------

(* What becomes of the lab: nothing, or it goes; a creation or a removal takes
   a step; or it is altered. *)
LEMMA LabSame ==
    ASSUME IInv, UNCHANGED <<view, record, journal, dom, base>>, UNCHANGED trust,
           llock' \in Procs \union {None}
    PROVE  LabGoesOn
<1>1. LabType /\ InvLab /\ CreatedIsTrusted
    BY DEF IInv, TypeOK
<1>2. LabType' /\ InvLab'
    BY <1>1 DEF LabType, InvLab, Pending, Dead
<1>3. CreatedIsTrusted'
    BY <1>1 DEF CreatedIsTrusted, trust
<1>4. GoesOn
    BY DEF GoesOn, Dead
<1> QED
    BY <1>2, <1>3, <1>4 DEF LabGoesOn

LEMMA LabNone ==
    ASSUME IInv, record' = None, (record = None /\ view' = view) \/ InstanceGone,
           journal' \in Journals \union {None}, dom' \in Domains, base' \in {None, "good"},
           llock' \in Procs \union {None}
    PROVE  LabGoesOn
<1>1. GoesOn \/ InstanceGone
    BY DEF GoesOn, Dead
<1> QED
    BY <1>1 DEF LabGoesOn, LabType, InvLab, CreatedIsTrusted

SameRecord ==
    /\ record' \in Records
    /\ record'.uri = record.uri /\ record'.order = record.order /\ record'.version = record.version
    /\ record'.digest = record.digest /\ record'.verified = record.verified
    /\ record'.allowed = record.allowed

LEMMA LabSome ==
    ASSUME IInv, record # None, UNCHANGED view, UNCHANGED trust, SameRecord,
           journal' \in Journals \union {None}, dom' \in Domains, base' \in {None, "good"},
           llock' \in Procs \union {None},
           record'.status = "provisioning" => Pending("create")',
           record'.vms # VM => \/ Pending("create")' /\ record'.status \in {"provisioning", "failed_cleanup"}
                               \/ Dead',
           Pending("reset")' => record'.vms = VM,
           Dead => Dead'
    PROVE  LabGoesOn
<1>1. LabType /\ InvLab /\ CreatedIsTrusted /\ record' # None
    BY RecordAssumption DEF IInv, TypeOK, SameRecord
<1>2. LabType' /\ InvLab'
    BY <1>1 DEF LabType, InvLab, SameRecord, Complete
<1>3. CreatedIsTrusted'
    BY <1>1 DEF CreatedIsTrusted, trust, SameRecord
<1>4. GoesOn
    BY <1>1 DEF GoesOn
<1> QED
    BY <1>2, <1>3, <1>4 DEF LabGoesOn

LEMMA StatusMarked ==
    ASSUME IInv, record # None, NEW s \in Statuses, record' = [record EXCEPT !.status = s]
    PROVE  SameRecord /\ record' # None /\ record'.vms = record.vms /\ record'.status = s
BY RecordAssumption DEF IInv, TypeOK, LabType, Records, SameRecord

LEMMA LabAltered ==
    ASSUME IInv, record # None, ~Pending("create"), UNCHANGED <<view, base>>, UNCHANGED trust,
           UNCHANGED record \/ \E s \in Marks : Marked(s),
           journal' \in Journals \union {None}, Pending("reset")' => record.vms = VM,
           dom' \in Domains, Dead => dom' = dom, llock' \in Procs \union {None}
    PROVE  LabGoesOn /\ record' # None /\ record'.vms = record.vms
<1>1. LabType /\ InvLab
    BY DEF IInv, TypeOK
<1>2. record.status # "provisioning" /\ (record.vms # VM => Dead)
    BY <1>1 DEF InvLab
<1>3. SameRecord /\ record' # None /\ record'.vms = record.vms /\ record'.status # "provisioning"
    <2>1. CASE UNCHANGED record
        BY <1>1, <1>2, <2>1 DEF SameRecord, LabType
    <2>2. ASSUME NEW s \in Marks, Marked(s)
          PROVE  SameRecord /\ record' # None /\ record'.vms = record.vms /\ record'.status # "provisioning"
        <3>1. s \in Statuses /\ s # "provisioning"
            BY DEF Marks, Switched, Lowered, Raised, Statuses
        <3> QED
            BY <2>2, <3>1, StatusMarked DEF Marked
    <2> QED
        BY <2>1, <2>2
<1>4. Dead => Dead'
    BY <1>3 DEF Dead
<1>5. base' \in {None, "good"}
    BY <1>1 DEF LabType
<1>6. LabGoesOn
    BY <1>2, <1>3, <1>4, <1>5, LabSome
<1> QED
    BY <1>3, <1>6

(* One of its domains changes, and none is absent of one that is not dead. *)
LEMMA TurnIsDomain ==
    ASSUME IInv, NEW v \in VM, NEW to \in {"absent", "bare", "on", "off"}, Turn(v, to)
    PROVE  dom' \in Domains
BY DEF IInv, TypeOK, LabType, Domains, Turn

-----------------------------------------------------------------------------

(* The journal of a creation that had come to its end is dropped. *)
LEMMA JournalDropped ==
    ASSUME IInv, Pending("create"), ~Uncommitted, journal' = None,
           UNCHANGED <<view, record, dom, base>>, UNCHANGED trust, llock' \in Procs \union {None}
    PROVE  LabGoesOn
<1>1. LabType /\ InvLab
    BY DEF IInv, TypeOK
<1>2. dom' \in Domains /\ base' \in {None, "good"} /\ journal' \in Journals \union {None}
    BY <1>1 DEF LabType
<1>3. CASE record = None
    BY <1>2, <1>3, LabNone
<1>4. CASE record # None
    <2>1. record.status = "ready" /\ (record.vms # VM => Dead) /\ SameRecord
        BY <1>1, <1>4 DEF Uncommitted, InvLab, LabType, SameRecord
    <2>2. (Dead => Dead') /\ ~Pending("reset")'
        BY DEF Dead, Pending
    <2> QED
        BY <1>2, <1>4, <2>1, <2>2, LabSome
<1> QED
    BY <1>3, <1>4

LEMMA RecoverWorks ==
    ASSUME IInv, NEW p \in Procs, Recover(p)
    PROVE  Works(p) /\ UNCHANGED <<images, trust, hung>>
<1>1. pc[p] = "pending" /\ UNCHANGED <<images, trust, hung>> /\ UNCHANGED trust
      /\ UNCHANGED <<view, record, dom, base>>
      /\ \/ journal = None /\ Proceed(p, "absent") /\ UNCHANGED <<journal, llock>>
         \/ /\ Pending("create") /\ ~Uncommitted
            /\ journal' = None /\ Proceed(p, "absent") /\ llock' = llock
         \/ Proceed(p, "recover") /\ UNCHANGED <<journal, llock>>
         \/ Quit(p, "operation") /\ journal' = journal
    BY Zenon DEF Recover, At, outside
<1>2. llock = p
    BY <1>1, WorkGiven DEF Held
<1>3. ASSUME Proceed(p, "absent"), llock' = llock, journal' = None PROVE Moves(p) /\ WorkOK(p)'
    <2>1. Moves(p) /\ pc'[p] = "absent"
        BY <1>1, <1>3, ProceedWorks DEF Cleared, Looking
    <2> QED
        BY <1>2, <1>3, <2>1 DEF WorkOK, Altering, Creating, Reworking
<1>4. CASE journal = None /\ Proceed(p, "absent") /\ UNCHANGED <<journal, llock>>
    BY <1>1, <1>2, <1>3, <1>4, LabSame DEF Works
<1>5. CASE /\ Pending("create") /\ ~Uncommitted
           /\ journal' = None /\ Proceed(p, "absent") /\ llock' = llock
    BY <1>1, <1>2, <1>3, <1>5, JournalDropped DEF Works
<1>6. CASE Proceed(p, "recover") /\ UNCHANGED <<journal, llock>>
    <2>1. Moves(p) /\ pc'[p] = "recover"
        BY <1>1, <1>6, ProceedWorks DEF Cleared, Looking
    <2> QED
        BY <1>1, <1>2, <1>6, <2>1, LabSame, UndoingWorks DEF Works, Undoing
<1>7. CASE Quit(p, "operation") /\ journal' = journal
    <2>1. Moves(p) /\ WorkOK(p)' /\ llock' = None
        BY <1>1, <1>7, QuitWorks DEF Held
    <2> QED
        BY <1>1, <1>2, <1>7, <2>1, LabSame DEF Works
<1> QED
    BY <1>1, <1>4, <1>5, <1>6, <1>7

LEMMA CheckAbsentWorks ==
    ASSUME IInv, NEW p \in Procs, CheckAbsent(p)
    PROVE  Works(p) /\ UNCHANGED <<images, trust, hung>>
<1>1. pc[p] = "absent" /\ UNCHANGED <<images, trust, hung>> /\ UNCHANGED trust
      /\ UNCHANGED <<view, record, journal, dom, base>>
      /\ \/ record = None /\ Proceed(p, "plan") /\ UNCHANGED llock
         \/ Quit(p, "exists")
    BY Zenon DEF CheckAbsent, At, outside, lab
<1>2. llock = p /\ WorkOK(p)
    BY <1>1, WorkGiven DEF Held
<1>3. CASE record = None /\ Proceed(p, "plan") /\ UNCHANGED llock
    <2>1. Moves(p) /\ pc'[p] = "plan"
        BY <1>1, <1>3, ProceedWorks DEF Cleared, Looking
    <2>2. WorkOK(p)'
        BY <1>1, <1>2, <1>3, <2>1 DEF WorkOK, Held, Altering, Creating, Reworking
    <2> QED
        BY <1>1, <1>2, <1>3, <2>1, <2>2, LabSame DEF Works
<1>4. CASE Quit(p, "exists")
    <2>1. Moves(p) /\ WorkOK(p)' /\ llock' = None
        BY <1>1, <1>4, QuitWorks DEF Held
    <2> QED
        BY <1>1, <1>2, <2>1, LabSame DEF Works
<1> QED
    BY <1>1, <1>3, <1>4

LEMMA PlanJournalWorks ==
    ASSUME IInv, NEW p \in Procs, PlanJournal(p)
    PROVE  Works(p) /\ UNCHANGED <<images, trust, hung>>
<1>1. pc[p] = "plan" /\ UNCHANGED <<images, trust, hung>> /\ UNCHANGED trust
      /\ journal' = Journal("create", {}) /\ Proceed(p, "record")
      /\ UNCHANGED <<view, record, dom, base, llock>>
    BY Zenon DEF PlanJournal, At, outside
<1>2. llock = p /\ WorkOK(p) /\ LabType
    BY <1>1, WorkGiven DEF Held
<1>3. record = None /\ journal' \in Journals /\ journal' # None /\ journal'.operation = "create"
    BY <1>1, <1>2, JournalAssumption DEF WorkOK, Journal, Journals
<1>4. LabGoesOn
    BY <1>1, <1>2, <1>3, LabNone DEF LabType
<1>5. Moves(p) /\ pc'[p] = "record"
    BY <1>1, ProceedWorks DEF Cleared, Looking
<1>6. WorkOK(p)'
    BY <1>1, <1>2, <1>3, <1>5 DEF WorkOK, Held, Altering, Creating, Reworking, Pending
<1> QED
    BY <1>1, <1>2, <1>4, <1>5, <1>6 DEF Works

LEMMA PlanRecordWorks ==
    ASSUME IInv, NEW p \in Procs, PlanRecord(p)
    PROVE  Works(p) /\ UNCHANGED <<images, trust, hung>>
<1>1. pc[p] = "record" /\ UNCHANGED <<images, trust, hung>> /\ UNCHANGED trust
      /\ UNCHANGED <<view, journal, dom, base, llock>> /\ Proceed(p, "prepare")
      /\ record' = [status |-> "provisioning", uri |-> loc[p].uri,
                    order |-> DependencyOrder(Text[loc[p].version]),
                    version |-> loc[p].version, digest |-> loc[p].digest, vms |-> {},
                    verified |-> loc[p].verified, allowed |-> loc[p].allowed]
    BY Zenon DEF PlanRecord, At, outside
<1>2. /\ WorkOK(p) /\ LocalOK(p) /\ loc[p] \in Locals /\ LabType /\ StoreType /\ llock = p
    BY <1>1, WorkGiven DEF Held
<1>3. Moves(p) /\ pc'[p] = "prepare"
    BY <1>1, ProceedWorks DEF Cleared, Creating, Looking
<1> DEFINE version == loc[p].version
           order == DependencyOrder(Text[version])
<1>4. /\ record = None /\ Pending("create") /\ version \in approved /\ Loads(version)
      /\ loc[p].uri \in {"session", "system"} /\ Complete(loc[p].uri)
      /\ loc[p].allowed \/ loc[p].verified
      /\ loc[p].verified => loc[p].digest \in Vouched \union {Pinned}
    BY <1>1, <1>2 DEF WorkOK, LocalOK, Snapped, Connected, Cleared, Checked
<1>5. /\ version \in Versions /\ loc[p].digest \in Digests \union {None}
      /\ loc[p].verified \in BOOLEAN /\ loc[p].allowed \in BOOLEAN
    BY <1>2, <1>4 DEF Locals, StoreType
<1>6. order \in Seq(VM)
    BY <1>4, <1>5, TextAssumption, DependencyOrderIsRight DEF Loads
<1> HIDE DEF order
<1>7. record' = [status |-> "provisioning", uri |-> loc[p].uri, order |-> order,
                 version |-> version, digest |-> loc[p].digest, vms |-> {},
                 verified |-> loc[p].verified, allowed |-> loc[p].allowed]
    BY <1>1, Zenon DEF order
<1>8. /\ record' \in Records /\ record' # None /\ record'.vms = {}
      /\ record'.status = "provisioning" /\ record'.version = version
      /\ record'.order = order /\ record'.uri = loc[p].uri
      /\ record'.digest = loc[p].digest /\ record'.verified = loc[p].verified
      /\ record'.allowed = loc[p].allowed
    BY <1>4, <1>5, <1>6, <1>7, RecordAssumption DEF Records, Statuses
<1>9. Pending("create")' /\ ~Pending("reset")'
    BY <1>1, <1>4 DEF Pending
<1>10. LabType'
    BY <1>1, <1>2, <1>8 DEF LabType
<1>11. GoesOn
    BY <1>1, <1>4 DEF GoesOn, Dead
<1>12. InvLab'
    BY <1>1, <1>4, <1>8, <1>9 DEF InvLab, order, Complete
<1>13. CreatedIsTrusted'
    BY <1>1, <1>4, <1>8 DEF CreatedIsTrusted, trust
<1>14. WorkOK(p)'
    BY <1>1, <1>2, <1>3, <1>8, <1>9 DEF WorkOK, Creating, Altering, Reworking
<1> QED
    BY <1>1, <1>2, <1>3, <1>10, <1>11, <1>12, <1>13, <1>14 DEF Works, LabGoesOn

LEMMA NotPlannedWorks ==
    ASSUME IInv, NEW p \in Procs, NotPlanned(p)
    PROVE  Works(p) /\ UNCHANGED <<images, trust, hung>>
<1>1. pc[p] \in {"plan", "record"} /\ UNCHANGED <<images, trust, hung>> /\ UNCHANGED trust
      /\ UNCHANGED <<view, record, journal, dom, base>> /\ Quit(p, "operation")
    BY Zenon DEF NotPlanned, outside, lab
<1>2. llock = p
    BY <1>1, WorkGiven DEF Held
<1>3. Moves(p) /\ WorkOK(p)' /\ llock' = None
    BY <1>1, QuitWorks DEF Held
<1> QED
    BY <1>1, <1>2, <1>3, LabSame DEF Works

(* The next VM is one that is not planned: the first in the order. *)
LEMMA NextIsNew ==
    ASSUME record \in Records, Loads(record.version),
           record.order = DependencyOrder(Text[record.version]), record.vms # VM
    PROVE  NextVm \in VM \ record.vms
<1> DEFINE order == record.order
           S == {i \in DOMAIN order : order[i] \notin record.vms}
<1>1. record.version \in Versions /\ record.vms \subseteq VM /\ order \in Seq(VM)
    BY DEF Records
<1>2. Topological(Text[record.version], order) /\ Names(Text[record.version]) = VM
    BY <1>1, TextAssumption, DependencyOrderIsRight DEF Loads
<1>3. ToSet(order) = VM
    BY <1>2 DEF Topological
<1>4. \A v \in VM : \E i \in DOMAIN order : order[i] = v
    BY <1>3 DEF ToSet
<1>5. S \subseteq Nat /\ S # {}
    <2>1. PICK x \in VM : x \notin record.vms
        BY <1>1
    <2>2. PICK i \in DOMAIN order : order[i] = x
        BY <1>4
    <2>3. i \in S
        BY <2>1, <2>2
    <2>4. DOMAIN order \subseteq Nat
        BY <1>1
    <2> QED
        BY <2>3, <2>4
<1>6. PICK m \in S : \A i \in S : m <= i
    BY <1>5, LeastNumber
<1> DEFINE v == order[m]
<1>7. v \in VM /\ v \notin record.vms /\ m \in DOMAIN order
    BY <1>1, <1>6
<1>8. ASSUME NEW x \in VM \ record.vms PROVE x = v \/ Before(order, v, x)
    <2>1. PICK j \in DOMAIN order : order[j] = x
        BY <1>4
    <2>2. j \in S /\ j \in Nat /\ m \in Nat /\ m <= j
        BY <1>5, <1>6, <2>1
    <2>3. CASE m = j
        BY <2>1, <2>3
    <2>4. CASE m < j
        BY <1>7, <2>1, <2>4 DEF Before
    <2> QED
        BY <2>2, <2>3, <2>4
<1>9. \E n \in VM : n \notin record.vms /\ \A x \in VM \ record.vms : x = n \/ Before(order, n, x)
    BY <1>7, <1>8
<1> QED
    BY <1>9, Zenon DEF NextVm

(* While VMs are made, the record says so, and the lab is not dead. *)
LEMMA Making ==
    ASSUME IInv, NEW p \in Procs, pc[p] \in Creating \ {"finish"}
    PROVE  /\ llock = p /\ record \in Records /\ record # None /\ record.status = "provisioning"
           /\ Pending("create") /\ ~Pending("reset") /\ ~Dead /\ pc[p] \notin Looking
           /\ WorkOK(p) /\ LabType /\ InvLab
BY WorkGiven, RecordAssumption DEF WorkOK, LabType, Pending, Dead, Held, Creating, Looking

LEMMA MakingGoesOn ==
    ASSUME IInv, NEW p \in Procs, pc[p] \in Creating \ {"finish"}, UNCHANGED <<view, journal, llock>>,
           UNCHANGED trust, SameRecord, record'.status = "provisioning",
           dom' \in Domains, base' \in {None, "good"}
    PROVE  LabGoesOn
<1>1. /\ llock = p /\ record # None /\ Pending("create") /\ ~Pending("reset") /\ ~Dead /\ LabType
    BY Making
<1>2. Pending("create")' /\ ~Pending("reset")' /\ journal' \in Journals \union {None}
    BY <1>1 DEF Pending, LabType
<1> QED
    BY <1>1, <1>2, LabSome

LEMMA MakingWorks ==
    ASSUME NEW p \in Procs, pc'[p] \in Creating \ {"commit", "finish"}, llock' = p, Pending("create")',
           record' # None, record'.status = "provisioning", pc'[p] = "plan_vm" => record'.vms # VM
    PROVE  WorkOK(p)'
BY DEF WorkOK, Creating, Altering, Reworking

LEMMA CopyBaseWorks ==
    ASSUME IInv, NEW p \in Procs, CopyBase(p)
    PROVE  Works(p) /\ UNCHANGED <<images, trust, hung>>
<1>1. pc[p] = "prepare" /\ UNCHANGED <<images, trust, hung>> /\ UNCHANGED trust
      /\ UNCHANGED <<view, journal, llock>>
      /\ base' = "good" /\ record.vms # VM /\ UNCHANGED <<record, dom>> /\ Proceed(p, "plan_vm")
    BY Zenon DEF CopyBase, At, outside, lab
<1>2. /\ llock = p /\ record \in Records /\ record # None /\ record.status = "provisioning"
      /\ Pending("create") /\ LabType /\ pc[p] \notin Looking
    BY <1>1, Making DEF Creating
<1>3. SameRecord /\ dom' \in Domains /\ Pending("create")'
    BY <1>1, <1>2 DEF SameRecord, LabType, Pending
<1>4. LabGoesOn
    BY <1>1, <1>2, <1>3, MakingGoesOn DEF Creating
<1>5. Moves(p) /\ pc'[p] = "plan_vm"
    BY <1>1, <1>2, ProceedWorks DEF Cleared, Creating
<1>6. WorkOK(p)'
    BY <1>1, <1>2, <1>3, <1>5, MakingWorks DEF Creating
<1> QED
    BY <1>1, <1>2, <1>4, <1>5, <1>6 DEF Works

LEMMA PlanVmWorks ==
    ASSUME IInv, NEW p \in Procs, PlanVm(p)
    PROVE  Works(p) /\ UNCHANGED <<images, trust, hung>>
<1>1. pc[p] = "plan_vm" /\ UNCHANGED <<images, trust, hung>> /\ UNCHANGED trust
      /\ UNCHANGED <<view, journal, llock>>
      /\ record' = [record EXCEPT !.vms = @ \union {NextVm}]
      /\ UNCHANGED <<dom, base>> /\ Proceed(p, "install")
    BY Zenon DEF PlanVm, At, outside
<1>2. /\ llock = p /\ record \in Records /\ record # None /\ record.status = "provisioning"
      /\ Pending("create") /\ LabType /\ pc[p] \notin Looking /\ WorkOK(p) /\ InvLab
    BY <1>1, Making DEF Creating
<1>3. NextVm \in VM
    <2>1. record.vms # VM
        BY <1>1, <1>2 DEF WorkOK
    <2> QED
        BY <1>2, <2>1, NextIsNew DEF InvLab
<1>4. SameRecord /\ record'.status = "provisioning" /\ record' # None
    BY <1>1, <1>2, <1>3, RecordAssumption DEF Records, SameRecord
<1>5. dom' \in Domains /\ base' \in {None, "good"} /\ Pending("create")'
    BY <1>1, <1>2 DEF LabType, Pending
<1>6. LabGoesOn
    BY <1>1, <1>4, <1>5, MakingGoesOn DEF Creating
<1>7. Moves(p) /\ pc'[p] = "install"
    BY <1>1, <1>2, ProceedWorks DEF Cleared, Creating
<1>8. WorkOK(p)'
    BY <1>1, <1>2, <1>4, <1>5, <1>7, MakingWorks DEF Creating
<1> QED
    BY <1>1, <1>2, <1>6, <1>7, <1>8 DEF Works

(* virt-install, and the metadata. *)
LEMMA InstallWorks ==
    ASSUME IInv, NEW p \in Procs, Install(p) \/ Own(p)
    PROVE  Works(p) /\ UNCHANGED <<images, trust, hung>>
<1>1. PICK w \in {"own", "await"} :
        /\ pc[p] \in {"install", "own"} /\ UNCHANGED <<images, trust, hung>> /\ UNCHANGED trust
        /\ UNCHANGED <<view, journal, llock>>
        /\ UNCHANGED <<record, base>> /\ Proceed(p, w)
    BY Zenon DEF Install, Own, At, outside
<1>2. /\ llock = p /\ record \in Records /\ record # None /\ record.status = "provisioning"
      /\ Pending("create") /\ LabType /\ pc[p] \notin Looking
    BY <1>1, Making DEF Creating
<1>3. dom' \in Domains
    <2>1. CASE Install(p)
        BY <1>2, <2>1 DEF Install, LabType, Domains
    <2>2. CASE Own(p)
        BY <1>2, <2>2 DEF Own, LabType, Domains
    <2> QED
        BY <2>1, <2>2
<1>4. SameRecord /\ base' \in {None, "good"} /\ Pending("create")'
    BY <1>1, <1>2 DEF SameRecord, LabType, Pending
<1>5. LabGoesOn
    BY <1>1, <1>2, <1>3, <1>4, MakingGoesOn DEF Creating
<1>6. Moves(p) /\ pc'[p] = w
    BY <1>1, <1>2, ProceedWorks DEF Cleared, Creating
<1>7. WorkOK(p)'
    BY <1>1, <1>2, <1>4, <1>6, MakingWorks DEF Creating
<1> QED
    BY <1>1, <1>2, <1>5, <1>6, <1>7 DEF Works

LEMMA AwaitWorks ==
    ASSUME IInv, NEW p \in Procs, Await(p)
    PROVE  Works(p) /\ UNCHANGED <<images, trust, hung>>
<1>1. pc[p] = "await" /\ UNCHANGED <<images, trust, hung>> /\ UNCHANGED trust
      /\ UNCHANGED <<view, record, journal, dom, base>> /\ llock' = llock
      /\ Proceed(p, IF record.vms = VM THEN "commit" ELSE "prepare")
    BY Zenon DEF Await, At, outside, lab
<1>2. PICK w \in {"commit", "prepare"} :
        Proceed(p, w) /\ (w = "commit" => record.vms = VM)
    BY <1>1
<1>3. /\ llock = p /\ record # None /\ record.status = "provisioning"
      /\ Pending("create") /\ pc[p] \notin Looking
    BY <1>1, Making DEF Creating
<1>4. Moves(p) /\ pc'[p] = w
    BY <1>1, <1>2, <1>3, ProceedWorks DEF Cleared, Creating
<1>5. WorkOK(p)'
    BY <1>1, <1>2, <1>3, <1>4 DEF WorkOK, Creating, Altering, Reworking, Pending
<1> QED
    BY <1>1, <1>3, <1>4, <1>5, LabSame DEF Works

LEMMA CommitWorks ==
    ASSUME IInv, NEW p \in Procs, Commit(p)
    PROVE  Works(p) /\ UNCHANGED <<images, trust, hung>>
<1>1. pc[p] = "commit" /\ UNCHANGED <<images, trust, hung>> /\ UNCHANGED trust
      /\ UNCHANGED <<view, journal, dom, base, llock>>
      /\ record' = [record EXCEPT !.status = "ready"] /\ Proceed(p, "finish")
    BY Zenon DEF Commit, At, outside
<1>2. /\ llock = p /\ record # None /\ WorkOK(p) /\ LabType
      /\ Pending("create") /\ ~Pending("reset") /\ ~Dead /\ pc[p] \notin Looking
    BY <1>1, Making DEF Creating
<1>3. record.vms = VM
    BY <1>1, <1>2 DEF WorkOK
<1>4. SameRecord /\ record' # None /\ record'.vms = VM /\ record'.status = "ready"
    BY <1>1, <1>2, <1>3, StatusMarked DEF Statuses
<1>5. /\ Pending("create")' /\ journal' \in Journals \union {None} /\ dom' \in Domains
      /\ base' \in {None, "good"} /\ llock' \in Procs \union {None}
    BY <1>1, <1>2 DEF LabType, Pending
<1>6. LabGoesOn
    BY <1>1, <1>2, <1>4, <1>5, LabSome
<1>7. Moves(p) /\ pc'[p] = "finish"
    BY <1>1, <1>2, ProceedWorks DEF Cleared, Creating
<1>8. WorkOK(p)'
    BY <1>1, <1>2, <1>4, <1>5, <1>7 DEF WorkOK, Creating, Altering, Reworking
<1> QED
    BY <1>1, <1>2, <1>6, <1>7, <1>8 DEF Works

(* Behind the commit the journal may go. *)
LEMMA FinishGoesOn ==
    ASSUME IInv, NEW p \in Procs, pc[p] = "finish", UNCHANGED <<view, record, dom, base>>,
           UNCHANGED trust, journal' = None, llock' \in Procs \union {None}
    PROVE  LabGoesOn
<1>1. WorkOK(p) /\ LabType
    BY WorkGiven
<1>2. /\ record # None /\ record.status = "ready" /\ record.vms = VM /\ record \in Records
      /\ dom \in Domains /\ base \in {None, "good"}
    BY <1>1 DEF WorkOK, Creating, LabType
<1>3. SameRecord /\ ~Pending("reset")' /\ ~Dead
    BY <1>2 DEF SameRecord, Pending, Dead
<1> QED
    BY <1>2, <1>3, LabSome

LEMMA FinishWorks ==
    ASSUME IInv, NEW p \in Procs, Finish(p)
    PROVE  Works(p) /\ UNCHANGED <<images, trust, hung>>
<1>1. pc[p] = "finish" /\ UNCHANGED <<images, trust, hung>> /\ UNCHANGED trust
      /\ UNCHANGED <<view, record, dom, base>> /\ journal' = None /\ Quit(p, "success")
    BY Zenon DEF Finish, At, outside
<1>2. llock = p
    BY <1>1, WorkGiven DEF Held, Creating
<1>3. Moves(p) /\ WorkOK(p)' /\ llock' = None
    BY <1>1, QuitWorks DEF Held, Creating
<1>4. LabGoesOn
    BY <1>1, <1>3, FinishGoesOn
<1> QED
    BY <1>1, <1>2, <1>3, <1>4 DEF Works

LEMMA RollbackWorks ==
    ASSUME IInv, NEW p \in Procs, Rollback(p)
    PROVE  Works(p) /\ UNCHANGED <<images, trust, hung>>
<1>1. pc[p] \in Creating /\ UNCHANGED <<images, trust, hung>> /\ UNCHANGED trust
      /\ UNCHANGED <<view, record, dom, base>> /\ llock' = llock /\ Proceed(p, "undo")
      /\ (journal' = journal \/ (pc[p] = "finish" /\ journal' = None))
    BY Zenon DEF Rollback, At, outside
<1>2. llock = p /\ pc[p] \notin Looking
    BY <1>1, WorkGiven DEF Held, Creating, Looking
<1>3. Moves(p) /\ pc'[p] = "undo"
    BY <1>1, <1>2, ProceedWorks DEF Cleared, Undoing
<1>4. WorkOK(p)'
    BY <1>1, <1>2, <1>3, UndoingWorks DEF Undoing
<1>5. LabGoesOn
    BY <1>1, <1>2, LabSame, FinishGoesOn
<1> QED
    BY <1>1, <1>2, <1>3, <1>4, <1>5 DEF Works

-----------------------------------------------------------------------------

(* The changes of a lab that exists.  First how they begin. *)
LEMMA TakeLabStep ==
    ASSUME IInv, NEW p \in Procs, TakeLab(p), UNCHANGED <<images, trust>>, CountType'
    PROVE  IInv'
<1>1. /\ UNCHANGED <<view, record, journal, dom, base>> /\ hung' = hung /\ UNCHANGED trust
      /\ pc[p] \in {"lock", "lab_lock"}
      /\ \/ llock = None /\ llock' = p /\ pc[p] = "lock" /\ Proceed(p, "pending")
         \/ llock = None /\ llock' = p /\ Proceed(p, "opened")
         \/ Leave(p, "locked") /\ llock' = llock
    BY Zenon DEF TakeLab, At, seen, lab
<1>2. pc[p] \notin Looking
    BY <1>1 DEF Looking
<1>3. ASSUME Moves(p), WorkOK(p)', llock = None, llock' = p PROVE IInv'
    <2>1. Works(p)
        BY <1>1, <1>3, LabSame DEF Works
    <2> QED
        BY <1>1, <2>1, WorkStep
<1>4. CASE llock = None /\ llock' = p /\ pc[p] = "lock" /\ Proceed(p, "pending")
    <2>1. Moves(p) /\ pc'[p] = "pending"
        BY <1>2, <1>4, ProceedWorks DEF Cleared
    <2>2. WorkOK(p)'
        BY <1>4, <2>1 DEF WorkOK, Altering, Creating, Reworking
    <2> QED
        BY <1>3, <1>4, <2>1, <2>2
<1>5. CASE llock = None /\ llock' = p /\ Proceed(p, "opened")
    <2>1. Moves(p) /\ pc'[p] = "opened"
        BY <1>2, <1>5, ProceedWorks DEF Cleared
    <2> QED
        BY <1>3, <1>5, <2>1, UndoingWorks
<1>6. CASE Leave(p, "locked") /\ llock' = llock
    <2>1. Quiet(p)
        BY <1>2, <1>6, LeaveMoved, StoresKept DEF Quiet
    <2> QED
        BY <1>1, <1>6, <2>1, QuietStep DEF seen, lab
<1> QED
    BY <1>1, <1>4, <1>5, <1>6

LEMMA RefuseWorks ==
    ASSUME IInv, NEW p \in Procs, Refuse(p), UNCHANGED <<images, trust>>
    PROVE  Works(p) /\ hung' = hung
<1>1. /\ UNCHANGED <<view, record, journal, dom, base>> /\ hung' = hung /\ UNCHANGED trust
      /\ pc[p] = "opened" /\ \E e : Quit(p, e)
    BY Zenon DEF Refuse, At, seen, lab
<1>2. Moves(p) /\ WorkOK(p)' /\ llock' = None /\ llock = p
    BY <1>1, QuitWorks, WorkGiven DEF Held
<1> QED
    BY <1>1, <1>2, LabSame DEF Works

(* One that begins with its journal and its VMs. *)
LEMMA StartAltering ==
    ASSUME IInv, NEW p \in Procs, pc[p] = "opened", record # None, ~Pending("create"),
           NEW w \in Altering, NEW some \in SUBSET VM, Start(p, some, w),
           NEW operation \in {"remove", "remove-vm", "reset"}, NEW those \in SUBSET VM,
           journal' = Journal(operation, those) \/ (UNCHANGED journal),
           UNCHANGED <<view, record, dom, base>>, UNCHANGED <<images, trust>>,
           Pending("reset")' => record.vms = VM,
           w \in Reworking \/ (w = "shut" /\ op[p] = "reset") => record.vms = VM
    PROVE  Works(p)
<1>1. LabType /\ llock = p /\ pc[p] \notin Looking /\ UNCHANGED trust
    BY WorkGiven DEF Held, Looking
<1>2. Moves(p) /\ pc'[p] = w /\ llock' = llock
    BY <1>1, StartWorks
<1>3. journal' \in Journals \union {None} /\ ~Pending("create")'
    <2>1. CASE journal' = Journal(operation, those)
        BY <2>1 DEF Journal, Journals, Pending
    <2>2. CASE UNCHANGED journal
        BY <1>1, <2>2 DEF LabType, Pending
    <2> QED
        BY <2>1, <2>2
<1>4. LabGoesOn /\ record' # None /\ record'.vms = record.vms
    BY <1>1, <1>2, <1>3, LabAltered DEF LabType
<1>5. WorkOK(p)'
    BY <1>1, <1>2, <1>3, <1>4, AlteringWorks DEF Moves
<1> QED
    BY <1>1, <1>2, <1>4, <1>5 DEF Works

LEMMA OpenRemoveWorks ==
    ASSUME IInv, NEW p \in Procs, OpenRemove(p), UNCHANGED <<images, trust>>
    PROVE  Works(p) /\ hung' = hung
<1>1. /\ UNCHANGED <<view, record, dom, base>> /\ hung' = hung /\ UNCHANGED trust
      /\ pc[p] = "opened" /\ op[p] = "remove"
      /\ \/ Pending("create") /\ ~Uncommitted /\ journal' = None /\ UNCHANGED command /\ llock' = llock
         \/ Proceed(p, "undo") /\ UNCHANGED <<journal, llock>>
         \/ record = None /\ journal' = None /\ Quit(p, "success")
         \/ /\ (journal = None \/ Pending("remove")) /\ record # None
            /\ journal' = Journal("remove", VM) /\ Start(p, VM, "shut")
    BY Zenon DEF OpenRemove, At
<1>2. LabType /\ llock = p /\ pc[p] \notin Looking
    BY <1>1, WorkGiven DEF Held, Looking
<1>3. CASE Pending("create") /\ ~Uncommitted /\ journal' = None /\ UNCHANGED command /\ llock' = llock
    <2>1. Moves(p) /\ pc'[p] = "opened"
        BY <1>1, <1>2, <1>3, StayWorks
    <2>2. WorkOK(p)'
        BY <1>2, <1>3, <2>1, UndoingWorks
    <2>3. LabGoesOn
        BY <1>1, <1>2, <1>3, JournalDropped
    <2> QED
        BY <1>1, <1>2, <2>1, <2>2, <2>3 DEF Works
<1>4. CASE Proceed(p, "undo") /\ UNCHANGED <<journal, llock>>
    <2>1. Moves(p) /\ pc'[p] = "undo"
        BY <1>2, <1>4, ProceedWorks DEF Undoing, Cleared
    <2>2. WorkOK(p)'
        BY <1>2, <1>4, <2>1, UndoingWorks DEF Undoing
    <2> QED
        BY <1>1, <1>2, <1>4, <2>1, <2>2, LabSame DEF Works
<1>5. CASE record = None /\ journal' = None /\ Quit(p, "success")
    <2>1. Moves(p) /\ WorkOK(p)' /\ llock' = None
        BY <1>1, <1>5, QuitWorks DEF Held
    <2>2. LabGoesOn
        BY <1>1, <1>2, <1>5, <2>1, LabNone DEF LabType
    <2> QED
        BY <1>1, <1>2, <2>1, <2>2 DEF Works
<1>6. CASE /\ (journal = None \/ Pending("remove")) /\ record # None
           /\ journal' = Journal("remove", VM) /\ Start(p, VM, "shut")
    <2>1. ~Pending("create") /\ ~Pending("reset")' /\ "shut" \in Altering /\ "shut" \notin Reworking
        BY <1>6 DEF Pending, Journal, Altering, Reworking
    <2> QED
        BY <1>1, <1>6, <2>1, StartAltering
<1> QED
    BY <1>1, <1>3, <1>4, <1>5, <1>6

LEMMA OpenVmWorks ==
    ASSUME IInv, NEW p \in Procs, OpenVm(p), UNCHANGED <<images, trust>>
    PROVE  Works(p) /\ hung' = hung
<1>1. /\ UNCHANGED <<view, record, dom, base>> /\ hung' = hung
      /\ pc[p] = "opened" /\ op[p] = "remove-vm" /\ record # None
      /\ \E v \in record.vms :
           /\ journal \in {None, Journal("remove-vm", {v})}
           /\ journal' = Journal("remove-vm", {v}) /\ Start(p, {v}, "shut")
    BY Zenon DEF OpenVm, At
<1>2. PICK v \in record.vms :
        /\ journal \in {None, Journal("remove-vm", {v})}
        /\ journal' = Journal("remove-vm", {v}) /\ Start(p, {v}, "shut")
    BY <1>1, Zenon
<1>3. {v} \in SUBSET VM
    BY <1>1, <1>2, WorkGiven DEF LabType, Records
<1>4. ~Pending("create") /\ ~Pending("reset")' /\ "shut" \in Altering /\ "shut" \notin Reworking
    BY <1>2 DEF Pending, Journal, Altering, Reworking
<1>5. Works(p)
    BY <1>1, <1>2, <1>3, <1>4, StartAltering
<1> QED
    BY <1>1, <1>5

LEMMA OpenResetWorks ==
    ASSUME IInv, NEW p \in Procs, OpenReset(p), UNCHANGED <<images, trust>>
    PROVE  Works(p) /\ hung' = hung
<1>1. /\ UNCHANGED <<view, record, dom, base>> /\ hung' = hung /\ UNCHANGED trust
      /\ pc[p] = "opened" /\ op[p] = "reset" /\ record # None
      /\ \/ Pending("reset") /\ Start(p, journal.vms, "restore") /\ UNCHANGED journal
         \/ Pending("reset") /\ journal' = None /\ Quit(p, "success")
         \/ /\ journal = None
            /\ \E some \in Selections :
                 /\ some # {} /\ \A v \in some : dom[v] \in {"on", "off"}
                 /\ journal' = Journal("reset", some) /\ Start(p, some, "shut")
    BY Zenon DEF OpenReset, At
<1>2. LabType /\ llock = p /\ InvLab
    BY <1>1, WorkGiven DEF Held
<1>3. CASE Pending("reset") /\ Start(p, journal.vms, "restore") /\ UNCHANGED journal
    <2>1. record.vms = VM /\ ~Pending("create") /\ journal.vms \in SUBSET VM
        BY <1>1, <1>2, <1>3 DEF InvLab, Pending, LabType, Journals
    <2>2. "restore" \in Altering
        BY DEF Altering
    <2> QED
        BY <1>1, <1>3, <2>1, <2>2, StartAltering
<1>4. CASE Pending("reset") /\ journal' = None /\ Quit(p, "success")
    <2>1. Moves(p) /\ WorkOK(p)' /\ llock' = None
        BY <1>1, <1>4, QuitWorks DEF Held
    <2>2. ~Pending("create") /\ ~Pending("reset")'
        BY <1>4 DEF Pending
    <2>3. LabGoesOn
        BY <1>1, <1>2, <1>4, <2>1, <2>2, LabAltered DEF LabType
    <2> QED
        BY <1>1, <1>2, <2>1, <2>3 DEF Works
<1>5. CASE /\ journal = None
           /\ \E some \in Selections :
                /\ some # {} /\ \A v \in some : dom[v] \in {"on", "off"}
                /\ journal' = Journal("reset", some) /\ Start(p, some, "shut")
    <2>1. PICK some \in Selections :
            /\ some # {} /\ \A v \in some : dom[v] \in {"on", "off"}
            /\ journal' = Journal("reset", some) /\ Start(p, some, "shut")
        BY <1>5, Zenon
    <2>2. some \in SUBSET VM /\ ~Dead
        BY <2>1, SelectionsAssumption DEF Dead
    <2>3. ~Pending("create") /\ record.vms = VM /\ "shut" \in Altering
        BY <1>1, <1>2, <1>5, <2>2 DEF InvLab, Pending, Altering
    <2> QED
        BY <1>1, <2>1, <2>2, <2>3, StartAltering
<1> QED
    BY <1>1, <1>3, <1>4, <1>5

LEMMA OpenPowerWorks ==
    ASSUME IInv, NEW p \in Procs, OpenPower(p), UNCHANGED <<images, trust>>
    PROVE  Works(p) /\ hung' = hung
<1>1. /\ UNCHANGED <<view, record, journal, dom, base>> /\ hung' = hung
      /\ pc[p] = "opened" /\ op[p] = "power" /\ record # None /\ journal = None
      /\ \E some \in Selections : \E w \in {"switch_on", "switch_off"} : Start(p, some, w)
    BY Zenon DEF OpenPower, At, seen, lab
<1>2. PICK some \in Selections, w \in {"switch_on", "switch_off"} : Start(p, some, w)
    BY <1>1
<1>3. some \in SUBSET VM /\ ~Pending("create") /\ ~Pending("reset")' /\ w \in Altering /\ w \notin Reworking
    BY <1>1, <1>2, SelectionsAssumption DEF Pending, Altering, Reworking
<1>4. Works(p)
    BY <1>1, <1>2, <1>3, StartAltering
<1> QED
    BY <1>1, <1>4

-----------------------------------------------------------------------------

(* lab rm, and a creation that is taken back. *)
LEMMA TakeDownWorks ==
    ASSUME IInv, NEW p \in Procs, TakeDown(p) \/ TakeStorage(p), UNCHANGED <<images, trust>>
    PROVE  Works(p) /\ hung' = hung
<1>1. /\ UNCHANGED <<view, record, journal, llock>> /\ hung' = hung /\ UNCHANGED trust
      /\ pc[p] \in Undoing /\ UNCHANGED command
    BY DEF TakeDown, TakeStorage, Undoing, seen, lab
<1>2. LabType /\ llock = p /\ InvLab /\ pc[p] \notin Looking
    BY <1>1, WorkGiven DEF Held, Undoing, Looking
<1>3. dom' \in Domains /\ base' \in {None, "good"} /\ ~Dead
    <2>1. CASE TakeDown(p)
        <3>1. base' = base /\ \E v \in VM, to \in {"off", "absent"} : dom[v] # "absent" /\ Turn(v, to)
            BY <2>1 DEF TakeDown
        <3> QED
            BY <1>2, <3>1, TurnIsDomain DEF LabType, Dead
    <2>2. CASE TakeStorage(p)
        BY <1>2, <2>2 DEF TakeStorage, LabType, Dead, seen, lab
    <2> QED
        BY <2>1, <2>2
<1>4. LabGoesOn
    <2>1. CASE record = None
        BY <1>1, <1>2, <1>3, <2>1, LabNone DEF LabType
    <2>2. CASE record # None
        <3>1. SameRecord /\ (\A operation : Pending(operation)' <=> Pending(operation))
            BY <1>1, <1>2, <2>2 DEF SameRecord, LabType, Pending
        <3>2. /\ record'.status = "provisioning" => Pending("create")'
              /\ record'.vms # VM => Pending("create")' /\ record'.status \in {"provisioning", "failed_cleanup"}
              /\ Pending("reset")' => record'.vms = VM
            BY <1>1, <1>2, <1>3, <2>2, <3>1 DEF InvLab
        <3>3. journal' \in Journals \union {None} /\ llock' \in Procs \union {None}
            BY <1>1, <1>2 DEF LabType
        <3> QED
            BY <1>1, <1>3, <2>2, <3>1, <3>2, <3>3, LabSome
    <2> QED
        BY <2>1, <2>2
<1>5. Moves(p) /\ pc'[p] = pc[p]
    BY <1>1, <1>2, StayWorks
<1>6. WorkOK(p)'
    BY <1>1, <1>2, <1>5, UndoingWorks
<1> QED
    BY <1>1, <1>2, <1>4, <1>5, <1>6 DEF Works

LEMMA TakeRecordWorks ==
    ASSUME IInv, NEW p \in Procs, TakeRecord(p), UNCHANGED <<images, trust>>
    PROVE  Works(p) /\ hung' = hung
<1>1. /\ UNCHANGED <<journal, dom, base, llock>> /\ hung' = hung /\ record' = None /\ InstanceGone
      /\ pc[p] \in Undoing /\ UNCHANGED command
    BY DEF TakeRecord, Undoing
<1>2. LabType /\ llock = p /\ pc[p] \notin Looking
    BY <1>1, WorkGiven DEF Held, Undoing, Looking
<1>3. LabGoesOn
    BY <1>1, <1>2, LabNone DEF LabType
<1>4. Moves(p) /\ pc'[p] = pc[p]
    BY <1>1, <1>2, StayWorks
<1>5. WorkOK(p)'
    BY <1>1, <1>2, <1>4, UndoingWorks
<1> QED
    BY <1>1, <1>2, <1>3, <1>4, <1>5 DEF Works

LEMMA TakeJournalWorks ==
    ASSUME IInv, NEW p \in Procs, TakeJournal(p), UNCHANGED <<images, trust>>
    PROVE  Works(p) /\ hung' = hung
<1>1. /\ UNCHANGED <<view, record, dom, base>> /\ hung' = hung /\ record = None /\ journal' = None
      /\ pc[p] \in Undoing
      /\ \/ pc[p] = "recover" /\ Proceed(p, "absent") /\ llock' = llock
         \/ \E e : Quit(p, e)
    BY Zenon DEF TakeJournal, Undoing, At
<1>2. LabType /\ llock = p /\ pc[p] \notin Looking
    BY <1>1, WorkGiven DEF Held, Undoing, Looking
<1>3. ASSUME llock' \in Procs \union {None} PROVE LabGoesOn
    BY <1>1, <1>2, <1>3, LabNone DEF LabType
<1>4. CASE pc[p] = "recover" /\ Proceed(p, "absent") /\ llock' = llock
    <2>1. Moves(p) /\ pc'[p] = "absent"
        BY <1>2, <1>4, ProceedWorks DEF Cleared
    <2>2. WorkOK(p)'
        BY <1>1, <1>2, <1>4, <2>1 DEF WorkOK, Altering, Creating, Reworking
    <2> QED
        BY <1>1, <1>2, <1>3, <1>4, <2>1, <2>2 DEF Works
<1>5. CASE \E e : Quit(p, e)
    <2>1. Moves(p) /\ WorkOK(p)' /\ llock' = None
        BY <1>1, <1>5, QuitWorks DEF Held
    <2> QED
        BY <1>1, <1>2, <1>3, <2>1 DEF Works
<1> QED
    BY <1>1, <1>4, <1>5

LEMMA GiveUpWorks ==
    ASSUME IInv, NEW p \in Procs, GiveUp(p), UNCHANGED <<images, trust>>
    PROVE  Works(p) /\ hung' = hung
<1>1. /\ UNCHANGED <<view, dom, base>> /\ hung' = hung /\ UNCHANGED trust /\ pc[p] \in Undoing
      /\ Quit(p, "operation")
      /\ \/ UNCHANGED <<record, journal>>
         \/ record # None /\ Marked("failed_cleanup") /\ journal' = journal
         \/ record # None /\ Gone /\ base = None /\ Marked("failed_cleanup") /\ journal' = None
    BY Zenon DEF GiveUp, Undoing, At
<1>2. LabType /\ llock = p /\ InvLab
    BY <1>1, WorkGiven DEF Held, Undoing
<1>3. Moves(p) /\ WorkOK(p)' /\ llock' = None
    BY <1>1, QuitWorks DEF Held
<1>4. CASE UNCHANGED <<record, journal>>
    BY <1>1, <1>2, <1>3, <1>4, LabSame DEF Works
<1>5. CASE record # None /\ Marked("failed_cleanup") /\ journal' = journal
    <2>1. /\ SameRecord /\ record' # None /\ record'.vms = record.vms
          /\ record'.status = "failed_cleanup"
        BY <1>5, StatusMarked DEF Marked, Statuses
    <2>2. \A operation : Pending(operation)' <=> Pending(operation)
        BY <1>5 DEF Pending
    <2>3. Dead => Dead'
        BY <1>1, <2>1 DEF Dead
    <2>4. /\ record'.vms # VM => \/ Pending("create")' /\ record'.status \in {"provisioning", "failed_cleanup"}
                                 \/ Dead'
          /\ Pending("reset")' => record'.vms = VM
        BY <1>2, <1>5, <2>1, <2>2, <2>3 DEF InvLab
    <2>5. LabGoesOn
        BY <1>1, <1>2, <1>3, <1>5, <2>1, <2>2, <2>3, <2>4, LabSome DEF LabType
    <2> QED
        BY <1>1, <1>2, <1>3, <2>5 DEF Works
<1>6. CASE record # None /\ Gone /\ base = None /\ Marked("failed_cleanup") /\ journal' = None
    <2>1. /\ SameRecord /\ record' # None /\ record'.vms = record.vms
          /\ record'.status = "failed_cleanup"
        BY <1>6, StatusMarked DEF Marked, Statuses
    <2>2. ~Pending("reset")'
        BY <1>6 DEF Pending
    <2>3. /\ record'.vms # VM => Dead'
          /\ Dead => Dead'
        BY <1>1, <1>6, <2>1 DEF Dead, Gone
    <2>4. LabGoesOn
        BY <1>1, <1>2, <1>3, <1>6, <2>1, <2>2, <2>3, LabSome DEF LabType
    <2> QED
        BY <1>1, <1>2, <1>3, <2>4 DEF Works
<1> QED
    BY <1>1, <1>4, <1>5, <1>6

-----------------------------------------------------------------------------

(* The VMs of a lab that is altered are worked on one after the other.  Each of
   these steps turns at most one domain, which is not absent of a lab that might
   be dead, marks the record or not, and keeps or drops the journal. *)
Alters(p) ==
    /\ pc[p] \in Altering
    /\ UNCHANGED <<view, base>> /\ hung' = hung
    /\ UNCHANGED record \/ \E s \in Marks : Marked(s)
    /\ journal' \in {None, journal}
    /\ \/ UNCHANGED dom
       \/ \E v \in VM, to \in {"absent", "bare", "on", "off"} :
            Turn(v, to) /\ (dom[v] # "absent" \/ pc[p] \in Reworking)

LEMMA AltersGoesOn ==
    ASSUME IInv, NEW p \in Procs, Alters(p), UNCHANGED <<images, trust>>,
           llock' \in Procs \union {None}
    PROVE  /\ LabGoesOn /\ record' # None /\ ~Pending("create")' /\ record'.vms = record.vms
           /\ llock = p /\ WorkOK(p) /\ pc[p] \notin Looking
<1>1. WorkOK(p) /\ LabType /\ InvLab /\ UNCHANGED trust /\ pc[p] \in Altering
    BY WorkGiven DEF Alters
<1>2. llock = p /\ record # None /\ ~Pending("create") /\ pc[p] \notin Looking
      /\ (pc[p] \in Reworking => record.vms = VM)
    BY <1>1, WorkGiven DEF WorkOK, Held, Altering, Looking
<1>3. dom' \in Domains /\ (Dead => dom' = dom)
    <2>1. CASE UNCHANGED dom
        BY <1>1, <2>1 DEF LabType
    <2>2. ASSUME NEW v \in VM, NEW to \in {"absent", "bare", "on", "off"}, Turn(v, to),
                 dom[v] # "absent" \/ pc[p] \in Reworking
          PROVE  dom' \in Domains /\ ~Dead
        BY <1>2, <2>2, TurnIsDomain DEF Dead
    <2> QED
        BY <2>1, <2>2 DEF Alters
<1>4. /\ journal' \in Journals \union {None} /\ ~Pending("create")'
      /\ Pending("reset")' => record.vms = VM
    BY <1>1, <1>2 DEF Alters, LabType, Pending, InvLab
<1>5. /\ UNCHANGED <<view, base>>
      /\ UNCHANGED record \/ \E s \in Marks : Marked(s)
    BY DEF Alters
<1> QED
    BY <1>1, <1>2, <1>3, <1>4, <1>5, LabAltered

(* One that goes on to alter it, and one that ends. *)
LEMMA AltersWorks ==
    ASSUME IInv, NEW p \in Procs, Alters(p), UNCHANGED <<images, trust>>, llock' = llock,
           Moves(p), pc'[p] \in Altering,
           pc'[p] \in Reworking => pc[p] \in Reworking \/ (pc[p] = "shut" /\ op[p] = "reset"),
           pc'[p] = "shut" => pc[p] = "shut"
    PROVE  Works(p) /\ hung' = hung
<1>1. llock' \in Procs \union {None}
    BY WorkGiven DEF LabType
<1>2. /\ LabGoesOn /\ record' # None /\ ~Pending("create")' /\ record'.vms = record.vms
      /\ llock = p /\ WorkOK(p)
    BY <1>1, AltersGoesOn
<1>3. pc'[p] \in Reworking \/ (pc'[p] = "shut" /\ op'[p] = "reset") => record'.vms = VM
    BY <1>2 DEF WorkOK, Moves
<1>4. WorkOK(p)'
    BY <1>2, <1>3, AlteringWorks
<1> QED
    BY <1>2, <1>4 DEF Works, Alters

LEMMA AltersLast ==
    ASSUME IInv, NEW p \in Procs, Alters(p), UNCHANGED <<images, trust>>, NEW e, Quit(p, e)
    PROVE  Works(p) /\ hung' = hung
<1>1. Moves(p) /\ WorkOK(p)' /\ llock' = None
    BY QuitWorks DEF Held, Alters
<1>2. LabGoesOn /\ llock = p
    BY <1>1, AltersGoesOn
<1> QED
    BY <1>1, <1>2 DEF Works, Alters

(* Where such a step leaves the command. *)
LEMMA AltersStay ==
    ASSUME IInv, NEW p \in Procs, Alters(p), UNCHANGED <<images, trust>>, UNCHANGED command, llock' = llock
    PROVE  Works(p) /\ hung' = hung
<1>1. pc[p] \notin Looking /\ pc[p] \in Altering
    BY HeldNotLooking DEF Alters, Held
<1>2. Moves(p) /\ pc'[p] = pc[p]
    BY <1>1, StayWorks
<1> QED
    BY <1>1, <1>2, AltersWorks

LEMMA AltersProceed ==
    ASSUME IInv, NEW p \in Procs, Alters(p), UNCHANGED <<images, trust>>, llock' = llock,
           NEW w \in Altering, Proceed(p, w), w # "shut",
           w \in Reworking => pc[p] \in Reworking \/ (pc[p] = "shut" /\ op[p] = "reset")
    PROVE  Works(p) /\ hung' = hung
<1>1. pc[p] \notin Looking /\ w \notin Cleared
    BY HeldNotLooking DEF Alters, Held, Altering, Cleared
<1>2. Moves(p) /\ pc'[p] = w
    BY <1>1, ProceedWorks
<1> QED
    BY <1>2, AltersWorks

LEMMA AltersLeft ==
    ASSUME IInv, NEW p \in Procs, Alters(p), UNCHANGED <<images, trust>>, llock' = llock,
           NEW w \in Altering, Goto(p, w), NEW some, KeepTodo(p, some),
           some = loc[p].chosen \/ \E v : some = loc[p].todo \ {v}, w # "shut",
           w \in Reworking => pc[p] \in Reworking \/ (pc[p] = "shut" /\ op[p] = "reset")
    PROVE  Works(p) /\ hung' = hung
<1>1. pc[p] \notin Looking
    BY HeldNotLooking DEF Alters, Held
<1>2. some \in SUBSET VM
    BY WorkGiven DEF Locals
<1>3. Moves(p) /\ pc'[p] = w
    BY <1>1, <1>2, LeftWorks
<1> QED
    BY <1>3, AltersWorks

-----------------------------------------------------------------------------

LEMMA ShutWorks ==
    ASSUME IInv, NEW p \in Procs, Shut(p), UNCHANGED <<images, trust>>
    PROVE  Works(p) /\ hung' = hung
<1>1. /\ UNCHANGED <<view, base, journal>> /\ hung' = hung /\ llock' = llock /\ pc[p] = "shut"
      /\ \/ \E v \in Hindmost({w \in loc[p].todo : dom[w] = "on"}) :
              Turn(v, "off") /\ UNCHANGED <<command, record>>
         \/ UNCHANGED dom /\ UNCHANGED record /\ Proceed(p, "undo")
         \/ UNCHANGED dom /\ (\E s \in Lowered : Marked(s)) /\ Proceed(p, "undo")
         \/ UNCHANGED dom /\ UNCHANGED record /\ Proceed(p, "drop")
         \/ UNCHANGED dom /\ (\E s \in Lowered : Marked(s)) /\ Proceed(p, "renew") /\ op[p] = "reset"
    BY Zenon DEF Shut, At
<1>2. loc[p].todo \subseteq VM
    BY WorkGiven DEF Locals
<1>3. Lowered \subseteq Marks /\ {"shut", "drop", "renew"} \subseteq Altering
    BY DEF Lowered, Marks, Switched, Altering
<1>4. CASE \E v \in Hindmost({w \in loc[p].todo : dom[w] = "on"}) :
              Turn(v, "off") /\ UNCHANGED <<command, record>>
    <2>1. \E v \in VM : Turn(v, "off") /\ dom[v] # "absent"
        BY <1>2, <1>4 DEF Hindmost
    <2>2. Alters(p)
        BY <1>1, <1>3, <1>4, <2>1 DEF Alters
    <2> QED
        BY <1>1, <1>4, <2>2, AltersStay
<1>5. CASE UNCHANGED dom /\ (UNCHANGED record \/ \E s \in Lowered : Marked(s)) /\ Proceed(p, "undo")
    <2>1. Alters(p)
        BY <1>1, <1>3, <1>5 DEF Alters
    <2>2. LabGoesOn /\ llock = p /\ pc[p] \notin Looking
        BY <1>1, <2>1, AltersGoesOn, WorkGiven DEF LabType
    <2>3. Moves(p) /\ pc'[p] = "undo"
        BY <1>5, <2>2, ProceedWorks DEF Undoing, Cleared
    <2>4. WorkOK(p)'
        BY <1>1, <2>2, <2>3, UndoingWorks DEF Undoing
    <2> QED
        BY <1>1, <2>2, <2>3, <2>4 DEF Works
<1>6. CASE UNCHANGED dom /\ UNCHANGED record /\ Proceed(p, "drop")
    <2>1. Alters(p)
        BY <1>1, <1>3, <1>6 DEF Alters
    <2> QED
        BY <1>1, <1>3, <1>6, <2>1, AltersProceed DEF Reworking
<1>7. CASE UNCHANGED dom /\ (\E s \in Lowered : Marked(s)) /\ Proceed(p, "renew") /\ op[p] = "reset"
    <2>1. Alters(p)
        BY <1>1, <1>3, <1>7 DEF Alters
    <2> QED
        BY <1>1, <1>3, <1>7, <2>1, AltersProceed
<1> QED
    BY <1>1, <1>4, <1>5, <1>6, <1>7

LEMMA DropWorks ==
    ASSUME IInv, NEW p \in Procs, Drop(p), UNCHANGED <<images, trust>>
    PROVE  Works(p) /\ hung' = hung
<1>1. /\ UNCHANGED <<view, base, journal>> /\ hung' = hung /\ llock' = llock /\ pc[p] = "drop"
      /\ \/ \E v \in loc[p].chosen : dom[v] = "off" /\ Turn(v, "absent") /\ UNCHANGED <<command, record>>
         \/ Marked("degraded") /\ Proceed(p, "dropped") /\ UNCHANGED dom
    BY Zenon DEF Drop, At
<1>2. loc[p].chosen \subseteq VM
    BY WorkGiven DEF Locals
<1>3. "degraded" \in Marks /\ {"drop", "dropped"} \subseteq Altering
    BY DEF Lowered, Marks, Switched, Altering
<1>4. Alters(p)
    BY <1>1, <1>2, <1>3 DEF Alters
<1>5. CASE UNCHANGED command
    BY <1>1, <1>4, <1>5, AltersStay
<1>6. CASE Proceed(p, "dropped")
    BY <1>1, <1>3, <1>4, <1>6, AltersProceed DEF Reworking
<1> QED
    BY <1>1, <1>5, <1>6

LEMMA DroppedWorks ==
    ASSUME IInv, NEW p \in Procs, Dropped(p), UNCHANGED <<images, trust>>
    PROVE  Works(p) /\ hung' = hung
<1>1. Alters(p)
    BY DEF Dropped, Alters, At, Altering, Marks
<1>2. \E e : Quit(p, e)
    BY Zenon DEF Dropped
<1> QED
    BY <1>1, <1>2, AltersLast

LEMMA SwitchWorks ==
    ASSUME IInv, NEW p \in Procs, Switch(p), UNCHANGED <<images, trust>>
    PROVE  Works(p) /\ hung' = hung
<1>1. /\ UNCHANGED <<view, base, journal, record>> /\ hung' = hung /\ llock' = llock
      /\ pc[p] \in {"switch_on", "switch_off"}
      /\ \/ \E v \in Foremost(loc[p].todo) \union Hindmost(loc[p].todo), to \in {"on", "off"} :
              /\ dom[v] \in {"on", "off"} /\ Turn(v, to)
              /\ KeepTodo(p, loc[p].todo \ {v}) /\ Goto(p, pc[p])
         \/ Goto(p, "back") /\ KeepTodo(p, loc[p].chosen) /\ UNCHANGED dom
    <2>1. Switch(p)
        OBVIOUS
    <2> QED
        BY <2>1, SMT DEF Switch, At
<1>2. Foremost(loc[p].todo) \union Hindmost(loc[p].todo) \subseteq VM
    BY WorkGiven DEF Locals, Foremost, Hindmost
<1>3. {"switch_on", "switch_off", "back"} \subseteq Altering
    BY DEF Altering
<1>4. Alters(p)
    BY <1>1, <1>2, <1>3 DEF Alters
<1>5. CASE \E v \in Foremost(loc[p].todo) \union Hindmost(loc[p].todo) :
              KeepTodo(p, loc[p].todo \ {v}) /\ Goto(p, pc[p])
    BY <1>1, <1>3, <1>4, <1>5, AltersLeft DEF Reworking
<1>6. CASE Goto(p, "back") /\ KeepTodo(p, loc[p].chosen)
    BY <1>1, <1>3, <1>4, <1>6, AltersLeft DEF Reworking
<1> QED
    BY <1>1, <1>5, <1>6

LEMMA SwitchedAllWorks ==
    ASSUME IInv, NEW p \in Procs, SwitchedAll(p), UNCHANGED <<images, trust>>
    PROVE  Works(p) /\ hung' = hung
<1>1. /\ UNCHANGED <<view, base, journal, dom>> /\ hung' = hung
      /\ pc[p] \in {"switch_on", "switch_off"}
      /\ \/ (\E s \in Marks : Marked(s)) /\ Quit(p, "success")
         \/ Goto(p, "switch_on") /\ KeepTodo(p, loc[p].chosen) /\ UNCHANGED record /\ llock' = llock
    BY Zenon DEF SwitchedAll, At
<1>2. {"switch_on", "switch_off"} \subseteq Altering
    BY DEF Altering
<1>3. Alters(p)
    BY <1>1, <1>2 DEF Alters
<1>4. CASE Quit(p, "success")
    BY <1>3, <1>4, AltersLast
<1>5. CASE Goto(p, "switch_on") /\ KeepTodo(p, loc[p].chosen) /\ llock' = llock
    BY <1>1, <1>2, <1>3, <1>5, AltersLeft DEF Reworking
<1> QED
    BY <1>1, <1>4, <1>5

LEMMA ReworkWorks ==
    ASSUME IInv, NEW p \in Procs, Rework(p), UNCHANGED <<images, trust>>
    PROVE  Works(p) /\ hung' = hung
<1>1. /\ UNCHANGED <<view, base, journal, record>> /\ hung' = hung /\ llock' = llock
      /\ pc[p] \in Reworking
      /\ \E v \in Foremost(loc[p].todo) \union Hindmost(loc[p].todo) :
           /\ UNCHANGED dom \/ \E to \in {"absent", "bare", "on", "off"} : Turn(v, to)
           /\ UNCHANGED command \/ (KeepTodo(p, loc[p].todo \ {v}) /\ Goto(p, pc[p]))
    <2>1. Rework(p)
        OBVIOUS
    <2> QED
        BY <2>1, SMT DEF Rework, At, Reworking
<1>2. Foremost(loc[p].todo) \union Hindmost(loc[p].todo) \subseteq VM
    BY WorkGiven DEF Locals, Foremost, Hindmost
<1>3. Reworking \subseteq Altering /\ "shut" \notin Reworking
    BY DEF Altering, Reworking
<1>4. Alters(p)
    BY <1>1, <1>2, <1>3 DEF Alters
<1>5. CASE UNCHANGED command
    BY <1>1, <1>4, <1>5, AltersStay
<1>6. CASE \E v : KeepTodo(p, loc[p].todo \ {v}) /\ Goto(p, pc[p])
    BY <1>1, <1>3, <1>4, <1>6, AltersLeft
<1> QED
    BY <1>1, <1>5, <1>6

LEMMA ReworkedWorks ==
    ASSUME IInv, NEW p \in Procs, Reworked(p), UNCHANGED <<images, trust>>
    PROVE  Works(p) /\ hung' = hung
<1>1. /\ UNCHANGED <<view, base, journal, dom>> /\ hung' = hung /\ llock' = llock
      /\ pc[p] \in Reworking /\ Goto(p, NextPhase[pc[p]]) /\ KeepTodo(p, loc[p].chosen)
      /\ UNCHANGED record \/ \E s \in Raised : Marked(s)
    BY DEF Reworked, Reworking
<1>2. /\ Reworking \subseteq Altering /\ Raised \subseteq Marks
      /\ NextPhase[pc[p]] \in {"settle", "revert", "resettle"}
    BY <1>1 DEF Altering, Reworking, Raised, Marks, Switched, NextPhase
<1>3. NextPhase[pc[p]] \in Altering /\ NextPhase[pc[p]] \notin Reworking /\ NextPhase[pc[p]] # "shut"
    BY <1>2 DEF Altering, Reworking
<1>4. Alters(p)
    BY <1>1, <1>2 DEF Alters
<1> QED
    BY <1>1, <1>3, <1>4, AltersLeft

LEMMA SettleWorks ==
    ASSUME IInv, NEW p \in Procs, Settle(p), UNCHANGED <<images, trust>>
    PROVE  Works(p) /\ hung' = hung
<1>1. Alters(p)
    BY DEF Settle, Alters, At, Altering
<1>2. Quit(p, "success")
    BY DEF Settle
<1> QED
    BY <1>1, <1>2, AltersLast

LEMMA RestoreWorks ==
    ASSUME IInv, NEW p \in Procs, Restore(p), UNCHANGED <<images, trust>>
    PROVE  Works(p) /\ hung' = hung
<1>1. /\ UNCHANGED <<view, base, journal, record>> /\ hung' = hung /\ llock' = llock
      /\ pc[p] \in Restoring
      /\ \E v \in Hindmost(loc[p].todo) :
           /\ UNCHANGED dom \/ (dom[v] \in {"on", "off"} /\ Turn(v, Other[dom[v]]))
           /\ KeepTodo(p, loc[p].todo \ {v}) /\ Goto(p, pc[p])
    BY Zenon DEF Restore
<1>2. Hindmost(loc[p].todo) \subseteq VM
    BY WorkGiven DEF Locals, Hindmost
<1>3. Restoring \subseteq Altering /\ \A w \in Restoring : w \notin Reworking /\ w # "shut"
    BY DEF Altering, Reworking, Restoring
<1>4. \A v \in VM : dom[v] \in {"on", "off"} => Other[dom[v]] \in {"on", "off"}
    BY DEF Other
<1>5. Alters(p)
    BY <1>1, <1>2, <1>3, <1>4 DEF Alters
<1> QED
    BY <1>1, <1>3, <1>5, AltersLeft

LEMMA RestoredWorks ==
    ASSUME IInv, NEW p \in Procs, Restored(p), UNCHANGED <<images, trust>>
    PROVE  Works(p) /\ hung' = hung
<1>1. /\ UNCHANGED <<view, base, dom>> /\ hung' = hung /\ pc[p] \in Restoring
      /\ \E s \in Switched : Marked(s)
      /\ \/ journal' = None /\ Proceed(p, "opened") /\ llock' = llock
         \/ Quit(p, "operation") /\ journal' = journal
    BY Zenon DEF Restored
<1>2. Restoring \subseteq Altering /\ Switched \subseteq Marks
    BY DEF Altering, Restoring, Marks
<1>3. Alters(p)
    BY <1>1, <1>2 DEF Alters
<1>4. CASE Proceed(p, "opened") /\ llock' = llock
    <2>1. LabGoesOn /\ llock = p /\ pc[p] \notin Looking
        BY <1>3, <1>4, AltersGoesOn, WorkGiven DEF LabType
    <2>2. Moves(p) /\ pc'[p] = "opened"
        BY <1>4, <2>1, ProceedWorks DEF Cleared
    <2>3. WorkOK(p)'
        BY <1>4, <2>1, <2>2, UndoingWorks
    <2> QED
        BY <1>1, <2>1, <2>2, <2>3 DEF Works
<1>5. CASE Quit(p, "operation")
    BY <1>3, <1>5, AltersLast
<1> QED
    BY <1>1, <1>4, <1>5

LEMMA FailChangeWorks ==
    ASSUME IInv, NEW p \in Procs, FailChange(p), UNCHANGED <<images, trust>>
    PROVE  Works(p) /\ hung' = hung
<1>1. /\ UNCHANGED <<view, base, journal, record, dom>> /\ hung' = hung /\ pc[p] \in Altering
      /\ \/ Goto(p, "back") /\ KeepTodo(p, loc[p].chosen) /\ llock' = llock
         \/ pc[p] = "renew" /\ Goto(p, "rollback") /\ KeepTodo(p, loc[p].chosen) /\ llock' = llock
         \/ Quit(p, "operation")
    BY DEF FailChange, At, Altering, Restoring, seen, lab
<1>2. Alters(p)
    BY <1>1 DEF Alters
<1>3. CASE Goto(p, "back") /\ KeepTodo(p, loc[p].chosen) /\ llock' = llock
    BY <1>2, <1>3, AltersLeft DEF Altering, Reworking
<1>4. CASE pc[p] = "renew" /\ Goto(p, "rollback") /\ KeepTodo(p, loc[p].chosen) /\ llock' = llock
    BY <1>2, <1>4, AltersLeft DEF Altering, Reworking
<1>5. CASE Quit(p, "operation")
    BY <1>2, <1>5, AltersLast
<1> QED
    BY <1>1, <1>3, <1>4, <1>5

-----------------------------------------------------------------------------

(* All steps of a creation, and of a change. *)
LEMMA CreateStepStep ==
    ASSUME IInv, NEW p \in Procs, CreateStep(p), CountType'
    PROVE  IInv'
<1>1. CASE Doctor(p)
    BY <1>1, DoctorQuiet, QuietStep
<1>2. ASSUME Works(p) /\ UNCHANGED <<images, trust, hung>> PROVE IInv'
    BY <1>2, WorkStep
<1>3. CASE Recover(p) \/ CheckAbsent(p) \/ PlanJournal(p) \/ PlanRecord(p) \/ NotPlanned(p)
    BY <1>2, <1>3, RecoverWorks, CheckAbsentWorks, PlanJournalWorks, PlanRecordWorks, NotPlannedWorks,
       Zenon
<1>4. CASE CopyBase(p) \/ PlanVm(p) \/ Install(p) \/ Own(p) \/ Await(p)
    BY <1>2, <1>4, CopyBaseWorks, PlanVmWorks, InstallWorks, AwaitWorks, Zenon
<1>5. CASE Commit(p) \/ Finish(p) \/ Rollback(p)
    BY <1>2, <1>5, CommitWorks, FinishWorks, RollbackWorks, Zenon
<1> QED
    BY <1>1, <1>3, <1>4, <1>5, Zenon DEF CreateStep

LEMMA ChangeStepStep ==
    ASSUME IInv, NEW p \in Procs, ChangeStep(p), UNCHANGED <<images, trust>>, CountType'
    PROVE  IInv'
<1>1. CASE TakeLab(p)
    BY <1>1, TakeLabStep
<1>2. CASE ~TakeLab(p)
    <2>1. Works(p) /\ hung' = hung
        BY <1>2, RefuseWorks, OpenRemoveWorks, OpenVmWorks, OpenResetWorks, OpenPowerWorks,
           ShutWorks, DropWorks, DroppedWorks, TakeDownWorks, TakeRecordWorks,
           TakeJournalWorks, GiveUpWorks, SwitchWorks, SwitchedAllWorks, ReworkWorks, ReworkedWorks,
           SettleWorks, RestoreWorks, RestoredWorks, FailChangeWorks, ZenonT(60) DEF ChangeStep
    <2> QED
        BY <2>1, WorkStep
<1> QED
    BY <1>1, <1>2

-----------------------------------------------------------------------------

(* The environment.  A command that is killed forgets what it knew, and its
   locks are free. *)
LEMMA KillStep ==
    ASSUME IInv, NEW p \in Procs, Kill(p), CountType'
    PROVE  IInv'
<1>1. /\ op' = [op EXCEPT ![p] = "none"] /\ pc' = [pc EXCEPT ![p] = "idle"]
      /\ Keep(p, Blank) /\ Look(p, NoView)
      /\ ilock' = (IF ilock = p THEN None ELSE ilock) /\ llock' = (IF llock = p THEN None ELSE llock)
      /\ UNCHANGED <<blob, ref, source, trust>> /\ UNCHANGED <<record, journal, dom, hung, base>>
      /\ UNCHANGED trust
    BY Zenon DEF Kill, seen, lab
<1>2. TypeOK
    BY DEF IInv
<1>3. ilock' \in Procs \union {None} /\ llock' \in Procs \union {None}
    BY <1>1, <1>2 DEF TypeOK, StoreType, LabType
<1>4. Grows /\ StoreType' /\ InvStore'
    BY <1>1, <1>3, StoreKept
<1>5. Only(p) /\ op'[p] = "none" /\ pc'[p] = "idle" /\ loc'[p] = Blank
    BY <1>1, <1>2, BlankType DEF TypeOK, CommandType, Keep, Only, Operations, Places
<1>6. view' \in [Procs -> Views] /\ view'[p] = NoView /\ \A q \in Procs \ {p} : view'[q] = view[q]
    BY <1>1, NoViewType, LookAt
<1>7. TypeOK'
    BY <1>1, <1>2, <1>3, <1>4, <1>5, <1>6 DEF TypeOK, Only, LabType, ViewType
<1>8. InvLocal'
    <2>1. LocalOK(p)'
        BY <1>5, BlankType DEF LocalOK, Stored, Importing, Asking, Snapped, Connected, Pulling, Cleared
    <2> QED
        BY <1>4, <1>5, <2>1, LocalKept DEF IInv
<1>9. InvWork'
    <2>1. ASSUME NEW q \in Procs, q # p PROVE WorkOK(q)'
        <3>1. WorkOK(q) /\ pc'[q] = pc[q] /\ op'[q] = op[q]
            BY <1>5, <2>1 DEF IInv, InvWork, Only
        <3>2. llock = q => llock' = q
            BY <1>1, <2>1
        <3> QED
            BY <1>1, <3>1, <3>2 DEF WorkOK, Pending
    <2>2. WorkOK(p)'
        BY <1>5 DEF WorkOK, Held, Creating, Undoing, Altering, Reworking
    <2> QED
        BY <2>1, <2>2 DEF InvWork
<1>10. Dead' = Dead
    BY <1>1 DEF Dead
<1>11. InvLab' /\ CreatedIsTrusted'
    BY <1>1, <1>10 DEF IInv, InvLab, Pending, CreatedIsTrusted, trust
<1>12. InvView'
    <2>1. ASSUME NEW q \in Procs, q # p PROVE ViewOK(q)'
        <3>1. ViewOK(q) /\ pc'[q] = pc[q] /\ op'[q] = op[q] /\ view'[q] = view[q]
            BY <1>5, <1>6, <2>1 DEF IInv, InvView, Only
        <3> QED
            BY <1>1, <1>10, <3>1 DEF ViewOK
    <2>2. ViewOK(p)'
        BY <1>5, <1>6, NoViewType DEF ViewOK, Looking
    <2> QED
        BY <2>1, <2>2 DEF InvView
<1> QED
    BY <1>4, <1>7, <1>8, <1>9, <1>11, <1>12 DEF IInv

(* Steps of which no command is: what they hold has to go on to hold. *)
LEMMA OutsideStep ==
    ASSUME IInv, UNCHANGED command, hung' \in BOOLEAN, CountType', Grows, StoreType', InvStore',
           LabGoesOn, UNCHANGED <<record, journal, llock>>
    PROVE  IInv'
<1>1. op' = op /\ pc' = pc /\ loc' = loc
    BY DEF command
<1>2. view' \in [Procs -> Views] /\ InvView'
    BY <1>1, ViewsStay DEF LabGoesOn
<1>3. TypeOK'
    BY <1>1, <1>2 DEF IInv, TypeOK, CommandType, ViewType, LabGoesOn
<1>4. InvLocal'
    <2>1. ASSUME NEW q \in Procs PROVE LocalOK(q)'
        <3>1. LocalOK(q) /\ op'[q] = op[q] /\ pc'[q] = pc[q] /\ loc'[q] = loc[q]
            BY <1>1 DEF IInv, InvLocal
        <3>2. pc[q] = "publish" => loc[q].digest \in Digests
            BY <3>1 DEF LocalOK, Stored
        <3>3. approved \subseteq approved'
            BY DEF Grows
        <3>4. pc[q] = "publish" => blob'[loc[q].digest] # "absent"
            BY <3>1, <3>2 DEF LocalOK, Grows
        <3> QED
            BY <3>1, <3>3, <3>4 DEF LocalOK
    <2> QED
        BY <2>1 DEF InvLocal
<1>5. InvWork'
    <2>1. ASSUME NEW q \in Procs PROVE WorkOK(q)'
        <3>1. WorkOK(q) /\ pc'[q] = pc[q] /\ op'[q] = op[q]
            BY <1>1 DEF IInv, InvWork
        <3> QED
            BY <3>1 DEF WorkOK, Pending
    <2> QED
        BY <2>1 DEF InvWork
<1> QED
    BY <1>2, <1>3, <1>4, <1>5 DEF IInv, LabGoesOn

LEMMA ToggleStep ==
    ASSUME IInv, Toggle, CountType'
    PROVE  IInv'
<1>1. /\ \E v \in VM : dom[v] \in {"on", "off"} /\
           dom' = [dom EXCEPT ![v] = IF @ = "on" THEN "off" ELSE "on"]
      /\ UNCHANGED <<images, trust>> /\ UNCHANGED trust /\ hung' = hung /\ UNCHANGED command
      /\ UNCHANGED <<view, record, journal, base, llock>>
    BY Zenon DEF Toggle, outside
<1>2. LabType /\ InvLab /\ hung \in BOOLEAN
    BY DEF IInv, TypeOK, ViewType
<1>3. dom' \in Domains /\ ~Dead
    BY <1>1, <1>2 DEF LabType, Domains, Dead
<1>4. LabGoesOn
    <2>1. CASE record = None
        BY <1>1, <1>2, <1>3, <2>1, LabNone DEF LabType
    <2>2. CASE record # None
        <3>1. /\ SameRecord /\ \A operation : Pending(operation)' <=> Pending(operation)
              /\ journal' \in Journals \union {None} /\ llock' \in Procs \union {None}
              /\ base' \in {None, "good"}
            BY <1>1, <1>2, <2>2 DEF SameRecord, LabType, Pending
        <3>2. /\ record'.status = "provisioning" => Pending("create")'
              /\ record'.vms # VM => Pending("create")' /\ record'.status \in {"provisioning", "failed_cleanup"}
              /\ Pending("reset")' => record'.vms = VM
            BY <1>1, <1>2, <1>3, <2>2, <3>1 DEF InvLab
        <3> QED
            BY <1>1, <1>3, <2>2, <3>1, <3>2, LabSome
    <2> QED
        BY <2>1, <2>2
<1>5. Grows /\ StoreType' /\ InvStore'
    BY <1>1, StoresKept
<1> QED
    BY <1>1, <1>2, <1>4, <1>5, OutsideStep

(* Nothing of the lab. *)
LEMMA ElsewhereStep ==
    ASSUME IInv, UNCHANGED command, UNCHANGED <<record, journal, dom, view, base, llock>>,
           hung' \in BOOLEAN, CountType', Grows, StoreType', InvStore'
    PROVE  IInv'
<1>1. LabType /\ InvLab /\ CreatedIsTrusted
    BY DEF IInv, TypeOK
<1>2. LabType' /\ InvLab' /\ GoesOn
    BY <1>1 DEF LabType, InvLab, Pending, Dead, GoesOn
<1>3. CreatedIsTrusted'
    BY <1>1 DEF CreatedIsTrusted, Grows
<1> QED
    BY <1>2, <1>3, OutsideStep DEF LabGoesOn

LEMMA HungStep ==
    ASSUME IInv, Hang \/ Answers, CountType'
    PROVE  IInv'
<1>1. /\ hung' \in BOOLEAN /\ UNCHANGED command /\ UNCHANGED <<images, trust>>
      /\ UNCHANGED <<record, journal, dom, view, base, llock>>
    BY DEF Hang, Answers, lab
<1> QED
    BY <1>1, StoresKept, ElsewhereStep

LEMMA CorruptStep ==
    ASSUME IInv, Corrupt, UNCHANGED <<command, trust, rest>>, CountType'
    PROVE  IInv'
<1>1. /\ \E d \in Digests : blob[d] = "good" /\ blob' = [blob EXCEPT ![d] = "bad"]
      /\ UNCHANGED <<ref, ilock, source, defn, trusted, approved, hung>> /\ UNCHANGED command
      /\ UNCHANGED <<record, journal, dom, view, base, llock>>
    BY Zenon DEF Corrupt, trust, rest, seen, lab
<1>2. StoreType /\ InvStore /\ hung \in BOOLEAN
    BY DEF IInv, TypeOK, ViewType
<1>3. /\ blob' \in [Digests -> {"absent", "good", "bad"}]
      /\ \A d \in Digests : blob[d] # "absent" => blob'[d] # "absent"
    BY <1>1, <1>2 DEF StoreType
<1>4. Grows /\ StoreType' /\ hung' \in BOOLEAN
    BY <1>1, <1>2, <1>3 DEF Grows, StoreType
<1>5. InvStore'
    <2>1. ref # None => ref.digest \in Digests
        BY <1>2 DEF StoreType, References
    <2> QED
        BY <1>1, <1>2, <1>3, <2>1 DEF InvStore, ReferencesAreSound
<1> QED
    BY <1>1, <1>4, <1>5, ElsewhereStep

LEMMA EditStep ==
    ASSUME IInv, CountType',
           \/ EditSource /\ UNCHANGED <<command, trust, rest>>
           \/ EditDefinition /\ UNCHANGED <<command, images, rest>>
    PROVE  IInv'
<1>1. /\ source' \in Digests \union {source} /\ defn' \in Versions \union {defn}
      /\ UNCHANGED <<blob, ref, ilock, trusted, approved, hung>> /\ UNCHANGED command
      /\ UNCHANGED <<record, journal, dom, view, base, llock>>
    BY DEF EditSource, EditDefinition, images, trust, rest, seen, lab
<1>2. StoreType /\ InvStore /\ hung \in BOOLEAN
    BY DEF IInv, TypeOK, ViewType
<1>3. Grows /\ StoreType' /\ hung' \in BOOLEAN
    BY <1>1, <1>2 DEF Grows, StoreType
<1>4. InvStore'
    BY <1>1, <1>2 DEF InvStore, ReferencesAreSound
<1> QED
    BY <1>1, <1>3, <1>4, ElsewhereStep

-----------------------------------------------------------------------------

(* The host, with no lab or with one that was created before. *)
LEMMA LabInitially ==
    ASSUME LabInit
    PROVE  LabType /\ InvLab /\ CreatedIsTrusted /\ approved \subseteq Versions /\ llock = None
<1>1. journal = None /\ llock = None
    BY DEF LabInit
<1>2. CASE ~scenario.lab
    BY <1>1, <1>2 DEF LabInit, LabType, InvLab, CreatedIsTrusted, Domains
<1>3. CASE scenario.lab
    <2> DEFINE order == DependencyOrder(Text[Original])
    <2>1. /\ approved = {Original} /\ base = "good" /\ dom = [v \in VM |-> "on"]
          /\ Loads(Original)
          /\ record = [status |-> "ready", uri |-> "system", order |-> order, version |-> Original,
                       digest |-> Pinned, vms |-> VM, verified |-> TRUE, allowed |-> FALSE]
        BY <1>3 DEF LabInit
    <2>2. order \in Seq(VM) /\ Original \in Versions
        BY <2>1, OriginalAssumption, TextAssumption, DependencyOrderIsRight DEF Loads
    <2> HIDE DEF order
    <2>3. /\ record \in Records /\ record.status = "ready" /\ record.uri = "system"
          /\ record.order = order /\ record.version = Original /\ record.vms = VM
          /\ record.verified /\ record.digest = Pinned
        BY <2>1, <2>2, PinnedAssumption DEF Records, Statuses
    <2>4. Complete("system")
        BY DEF Complete, Capable
    <2> QED
        BY <1>1, <2>1, <2>2, <2>3, <2>4
           DEF LabType, InvLab, CreatedIsTrusted, Domains, Pending, order
<1> QED
    BY <1>2, <1>3

LEMMA Initially == Init => IInv
<1> SUFFICES ASSUME Init PROVE IInv
    OBVIOUS
<1>1. /\ op = [p \in Procs |-> "none"] /\ pc = [p \in Procs |-> "idle"]
      /\ loc = [p \in Procs |-> Blank]
      /\ source \in Digests /\ ilock = None
      /\ defn = Original /\ trusted = approved
      /\ hung = FALSE /\ view = [p \in Procs |-> NoView]
      /\ changes = 0 /\ given = 0
    BY PinnedAssumption DEF Init, CommandInit, ImageInit, TrustInit, ObservationInit
<1>2. LabType /\ InvLab /\ CreatedIsTrusted /\ approved \subseteq Versions /\ llock = None
    BY LabInitially DEF Init
<1>3. /\ blob \in [Digests -> {"absent", "good", "bad"}]
      /\ ref \in References \union {None} /\ ReferencesAreSound
    <2>1. CASE ref = None /\ blob = [d \in Digests |-> "absent"]
        BY <2>1 DEF ReferencesAreSound
    <2>2. CASE /\ ref = [digest |-> Pinned, verified |-> TRUE]
               /\ blob = [d \in Digests |-> IF d = Pinned THEN "good" ELSE "absent"]
        <3>1. Pinned \in Digests /\ ref.digest = Pinned /\ ref \in References
            BY <2>2, PinnedAssumption DEF References
        <3>2. blob \in [Digests -> {"absent", "good", "bad"}] /\ blob[Pinned] = "good"
            BY <2>2, <3>1
        <3> QED
            BY <3>1, <3>2 DEF ReferencesAreSound
    <2> QED
        BY <2>1, <2>2, Zenon DEF Init, ImageInit
<1>4. TypeOK
    BY <1>1, <1>2, <1>3, BlankType, NoViewType, OriginalAssumption
       DEF TypeOK, CommandType, StoreType, ViewType, CountType, Operations, Places
<1>5. InvLocal
    BY <1>1, BlankType DEF InvLocal, LocalOK, Stored, Importing, Asking, Snapped, Connected, Pulling, Cleared
<1>6. InvStore
    BY <1>1, <1>3 DEF InvStore
<1>7. InvWork
    BY <1>1 DEF InvWork, WorkOK, Held, Creating, Undoing, Altering, Reworking
<1>8. InvView
    <2>1. ASSUME NEW p \in Procs PROVE view[p] = NoView /\ pc[p] = "idle"
        BY <1>1
    <2> QED
        BY <2>1, NoViewType DEF InvView, ViewOK, Looking
<1> QED
    BY <1>2, <1>4, <1>5, <1>6, <1>7, <1>8 DEF IInv

LEMMA StepStep ==
    ASSUME IInv, NEW p \in Procs, Step(p), CountType'
    PROVE  IInv'
<1>1. CASE ImageRun(p)
    BY <1>1, ImageRunQuiet, QuietStep
<1>2. CASE TrustRun(p)
    BY <1>2, TrustRunQuiet, QuietStep
<1>3. CASE ObserveRun(p)
    <2>1. /\ (Quiet(p) /\ UNCHANGED view) \/ Looks(p)
          /\ UNCHANGED <<images, trust, seen, base, llock>>
        BY <1>3, ObserveRunStep
    <2>2. CASE Looks(p)
        BY <2>1, <2>2, LookStep
    <2>3. CASE Quiet(p) /\ UNCHANGED view
        BY <2>1, <2>3, QuietStep
    <2> QED
        BY <2>1, <2>2, <2>3
<1>4. CASE CreateStep(p)
    BY <1>4, CreateStepStep
<1>5. CASE ChangeStep(p) /\ UNCHANGED <<images, trust>>
    BY <1>5, ChangeStepStep
<1>6. CASE ShowProvider(p)
    BY <1>6, ShowProviderQuiet, QuietStep
<1>7. CASE Return(p) /\ UNCHANGED <<images, trust, rest>>
    <2>1. UNCHANGED <<images, trust>> /\ UNCHANGED <<seen, view, base, llock>>
        BY <1>7 DEF rest
    <2> QED
        BY <1>7, <2>1, ReturnQuiet, QuietStep
<1> QED
    BY <1>1, <1>2, <1>3, <1>4, <1>5, <1>6, <1>7, Zenon DEF Step

LEMMA DisturbStep ==
    ASSUME IInv, Disturb, CountType'
    PROVE  IInv'
<1>1. CASE \E p \in Procs : Kill(p)
    BY <1>1, KillStep
<1>2. CASE Hang
    BY <1>2, HungStep
<1>3. CASE Corrupt /\ UNCHANGED <<command, trust, rest>>
    BY <1>3, CorruptStep
<1>4. CASE \/ EditSource /\ UNCHANGED <<command, trust, rest>>
           \/ EditDefinition /\ UNCHANGED <<command, images, rest>>
    BY <1>4, EditStep
<1> QED
    BY <1>1, <1>2, <1>3, <1>4, ToggleStep, Zenon DEF Disturb

LEMMA Inductive == IInv /\ [Next]_vars => IInv'
<1> SUFFICES ASSUME IInv, [Next]_vars PROVE IInv'
    OBVIOUS
<1>1. changes \in Nat /\ given \in Nat
    BY DEF IInv, TypeOK, CountType
<1>2. CASE given' = given + 1 /\ UNCHANGED changes /\ \E p \in Procs : Begin(p)
    <2>1. CountType'
        BY <1>1, <1>2 DEF CountType
    <2> QED
        BY <1>2, <2>1, BeginQuiet, QuietStep
<1>3. CASE \E p \in Procs : Step(p) /\ UNCHANGED <<changes, given>>
    <2>1. CountType'
        BY <1>1, <1>3 DEF CountType
    <2> QED
        BY <1>3, <2>1, StepStep
<1>4. CASE Answers /\ UNCHANGED <<changes, given>>
    <2>1. CountType'
        BY <1>1, <1>4 DEF CountType
    <2> QED
        BY <1>4, <2>1, HungStep
<1>5. CASE Disturb
    <2>1. CountType'
        BY <1>1, <1>5 DEF CountType, Disturb, Change
    <2> QED
        BY <1>5, <2>1, DisturbStep
<1>6. CASE UNCHANGED vars
    <2>1. /\ UNCHANGED command /\ UNCHANGED <<images, trust>>
          /\ UNCHANGED <<record, journal, dom, view, base, llock, hung, changes, given>>
        BY <1>6 DEF vars, seen, lab
    <2>2. CountType' /\ hung' \in BOOLEAN
        BY <1>1, <2>1 DEF IInv, TypeOK, ViewType, CountType
    <2>3. Grows /\ StoreType' /\ InvStore'
        BY <2>1, StoresKept
    <2> QED
        BY <2>1, <2>2, <2>3, ElsewhereStep
<1> QED
    BY <1>2, <1>3, <1>4, <1>5, <1>6, Zenon DEF Next

LEMMA Invariance == FairSpec => []IInv
BY Initially, Inductive, PTL DEF FairSpec

(* Every variable of the host has its type, and what the commands hold in
   theirs is what their place in the code asks for. *)
THEOREM TypeCorrect == FairSpec => []TypeOK
<1>1. IInv => TypeOK
    BY DEF IInv
<1> QED
    BY <1>1, Invariance, PTL

(* A lab is made only of a definition that its user accepted, as it was when it
   was accepted, and of an image that somebody vouched for or whose lack of a
   voucher the user allowed: for all commands, whatever is pulled, imported,
   removed, edited or killed meanwhile (_create_kvm, _stable_external_definition
   and trust.py take no lock of the definition or the trust file). *)
THEOREM CreatedIsTrustedHolds == FairSpec => []CreatedIsTrusted
<1>1. IInv => CreatedIsTrusted
    BY DEF IInv
<1> QED
    BY <1>1, Invariance, PTL

(* A lab whose creation is finished and whose disks are there runs on the image
   that its record names, has exactly the VMs of its definition, in an order that
   respects their dependencies, and a connection that can have its network: for
   every definition that loads, and whatever creations, removals, resets and
   power operations were cut off or failed (create, _copy_verified_base,
   dependency_order, connection_uri). *)
THEOREM CreatedIsExactHolds == FairSpec => []CreatedIsExact
<1>1. ASSUME IInv PROVE CreatedIsExact
    <2> SUFFICES ASSUME record # None, record.status \notin {"provisioning", "failed_cleanup"}, base # None
                 PROVE  /\ base = "good" /\ record.vms = VM /\ Complete(record.uri)
                        /\ Topological(Text[record.version], record.order)
        BY DEF CreatedIsExact
    <2>1. LabType /\ InvLab
        BY <1>1 DEF IInv, TypeOK
    <2>2. /\ base = "good" /\ record.vms = VM /\ Complete(record.uri)
          /\ Loads(record.version) /\ record.order = DependencyOrder(Text[record.version])
        BY <2>1 DEF InvLab, LabType, Dead
    <2>3. record.version \in Versions
        BY <2>1 DEF LabType, Records
    <2> QED
        BY <2>2, <2>3, TextAssumption, DependencyOrderIsRight DEF Loads
<1> QED
    BY <1>1, Invariance, PTL

(* The reference of the image names a blob that is in the cache, and says
   verified only of a digest that the catalogue or the user stated, whichever
   commands pull, import and remove it at the same time (images.py, whose hashes
   are taken outside of the lock). *)
THEOREM ReferencesAreSoundHolds == FairSpec => []ReferencesAreSound
<1>1. IInv => ReferencesAreSound
    BY DEF IInv, InvStore
<1> QED
    BY <1>1, Invariance, PTL

(* A status command, which reads the record, the journal and each domain without
   a lock while creations, removals, resets and power operations go on step by
   step, shows a lab as running and without a diagnostic only if every VM of its
   definition was powered on when libvirt told of it, in the instance of the
   record that was read; and a VM, only if it was (status_records,
   observe_states, status_diagnostics). *)
THEOREM StatusIsHonestHolds == FairSpec => []StatusIsHonest
<1>1. ASSUME IInv PROVE StatusIsHonest
    <2> SUFFICES ASSUME NEW p \in Procs, Aggregate(p) = "running", ~Diagnosed(p)
                 PROVE  (IF op[p] = "vm" THEN view[p].vms ELSE VM) \subseteq view[p].active
        BY DEF StatusIsHonest
    <2>1. ViewOK(p) /\ view[p] \in Views
        BY <1>1, ViewGiven DEF IInv, InvView
    <2>2. view[p].vms # {} /\ view[p].status \notin {"provisioning", "degraded", "failed_cleanup"}
        BY DEF Diagnosed, Unfinished
    <2>3. view[p].status \in Finished
        BY <2>1, <2>2 DEF ViewOK, Views, Statuses, Finished
    <2>4. Powers(p) = {"on"}
        BY Zenon DEF Aggregate
    <2>5. view[p].vms \subseteq VM /\ \A v \in view[p].vms : view[p].power[v] = "on"
        BY <2>1, <2>4 DEF Powers, Views
    <2>6. view[p].vms \subseteq view[p].active
        BY <2>1, <2>5 DEF ViewOK
    <2>7. op[p] # "vm" => view[p].vms = VM
        BY <2>1, <2>2, <2>3, <2>5 DEF ViewOK
    <2> QED
        BY <2>6, <2>7
<1> QED
    BY <1>1, Invariance, PTL
=============================================================================
