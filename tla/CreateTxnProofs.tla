-------------------------- MODULE CreateTxnProofs --------------------------
(***************************************************************************)
(* Proofs about CreateTxn for any number of virtual machines.  The safety  *)
(* invariants are not inductive: each says what must be true of the disk   *)
(* and of libvirt wherever the process dies, and that depends on where it  *)
(* is and on what its rollback stack still holds.  IInv adds that.         *)
(***************************************************************************)
EXTENDS CreateTxn, TLAPS

AfterMarker ==
    {"net_define", "net_autostart", "net_start", "prepare", "plan",
     "virt_install", "metadata", "attach", "boot", "wait_ready", "commit",
     "unlink_journal"}
InLoop == {"prepare", "plan", "virt_install", "metadata", "attach", "boot",
           "wait_ready"}
Removing == {"undo_instance", "undo_state", "undo_journal",
             "recover_instance", "recover_state"}

(* What is true only as long as a certain step of the creation has not raised
   with its effect in place is guarded by these. *)
StorageKnown == "mkdir_storage" \notin slips
DefineKnown  == "net_define" \notin slips
StartKnown   == "net_start" \notin slips
CommitKnown  == "commit" \notin slips
JournalKnown == "undo_journal" \notin slips
NetKnown     == DefineKnown /\ StartKnown

(* A creation on its way forward has not slipped: every slip leads to the
   rollback, and only a fresh creation forgets it.  So a record that says ready
   was written by a creation that had not slipped before its commit. *)
InvSlips ==
    /\ pc \in CreatePcs \ {"save_journal"} => slips = {}
    /\ pc \in CreatePcs \union UndoPcs => cmd = "create"
    /\ status = "ready" => slips \subseteq {"commit"}

(* The state file's status at each point, and that the journal outlives it. *)
InvStatus ==
    /\ pc \in CreatePcs \union RecoverPcs /\ pc # "save_journal" => journal
    /\ CommitKnown /\ pc \in UndoPcs \ {"save_failure"} => journal
    /\ CommitKnown /\ JournalKnown /\ pc = "save_failure" => journal
    /\ pc = "save_journal" => ~journal
    /\ pc \in {"save_journal", "save_state", "undo_journal"} => status = "absent"
    /\ pc \in (CreatePcs \ {"save_journal", "save_state", "unlink_journal"})
           => status = "provisioning"
    /\ pc = "unlink_journal" => status = "ready"
    /\ pc \in (UndoPcs \ {"undo_journal", "save_failure"})
           => status \in {"provisioning", "ready"}
    /\ pc = "save_failure" => failed /\ status \in {"absent", "provisioning", "ready"}
    /\ CommitKnown /\ pc \in UndoPcs => status # "ready"
    /\ pc \in (RecoverPcs \ {"recover_journal"})
           => status \in {"provisioning", "failed_cleanup"}
    /\ pc = "recover_journal" => status \in {"absent", "ready"}
    /\ CommitKnown /\ JournalKnown /\ ~journal => status \in {"absent", "ready"}

(* The two directory trees at each point. *)
InvTrees ==
    /\ StorageKnown /\ pc \in {"mkdir_instance", "mkdir_storage"} => storage = "absent"
    /\ pc \in {"save_journal", "save_state", "mkdir_instance", "mkdir_storage"}
           => storage # "marked"
    /\ pc \in (CreatePcs \ {"save_journal", "save_state", "mkdir_instance"}) => instance
    /\ pc = "marker" => storage = "unmarked" /\ "storage" \in made
    /\ pc \in AfterMarker => storage = "marked"
    /\ pc \in (CreatePcs \union UndoPcs) \ {"save_failure"}
           => /\ instance => "instance" \in made
              /\ storage = "marked" => "storage" \in made
              /\ StorageKnown /\ storage # "absent" => "storage" \in made
    /\ pc \in Removing => storage # "marked"
    /\ StorageKnown /\ pc \in Removing => storage = "absent"
    /\ pc \in {"undo_state", "undo_journal", "recover_state"} => ~instance

(* What a file or a resource that is there implies about the others. *)
InvOrder ==
    /\ AnyDomain => storage = "marked"
    /\ NetKnown /\ OurNet => storage = "marked"
    /\ storage = "marked" => instance
    /\ StorageKnown /\ storage # "absent" => instance
    /\ instance => status # "absent"
    /\ CommitKnown /\ ~journal /\ status # "ready" => ~AnyDomain /\ ~instance
    /\ CommitKnown /\ NetKnown /\ ~journal /\ status # "ready" => ~OurNet
    /\ ReadyIsComplete

(* What libvirt may hold that the rollback, or the recovery, has still to undo. *)
InvUndo ==
    /\ pc \in CreatePcs => ~failed
    /\ pc \in CreatePcs \union UndoPcs =>
           /\ netUndo # "none" => OurNet
           /\ ~failed => /\ \A v \in VM : OurDomain(v) => v \in todo
                         /\ NetKnown /\ netUndo = "none" => ~OurNet
                         /\ StartKnown /\ netUndo = "undefine"
                                => net \in {"defined", "autostart"}
    /\ pc = "undo_net_start" => todo = {} /\ netUndo = "destroy"
    /\ pc = "undo_net_define" => todo = {} /\ netUndo = "undefine"
    /\ pc \in {"undo_storage", "undo_rmtree", "undo_instance", "undo_state", "undo_journal"}
           => todo = {} /\ netUndo = "none"
    /\ pc \in {"undo_rmtree", "undo_instance", "undo_state", "undo_journal"} => ~failed
    /\ pc = "recover_domains" /\ ~failed => \A v \in VM : OurDomain(v) => v \in todo
    /\ pc = "recover_network" /\ ~failed => ~AnyDomain
    /\ pc \in {"recover_storage", "recover_rmtree", "recover_instance", "recover_state"}
           => ~AnyDomain /\ ~OurNet

(* The network and the VM loop on the way forward. *)
InvForward ==
    /\ pc \in {"save_journal", "save_state", "mkdir_instance", "mkdir_storage",
               "marker", "net_define"} => todo = {} /\ netUndo = "none"
    /\ pc = "net_autostart" => net = "defined" /\ netUndo = "undefine"
    /\ pc = "net_start" => net = "autostart" /\ netUndo = "undefine"
    /\ pc \in InLoop \union {"commit", "unlink_journal"}
           => net = "active" /\ netUndo = "destroy"
    /\ pc \in InLoop =>
           \A v \in VM : v < k => /\ dom[v] = "owned" /\ stage[v] = "attached"
                                  /\ mem[v] = "ready"
    /\ pc = "virt_install" => k \in todo
    /\ pc \in {"virt_install", "metadata", "attach"} => stage[k] = "planned"
    /\ pc = "metadata" => dom[k] = "bare"
    /\ pc \in {"attach", "boot", "wait_ready"} => dom[k] = "owned"
    /\ pc \in {"boot", "wait_ready"} => stage[k] = "attached"
    /\ pc \in {"plan", "virt_install", "metadata", "attach", "boot", "wait_ready"}
           => vms[k] # "none" /\ mem[k] # "none"
    /\ pc \in {"commit", "unlink_journal"} =>
           \A v \in VM : /\ dom[v] = "owned" /\ stage[v] = "attached"
                         /\ mem[v] = "ready"

(* Every domain and every VM record is in the journal and in the state file. *)
InvRecords ==
    /\ \A v \in VM : OurDomain(v) /\ journal => stage[v] # "none"
    /\ \A v \in VM : stage[v] # "none" /\ status # "absent" => vms[v] # "none"
    /\ pc \in (CreatePcs \union UndoPcs) \ {"save_journal"} =>
           \A v \in VM : stage[v] # "none" => mem[v] # "none"
    /\ status = "ready" => \A v \in VM : vms[v] = "ready"
    /\ status = "ready" /\ journal => \A v \in VM : stage[v] = "attached"

(* Locals a command starts with and does not use before a given point. *)
InvLocals ==
    /\ pc \in {"idle"} \union RecoverPcs => k = 1 /\ netUndo = "none"
    /\ pc \in ({"idle"} \union RecoverPcs) \ {"recover_domains"} => todo = {}
    /\ pc \in ({"idle"} \union RecoverPcs) \ {"recover_domains", "recover_network"}
           => ~failed
    /\ pc \in CreatePcs \ (InLoop \union {"commit", "unlink_journal"}) => k = 1

IInv ==
    /\ TypeOK /\ BareIsAdoptable
    /\ InvStatus /\ InvTrees /\ InvOrder /\ InvUndo /\ InvForward /\ InvRecords
    /\ InvLocals /\ InvSlips
-----------------------------------------------------------------------------
(* Type correctness.                                                       *)

(* The type invariant holds initially. *)
LEMMA TypeInit == Init => TypeOK
<1> SUFFICES ASSUME Init PROVE TypeOK
  OBVIOUS
<1> USE NAssumption
    DEF Init, VM, Stages, Statuses, VmStates, Dirs, DomStates, NetStates
<1>1. TypeFlags /\ TypeSets
  BY Zenon DEF TypeFlags, TypeSets
<1>2. TypeFiles /\ TypeLibvirt
  BY DEF TypeFiles, TypeLibvirt
<1>3. TypeProcess
  BY DEF TypeProcess
<1>q. QED
  BY <1>1, <1>2, <1>3 DEF TypeOK

(* Every step keeps it, whatever fails.  Booleans and sets go to
   Zenon, functions and enumerations to SMT. *)
LEMMA TypeStep == ASSUME TypeOK, [Next]_vars PROVE TypeOK'
<1> USE NAssumption
    DEF TypeOK, TypeFlags, TypeFiles, TypeLibvirt, TypeProcess, TypeSets,
        VM, Slip, Slips, Stages, Statuses, VmStates, Dirs, DomStates, NetStates,
        CreatePcs, UndoPcs, RecoverPcs, Forget, Fault, Rollback, MayFail,
        files, txn, state, trees, libvirt, process, locals, undoStack, vars
<1>1. CASE BeginCreate
  <2>1. (TypeFlags /\ TypeSets)'
    BY <1>1, ZenonT(20) DEF BeginCreate
  <2>2. (TypeFiles /\ TypeLibvirt /\ TypeProcess)'
    BY <1>1, SMTT(20) DEF BeginCreate
  <2>q. QED BY <2>1, <2>2
<1>2. CASE SaveJournal
  <2>1. (TypeFlags /\ TypeSets)'
    BY <1>2, ZenonT(20) DEF SaveJournal
  <2>2. (TypeFiles /\ TypeLibvirt /\ TypeProcess)'
    BY <1>2, SMTT(20) DEF SaveJournal
  <2>q. QED BY <2>1, <2>2
<1>3. CASE SaveProvisioning
  <2>1. (TypeFlags /\ TypeSets)'
    BY <1>3, ZenonT(20) DEF SaveProvisioning
  <2>2. (TypeFiles /\ TypeLibvirt /\ TypeProcess)'
    BY <1>3, SMTT(20) DEF SaveProvisioning
  <2>q. QED BY <2>1, <2>2
<1>4. CASE MkdirInstance
  <2>1. (TypeFlags /\ TypeSets)'
    BY <1>4, ZenonT(20) DEF MkdirInstance
  <2>2. (TypeFiles /\ TypeLibvirt /\ TypeProcess)'
    BY <1>4, SMTT(20) DEF MkdirInstance
  <2>q. QED BY <2>1, <2>2
<1>5. CASE MkdirStorage
  <2>1. (TypeFlags /\ TypeSets)'
    BY <1>5, ZenonT(20) DEF MkdirStorage
  <2>2. (TypeFiles /\ TypeLibvirt /\ TypeProcess)'
    BY <1>5, SMTT(20) DEF MkdirStorage
  <2>q. QED BY <2>1, <2>2
<1>6. CASE WriteMarker
  <2>1. (TypeFlags /\ TypeSets)'
    BY <1>6, ZenonT(20) DEF WriteMarker
  <2>2. (TypeFiles /\ TypeLibvirt /\ TypeProcess)'
    BY <1>6, SMTT(20) DEF WriteMarker
  <2>q. QED BY <2>1, <2>2
<1>7. CASE DefineNetwork
  <2>1. (TypeFlags /\ TypeSets)'
    BY <1>7, ZenonT(20) DEF DefineNetwork
  <2>2. (TypeFiles /\ TypeLibvirt /\ TypeProcess)'
    BY <1>7, SMTT(20) DEF DefineNetwork
  <2>q. QED BY <2>1, <2>2
<1>8. CASE AutostartNetwork
  <2>1. (TypeFlags /\ TypeSets)'
    BY <1>8, ZenonT(20) DEF AutostartNetwork
  <2>2. (TypeFiles /\ TypeLibvirt /\ TypeProcess)'
    BY <1>8, SMTT(20) DEF AutostartNetwork
  <2>q. QED BY <2>1, <2>2
<1>9. CASE StartNetwork
  <2>1. (TypeFlags /\ TypeSets)'
    BY <1>9, ZenonT(20) DEF StartNetwork
  <2>2. (TypeFiles /\ TypeLibvirt /\ TypeProcess)'
    BY <1>9, SMTT(20) DEF StartNetwork
  <2>q. QED BY <2>1, <2>2
<1>10. CASE PrepareVm
  <2>1. (TypeFlags /\ TypeSets)'
    BY <1>10, ZenonT(20) DEF PrepareVm
  <2>2. (TypeFiles /\ TypeLibvirt /\ TypeProcess)'
    BY <1>10, SMTT(20) DEF PrepareVm
  <2>q. QED BY <2>1, <2>2
<1>11. CASE PlanVm
  <2>1. (TypeFlags /\ TypeSets)'
    BY <1>11, ZenonT(20) DEF PlanVm
  <2>2. (TypeFiles /\ TypeLibvirt /\ TypeProcess)'
    BY <1>11, SMTT(20) DEF PlanVm
  <2>q. QED BY <2>1, <2>2
<1>12. CASE InstallVm
  <2>1. (TypeFlags /\ TypeSets)'
    BY <1>12, ZenonT(20) DEF InstallVm
  <2>2. (TypeFiles /\ TypeLibvirt /\ TypeProcess)'
    BY <1>12, SMTT(20) DEF InstallVm
  <2>q. QED BY <2>1, <2>2
<1>13. CASE AttachMetadata
  <2>1. (TypeFlags /\ TypeSets)'
    BY <1>13, ZenonT(20) DEF AttachMetadata
  <2>2. (TypeFiles /\ TypeLibvirt /\ TypeProcess)'
    BY <1>13, SMTT(20) DEF AttachMetadata
  <2>q. QED BY <2>1, <2>2
<1>14. CASE RecordAttached
  <2>1. (TypeFlags /\ TypeSets)'
    BY <1>14, ZenonT(20) DEF RecordAttached
  <2>2. (TypeFiles /\ TypeLibvirt /\ TypeProcess)'
    BY <1>14, SMTT(20) DEF RecordAttached
  <2>q. QED BY <2>1, <2>2
<1>15. CASE RecordRunning
  <2>1. (TypeFlags /\ TypeSets)'
    BY <1>15, ZenonT(20) DEF RecordRunning
  <2>2. (TypeFiles /\ TypeLibvirt /\ TypeProcess)'
    BY <1>15, SMTT(20) DEF RecordRunning
  <2>q. QED BY <2>1, <2>2
<1>16. CASE WaitReady
  <2>1. (TypeFlags /\ TypeSets)'
    BY <1>16, ZenonT(20) DEF WaitReady
  <2>2. (TypeFiles /\ TypeLibvirt /\ TypeProcess)'
    BY <1>16, SMTT(20) DEF WaitReady, LastVm
  <2>q. QED BY <2>1, <2>2
<1>17. CASE Commit
  <2>1. (TypeFlags /\ TypeSets)'
    BY <1>17, ZenonT(20) DEF Commit
  <2>2. (TypeFiles /\ TypeLibvirt /\ TypeProcess)'
    BY <1>17, SMTT(20) DEF Commit
  <2>q. QED BY <2>1, <2>2
<1>18. CASE UnlinkJournal
  <2>1. (TypeFlags /\ TypeSets)'
    BY <1>18, ZenonT(20) DEF UnlinkJournal
  <2>2. (TypeFiles /\ TypeLibvirt /\ TypeProcess)'
    BY <1>18, SMTT(20) DEF UnlinkJournal
  <2>q. QED BY <2>1, <2>2
<1>19. CASE UndoDomain
  <2>1. (TypeFlags /\ TypeSets)'
    BY <1>19, ZenonT(20) DEF UndoDomain, Cleaned, NotCleaned, Removable
  <2>2. (TypeFiles /\ TypeLibvirt /\ TypeProcess)'
    BY <1>19, SMTT(20) DEF UndoDomain, Cleaned, NotCleaned, Removable
  <2>q. QED BY <2>1, <2>2
<1>20. CASE UndoDomainsDone
  <2>1. (TypeFlags /\ TypeSets)'
    BY <1>20, ZenonT(20) DEF UndoDomainsDone
  <2>2. (TypeFiles /\ TypeLibvirt /\ TypeProcess)'
    BY <1>20, SMTT(20) DEF UndoDomainsDone
  <2>q. QED BY <2>1, <2>2
<1>21. CASE UndoNetStart
  <2>1. (TypeFlags /\ TypeSets)'
    BY <1>21, ZenonT(20) DEF UndoNetStart
  <2>2. (TypeFiles /\ TypeLibvirt /\ TypeProcess)'
    BY <1>21, SMTT(20) DEF UndoNetStart
  <2>q. QED BY <2>1, <2>2
<1>22. CASE UndoNetDefine
  <2>1. (TypeFlags /\ TypeSets)'
    BY <1>22, ZenonT(20) DEF UndoNetDefine, Undefined
  <2>2. (TypeFiles /\ TypeLibvirt /\ TypeProcess)'
    BY <1>22, SMTT(20) DEF UndoNetDefine, Undefined
  <2>q. QED BY <2>1, <2>2
<1>23. CASE UndoStorage
  <2>1. (TypeFlags /\ TypeSets)'
    BY <1>23, ZenonT(20) DEF UndoStorage
  <2>2. (TypeFiles /\ TypeLibvirt /\ TypeProcess)'
    BY <1>23, SMTT(20) DEF UndoStorage
  <2>q. QED BY <2>1, <2>2
<1>24. CASE UndoRmtree
  <2>1. (TypeFlags /\ TypeSets)'
    BY <1>24, ZenonT(20) DEF UndoRmtree
  <2>2. (TypeFiles /\ TypeLibvirt /\ TypeProcess)'
    BY <1>24, SMTT(20) DEF UndoRmtree
  <2>q. QED BY <2>1, <2>2
<1>25. CASE UndoInstance
  <2>1. (TypeFlags /\ TypeSets)'
    BY <1>25, ZenonT(20) DEF UndoInstance
  <2>2. (TypeFiles /\ TypeLibvirt /\ TypeProcess)'
    BY <1>25, SMTT(20) DEF UndoInstance
  <2>q. QED BY <2>1, <2>2
<1>26. CASE UndoState
  <2>1. (TypeFlags /\ TypeSets)'
    BY <1>26, ZenonT(20) DEF UndoState
  <2>2. (TypeFiles /\ TypeLibvirt /\ TypeProcess)'
    BY <1>26, SMTT(20) DEF UndoState
  <2>q. QED BY <2>1, <2>2
<1>27. CASE UndoJournal
  <2>1. (TypeFlags /\ TypeSets)'
    BY <1>27, ZenonT(20) DEF UndoJournal
  <2>2. (TypeFiles /\ TypeLibvirt /\ TypeProcess)'
    BY <1>27, SMTT(20) DEF UndoJournal
  <2>q. QED BY <2>1, <2>2
<1>28. CASE SaveFailure
  <2>1. (TypeFlags /\ TypeSets)'
    BY <1>28, ZenonT(20) DEF SaveFailure
  <2>2. (TypeFiles /\ TypeLibvirt /\ TypeProcess)'
    BY <1>28, SMTT(20) DEF SaveFailure
  <2>q. QED BY <2>1, <2>2
<1>29. CASE RecoverDomain
  <2>1. (TypeFlags /\ TypeSets)'
    BY <1>29, ZenonT(20) DEF RecoverDomain, Adoptable, Cleaned, NotCleaned, Removable
  <2>2. (TypeFiles /\ TypeLibvirt /\ TypeProcess)'
    BY <1>29, SMTT(20) DEF RecoverDomain, Adoptable, Cleaned, NotCleaned, Removable
  <2>q. QED BY <2>1, <2>2
<1>30. CASE RecoverDomainsDone
  <2>1. (TypeFlags /\ TypeSets)'
    BY <1>30, ZenonT(20) DEF RecoverDomainsDone
  <2>2. (TypeFiles /\ TypeLibvirt /\ TypeProcess)'
    BY <1>30, SMTT(20) DEF RecoverDomainsDone
  <2>q. QED BY <2>1, <2>2
<1>31. CASE RecoverNetwork
  <2>1. (TypeFlags /\ TypeSets)'
    BY <1>31, ZenonT(20) DEF RecoverNetwork
  <2>2. (TypeFiles /\ TypeLibvirt /\ TypeProcess)'
    BY <1>31, SMTT(20) DEF RecoverNetwork
  <2>q. QED BY <2>1, <2>2
<1>32. CASE RecoverStorage
  <2>1. (TypeFlags /\ TypeSets)'
    BY <1>32, ZenonT(20) DEF RecoverStorage
  <2>2. (TypeFiles /\ TypeLibvirt /\ TypeProcess)'
    BY <1>32, SMTT(20) DEF RecoverStorage
  <2>q. QED BY <2>1, <2>2
<1>33. CASE RecoverRmtree
  <2>1. (TypeFlags /\ TypeSets)'
    BY <1>33, ZenonT(20) DEF RecoverRmtree
  <2>2. (TypeFiles /\ TypeLibvirt /\ TypeProcess)'
    BY <1>33, SMTT(20) DEF RecoverRmtree
  <2>q. QED BY <2>1, <2>2
<1>34. CASE RecoverInstance
  <2>1. (TypeFlags /\ TypeSets)'
    BY <1>34, ZenonT(20) DEF RecoverInstance
  <2>2. (TypeFiles /\ TypeLibvirt /\ TypeProcess)'
    BY <1>34, SMTT(20) DEF RecoverInstance
  <2>q. QED BY <2>1, <2>2
<1>35. CASE RecoverState
  <2>1. (TypeFlags /\ TypeSets)'
    BY <1>35, ZenonT(20) DEF RecoverState
  <2>2. (TypeFiles /\ TypeLibvirt /\ TypeProcess)'
    BY <1>35, SMTT(20) DEF RecoverState
  <2>q. QED BY <2>1, <2>2
<1>36. CASE RecoverJournal
  <2>1. (TypeFlags /\ TypeSets)'
    BY <1>36, ZenonT(20) DEF RecoverJournal
  <2>2. (TypeFiles /\ TypeLibvirt /\ TypeProcess)'
    BY <1>36, SMTT(20) DEF RecoverJournal
  <2>q. QED BY <2>1, <2>2
<1>37. CASE Retry
  <2>1. (TypeFlags /\ TypeSets)'
    BY <1>37, ZenonT(20) DEF Retry, BeginRecovery, NothingToUndo, Records
  <2>2. (TypeFiles /\ TypeLibvirt /\ TypeProcess)'
    BY <1>37, SMTT(20) DEF Retry, BeginRecovery, NothingToUndo, Records
  <2>q. QED BY <2>1, <2>2
<1>38. CASE Crash
  <2>1. (TypeFlags /\ TypeSets)'
    BY <1>38, ZenonT(20) DEF Crash
  <2>2. (TypeFiles /\ TypeLibvirt /\ TypeProcess)'
    BY <1>38, SMTT(20) DEF Crash
  <2>q. QED BY <2>1, <2>2
<1>39. CASE HostReboot
  <2>1. (TypeFlags /\ TypeSets)'
    BY <1>39, ZenonT(20) DEF HostReboot
  <2>2. (TypeFiles /\ TypeLibvirt /\ TypeProcess)'
    BY <1>39, SMTT(20) DEF HostReboot
  <2>q. QED BY <2>1, <2>2
<1>40. CASE CalmDown
  <2>1. (TypeFlags /\ TypeSets)'
    BY <1>40, ZenonT(20) DEF CalmDown
  <2>2. (TypeFiles /\ TypeLibvirt /\ TypeProcess)'
    BY <1>40, SMTT(20) DEF CalmDown
  <2>q. QED BY <2>1, <2>2
<1>41. CASE ForeignNetwork
  <2>1. (TypeFlags /\ TypeSets)'
    BY <1>41, ZenonT(20) DEF ForeignNetwork
  <2>2. (TypeFiles /\ TypeLibvirt /\ TypeProcess)'
    BY <1>41, SMTT(20) DEF ForeignNetwork
  <2>q. QED BY <2>1, <2>2
<1>42. CASE \E v \in VM : ForeignDomain(v)
  <2>1. (TypeFlags /\ TypeSets)'
    BY <1>42, ZenonT(20) DEF ForeignDomain
  <2>2. (TypeFiles /\ TypeLibvirt /\ TypeProcess)'
    BY <1>42, SMTT(20) DEF ForeignDomain
  <2>q. QED BY <2>1, <2>2
<1>43. CASE UNCHANGED vars
  <2>1. (TypeFlags /\ TypeSets)'
    BY <1>43, ZenonT(20)
  <2>2. (TypeFiles /\ TypeLibvirt /\ TypeProcess)'
    BY <1>43, SMTT(20)
  <2>q. QED BY <2>1, <2>2
<1>q. QED
  BY [Next]_vars, <1>1, <1>2, <1>3, <1>4, <1>5, <1>6, <1>7, <1>8,
     <1>9, <1>10, <1>11, <1>12, <1>13, <1>14, <1>15, <1>16, <1>17, <1>18,
     <1>19, <1>20, <1>21, <1>22, <1>23, <1>24, <1>25, <1>26, <1>27, <1>28,
     <1>29, <1>30, <1>31, <1>32, <1>33, <1>34, <1>35, <1>36, <1>37, <1>38,
     <1>39, <1>40, <1>41, <1>42, <1>43, ZenonT(30)
     DEF Next, Running, CreateForward, CreateRollback, Recovery, Environment

(* Creation, rollback and recovery keep every variable in its type. *)
THEOREM TypeCorrect == Spec => []TypeOK
  BY TypeInit, TypeStep, PTL DEF Spec

-----------------------------------------------------------------------------
(* The inductive invariant.                                                *)

LEMMA SafeInit == Init => IInv
<1> SUFFICES ASSUME Init PROVE IInv
  OBVIOUS
<1> USE DEF Init, VM, CreatePcs, UndoPcs, RecoverPcs, AfterMarker, InLoop,
            Removing, AnyDomain, OurDomain, OurNet
<1>1. TypeOK
  BY TypeInit
<1>2. BareIsAdoptable /\ InvOrder
  BY DEF BareIsAdoptable, InvOrder, ReadyIsComplete
<1>3. InvStatus /\ InvTrees /\ InvUndo /\ InvForward /\ InvRecords /\ InvLocals
  BY DEF InvStatus, InvTrees, InvUndo, InvForward, InvRecords, InvLocals
<1>4. InvSlips
  BY DEF InvSlips
<1>q. QED
  BY <1>1, <1>2, <1>3, <1>4 DEF IInv

(* The part of IInv beyond the types. *)
Safe ==
    /\ BareIsAdoptable
    /\ InvStatus /\ InvTrees /\ InvOrder /\ InvUndo /\ InvForward /\ InvRecords
    /\ InvLocals /\ InvSlips

(* Every step keeps it, whatever fails. *)
LEMMA SafeStep == ASSUME IInv, TypeOK', [Next]_vars PROVE Safe'
<1> USE NAssumption
    DEF IInv, Safe, BareIsAdoptable, ReadyIsComplete,
        StorageKnown, DefineKnown, StartKnown, NetKnown, CommitKnown, JournalKnown,
        InvSlips, Slip, Slips, InvStatus, InvTrees, InvOrder, InvUndo, InvForward, InvRecords, InvLocals,
        TypeOK, TypeFlags, TypeFiles, TypeLibvirt, TypeProcess, TypeSets,
        AfterMarker, InLoop, Removing, CreatePcs, UndoPcs, RecoverPcs,
        Stages, Statuses, VmStates, Dirs, DomStates, NetStates, VM,
        AnyDomain, OurDomain, OurNet, Forget, Fault, Rollback, MayFail,
        files, txn, state, trees, libvirt, process, locals, undoStack
<1>1. CASE BeginCreate
  BY <1>1, SMTT(30) DEF BeginCreate
<1>2. CASE SaveJournal
  BY <1>2, SMTT(30) DEF SaveJournal
<1>3. CASE SaveProvisioning
  BY <1>3, SMTT(30) DEF SaveProvisioning
<1>4. CASE MkdirInstance
  BY <1>4, SMTT(30) DEF MkdirInstance
<1>5. CASE MkdirStorage
  BY <1>5, SMTT(30) DEF MkdirStorage
<1>6. CASE WriteMarker
  BY <1>6, SMTT(30) DEF WriteMarker
<1>7. CASE DefineNetwork
  BY <1>7, SMTT(30) DEF DefineNetwork
<1>8. CASE AutostartNetwork
  BY <1>8, SMTT(30) DEF AutostartNetwork
<1>9. CASE StartNetwork
  BY <1>9, SMTT(30) DEF StartNetwork
<1>10. CASE PrepareVm
  BY <1>10, SMTT(30) DEF PrepareVm
<1>11. CASE PlanVm
  BY <1>11, SMTT(30) DEF PlanVm
<1>12. CASE InstallVm
  BY <1>12, SMTT(30) DEF InstallVm
<1>13. CASE AttachMetadata
  BY <1>13, SMTT(30) DEF AttachMetadata
<1>14. CASE RecordAttached
  BY <1>14, SMTT(30) DEF RecordAttached
<1>15. CASE RecordRunning
  BY <1>15, SMTT(30) DEF RecordRunning
<1>16. CASE WaitReady
  BY <1>16, SMTT(30) DEF WaitReady, LastVm
<1>17. CASE Commit
  BY <1>17, SMTT(30) DEF Commit
<1>18. CASE UnlinkJournal
  <2>1. CASE /\ journal' = FALSE /\ stage' = [v \in VM |-> "none"]
             /\ Forget
    BY <1>18, <2>1, SMTT(30) DEF UnlinkJournal
  <2>2. CASE /\ slips' = slips \union {"commit"} /\ pc' = "undo_domains"
             /\ UNCHANGED txn /\ UNCHANGED locals
    BY <1>18, <2>2, SMTT(30) DEF UnlinkJournal
  <2>3. CASE /\ slips' = slips \union {"commit"} /\ pc' = "undo_domains"
             /\ journal' = FALSE /\ stage' = [v \in VM |-> "none"]
             /\ UNCHANGED locals
    BY <1>18, <2>3, SMTT(30) DEF UnlinkJournal
  <2>q. QED BY <1>18, <2>1, <2>2, <2>3, ZenonT(20) DEF UnlinkJournal
<1>19. CASE UndoDomain
  BY <1>19, SMTT(30) DEF UndoDomain, Cleaned, NotCleaned, Removable, IsLast
<1>20. CASE UndoDomainsDone
  BY <1>20, SMTT(30) DEF UndoDomainsDone
<1>21. CASE UndoNetStart
  BY <1>21, SMTT(30) DEF UndoNetStart
<1>22. CASE UndoNetDefine
  BY <1>22, SMTT(30) DEF UndoNetDefine, Undefined
<1>23. CASE UndoStorage
  BY <1>23, SMTT(30) DEF UndoStorage
<1>24. CASE UndoRmtree
  BY <1>24, SMTT(30) DEF UndoRmtree
<1>25. CASE UndoInstance
  BY <1>25, SMTT(30) DEF UndoInstance
<1>26. CASE UndoState
  BY <1>26, SMTT(30) DEF UndoState
<1>27. CASE UndoJournal
  <2>1. CASE /\ journal' = FALSE /\ stage' = [v \in VM |-> "none"]
             /\ Forget
    BY <1>27, <2>1, SMTT(30) DEF UndoJournal
  <2>2. CASE /\ failed' = TRUE /\ pc' = "save_failure"
             /\ UNCHANGED <<txn, slips, cmd, k, mem, undoStack>>
    BY <1>27, <2>2, SMTT(30) DEF UndoJournal
  <2>3. CASE /\ failed' = TRUE /\ pc' = "save_failure"
             /\ slips' = slips \union {"undo_journal"}
             /\ journal' = FALSE /\ stage' = [v \in VM |-> "none"]
             /\ UNCHANGED <<cmd, k, mem, undoStack>>
    BY <1>27, <2>3, SMTT(30) DEF UndoJournal
  <2>q. QED BY <1>27, <2>1, <2>2, <2>3, ZenonT(20) DEF UndoJournal
<1>28. CASE SaveFailure
  BY <1>28, SMTT(30) DEF SaveFailure
<1>29. CASE RecoverDomain
  BY <1>29, SMTT(30) DEF RecoverDomain, Adoptable, Cleaned, NotCleaned, Removable, IsLast
<1>30. CASE RecoverDomainsDone
  BY <1>30, SMTT(30) DEF RecoverDomainsDone
<1>31. CASE RecoverNetwork
  BY <1>31, SMTT(30) DEF RecoverNetwork
<1>32. CASE RecoverStorage
  BY <1>32, SMTT(30) DEF RecoverStorage
<1>33. CASE RecoverRmtree
  BY <1>33, SMTT(30) DEF RecoverRmtree
<1>34. CASE RecoverInstance
  BY <1>34, SMTT(30) DEF RecoverInstance
<1>35. CASE RecoverState
  BY <1>35, SMTT(30) DEF RecoverState
<1>36. CASE RecoverJournal
  <2>1. CASE /\ journal' = FALSE /\ stage' = [v \in VM |-> "none"]
             /\ status = "absent" /\ ~instance
             /\ pc' = "save_journal" /\ UNCHANGED locals
    BY <1>36, <2>1, SMTT(30) DEF RecoverJournal
  <2>2. CASE /\ journal' = FALSE /\ stage' = [v \in VM |-> "none"]
             /\ Forget
    BY <1>36, <2>2, SMTT(30) DEF RecoverJournal
  <2>3. CASE Forget /\ UNCHANGED txn
    BY <1>36, <2>3, SMTT(30) DEF RecoverJournal
  <2>q. QED BY <1>36, <2>1, <2>2, <2>3, ZenonT(20) DEF RecoverJournal
<1>37. CASE Retry
  BY <1>37, SMTT(30) DEF Retry, BeginRecovery, NothingToUndo, ValidJournal, Records
<1>38. CASE Crash
  BY <1>38, SMTT(30) DEF Crash
<1>39. CASE HostReboot
  BY <1>39, SMTT(30) DEF HostReboot
<1>40. CASE CalmDown
  BY <1>40, SMTT(30) DEF CalmDown
<1>41. CASE ForeignNetwork
  BY <1>41, SMTT(30) DEF ForeignNetwork
<1>42. CASE \E v \in VM : ForeignDomain(v)
  BY <1>42, SMTT(30) DEF ForeignDomain
<1>43. CASE UNCHANGED vars
  BY <1>43, SMTT(30) DEF vars
<1>q. QED
  BY [Next]_vars, <1>1, <1>2, <1>3, <1>4, <1>5, <1>6, <1>7, <1>8,
     <1>9, <1>10, <1>11, <1>12, <1>13, <1>14, <1>15, <1>16, <1>17, <1>18,
     <1>19, <1>20, <1>21, <1>22, <1>23, <1>24, <1>25, <1>26, <1>27, <1>28,
     <1>29, <1>30, <1>31, <1>32, <1>33, <1>34, <1>35, <1>36, <1>37, <1>38,
     <1>39, <1>40, <1>41, <1>42, <1>43, ZenonT(30)
     DEF Next, Running, CreateForward, CreateRollback, Recovery, Environment

(* The inductive invariant holds throughout. *)
LEMMA Invariance == Spec => []IInv
<1>1. IInv /\ [Next]_vars => IInv'
  BY TypeStep, SafeStep, Zenon DEF IInv, Safe
<1>q. QED
  BY <1>1, SafeInit, PTL DEF Spec

(* Whatever fails, and whatever it left when it failed, a domain of the lab has
   its marked storage, its instance directory and its state file, and so has a
   network unless its define or start raised with the effect in place: there is
   never a domain of a lab that labctl does not know. *)
THEOREM ResourcesAreRecorded ==
    Spec => [](AnyDomain \/ (OurNet /\ slips \cap NetSlips = {}) =>
                 storage = "marked" /\ instance /\ status # "absent")
<1>1. IInv => (AnyDomain \/ (OurNet /\ slips \cap NetSlips = {}) =>
                 storage = "marked" /\ instance /\ status # "absent")
  BY SMT DEF IInv, InvOrder, NetSlips, NetKnown, DefineKnown, StartKnown
<1>q. QED
  BY <1>1, Invariance, PTL

(* A command that dies, fails or finishes anywhere leaves the dependencies of
   what it leaves behind, but for what a step left that raised with its effect
   in place. *)
THEOREM CleanupOrderHolds == Spec => []CleanupOrder
<1>1. IInv => CleanupOrder
  BY SMT DEF IInv, InvOrder, InvStatus, CleanupOrder, NetSlips, StorageKnown,
             CommitKnown, JournalKnown, NetKnown, DefineKnown, StartKnown
<1>q. QED
  BY <1>1, Invariance, PTL

(* A domain without its ownership metadata always has the durable, still
   planned record by which recovery adopts it, whatever fails. *)
THEOREM BareIsAdoptableHolds == Spec => []BareIsAdoptable
  BY Invariance, PTL DEF IInv

(* A lab recorded as ready has all its domains, network and storage, unless the
   creation that recorded it failed at that commit. *)
THEOREM ReadyIsCompleteHolds == Spec => []ReadyIsComplete
<1>1. IInv => ReadyIsComplete
  BY Zenon DEF IInv, InvOrder
<1>q. QED
  BY <1>1, Invariance, PTL

(* A journal that validation refuses strands files only, no domain, and a
   network only when its define or start raised with the effect in place. *)
THEOREM RefusedHoldsNoResourceHolds == Spec => []RefusedHoldsNoResource
<1>1. ASSUME IInv, pc = "idle", journal, ~ValidJournal
      PROVE  ~AnyDomain /\ (OurNet => slips \cap NetSlips # {})
  <2>1. status # "ready" => storage # "marked" \/ status = "absent"
    BY <1>1, SMT
    DEF IInv, TypeOK, TypeFiles, Stages, InvOrder, InvRecords, ValidJournal, Records
  <2>2. CASE storage # "marked"
    BY <1>1, <2>2, SMT
    DEF IInv, InvOrder, NetSlips, NetKnown, DefineKnown, StartKnown
  <2>3. CASE storage = "marked"
    BY <1>1, <2>1, <2>3, SMT
    DEF IInv, TypeOK, TypeFiles, Stages, InvOrder, InvRecords, ValidJournal, Records
  <2>q. QED
    BY <2>2, <2>3
<1>2. IInv => RefusedHoldsNoResource
  BY <1>1, Zenon DEF RefusedHoldsNoResource
<1>q. QED
  BY <1>2, Invariance, PTL

-----------------------------------------------------------------------------
(* What one step may do to a committed or pending creation.                *)

(* How a step may change the two files, and what is then left alone. *)
ReadyStep ==
    /\ status = "ready" /\ pc \notin UndoPcs =>
          /\ status' = "ready" /\ UNCHANGED <<vms, trees>>
          /\ net = "active" => net' = "active"
          /\ \A v \in VM : dom[v] = "owned" => dom'[v] = "owned"
    /\ status = "ready" /\ pc \notin UndoPcs /\ pc # "unlink_journal"
          => pc' # "unlink_journal" /\ UNCHANGED slips
    /\ status = "ready" /\ pc = "unlink_journal"
          => slips' \in {slips, slips \union {"commit"}}
    /\ status # "ready" /\ status' = "ready" =>
          /\ journal /\ slips = {}
          /\ pc' = "unlink_journal" \/ "commit" \in slips'

FileStep ==
    /\ ~journal /\ journal' =>
          /\ status = "absent" /\ UNCHANGED <<state, instance>>
          /\ storage' = "absent" /\ slips' = {}
          /\ net' = "absent" /\ \A v \in VM : dom'[v] = "absent"
    /\ journal /\ ~journal' => UNCHANGED <<state, trees, dom, net>>
    /\ journal \/ ~journal' => slips \subseteq slips'
    /\ slips = {} /\ ~journal => slips' = {}

LEMMA ReadySteps == ASSUME IInv, [Next]_vars PROVE ReadyStep
<1> USE DEF ReadyStep, IInv, InvSlips, InvStatus, CommitKnown, JournalKnown, Slip,
            Forget, Fault, Rollback, CreatePcs, UndoPcs, RecoverPcs, VM,
            files, txn, state, trees, libvirt, process, locals, undoStack, vars
<1>1. CASE Running
  <2>1. CASE CreateForward
    <3>0. CASE SaveJournal
      BY <3>0, SMTT(30) DEF SaveJournal
    <3>1. CASE SaveProvisioning \/ MkdirInstance \/ MkdirStorage
      BY <3>1, SMTT(30) DEF SaveProvisioning, MkdirInstance, MkdirStorage
    <3>2. CASE \/ WriteMarker \/ DefineNetwork \/ AutostartNetwork
               \/ StartNetwork \/ PrepareVm \/ PlanVm
      BY <3>2, SMTT(30)
      DEF WriteMarker, DefineNetwork, AutostartNetwork, StartNetwork,
          PrepareVm, PlanVm
    <3>3. CASE \/ InstallVm \/ AttachMetadata \/ RecordAttached
               \/ RecordRunning \/ WaitReady
      BY <3>3, SMTT(30)
      DEF InstallVm, AttachMetadata, RecordAttached, RecordRunning, WaitReady
    <3>4. CASE Commit
      BY <3>4, SMTT(30) DEF Commit
    <3>5. CASE UnlinkJournal
      <4>1. /\ UNCHANGED <<state, trees, libvirt>>
            /\ pc = "unlink_journal" /\ pc' # "unlink_journal"
            /\ slips' = slips \/ slips' = slips \union {"commit"}
        BY <3>5, Zenon DEF UnlinkJournal
      <4>q. QED
        BY <4>1
    <3>q. QED
      BY <2>1, <3>0, <3>1, <3>2, <3>3, <3>4, <3>5, Zenon DEF CreateForward
  <2>2. CASE CreateRollback
    BY <2>2, SMTT(60)
    DEF CreateRollback, UndoDomain, UndoDomainsDone, UndoNetStart,
        UndoNetDefine, UndoStorage, UndoRmtree, UndoInstance, UndoState,
        UndoJournal, SaveFailure
  <2>3. CASE Recovery
    BY <2>3, SMTT(60)
    DEF Recovery, RecoverDomain, RecoverDomainsDone, RecoverNetwork,
        RecoverStorage, RecoverRmtree, RecoverInstance, RecoverState,
        RecoverJournal
  <2>q. QED
    BY <1>1, <2>1, <2>2, <2>3 DEF Running
<1>2. CASE BeginCreate \/ Retry
  BY <1>2, SMTT(30) DEF BeginCreate, Retry, BeginRecovery
<1>3. CASE Environment
  <2>1. CASE HostReboot
    <3>1. net = "active" => net' = "active"
      BY <2>1, SMTT(30) DEF HostReboot
    <3>2. /\ UNCHANGED <<files, dom, slips>> /\ pc' = "idle"
      BY <2>1, Zenon DEF HostReboot, Forget
    <3>q. QED
      BY <3>1, <3>2
  <2>2. CASE Crash \/ CalmDown
    BY <2>2 DEF Crash, CalmDown
  <2>3. CASE ForeignNetwork
    BY <2>3 DEF ForeignNetwork
  <2>4. CASE \E v \in VM : ForeignDomain(v)
    <3>1. PICK w \in VM : /\ dom[w] # "owned"
                          /\ \/ dom' = [dom EXCEPT ![w] = "foreign"]
                             \/ dom' = [dom EXCEPT ![w] = "absent"]
      BY <2>4, SMT DEF ForeignDomain
    <3>2. \A v \in VM : dom[v] = "owned" => dom'[v] = "owned"
      <4>1. dom \in [VM -> DomStates]
        BY DEF TypeOK, TypeLibvirt
      <4>2. \A v \in VM \ {w} : dom'[v] = dom[v]
        BY <3>1, <4>1
      <4>q. QED
        BY <3>1, <4>2
    <3>3. UNCHANGED <<files, net, process, slips>>
      BY <2>4, Zenon DEF ForeignDomain
    <3>q. QED
      BY <3>2, <3>3
  <2>q. QED
    BY <1>3, <2>1, <2>2, <2>3, <2>4, Zenon DEF Environment
<1>4. CASE UNCHANGED vars
  BY <1>4, SMTT(30)
<1>q. QED
  BY <1>1, <1>2, <1>3, <1>4, Zenon DEF Next

LEMMA FileSteps == ASSUME IInv, [Next]_vars PROVE FileStep
<1> USE DEF FileStep, IInv, InvSlips, InvStatus, CommitKnown, JournalKnown, Slip,
            Forget, Fault, Rollback, CreatePcs, UndoPcs, RecoverPcs, VM,
            files, txn, state, trees, libvirt, process, locals, undoStack, vars
<1>1. CASE Running
  <2>1. CASE CreateForward
    <3>0. CASE SaveJournal
      <4>1. ~journal /\ status = "absent" /\ UNCHANGED <<state, instance>>
        BY <3>0, SMTT(30) DEF SaveJournal
      <4>2. CASE UNCHANGED <<txn, storage, libvirt, slips>>
        BY <4>1, <4>2
      <4>3. CASE /\ journal' = TRUE /\ storage' = "absent" /\ slips' = {}
                 /\ net' = "absent" /\ dom' = [v \in VM |-> "absent"]
        <5>1. \A v \in VM : dom'[v] = "absent"
          BY <4>3
        <5>q. QED
          BY <4>1, <4>3, <5>1
      <4>q. QED
        BY <3>0, <4>2, <4>3, Zenon DEF SaveJournal
    <3>1. CASE SaveProvisioning \/ MkdirInstance \/ MkdirStorage
      BY <3>1, SMTT(30) DEF SaveProvisioning, MkdirInstance, MkdirStorage
    <3>2. CASE \/ WriteMarker \/ DefineNetwork \/ AutostartNetwork
               \/ StartNetwork \/ PrepareVm \/ PlanVm
      BY <3>2, SMTT(30)
      DEF WriteMarker, DefineNetwork, AutostartNetwork, StartNetwork,
          PrepareVm, PlanVm
    <3>3. CASE \/ InstallVm \/ AttachMetadata \/ RecordAttached
               \/ RecordRunning \/ WaitReady
      BY <3>3, SMTT(30)
      DEF InstallVm, AttachMetadata, RecordAttached, RecordRunning, WaitReady
    <3>4. CASE Commit
      BY <3>4, SMTT(30) DEF Commit
    <3>5. CASE UnlinkJournal
      BY <3>5, SMTT(30) DEF UnlinkJournal
    <3>q. QED
      BY <2>1, <3>0, <3>1, <3>2, <3>3, <3>4, <3>5, Zenon DEF CreateForward
  <2>2. CASE CreateRollback
    BY <2>2, SMTT(60)
    DEF CreateRollback, UndoDomain, UndoDomainsDone, UndoNetStart,
        UndoNetDefine, UndoStorage, UndoRmtree, UndoInstance, UndoState,
        UndoJournal, SaveFailure
  <2>3. CASE Recovery
    BY <2>3, SMTT(60)
    DEF Recovery, RecoverDomain, RecoverDomainsDone, RecoverNetwork,
        RecoverStorage, RecoverRmtree, RecoverInstance, RecoverState,
        RecoverJournal
  <2>q. QED
    BY <1>1, <2>1, <2>2, <2>3 DEF Running
<1>2. CASE BeginCreate \/ Retry
  BY <1>2, SMTT(30) DEF BeginCreate, Retry, BeginRecovery
<1>3. CASE Environment
  BY <1>3, SMTT(30)
  DEF Environment, Crash, HostReboot, CalmDown, ForeignNetwork, ForeignDomain
<1>4. CASE UNCHANGED vars
  BY <1>4, SMTT(30)
<1>q. QED
  BY <1>1, <1>2, <1>3, <1>4, Zenon DEF Next

(* A committed lab is never taken apart, neither by a recovery of the journal
   it still has nor by another command, except by the rollback of the creation
   that failed at that very commit. *)
THEOREM CommitIsFinalHolds == Spec => CommitIsFinal
<1>1. ASSUME IInv, [Next]_vars, status = "ready"
      PROVE  \/ /\ status' = "ready" /\ UNCHANGED <<vms, trees>>
                /\ net = "active" => net' = "active"
                /\ \A v \in VM : dom[v] = "owned" => dom'[v] = "owned"
             \/ pc \in UndoPcs /\ cmd = "create" /\ "commit" \in slips
  <2>1. CASE pc \in UndoPcs
    BY <1>1, <2>1, SMT
    DEF IInv, InvSlips, InvStatus, CommitKnown, UndoPcs
  <2>2. CASE pc \notin UndoPcs
    BY <1>1, <2>2, ReadySteps, Zenon DEF ReadyStep
  <2>q. QED
    BY <2>1, <2>2
<1>q. QED
  BY <1>1, Invariance, PTL DEF Spec, CommitIsFinal

(* How a step may change what is not ours: only the environment's own steps,
   which touch nothing else. *)
ForeignKept ==
    /\ \A v \in VM : dom[v] = "foreign" => dom'[v] = "foreign"
    /\ net = "foreign" => net' = "foreign"

LEMMA ForeignSteps ==
    ASSUME IInv, [Next]_vars
    PROVE  pc = "save_journal" \/ ForeignKept \/ UNCHANGED <<files, process>>
<1> USE NAssumption
    DEF ForeignKept, IInv, InvUndo, InvForward, TypeOK, TypeLibvirt,
        TypeProcess, DomStates, NetStates, VmStates, VM, InLoop, CreatePcs, UndoPcs,
        RecoverPcs, OurDomain, AnyDomain, OurNet, Rollback, Fault, MayFail,
        libvirt, files, txn, state, trees, locals, undoStack
<1>0. ASSUME UNCHANGED libvirt PROVE ForeignKept
  BY <1>0
<1>1. ASSUME CreateForward PROVE pc = "save_journal" \/ ForeignKept
  <2>1. CASE SaveJournal
    BY <2>1, Zenon DEF SaveJournal
  <2>2. ASSUME DefineNetwork \/ AutostartNetwork \/ StartNetwork
        PROVE ForeignKept
    BY <2>2, SMTT(30) DEF DefineNetwork, AutostartNetwork, StartNetwork
  <2>3. ASSUME InstallVm PROVE ForeignKept
    BY <2>3, SMTT(30) DEF InstallVm
  <2>4. ASSUME AttachMetadata PROVE ForeignKept
    BY <2>4, SMTT(30) DEF AttachMetadata
  <2>5. \/ UNCHANGED libvirt \/ SaveJournal \/ DefineNetwork
        \/ AutostartNetwork \/ StartNetwork \/ InstallVm \/ AttachMetadata
    BY <1>1, Zenon
    DEF CreateForward, SaveProvisioning, MkdirInstance, MkdirStorage,
        WriteMarker, PrepareVm, PlanVm, RecordAttached, RecordRunning,
        WaitReady, Commit, UnlinkJournal
  <2>q. QED
    BY <1>0, <2>1, <2>2, <2>3, <2>4, <2>5, Zenon
<1>2. ASSUME CreateRollback PROVE ForeignKept
  <2>1. ASSUME UndoDomain PROVE ForeignKept
    BY <2>1, SMTT(30) DEF UndoDomain, Cleaned, NotCleaned, Removable
  <2>2. ASSUME UndoNetStart \/ UndoNetDefine PROVE ForeignKept
    BY <2>2, SMTT(30) DEF UndoNetStart, UndoNetDefine
  <2>3. UNCHANGED libvirt \/ UndoDomain \/ UndoNetStart \/ UndoNetDefine
    BY <1>2, Zenon
    DEF CreateRollback, UndoDomainsDone, UndoStorage, UndoRmtree,
        UndoInstance, UndoState, UndoJournal, SaveFailure
  <2>q. QED
    BY <1>0, <2>1, <2>2, <2>3, Zenon
<1>3. ASSUME Recovery PROVE ForeignKept
  <2>1. ASSUME RecoverDomain PROVE ForeignKept
    BY <2>1, SMTT(30) DEF RecoverDomain, Adoptable, Cleaned, NotCleaned, Removable
  <2>2. ASSUME RecoverNetwork PROVE ForeignKept
    BY <2>2, SMTT(30) DEF RecoverNetwork
  <2>3. UNCHANGED libvirt \/ RecoverDomain \/ RecoverNetwork
    BY <1>3, Zenon
    DEF Recovery, RecoverDomainsDone, RecoverStorage, RecoverRmtree,
        RecoverInstance, RecoverState, RecoverJournal
  <2>q. QED
    BY <1>0, <2>1, <2>2, <2>3, Zenon
<1>4. ASSUME BeginCreate \/ Retry PROVE ForeignKept
  BY <1>4, <1>0, Zenon DEF BeginCreate, Retry, BeginRecovery
<1>5. ASSUME Environment PROVE ForeignKept \/ UNCHANGED <<files, process>>
  <2>1. ASSUME HostReboot PROVE ForeignKept
    BY <2>1 DEF HostReboot
  <2>q. QED
    BY <1>5, <1>0, <2>1, Zenon
    DEF Environment, Crash, CalmDown, ForeignNetwork, ForeignDomain
<1>6. ASSUME UNCHANGED vars PROVE ForeignKept
  BY <1>6, <1>0, Zenon DEF vars
<1>q. QED
  BY <1>1, <1>2, <1>3, <1>4, <1>5, <1>6, Zenon DEF Next, Running

(* labctl never changes a domain or a network that is not its own, whatever
   fails. *)
THEOREM ForeignUntouchedHolds == Spec => ForeignUntouched
<1>1. IInv /\ [Next]_vars =>
        [/\ pc # "save_journal"
         /\ \/ \E v \in VM : dom[v] = "foreign" /\ dom'[v] # "foreign"
            \/ net = "foreign" /\ net' # "foreign"
         => UNCHANGED <<files, process>>]_vars
  BY ForeignSteps, Zenon DEF ForeignKept
<1>q. QED
  BY <1>1, Invariance, PTL DEF Spec, ForeignUntouched

-----------------------------------------------------------------------------
(* The creation implements LabContract.                                    *)

LEMMA ContractInitially == Init => Outside!ContractInit
<1> SUFFICES ASSUME Init PROVE Outside!ContractInit
  OBVIOUS
<1>1. LabPhase = "absent"
  BY DEF Init, LabPhase, Committed, Recorded
<1>2. ~AnyDomain /\ ~OurNet /\ storage = "absent" /\ ~instance
  BY DEF Init, AnyDomain, OurDomain, OurNet
<1>3. LabClean = TRUE
  BY DEF Init, LabClean
<1>q. QED
  BY <1>1, <1>2, <1>3 DEF Outside!ContractInit, LabResources

(* What the abstract variables say of an invariant state. *)
PhaseFact ==
    /\ LabPhase \in {"absent", "pending", "ready", "broken"}
    /\ LabPhase = "ready" <=> Committed
    /\ LabPhase = "pending" <=> ~Committed /\ Recorded
    /\ LabPhase = "broken" => LabClean = FALSE /\ ~Committed /\ ~Recorded
    /\ LabPhase = "absent" => /\ ~journal /\ LabClean = TRUE /\ status # "ready"
                              /\ LabResources = "none"
    /\ status = "ready" /\ "commit" \notin slips => LabResources = "all"
    /\ LabResources \in {"none", "some", "all"}
    /\ LabClean \in BOOLEAN /\ (LabClean = TRUE <=> slips = {})

LEMMA PhaseFacts == ASSUME IInv PROVE PhaseFact
<1>1. status = "ready" /\ "commit" \notin slips => LabResources = "all"
  <2> SUFFICES ASSUME status = "ready", "commit" \notin slips
               PROVE  LabResources = "all"
    OBVIOUS
  <2>1. /\ \A v \in VM : dom[v] = "owned"
        /\ net = "active" /\ storage = "marked" /\ instance
    BY DEF IInv, InvOrder, ReadyIsComplete
  <2>2. 1 \in VM /\ AnyDomain
    BY <2>1, NAssumption DEF VM, AnyDomain, OurDomain
  <2>q. QED
    BY <2>1, <2>2 DEF LabResources
<1>2. LabPhase = "absent" =>
        /\ ~journal /\ slips = {} /\ status # "ready" /\ LabResources = "none"
  <2> SUFFICES ASSUME LabPhase = "absent"
               PROVE  /\ ~journal /\ slips = {} /\ status # "ready"
                      /\ LabResources = "none"
    OBVIOUS
  <2>1. ~journal /\ slips = {} /\ ~Committed
    BY DEF LabPhase
  <2>2. status # "ready"
    BY <2>1 DEF Committed, IInv, InvStatus, CreatePcs, RecoverPcs
  <2>3. ~AnyDomain /\ ~OurNet /\ ~instance /\ storage = "absent"
    BY <2>1, <2>2
    DEF IInv, InvOrder, CommitKnown, NetKnown, DefineKnown, StartKnown, StorageKnown
  <2>q. QED
    BY <2>1, <2>2, <2>3 DEF LabResources
<1>3. LabPhase = "broken" => slips # {} /\ ~Committed /\ ~Recorded
  BY DEF LabPhase, Committed, Recorded
<1>4. /\ LabPhase \in {"absent", "pending", "ready", "broken"}
      /\ LabPhase = "ready" <=> Committed
      /\ LabPhase = "pending" <=> ~Committed /\ Recorded
  <2>1. CASE Committed
    BY <2>1, SMT DEF LabPhase
  <2>2. CASE ~Committed /\ Recorded
    BY <2>2, SMT DEF LabPhase, Recorded
  <2>3. CASE ~Committed /\ ~Recorded /\ ~journal /\ slips = {}
    BY <2>3, SMT DEF LabPhase
  <2>4. CASE ~Committed /\ ~Recorded /\ ~(~journal /\ slips = {})
    BY <2>4, SMT DEF LabPhase
  <2>q. QED
    BY <2>1, <2>2, <2>3, <2>4, Zenon
<1>5. LabResources \in {"none", "some", "all"}
  BY DEF LabResources
<1>q. QED
  BY <1>1, <1>2, <1>3, <1>4, <1>5, Zenon DEF PhaseFact, LabClean

(* Every step is a step of the contract, or changes nothing it speaks of. *)
LEMMA ContractStep ==
    ASSUME IInv, PhaseFact, PhaseFact', [Next]_vars
    PROVE  [Outside!ContractNext]_(Outside!contractVars)
<1> USE DEF PhaseFact, Outside!ContractNext, Outside!contractVars,
            Outside!Begin, Outside!Work, Outside!CommitLab, Outside!Discard,
            Outside!Break
<1>0. ReadyStep /\ FileStep
  BY ReadySteps, FileSteps
<1>a. status = "ready" /\ pc \in UndoPcs => "commit" \in slips
  BY SMT DEF IInv, InvStatus, CommitKnown, UndoPcs
<1>b. pc = "unlink_journal" => slips = {} /\ status = "ready" /\ journal
  BY SMT DEF IInv, InvSlips, InvStatus, CreatePcs
<1>c. status = "ready" /\ "commit" \notin slips => slips = {}
  BY DEF IInv, InvSlips
<1>1. CASE LabPhase = "ready"
  <2>1. Committed
    BY <1>1
  <2>2. /\ status' = "ready" /\ UNCHANGED slips /\ pc' # "unlink_journal"
    BY <2>1, <1>0, <1>a DEF ReadyStep, Committed
  <2>3. Committed'
    BY <2>1, <2>2 DEF Committed
  <2>4. LabResources = "all" /\ LabResources' = "all"
    BY <2>1, <2>3 DEF Committed
  <2>q. QED
    BY <1>1, <2>2, <2>3, <2>4 DEF LabClean
<1>2. CASE LabPhase = "absent"
  <2>1. status # "ready" /\ ~journal /\ LabResources = "none" /\ slips = {}
    BY <1>2
  <2>2. status' # "ready" /\ slips' = {}
    BY <2>1, <1>0 DEF FileStep, ReadyStep
  <2>3. CASE journal'
    <3>1. LabResources' = "none"
      BY <2>1, <2>3, <1>0, <1>2
      DEF FileStep, LabResources, AnyDomain, OurDomain, OurNet, state, IInv,
          InvOrder, CommitKnown
    <3>2. LabPhase' = "pending"
      BY <2>2, <2>3 DEF Recorded, Committed
    <3>q. QED
      BY <1>2, <2>2, <3>1, <3>2
  <2>4. CASE ~journal'
    <3>1. LabPhase' = "absent"
      BY <2>2, <2>4 DEF Committed, Recorded
    <3>q. QED
      BY <1>2, <2>1, <2>2, <3>1
  <2>q. QED
    BY <2>3, <2>4
<1>3. CASE LabPhase = "pending"
  <2>1. journal /\ slips \subseteq slips'
    BY <1>3, <1>0 DEF FileStep, Recorded
  <2>2. CASE LabPhase' = "pending"
    BY <1>3, <2>1, <2>2
  <2>3. CASE LabPhase' = "ready"
    <3>1. status' = "ready" /\ "commit" \notin slips' /\ pc' # "unlink_journal"
      BY <2>3 DEF Committed
    <3>2. status = "ready" /\ "commit" \notin slips
      BY <3>1, <2>1, <1>0 DEF ReadyStep
    <3>3. slips = {} /\ pc = "unlink_journal"
      BY <1>3, <3>2, <1>c DEF Committed
    <3>4. slips' = {}
      BY <3>1, <3>2, <3>3, <1>0 DEF ReadyStep
    <3>q. QED
      BY <1>3, <2>3, <3>1, <3>2, <3>3, <3>4
  <2>4. CASE LabPhase' = "absent"
    <3>1. ~journal' /\ slips' = {} /\ status' # "ready" /\ LabResources' = "none"
      BY <2>4
    <3>2. slips = {}
      BY <3>1, <2>1
    <3>3. UNCHANGED <<trees, dom, net>>
      BY <3>1, <2>1, <1>0 DEF FileStep
    <3>4. UNCHANGED LabResources
      BY <3>3 DEF LabResources, AnyDomain, OurDomain, OurNet, trees
    <3>q. QED
      BY <1>3, <2>4, <3>1, <3>2, <3>4
  <2>5. CASE LabPhase' = "broken"
    BY <1>3, <2>5
  <2>q. QED
    BY <2>2, <2>3, <2>4, <2>5
<1>4. CASE LabPhase = "broken"
  <2>1. slips # {} /\ ~Committed /\ ~Recorded
    BY <1>4
  <2>2. ~Committed'
    <3> SUFFICES ASSUME status' = "ready", "commit" \notin slips',
                        pc' # "unlink_journal"
                 PROVE  FALSE
      BY DEF Committed
    <3>1. status = "ready"
      BY <2>1, <1>0 DEF ReadyStep
    <3>2. "commit" \in slips
      BY <2>1, <3>1, <1>b DEF Committed
    <3>3. ~journal /\ journal'
      BY <3>2, <1>0 DEF FileStep
    <3>q. QED
      BY <3>1, <3>3, <1>0 DEF FileStep
  <2>3. CASE ~journal /\ journal'
    <3>1. slips' = {} /\ UNCHANGED <<state, instance>>
      BY <2>3, <1>0 DEF FileStep
    <3>2. LabPhase' = "pending"
      BY <2>2, <2>3, <3>1 DEF Recorded
    <3>3. LabResources' = "none"
      BY <2>3, <1>0, <3>1
      DEF FileStep, LabResources, AnyDomain, OurDomain, OurNet, IInv, InvOrder, state
    <3>q. QED
      BY <1>4, <3>1, <3>2, <3>3
  <2>4. CASE journal \/ ~journal'
    <3>1. slips' # {}
      BY <2>1, <2>4, <1>0 DEF FileStep
    <3>2. LabPhase' \in {"pending", "broken"}
      BY <2>2, <3>1
    <3>q. QED
      BY <1>4, <3>1, <3>2
  <2>q. QED
    BY <2>3, <2>4
<1>q. QED
  BY <1>1, <1>2, <1>3, <1>4

(* Creation, with its rollback, crashes and recoveries, implements the
   contract, whatever fails: a lab passes from absent to pending to ready, or
   back to absent, with everything of it on the host when it becomes ready and
   as long as it is, and nothing of it when it is forgotten; a creation of which
   a step raised with its effect in place may end broken, and never passes for
   ready. *)
THEOREM ImplementsContractHolds == Spec => ImplementsContract
<1>1. IInv => PhaseFact
  BY PhaseFacts
<1>2. IInv' => PhaseFact'
  BY <1>1, PTL
<1>3. IInv /\ IInv' /\ [Next]_vars => [Outside!ContractNext]_(Outside!contractVars)
  BY <1>1, <1>2, ContractStep, Zenon
<1>q. QED
  BY <1>3, Invariance, ContractInitially, PTL
  DEF Spec, ImplementsContract, Outside!Contract
=============================================================================
