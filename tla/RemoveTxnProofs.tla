-------------------------- MODULE RemoveTxnProofs --------------------------
(***************************************************************************)
(* Proofs about RemoveTxn for any number of virtual machines and any       *)
(* dependencies among them: the order in which a lab is taken apart, the   *)
(* order in which its virtual machines may leave it, and that both refine  *)
(* RemovalContract.  The invariant says what each step of a removal may    *)
(* rely on, and, for a lab that is kept, how its record, its domains and   *)
(* the files of its VMs go together.                                       *)
(***************************************************************************)
EXTENDS RemoveTxn, TLAPS

(* Past the domains, past the network, ... *)
AfterDomains == {"network", "storage", "instance", "unlink_state", "unlink_journal"}
AfterRecord  == {"vm_overlay", "vm_seed", "vm_save", "vm_unlink"}

Kept == journal # "remove" /\ status # "absent"

(* The VM that a targeted removal has on its journal. *)
Leaving(v) == journal = "remove-vm" /\ target = v

-----------------------------------------------------------------------------
(* Where the process is, its journal tells; a removal whose last step failed
   after the fact has none any more. *)
InvJournal ==
    /\ pc \in RemovePcs =>
          journal = "remove" \/ (pc = "save_failure" /\ journal = "none" /\ status = "absent")
    /\ pc \in RemoveVmPcs => journal = "remove-vm" /\ status # "absent"

(* The removal of a lab: what the steps so far have achieved. *)
InvLab ==
    /\ pc = "stop" =>
          /\ force /\ storage = "marked"
          /\ \A v \in VM : v \in todo => dom[v] \in {"on", "transient"}
    /\ pc = "domains" /\ ~failed =>
          \A v \in VM : v \notin todo => dom[v] = "absent" /\ mem[v] = "missing"
    /\ pc \in AfterDomains \/ (pc = "save_failure" /\ journal = "none") =>
          \A v \in VM : dom[v] = "absent" /\ mem[v] = "missing"
    /\ pc \in {"storage", "instance", "unlink_state", "unlink_journal"} => net = "absent"
    /\ pc \in {"instance", "unlink_state", "unlink_journal"} => storage = "absent"
    /\ pc \in {"unlink_state", "unlink_journal"} => ~instance
    /\ pc = "unlink_journal" => status = "absent"

(* The removal of a VM: its domain goes, then its record, then its files. *)
InvVm ==
    /\ pc \in {"vm_record"} \union AfterRecord => dom[target] = "absent"
    /\ pc \in AfterRecord => vms[target] = "missing"
    /\ (pc \in {"vm_seed", "vm_save"} /\ ~failed) \/ pc = "vm_unlink" =>
          files[target] # VmFiles

InvStorage == storage = "absent" => \A v \in VM : files[v] = {}

(* In a lab that is kept, a VM is gone from the record, from libvirt and from
   storage, or from none of them, save for the one that is leaving; and when it
   leaves or is gone, so is everything that depends on it, for good: without
   its files nobody can define it again. *)
InvKept ==
    Kept => \A v \in VM :
        /\ vms[v] = "missing" => Leaving(v) \/ files[v] # VmFiles
        /\ dom[v] = "absent" => Leaving(v) \/ vms[v] = "missing"
        /\ Leaving(v) \/ vms[v] = "missing" =>
              \A w \in Dependants(v) : vms[w] = "missing" /\ files[w] # VmFiles

Safe == InvJournal /\ InvLab /\ InvVm /\ InvStorage /\ InvKept /\ CleanupOrder
IInv == TypeOK /\ Safe

(* The type invariant in parts: sets and Booleans go to Zenon, functions to SMT. *)
TypeSets ==
    /\ todo \in SUBSET VM /\ files \in [VM -> SUBSET VmFiles]
    /\ instance \in BOOLEAN /\ force \in BOOLEAN /\ failed \in BOOLEAN /\ calm \in BOOLEAN
TypeRest ==
    /\ journal \in {"none", "remove", "remove-vm"} /\ target \in VM
    /\ status \in Statuses /\ net \in NetStates
    /\ storage \in {"marked", "stripped", "absent"}
    /\ pc \in {"idle"} \union RemovePcs \union RemoveVmPcs
TypeVms ==
    /\ vms \in [VM -> VmStates] /\ mem \in [VM -> VmStates] /\ dom \in [VM -> DomStates]

LEMMA TypeParts == TypeOK <=> TypeSets /\ TypeRest /\ TypeVms
  BY Zenon DEF TypeOK, TypeSets, TypeRest, TypeVms

(* The invariant holds initially. *)
LEMMA InvInit == Init => IInv
<1> SUFFICES ASSUME Init PROVE IInv
  OBVIOUS
<1> USE NAssumption DEF VM
<1>1. TypeSets
  BY Zenon DEF Init, TypeSets
<1>2. TypeRest /\ TypeVms
  BY DEF Init, TypeRest, TypeVms, Statuses, NetStates, VmStates, DomStates
<1>3. Safe
  BY DEF Init, Safe, InvJournal, InvLab, InvVm, InvStorage, InvKept, CleanupOrder,
         RemovePcs, RemoveVmPcs, AfterDomains, AfterRecord, Kept, Leaving
<1>q. QED
  BY <1>1, <1>2, <1>3, TypeParts DEF IInv

(* Every step keeps the types. *)
LEMMA TypeStep == ASSUME TypeOK, [Next]_vars PROVE TypeOK'
<1>0. TypeSets /\ TypeRest /\ TypeVms
  BY TypeParts
<1>t. (TypeSets /\ TypeRest /\ TypeVms)' => TypeOK'
  BY TypeParts, PTL
<1> USE <1>0, NAssumption DEF VM, Forget, MayFail, txn, state, trees, host, locals, vars
<1>1. CASE BeginRemove
  <2>1. TypeSets'
    BY <1>1, ZenonT(20) DEF BeginRemove, StorageTrusted, TypeSets
  <2>2. TypeRest'
    BY <1>1, SMTT(20) DEF BeginRemove, StorageTrusted, TypeRest, Statuses,
       NetStates, RemovePcs, RemoveVmPcs
  <2>3. TypeVms'
    BY <1>1, SMTT(20) DEF BeginRemove, StorageTrusted, TypeVms, VmStates,
       DomStates, On
  <2>q. QED BY <1>t, <2>1, <2>2, <2>3
<1>2. CASE FinishRemove
  <2>1. TypeSets'
    BY <1>2, ZenonT(20) DEF FinishRemove, TypeSets
  <2>2. TypeRest'
    BY <1>2, SMTT(20) DEF FinishRemove, TypeRest, Statuses, NetStates,
       RemovePcs, RemoveVmPcs
  <2>3. TypeVms'
    BY <1>2, SMTT(20) DEF FinishRemove, TypeVms, VmStates, DomStates, On
  <2>q. QED BY <1>t, <2>1, <2>2, <2>3
<1>3. CASE BeginRemoveVm
  <2>1. TypeSets'
    BY <1>3, ZenonT(20) DEF BeginRemoveVm, NoDependants, TypeSets
  <2>2. TypeRest'
    BY <1>3, SMTT(20) DEF BeginRemoveVm, NoDependants, TypeRest, Statuses,
       NetStates, RemovePcs, RemoveVmPcs
  <2>3. TypeVms'
    BY <1>3, SMTT(20) DEF BeginRemoveVm, NoDependants, TypeVms, VmStates,
       DomStates, On
  <2>q. QED BY <1>t, <2>1, <2>2, <2>3
<1>4. CASE MarkMissing
  <2>1. TypeSets'
    BY <1>4, ZenonT(20) DEF MarkMissing, TypeSets
  <2>2. TypeRest'
    BY <1>4, SMTT(20) DEF MarkMissing, TypeRest, Statuses, NetStates,
       RemovePcs, RemoveVmPcs
  <2>3. TypeVms'
    BY <1>4, SMTT(20) DEF MarkMissing, TypeVms, VmStates, DomStates, On
  <2>q. QED BY <1>t, <2>1, <2>2, <2>3
<1>5. CASE Correct
  <2>1. TypeSets'
    BY <1>5, ZenonT(20) DEF Correct, CorrectedVms, TypeSets
  <2>2. TypeRest'
    BY <1>5, SMTT(20) DEF Correct, CorrectedVms, TypeRest, Statuses,
       NetStates, RemovePcs, RemoveVmPcs
  <2>3. TypeVms'
    BY <1>5, SMTT(20) DEF Correct, CorrectedVms, TypeVms, VmStates, DomStates,
       On
  <2>q. QED BY <1>t, <2>1, <2>2, <2>3
<1>6. CASE GuardRunning
  <2>1. TypeSets'
    <3>1. todo' \in {VM, {v \in On : vms[v] # "missing"}, {}}
      BY <1>6, Zenon DEF GuardRunning
    <3>2. todo' \in SUBSET VM
      BY <3>1 DEF On
    <3>q. QED BY <1>6, <3>2, Zenon DEF GuardRunning, TypeSets
  <2>2. TypeRest'
    BY <1>6, SMTT(20) DEF GuardRunning, TypeRest, Statuses, NetStates,
       RemovePcs, RemoveVmPcs
  <2>3. TypeVms'
    BY <1>6, SMTT(20) DEF GuardRunning, TypeVms, VmStates, DomStates, On
  <2>q. QED BY <1>t, <2>1, <2>2, <2>3
<1>7. CASE StopVm
  <2>1. TypeSets'
    BY <1>7, ZenonT(20) DEF StopVm, TypeSets
  <2>2. TypeRest'
    BY <1>7, SMTT(20) DEF StopVm, TypeRest, Statuses, NetStates, RemovePcs,
       RemoveVmPcs
  <2>3. TypeVms'
    BY <1>7, SMTT(20) DEF StopVm, TypeVms, VmStates, DomStates, On
  <2>q. QED BY <1>t, <2>1, <2>2, <2>3
<1>8. CASE StopDone
  <2>1. TypeSets'
    BY <1>8, ZenonT(20) DEF StopDone, TypeSets
  <2>2. TypeRest'
    BY <1>8, SMTT(20) DEF StopDone, TypeRest, Statuses, NetStates, RemovePcs,
       RemoveVmPcs
  <2>3. TypeVms'
    BY <1>8, SMTT(20) DEF StopDone, TypeVms, VmStates, DomStates, On
  <2>q. QED BY <1>t, <2>1, <2>2, <2>3
<1>9. CASE RemoveDomain
  <2>1. TypeSets'
    BY <1>9, ZenonT(20) DEF RemoveDomain, Undefined, TypeSets
  <2>2. TypeRest'
    BY <1>9, SMTT(20) DEF RemoveDomain, Undefined, TypeRest, Statuses,
       NetStates, RemovePcs, RemoveVmPcs
  <2>3. TypeVms'
    BY <1>9, SMTT(20) DEF RemoveDomain, Undefined, TypeVms, VmStates,
       DomStates, On
  <2>q. QED BY <1>t, <2>1, <2>2, <2>3
<1>10. CASE DomainsDone
  <2>1. TypeSets'
    BY <1>10, ZenonT(20) DEF DomainsDone, NextUnlessFailed, TypeSets
  <2>2. TypeRest'
    BY <1>10, SMTT(20) DEF DomainsDone, NextUnlessFailed, TypeRest, Statuses,
       NetStates, RemovePcs, RemoveVmPcs
  <2>3. TypeVms'
    BY <1>10, SMTT(20) DEF DomainsDone, NextUnlessFailed, TypeVms, VmStates,
       DomStates, On
  <2>q. QED BY <1>t, <2>1, <2>2, <2>3
<1>11. CASE RemoveNetwork
  <2>1. TypeSets'
    BY <1>11, ZenonT(20) DEF RemoveNetwork, TypeSets
  <2>2. TypeRest'
    BY <1>11, SMTT(20) DEF RemoveNetwork, TypeRest, Statuses, NetStates,
       RemovePcs, RemoveVmPcs
  <2>3. TypeVms'
    BY <1>11, SMTT(20) DEF RemoveNetwork, TypeVms, VmStates, DomStates, On
  <2>q. QED BY <1>t, <2>1, <2>2, <2>3
<1>12. CASE RemoveStorage
  <2>1. TypeSets'
    BY <1>12, ZenonT(20) DEF RemoveStorage, PartOfTree, TypeSets
  <2>2. TypeRest'
    BY <1>12, SMTT(20) DEF RemoveStorage, PartOfTree, TypeRest, Statuses,
       NetStates, RemovePcs, RemoveVmPcs
  <2>3. TypeVms'
    BY <1>12, SMTT(20) DEF RemoveStorage, PartOfTree, TypeVms, VmStates,
       DomStates, On
  <2>q. QED BY <1>t, <2>1, <2>2, <2>3
<1>13. CASE RemoveInstance
  <2>1. TypeSets'
    BY <1>13, ZenonT(20) DEF RemoveInstance, TypeSets
  <2>2. TypeRest'
    <3>1. pc' \in {"unlink_state", "save_failure"} /\ UNCHANGED <<txn, status, net, storage>>
      BY <1>13, Zenon DEF RemoveInstance
    <3>q. QED BY <3>1 DEF TypeRest, RemovePcs
  <2>3. TypeVms'
    BY <1>13, SMTT(20) DEF RemoveInstance, TypeVms, VmStates, DomStates, On
  <2>q. QED BY <1>t, <2>1, <2>2, <2>3
<1>14. CASE SaveFailure
  <2>1. TypeSets'
    BY <1>14, ZenonT(20) DEF SaveFailure, TypeSets
  <2>2. TypeRest'
    BY <1>14, SMTT(20) DEF SaveFailure, TypeRest, Statuses, NetStates,
       RemovePcs, RemoveVmPcs
  <2>3. TypeVms'
    BY <1>14, SMTT(20) DEF SaveFailure, TypeVms, VmStates, DomStates, On
  <2>q. QED BY <1>t, <2>1, <2>2, <2>3
<1>15. CASE UnlinkState
  <2>1. TypeSets'
    BY <1>15, ZenonT(20) DEF UnlinkState, TypeSets
  <2>2. TypeRest'
    BY <1>15, SMTT(20) DEF UnlinkState, TypeRest, Statuses, NetStates,
       RemovePcs, RemoveVmPcs
  <2>3. TypeVms'
    BY <1>15, SMTT(20) DEF UnlinkState, TypeVms, VmStates, DomStates, On
  <2>q. QED BY <1>t, <2>1, <2>2, <2>3
<1>16. CASE UnlinkJournal
  <2>1. TypeSets'
    BY <1>16, ZenonT(20) DEF UnlinkJournal, TypeSets
  <2>2. TypeRest'
    BY <1>16, SMTT(20) DEF UnlinkJournal, TypeRest, Statuses, NetStates,
       RemovePcs, RemoveVmPcs
  <2>3. TypeVms'
    BY <1>16, SMTT(20) DEF UnlinkJournal, TypeVms, VmStates, DomStates, On
  <2>q. QED BY <1>t, <2>1, <2>2, <2>3
<1>17. CASE DestroyVm
  <2>1. TypeSets'
    BY <1>17, ZenonT(20) DEF DestroyVm, TypeSets
  <2>2. TypeRest'
    BY <1>17, SMTT(20) DEF DestroyVm, TypeRest, Statuses, NetStates,
       RemovePcs, RemoveVmPcs
  <2>3. TypeVms'
    BY <1>17, SMTT(20) DEF DestroyVm, TypeVms, VmStates, DomStates, On
  <2>q. QED BY <1>t, <2>1, <2>2, <2>3
<1>18. CASE UndefineVm
  <2>1. TypeSets'
    BY <1>18, ZenonT(20) DEF UndefineVm, Undefined, TypeSets
  <2>2. TypeRest'
    BY <1>18, SMTT(20) DEF UndefineVm, Undefined, TypeRest, Statuses,
       NetStates, RemovePcs, RemoveVmPcs
  <2>3. TypeVms'
    <3>0. dom' \in {[dom EXCEPT ![target] = "transient"], [dom EXCEPT ![target] = "absent"]}
      BY <1>18 DEF UndefineVm, Undefined
    <3>1. dom' \in [VM -> DomStates]
      BY <3>0 DEF TypeVms, DomStates
    <3>2. UNCHANGED vms /\ mem' \in {mem, [v \in VM |-> "missing"]}
      BY <1>18, Zenon DEF UndefineVm
    <3>q. QED BY <3>1, <3>2 DEF TypeVms, VmStates
  <2>q. QED BY <1>t, <2>1, <2>2, <2>3
<1>19. CASE RecordVm
  <2>1. TypeSets'
    BY <1>19, ZenonT(20) DEF RecordVm, TypeSets
  <2>2. TypeRest'
    BY <1>19, SMTT(20) DEF RecordVm, TypeRest, Statuses, NetStates, RemovePcs,
       RemoveVmPcs
  <2>3. TypeVms'
    BY <1>19, SMTT(20) DEF RecordVm, TypeVms, VmStates, DomStates, On
  <2>q. QED BY <1>t, <2>1, <2>2, <2>3
<1>20. CASE UnlinkFile("vm_overlay", "overlay", "vm_seed")
  <2>1. TypeSets'
    BY <1>20, ZenonT(20) DEF UnlinkFile, Unlinked, NotUnlinked, TypeSets
  <2>2. TypeRest'
    BY <1>20, SMTT(20) DEF UnlinkFile, Unlinked, NotUnlinked, TypeRest,
       Statuses, NetStates, RemovePcs, RemoveVmPcs
  <2>3. TypeVms'
    BY <1>20, SMTT(20) DEF UnlinkFile, Unlinked, NotUnlinked, TypeVms,
       VmStates, DomStates, On
  <2>q. QED BY <1>t, <2>1, <2>2, <2>3
<1>21. CASE UnlinkFile("vm_seed", "seed", "vm_save")
  <2>1. TypeSets'
    BY <1>21, ZenonT(20) DEF UnlinkFile, Unlinked, NotUnlinked, TypeSets
  <2>2. TypeRest'
    BY <1>21, SMTT(20) DEF UnlinkFile, Unlinked, NotUnlinked, TypeRest,
       Statuses, NetStates, RemovePcs, RemoveVmPcs
  <2>3. TypeVms'
    BY <1>21, SMTT(20) DEF UnlinkFile, Unlinked, NotUnlinked, TypeVms,
       VmStates, DomStates, On
  <2>q. QED BY <1>t, <2>1, <2>2, <2>3
<1>22. CASE SaveVmRemoved
  <2>1. TypeSets'
    BY <1>22, ZenonT(20) DEF SaveVmRemoved, TypeSets
  <2>2. TypeRest'
    BY <1>22, SMTT(20) DEF SaveVmRemoved, TypeRest, Statuses, NetStates,
       RemovePcs, RemoveVmPcs
  <2>3. TypeVms'
    BY <1>22, SMTT(20) DEF SaveVmRemoved, TypeVms, VmStates, DomStates, On
  <2>q. QED BY <1>t, <2>1, <2>2, <2>3
<1>23. CASE UnlinkVmJournal
  <2>1. TypeSets'
    BY <1>23, ZenonT(20) DEF UnlinkVmJournal, TypeSets
  <2>2. TypeRest'
    BY <1>23, SMTT(20) DEF UnlinkVmJournal, TypeRest, Statuses, NetStates,
       RemovePcs, RemoveVmPcs
  <2>3. TypeVms'
    BY <1>23, SMTT(20) DEF UnlinkVmJournal, TypeVms, VmStates, DomStates, On
  <2>q. QED BY <1>t, <2>1, <2>2, <2>3
<1>24. CASE Crash
  <2>1. TypeSets'
    BY <1>24, ZenonT(20) DEF Crash, TypeSets
  <2>2. TypeRest'
    BY <1>24, SMTT(20) DEF Crash, TypeRest, Statuses, NetStates, RemovePcs,
       RemoveVmPcs
  <2>3. TypeVms'
    BY <1>24, SMTT(20) DEF Crash, TypeVms, VmStates, DomStates, On
  <2>q. QED BY <1>t, <2>1, <2>2, <2>3
<1>25. CASE CrashInRmtree
  <2>1. TypeSets'
    BY <1>25, ZenonT(20) DEF CrashInRmtree, PartOfTree, TypeSets
  <2>2. TypeRest'
    BY <1>25, SMTT(20) DEF CrashInRmtree, PartOfTree, TypeRest, Statuses,
       NetStates, RemovePcs, RemoveVmPcs
  <2>3. TypeVms'
    BY <1>25, SMTT(20) DEF CrashInRmtree, PartOfTree, TypeVms, VmStates,
       DomStates, On
  <2>q. QED BY <1>t, <2>1, <2>2, <2>3
<1>26. CASE CalmDown
  <2>1. TypeSets'
    BY <1>26, ZenonT(20) DEF CalmDown, TypeSets
  <2>2. TypeRest'
    BY <1>26, SMTT(20) DEF CalmDown, TypeRest, Statuses, NetStates, RemovePcs,
       RemoveVmPcs
  <2>3. TypeVms'
    BY <1>26, SMTT(20) DEF CalmDown, TypeVms, VmStates, DomStates, On
  <2>q. QED BY <1>t, <2>1, <2>2, <2>3
<1>27. CASE \E v \in VM : PowerOn(v)
  <2>1. TypeSets'
    BY <1>27, ZenonT(20) DEF PowerOn, TypeSets
  <2>2. TypeRest'
    BY <1>27, SMTT(20) DEF PowerOn, TypeRest, Statuses, NetStates, RemovePcs,
       RemoveVmPcs
  <2>3. TypeVms'
    BY <1>27, SMTT(20) DEF PowerOn, TypeVms, VmStates, DomStates, On
  <2>q. QED BY <1>t, <2>1, <2>2, <2>3
<1>28. CASE \E v \in VM : Redefine(v)
  <2>1. TypeSets'
    BY <1>28, ZenonT(20) DEF Redefine, TypeSets
  <2>2. TypeRest'
    BY <1>28, SMTT(20) DEF Redefine, TypeRest, Statuses, NetStates, RemovePcs,
       RemoveVmPcs
  <2>3. TypeVms'
    BY <1>28, SMTT(20) DEF Redefine, TypeVms, VmStates, DomStates, On
  <2>q. QED BY <1>t, <2>1, <2>2, <2>3
<1>29. CASE UNCHANGED vars
  <2>1. TypeSets'
    BY <1>29, ZenonT(20) DEF TypeSets
  <2>2. TypeRest'
    BY <1>29, SMTT(20) DEF TypeRest, Statuses, NetStates, RemovePcs,
       RemoveVmPcs
  <2>3. TypeVms'
    BY <1>29, SMTT(20) DEF TypeVms, VmStates, DomStates, On
  <2>q. QED BY <1>t, <2>1, <2>2, <2>3
<1>q. QED
  BY [Next]_vars, <1>1, <1>2, <1>3, <1>4, <1>5, <1>6, <1>7, <1>8, <1>9, <1>10,
     <1>11, <1>12, <1>13, <1>14, <1>15, <1>16, <1>17, <1>18, <1>19, <1>20,
     <1>21, <1>22, <1>23, <1>24, <1>25, <1>26, <1>27, <1>28, <1>29, Zenon
  DEF Next, Begin, Running, LabSteps, VmSteps, Environment

(* Every step keeps the rest of the invariant. *)
LEMMA SafeStep == ASSUME IInv, [Next]_vars PROVE Safe'
<1>0. TypeOK /\ Safe
  BY DEF IInv
<1> USE <1>0, NAssumption
    DEF Safe, RemovePcs, RemoveVmPcs, AfterDomains, AfterRecord, Forget, MayFail,
        txn, state, trees, host, locals, vars
<1>1. CASE BeginRemove
  <2>1. InvJournal'
    BY <1>1, ZenonT(20) DEF BeginRemove, StorageTrusted, InvJournal
  <2>2. InvLab'
    BY <1>1, SMTT(20) DEF BeginRemove, StorageTrusted, InvJournal, InvLab,
       TypeOK
  <2>3. InvVm'
    BY <1>1, SMTT(20) DEF BeginRemove, StorageTrusted, InvJournal, InvVm,
       TypeOK, InvLab
  <2>4. InvStorage'
    BY <1>1, SMTT(20) DEF BeginRemove, StorageTrusted, InvStorage, TypeOK
  <2>5. InvKept'
    BY <1>1, SMTT(20) DEF BeginRemove, StorageTrusted, InvJournal, InvLab,
       InvVm, InvKept, InvStorage, CleanupOrder, Kept, Leaving, TypeOK
  <2>6. CleanupOrder'
    BY <1>1, SMTT(20) DEF BeginRemove, StorageTrusted, InvJournal, InvLab,
       InvVm, CleanupOrder, TypeOK
  <2>q. QED BY <2>1, <2>2, <2>3, <2>4, <2>5, <2>6, Zenon DEF Safe
<1>2. CASE FinishRemove
  <2>1. InvJournal'
    BY <1>2, ZenonT(20) DEF FinishRemove, InvJournal
  <2>2. InvLab'
    BY <1>2, SMTT(20) DEF FinishRemove, InvJournal, InvLab, TypeOK
  <2>3. InvVm'
    BY <1>2, SMTT(20) DEF FinishRemove, InvJournal, InvVm, TypeOK, InvLab
  <2>4. InvStorage'
    BY <1>2, SMTT(20) DEF FinishRemove, InvStorage, TypeOK
  <2>5. InvKept'
    BY <1>2, SMTT(20) DEF FinishRemove, InvJournal, InvLab, InvVm, InvKept,
       InvStorage, CleanupOrder, Kept, Leaving, TypeOK
  <2>6. CleanupOrder'
    BY <1>2, SMTT(20) DEF FinishRemove, InvJournal, InvLab, InvVm,
       CleanupOrder, TypeOK
  <2>q. QED BY <2>1, <2>2, <2>3, <2>4, <2>5, <2>6, Zenon DEF Safe
<1>3. CASE BeginRemoveVm
  <2>1. InvJournal'
    BY <1>3, ZenonT(20) DEF BeginRemoveVm, NoDependants, InvJournal
  <2>2. InvLab'
    BY <1>3, SMTT(20) DEF BeginRemoveVm, NoDependants, InvJournal, InvLab,
       TypeOK
  <2>3. InvVm'
    BY <1>3, SMTT(20) DEF BeginRemoveVm, NoDependants, InvJournal, InvVm,
       TypeOK, InvLab
  <2>4. InvStorage'
    BY <1>3, SMTT(20) DEF BeginRemoveVm, NoDependants, InvStorage, TypeOK
  <2>5. InvKept'
    <3>1. PICK t \in VM :
              /\ journal = "none" \/ (journal = "remove-vm" /\ target = t)
              /\ vms[t] = "missing" \/ \A w \in Dependants(t) : vms[w] = "missing"
              /\ journal' = "remove-vm" /\ target' = t
      BY <1>3, Zenon DEF BeginRemoveVm, NoDependants
    <3>2. Kept /\ UNCHANGED <<vms, dom, files>>
      BY <1>3, Zenon DEF BeginRemoveVm, Kept
    <3>3. \A w \in Dependants(t) : vms[w] = "missing" /\ files[w] # VmFiles
      <4>1. CASE Leaving(t) \/ vms[t] = "missing"
        BY <3>2, <4>1 DEF InvKept
      <4>2. CASE journal = "none" /\ \A w \in Dependants(t) : vms[w] = "missing"
        BY <3>2, <4>2 DEF InvKept, Leaving, Dependants
      <4>q. QED BY <3>1, <4>1, <4>2, Zenon DEF Leaving
    <3>4. \A v \in VM : /\ Leaving(v) => v = t
                        /\ Leaving(v)' <=> v = t
      BY <3>1 DEF Leaving
    <3>q. QED BY <3>2, <3>3, <3>4 DEF InvKept
  <2>6. CleanupOrder'
    BY <1>3, SMTT(20) DEF BeginRemoveVm, NoDependants, InvJournal, InvLab,
       InvVm, CleanupOrder, TypeOK
  <2>q. QED BY <2>1, <2>2, <2>3, <2>4, <2>5, <2>6, Zenon DEF Safe
<1>4. CASE MarkMissing
  <2>1. InvJournal'
    BY <1>4, ZenonT(20) DEF MarkMissing, InvJournal
  <2>2. InvLab'
    BY <1>4, SMTT(20) DEF MarkMissing, InvJournal, InvLab, TypeOK
  <2>3. InvVm'
    BY <1>4, SMTT(20) DEF MarkMissing, InvJournal, InvVm, TypeOK, InvLab
  <2>4. InvStorage'
    BY <1>4, SMTT(20) DEF MarkMissing, InvStorage, TypeOK
  <2>5. InvKept'
    BY <1>4, SMTT(20) DEF MarkMissing, InvJournal, InvLab, InvVm, InvKept,
       InvStorage, CleanupOrder, Kept, Leaving, TypeOK
  <2>6. CleanupOrder'
    BY <1>4, SMTT(20) DEF MarkMissing, InvJournal, InvLab, InvVm,
       CleanupOrder, TypeOK
  <2>q. QED BY <2>1, <2>2, <2>3, <2>4, <2>5, <2>6, Zenon DEF Safe
<1>5. CASE Correct
  <2>1. InvJournal'
    BY <1>5, ZenonT(20) DEF Correct, CorrectedVms, InvJournal
  <2>2. InvLab'
    BY <1>5, SMTT(20) DEF Correct, CorrectedVms, InvJournal, InvLab, TypeOK
  <2>3. InvVm'
    BY <1>5, SMTT(20) DEF Correct, CorrectedVms, InvJournal, InvVm, TypeOK,
       InvLab
  <2>4. InvStorage'
    BY <1>5, SMTT(20) DEF Correct, CorrectedVms, InvStorage, TypeOK
  <2>5. InvKept'
    BY <1>5, SMTT(20) DEF Correct, CorrectedVms, InvJournal, InvLab, InvVm,
       InvKept, InvStorage, CleanupOrder, Kept, Leaving, TypeOK
  <2>6. CleanupOrder'
    BY <1>5, SMTT(20) DEF Correct, CorrectedVms, InvJournal, InvLab, InvVm,
       CleanupOrder, TypeOK
  <2>q. QED BY <2>1, <2>2, <2>3, <2>4, <2>5, <2>6, Zenon DEF Safe
<1>6. CASE GuardRunning
  <2>1. InvJournal'
    BY <1>6, ZenonT(20) DEF GuardRunning, InvJournal
  <2>2. InvLab'
    <3>1. pc = "power" /\ UNCHANGED <<dom, storage>>
      BY <1>6, Zenon DEF GuardRunning
    <3>2. CASE pc' = "domains" /\ todo' = VM
      BY <3>1, <3>2 DEF InvLab
    <3>3. CASE /\ force /\ UNCHANGED force /\ storage = "marked" /\ pc' = "stop"
               /\ todo' = {v \in On : vms[v] # "missing"}
      BY <3>1, <3>3 DEF InvLab, On
    <3>4. CASE pc' = "idle"
      BY <3>4, Zenon DEF InvLab
    <3>q. QED BY <1>6, <3>2, <3>3, <3>4, Zenon DEF GuardRunning
  <2>3. InvVm'
    BY <1>6, SMTT(20) DEF GuardRunning, InvJournal, InvVm, TypeOK, InvLab
  <2>4. InvStorage'
    BY <1>6, SMTT(20) DEF GuardRunning, InvStorage, TypeOK
  <2>5. InvKept'
    BY <1>6, SMTT(20) DEF GuardRunning, InvJournal, InvLab, InvVm, InvKept,
       InvStorage, CleanupOrder, Kept, Leaving, TypeOK
  <2>6. CleanupOrder'
    BY <1>6, SMTT(20) DEF GuardRunning, InvJournal, InvLab, InvVm,
       CleanupOrder, TypeOK
  <2>q. QED BY <2>1, <2>2, <2>3, <2>4, <2>5, <2>6, Zenon DEF Safe
<1>7. CASE StopVm
  <2>a. /\ pc = "stop" /\ pc' \in {"stop", "idle"} /\ (pc' = "stop" => UNCHANGED force)
        /\ UNCHANGED <<journal, target, net, storage, files, instance>>
        /\ status' \in {status, "degraded"}
        /\ journal = "remove" /\ storage = "marked" /\ force
    BY <1>7, Zenon DEF StopVm, InvJournal, InvLab
  <2>b. PICK v \in todo :
            \/ /\ dom' = [dom EXCEPT ![v] = "off"] /\ todo' = todo \ {v}
            \/ /\ pc' = "idle"
               /\ \E back \in SUBSET {w \in VM : dom[w] = "off"} :
                    dom' = [w \in VM |->
                        IF w = v /\ dom[w] = "transient" THEN "absent"
                        ELSE IF w \in back THEN "on" ELSE dom[w]]
    BY <1>7, Zenon DEF StopVm, IsLast
  <2>c. \A w \in VM : dom[w] = "absent" => dom'[w] = "absent"
    BY <2>a, <2>b, SMTT(30) DEF InvLab, TypeOK
  <2>d. pc' = "stop" => \A w \in VM : w \in todo' => dom'[w] \in {"on", "transient"}
    BY <2>a, <2>b, SMTT(30) DEF InvLab, TypeOK
  <2>1. InvJournal'
    BY <1>7, ZenonT(20) DEF StopVm, InvJournal
  <2>2. InvLab'
    BY <2>a, <2>d, Zenon DEF InvLab
  <2>3. InvVm'
    BY <2>a, Zenon DEF InvVm
  <2>4. InvStorage'
    BY <1>7, SMTT(20) DEF StopVm, InvStorage, TypeOK
  <2>5. InvKept'
    BY <1>7, SMTT(20) DEF StopVm, InvJournal, InvLab, InvVm, InvKept,
       InvStorage, CleanupOrder, Kept, Leaving, TypeOK
  <2>6. CleanupOrder'
    BY <2>a, <2>c, SMT DEF CleanupOrder
  <2>q. QED BY <2>1, <2>2, <2>3, <2>4, <2>5, <2>6, Zenon DEF Safe
<1>8. CASE StopDone
  <2>a. /\ pc = "stop" /\ journal = "remove"
        /\ pc' \in {"domains", "idle"} /\ (pc' = "domains" => todo' = VM)
        /\ UNCHANGED <<journal, target, dom, net, storage, files, instance>>
        /\ status' \in {status, "stopped"}
    BY <1>8, Zenon DEF StopDone, InvJournal
  <2>1. InvJournal'
    BY <1>8, ZenonT(20) DEF StopDone, InvJournal
  <2>2. InvLab'
    BY <2>a, Zenon DEF InvLab
  <2>3. InvVm'
    BY <2>a, Zenon DEF InvVm
  <2>4. InvStorage'
    BY <1>8, SMTT(20) DEF StopDone, InvStorage, TypeOK
  <2>5. InvKept'
    BY <1>8, SMTT(20) DEF StopDone, InvJournal, InvLab, InvVm, InvKept,
       InvStorage, CleanupOrder, Kept, Leaving, TypeOK
  <2>6. CleanupOrder'
    BY <2>a, Zenon DEF CleanupOrder
  <2>q. QED BY <2>1, <2>2, <2>3, <2>4, <2>5, <2>6, Zenon DEF Safe
<1>9. CASE RemoveDomain
  <2>1. InvJournal'
    BY <1>9, ZenonT(20) DEF RemoveDomain, Undefined, InvJournal
  <2>2. InvLab'
    BY <1>9, SMTT(20) DEF RemoveDomain, Undefined, InvJournal, InvLab, TypeOK
  <2>3. InvVm'
    BY <1>9, SMTT(20) DEF RemoveDomain, Undefined, InvJournal, InvVm, TypeOK,
       InvLab
  <2>4. InvStorage'
    BY <1>9, SMTT(20) DEF RemoveDomain, Undefined, InvStorage, TypeOK
  <2>5. InvKept'
    BY <1>9, SMTT(20) DEF RemoveDomain, Undefined, InvJournal, InvLab, InvVm,
       InvKept, InvStorage, CleanupOrder, Kept, Leaving, TypeOK
  <2>6. CleanupOrder'
    BY <1>9, SMTT(20) DEF RemoveDomain, Undefined, InvJournal, InvLab, InvVm,
       CleanupOrder, TypeOK
  <2>q. QED BY <2>1, <2>2, <2>3, <2>4, <2>5, <2>6, Zenon DEF Safe
<1>10. CASE DomainsDone
  <2>1. InvJournal'
    BY <1>10, ZenonT(20) DEF DomainsDone, NextUnlessFailed, InvJournal
  <2>2. InvLab'
    BY <1>10, SMTT(20) DEF DomainsDone, NextUnlessFailed, InvJournal, InvLab,
       TypeOK
  <2>3. InvVm'
    BY <1>10, SMTT(20) DEF DomainsDone, NextUnlessFailed, InvJournal, InvVm,
       TypeOK, InvLab
  <2>4. InvStorage'
    BY <1>10, SMTT(20) DEF DomainsDone, NextUnlessFailed, InvStorage, TypeOK
  <2>5. InvKept'
    BY <1>10, SMTT(20) DEF DomainsDone, NextUnlessFailed, InvJournal, InvLab,
       InvVm, InvKept, InvStorage, CleanupOrder, Kept, Leaving, TypeOK
  <2>6. CleanupOrder'
    BY <1>10, SMTT(20) DEF DomainsDone, NextUnlessFailed, InvJournal, InvLab,
       InvVm, CleanupOrder, TypeOK
  <2>q. QED BY <2>1, <2>2, <2>3, <2>4, <2>5, <2>6, Zenon DEF Safe
<1>11. CASE RemoveNetwork
  <2>1. InvJournal'
    BY <1>11, ZenonT(20) DEF RemoveNetwork, InvJournal
  <2>2. InvLab'
    BY <1>11, SMTT(20) DEF RemoveNetwork, InvJournal, InvLab, TypeOK
  <2>3. InvVm'
    BY <1>11, SMTT(20) DEF RemoveNetwork, InvJournal, InvVm, TypeOK, InvLab
  <2>4. InvStorage'
    BY <1>11, SMTT(20) DEF RemoveNetwork, InvStorage, TypeOK
  <2>5. InvKept'
    BY <1>11, SMTT(20) DEF RemoveNetwork, InvJournal, InvLab, InvVm, InvKept,
       InvStorage, CleanupOrder, Kept, Leaving, TypeOK
  <2>6. CleanupOrder'
    BY <1>11, SMTT(20) DEF RemoveNetwork, InvJournal, InvLab, InvVm,
       CleanupOrder, TypeOK
  <2>q. QED BY <2>1, <2>2, <2>3, <2>4, <2>5, <2>6, Zenon DEF Safe
<1>12. CASE RemoveStorage
  <2>1. InvJournal'
    BY <1>12, ZenonT(20) DEF RemoveStorage, PartOfTree, InvJournal
  <2>2. InvLab'
    BY <1>12, SMTT(20) DEF RemoveStorage, PartOfTree, InvJournal, InvLab,
       TypeOK
  <2>3. InvVm'
    BY <1>12, SMTT(20) DEF RemoveStorage, PartOfTree, InvJournal, InvVm,
       TypeOK, InvLab
  <2>4. InvStorage'
    BY <1>12, SMTT(20) DEF RemoveStorage, PartOfTree, InvStorage, TypeOK
  <2>5. InvKept'
    BY <1>12, SMTT(20) DEF RemoveStorage, PartOfTree, InvJournal, InvLab,
       InvVm, InvKept, InvStorage, CleanupOrder, Kept, Leaving, TypeOK
  <2>6. CleanupOrder'
    BY <1>12, SMTT(20) DEF RemoveStorage, PartOfTree, InvJournal, InvLab,
       InvVm, CleanupOrder, TypeOK
  <2>q. QED BY <2>1, <2>2, <2>3, <2>4, <2>5, <2>6, Zenon DEF Safe
<1>13. CASE RemoveInstance
  <2>a. /\ pc = "instance" /\ journal = "remove" /\ storage = "absent" /\ net = "absent"
        /\ pc' \in {"unlink_state", "save_failure"} /\ (pc' = "unlink_state" => instance' = FALSE)
        /\ instance' \in {instance, FALSE}
        /\ UNCHANGED <<journal, target, status, vms, dom, net, storage, files, mem>>
    BY <1>13, Zenon DEF RemoveInstance, InvJournal, InvLab
  <2>b. instance' = FALSE => ~instance'
    BY SMT
  <2>c. pc' = "unlink_state" => ~instance'
    BY <2>a, <2>b, Zenon
  <2>d. ~instance => ~instance'
    <3>1. CASE UNCHANGED instance
      BY <3>1, Zenon
    <3>2. CASE instance' = FALSE
      BY <2>b, <3>2, Zenon
    <3>q. QED BY <2>a, <3>1, <3>2
  <2>1. InvJournal'
    BY <1>13, ZenonT(20) DEF RemoveInstance, InvJournal
  <2>2. InvLab'
    BY <2>a, <2>c, Zenon DEF InvLab
  <2>3. InvVm'
    BY <2>a, Zenon DEF InvVm
  <2>4. InvStorage'
    BY <1>13, SMTT(20) DEF RemoveInstance, InvStorage, TypeOK
  <2>5. InvKept'
    BY <1>13, SMTT(20) DEF RemoveInstance, InvJournal, InvLab, InvVm, InvKept,
       InvStorage, CleanupOrder, Kept, Leaving, TypeOK
  <2>6. CleanupOrder'
    BY <2>a, <2>d, Zenon DEF CleanupOrder
  <2>q. QED BY <2>1, <2>2, <2>3, <2>4, <2>5, <2>6, Zenon DEF Safe
<1>14. CASE SaveFailure
  <2>1. InvJournal'
    BY <1>14, ZenonT(20) DEF SaveFailure, InvJournal
  <2>2. InvLab'
    BY <1>14, SMTT(20) DEF SaveFailure, InvJournal, InvLab, TypeOK
  <2>3. InvVm'
    BY <1>14, SMTT(20) DEF SaveFailure, InvJournal, InvVm, TypeOK, InvLab
  <2>4. InvStorage'
    BY <1>14, SMTT(20) DEF SaveFailure, InvStorage, TypeOK
  <2>5. InvKept'
    <3>1. CASE journal = "remove"
      BY <1>14, <3>1, Zenon DEF SaveFailure, InvKept, Kept
    <3>2. CASE journal = "none" /\ status = "absent" /\ UNCHANGED status
      BY <3>2 DEF InvKept, Kept
    <3>3. CASE journal = "none" /\ status = "absent" /\ vms' = mem
      <4>1. UNCHANGED <<journal, dom, files>> /\ pc = "save_failure"
        BY <1>14, Zenon DEF SaveFailure
      <4>2. \A v \in VM : mem[v] = "missing" /\ files[v] = {}
        BY <3>3, <4>1, Zenon DEF InvLab, CleanupOrder, InvStorage
      <4>q. QED BY <3>3, <4>1, <4>2 DEF InvKept, Leaving, Dependants, VmFiles
    <3>q. QED BY <1>14, <3>1, <3>2, <3>3, Zenon DEF SaveFailure, InvJournal
  <2>6. CleanupOrder'
    BY <1>14, SMTT(20) DEF SaveFailure, InvJournal, InvLab, InvVm,
       CleanupOrder, TypeOK
  <2>q. QED BY <2>1, <2>2, <2>3, <2>4, <2>5, <2>6, Zenon DEF Safe
<1>15. CASE UnlinkState
  <2>1. InvJournal'
    BY <1>15, ZenonT(20) DEF UnlinkState, InvJournal
  <2>2. InvLab'
    BY <1>15, SMTT(20) DEF UnlinkState, InvJournal, InvLab, TypeOK
  <2>3. InvVm'
    BY <1>15, SMTT(20) DEF UnlinkState, InvJournal, InvVm, TypeOK, InvLab
  <2>4. InvStorage'
    BY <1>15, SMTT(20) DEF UnlinkState, InvStorage, TypeOK
  <2>5. InvKept'
    BY <1>15, SMTT(20) DEF UnlinkState, InvJournal, InvLab, InvVm, InvKept,
       InvStorage, CleanupOrder, Kept, Leaving, TypeOK
  <2>6. CleanupOrder'
    BY <1>15, SMTT(20) DEF UnlinkState, InvJournal, InvLab, InvVm,
       CleanupOrder, TypeOK
  <2>q. QED BY <2>1, <2>2, <2>3, <2>4, <2>5, <2>6, Zenon DEF Safe
<1>16. CASE UnlinkJournal
  <2>1. InvJournal'
    BY <1>16, ZenonT(20) DEF UnlinkJournal, InvJournal, InvLab
  <2>2. InvLab'
    BY <1>16, SMTT(20) DEF UnlinkJournal, InvJournal, InvLab, TypeOK
  <2>3. InvVm'
    BY <1>16, SMTT(20) DEF UnlinkJournal, InvJournal, InvVm, TypeOK, InvLab
  <2>4. InvStorage'
    BY <1>16, SMTT(20) DEF UnlinkJournal, InvStorage, TypeOK
  <2>5. InvKept'
    BY <1>16, SMTT(20) DEF UnlinkJournal, InvJournal, InvLab, InvVm, InvKept,
       InvStorage, CleanupOrder, Kept, Leaving, TypeOK
  <2>6. CleanupOrder'
    BY <1>16, SMTT(20) DEF UnlinkJournal, InvJournal, InvLab, InvVm,
       CleanupOrder, TypeOK
  <2>q. QED BY <2>1, <2>2, <2>3, <2>4, <2>5, <2>6, Zenon DEF Safe
<1>17. CASE DestroyVm
  <2>1. InvJournal'
    BY <1>17, ZenonT(20) DEF DestroyVm, InvJournal
  <2>2. InvLab'
    BY <1>17, SMTT(20) DEF DestroyVm, InvJournal, InvLab, TypeOK
  <2>3. InvVm'
    BY <1>17, SMTT(20) DEF DestroyVm, InvJournal, InvVm, TypeOK, InvLab
  <2>4. InvStorage'
    BY <1>17, SMTT(20) DEF DestroyVm, InvStorage, TypeOK
  <2>5. InvKept'
    BY <1>17, SMTT(20) DEF DestroyVm, InvJournal, InvLab, InvVm, InvKept,
       InvStorage, CleanupOrder, Kept, Leaving, TypeOK
  <2>6. CleanupOrder'
    BY <1>17, SMTT(20) DEF DestroyVm, InvJournal, InvLab, InvVm, CleanupOrder,
       TypeOK
  <2>q. QED BY <2>1, <2>2, <2>3, <2>4, <2>5, <2>6, Zenon DEF Safe
<1>18. CASE UndefineVm
  <2>1. InvJournal'
    BY <1>18, ZenonT(20) DEF UndefineVm, Undefined, InvJournal
  <2>2. InvLab'
    BY <1>18, SMTT(20) DEF UndefineVm, Undefined, InvJournal, InvLab, TypeOK
  <2>3. InvVm'
    BY <1>18, SMTT(20) DEF UndefineVm, Undefined, InvJournal, InvVm, TypeOK,
       InvLab
  <2>4. InvStorage'
    BY <1>18, SMTT(20) DEF UndefineVm, Undefined, InvStorage, TypeOK
  <2>5. InvKept'
    BY <1>18, SMTT(20) DEF UndefineVm, Undefined, InvJournal, InvLab, InvVm,
       InvKept, InvStorage, CleanupOrder, Kept, Leaving, TypeOK
  <2>6. CleanupOrder'
    BY <1>18, SMTT(20) DEF UndefineVm, Undefined, InvJournal, InvLab, InvVm,
       CleanupOrder, TypeOK
  <2>q. QED BY <2>1, <2>2, <2>3, <2>4, <2>5, <2>6, Zenon DEF Safe
<1>19. CASE RecordVm
  <2>1. InvJournal'
    BY <1>19, ZenonT(20) DEF RecordVm, InvJournal
  <2>2. InvLab'
    BY <1>19, SMTT(20) DEF RecordVm, InvJournal, InvLab, TypeOK
  <2>3. InvVm'
    BY <1>19, SMTT(20) DEF RecordVm, InvJournal, InvVm, TypeOK, InvLab
  <2>4. InvStorage'
    BY <1>19, SMTT(20) DEF RecordVm, InvStorage, TypeOK
  <2>5. InvKept'
    <3>1. /\ pc = "vm_record" /\ UNCHANGED <<journal, target, dom, files>>
          /\ journal = "remove-vm" /\ status # "absent" /\ target \in VM
      BY <1>19, Zenon DEF RecordVm, InvJournal, TypeOK
    <3>2. CASE UNCHANGED vms
      BY <3>1, <3>2, SMT DEF InvKept, Kept, Leaving
    <3>3. CASE vms' = [vms EXCEPT ![target] = "missing"]
      <4>1. \A w \in VM : vms'[w] = IF w = target THEN "missing" ELSE vms[w]
        BY <3>3 DEF TypeOK
      <4>q. QED BY <3>1, <4>1, SMT DEF InvKept, Kept, Leaving, Dependants
    <3>q. QED BY <1>19, <3>2, <3>3, Zenon DEF RecordVm
  <2>6. CleanupOrder'
    BY <1>19, SMTT(20) DEF RecordVm, InvJournal, InvLab, InvVm, CleanupOrder,
       TypeOK
  <2>q. QED BY <2>1, <2>2, <2>3, <2>4, <2>5, <2>6, Zenon DEF Safe
<1>20. CASE UnlinkFile("vm_overlay", "overlay", "vm_seed")
  <2>a. /\ pc \in {"vm_overlay", "vm_seed"} /\ pc' \in {"vm_seed", "vm_save"}
        /\ UNCHANGED <<journal, target, status, vms, dom>>
        /\ journal = "remove-vm" /\ status # "absent"
        /\ vms[target] = "missing" /\ dom[target] = "absent" /\ target \in VM
    BY <1>20, Zenon DEF UnlinkFile, InvJournal, InvVm, TypeOK
  <2>b. PICK f \in VmFiles :
            /\ files' \in {files, [files EXCEPT ![target] = @ \ {f}]}
            /\ ~failed' => files' = [files EXCEPT ![target] = @ \ {f}]
    BY <1>20, Zenon DEF UnlinkFile, Unlinked, NotUnlinked, VmFiles
  <2>c. \A w \in VM : files[w] # VmFiles => files'[w] # VmFiles
    BY <2>b DEF TypeOK
  <2>d. ~failed' => files'[target] # VmFiles
    BY <2>a, <2>b DEF TypeOK
  <2>1. InvJournal'
    BY <1>20, ZenonT(20) DEF UnlinkFile, Unlinked, NotUnlinked, InvJournal
  <2>2. InvLab'
    BY <1>20, SMTT(20) DEF UnlinkFile, Unlinked, NotUnlinked, InvJournal,
       InvLab, TypeOK
  <2>3. InvVm'
    BY <2>a, <2>d DEF InvVm
  <2>4. InvStorage'
    BY <1>20, SMTT(20) DEF UnlinkFile, Unlinked, NotUnlinked, InvStorage,
       TypeOK
  <2>5. InvKept'
    BY <2>a, <2>c, SMTT(20) DEF InvKept, Kept, Leaving, Dependants
  <2>6. CleanupOrder'
    BY <1>20, SMTT(20) DEF UnlinkFile, Unlinked, NotUnlinked, InvJournal,
       InvLab, InvVm, CleanupOrder, TypeOK
  <2>q. QED BY <2>1, <2>2, <2>3, <2>4, <2>5, <2>6, Zenon DEF Safe
<1>21. CASE UnlinkFile("vm_seed", "seed", "vm_save")
  <2>a. /\ pc \in {"vm_overlay", "vm_seed"} /\ pc' \in {"vm_seed", "vm_save"}
        /\ UNCHANGED <<journal, target, status, vms, dom>>
        /\ journal = "remove-vm" /\ status # "absent"
        /\ vms[target] = "missing" /\ dom[target] = "absent" /\ target \in VM
    BY <1>21, Zenon DEF UnlinkFile, InvJournal, InvVm, TypeOK
  <2>b. PICK f \in VmFiles :
            /\ files' \in {files, [files EXCEPT ![target] = @ \ {f}]}
            /\ ~failed' => files' = [files EXCEPT ![target] = @ \ {f}]
    BY <1>21, Zenon DEF UnlinkFile, Unlinked, NotUnlinked, VmFiles
  <2>c. \A w \in VM : files[w] # VmFiles => files'[w] # VmFiles
    BY <2>b DEF TypeOK
  <2>d. ~failed' => files'[target] # VmFiles
    BY <2>a, <2>b DEF TypeOK
  <2>1. InvJournal'
    BY <1>21, ZenonT(20) DEF UnlinkFile, Unlinked, NotUnlinked, InvJournal
  <2>2. InvLab'
    BY <1>21, SMTT(20) DEF UnlinkFile, Unlinked, NotUnlinked, InvJournal,
       InvLab, TypeOK
  <2>3. InvVm'
    BY <2>a, <2>d DEF InvVm
  <2>4. InvStorage'
    BY <1>21, SMTT(20) DEF UnlinkFile, Unlinked, NotUnlinked, InvStorage,
       TypeOK
  <2>5. InvKept'
    BY <2>a, <2>c, SMTT(20) DEF InvKept, Kept, Leaving, Dependants
  <2>6. CleanupOrder'
    BY <1>21, SMTT(20) DEF UnlinkFile, Unlinked, NotUnlinked, InvJournal,
       InvLab, InvVm, CleanupOrder, TypeOK
  <2>q. QED BY <2>1, <2>2, <2>3, <2>4, <2>5, <2>6, Zenon DEF Safe
<1>22. CASE SaveVmRemoved
  <2>1. InvJournal'
    BY <1>22, ZenonT(20) DEF SaveVmRemoved, InvJournal
  <2>2. InvLab'
    BY <1>22, SMTT(20) DEF SaveVmRemoved, InvJournal, InvLab, TypeOK
  <2>3. InvVm'
    BY <1>22, SMTT(20) DEF SaveVmRemoved, InvJournal, InvVm, TypeOK, InvLab
  <2>4. InvStorage'
    BY <1>22, SMTT(20) DEF SaveVmRemoved, InvStorage, TypeOK
  <2>5. InvKept'
    BY <1>22, SMTT(20) DEF SaveVmRemoved, InvJournal, InvLab, InvVm, InvKept,
       InvStorage, CleanupOrder, Kept, Leaving, TypeOK
  <2>6. CleanupOrder'
    BY <1>22, SMTT(20) DEF SaveVmRemoved, InvJournal, InvLab, InvVm,
       CleanupOrder, TypeOK
  <2>q. QED BY <2>1, <2>2, <2>3, <2>4, <2>5, <2>6, Zenon DEF Safe
<1>23. CASE UnlinkVmJournal
  <2>1. InvJournal'
    BY <1>23, ZenonT(20) DEF UnlinkVmJournal, InvJournal
  <2>2. InvLab'
    BY <1>23, SMTT(20) DEF UnlinkVmJournal, InvJournal, InvLab, TypeOK
  <2>3. InvVm'
    BY <1>23, SMTT(20) DEF UnlinkVmJournal, InvJournal, InvVm, TypeOK, InvLab
  <2>4. InvStorage'
    BY <1>23, SMTT(20) DEF UnlinkVmJournal, InvStorage, TypeOK
  <2>5. InvKept'
    BY <1>23, SMTT(20) DEF UnlinkVmJournal, InvJournal, InvLab, InvVm,
       InvKept, InvStorage, CleanupOrder, Kept, Leaving, TypeOK
  <2>6. CleanupOrder'
    BY <1>23, SMTT(20) DEF UnlinkVmJournal, InvJournal, InvLab, InvVm,
       CleanupOrder, TypeOK
  <2>q. QED BY <2>1, <2>2, <2>3, <2>4, <2>5, <2>6, Zenon DEF Safe
<1>24. CASE Crash
  <2>1. InvJournal'
    BY <1>24, ZenonT(20) DEF Crash, InvJournal
  <2>2. InvLab'
    BY <1>24, SMTT(20) DEF Crash, InvJournal, InvLab, TypeOK
  <2>3. InvVm'
    BY <1>24, SMTT(20) DEF Crash, InvJournal, InvVm, TypeOK, InvLab
  <2>4. InvStorage'
    BY <1>24, SMTT(20) DEF Crash, InvStorage, TypeOK
  <2>5. InvKept'
    BY <1>24, SMTT(20) DEF Crash, InvJournal, InvLab, InvVm, InvKept,
       InvStorage, CleanupOrder, Kept, Leaving, TypeOK
  <2>6. CleanupOrder'
    BY <1>24, SMTT(20) DEF Crash, InvJournal, InvLab, InvVm, CleanupOrder,
       TypeOK
  <2>q. QED BY <2>1, <2>2, <2>3, <2>4, <2>5, <2>6, Zenon DEF Safe
<1>25. CASE CrashInRmtree
  <2>1. InvJournal'
    BY <1>25, ZenonT(20) DEF CrashInRmtree, PartOfTree, InvJournal
  <2>2. InvLab'
    BY <1>25, SMTT(20) DEF CrashInRmtree, PartOfTree, InvJournal, InvLab,
       TypeOK
  <2>3. InvVm'
    BY <1>25, SMTT(20) DEF CrashInRmtree, PartOfTree, InvJournal, InvVm,
       TypeOK, InvLab
  <2>4. InvStorage'
    BY <1>25, SMTT(20) DEF CrashInRmtree, PartOfTree, InvStorage, TypeOK
  <2>5. InvKept'
    BY <1>25, SMTT(20) DEF CrashInRmtree, PartOfTree, InvJournal, InvLab,
       InvVm, InvKept, InvStorage, CleanupOrder, Kept, Leaving, TypeOK
  <2>6. CleanupOrder'
    BY <1>25, SMTT(20) DEF CrashInRmtree, PartOfTree, InvJournal, InvLab,
       InvVm, CleanupOrder, TypeOK
  <2>q. QED BY <2>1, <2>2, <2>3, <2>4, <2>5, <2>6, Zenon DEF Safe
<1>26. CASE CalmDown
  <2>1. InvJournal'
    BY <1>26, ZenonT(20) DEF CalmDown, InvJournal
  <2>2. InvLab'
    BY <1>26, SMTT(20) DEF CalmDown, InvJournal, InvLab, TypeOK
  <2>3. InvVm'
    BY <1>26, SMTT(20) DEF CalmDown, InvJournal, InvVm, TypeOK, InvLab
  <2>4. InvStorage'
    BY <1>26, SMTT(20) DEF CalmDown, InvStorage, TypeOK
  <2>5. InvKept'
    BY <1>26, SMTT(20) DEF CalmDown, InvJournal, InvLab, InvVm, InvKept,
       InvStorage, CleanupOrder, Kept, Leaving, TypeOK
  <2>6. CleanupOrder'
    BY <1>26, SMTT(20) DEF CalmDown, InvJournal, InvLab, InvVm, CleanupOrder,
       TypeOK
  <2>q. QED BY <2>1, <2>2, <2>3, <2>4, <2>5, <2>6, Zenon DEF Safe
<1>27. CASE \E v \in VM : PowerOn(v)
  <2>1. InvJournal'
    BY <1>27, ZenonT(20) DEF PowerOn, InvJournal
  <2>2. InvLab'
    BY <1>27, SMTT(20) DEF PowerOn, InvJournal, InvLab, TypeOK
  <2>3. InvVm'
    BY <1>27, SMTT(20) DEF PowerOn, InvJournal, InvVm, TypeOK, InvLab
  <2>4. InvStorage'
    BY <1>27, SMTT(20) DEF PowerOn, InvStorage, TypeOK
  <2>5. InvKept'
    BY <1>27, SMTT(20) DEF PowerOn, InvJournal, InvLab, InvVm, InvKept,
       InvStorage, CleanupOrder, Kept, Leaving, TypeOK
  <2>6. CleanupOrder'
    BY <1>27, SMTT(20) DEF PowerOn, InvJournal, InvLab, InvVm, CleanupOrder,
       TypeOK
  <2>q. QED BY <2>1, <2>2, <2>3, <2>4, <2>5, <2>6, Zenon DEF Safe
<1>28. CASE \E v \in VM : Redefine(v)
  <2>1. InvJournal'
    BY <1>28, ZenonT(20) DEF Redefine, InvJournal
  <2>2. InvLab'
    BY <1>28, SMTT(20) DEF Redefine, InvJournal, InvLab, TypeOK
  <2>3. InvVm'
    BY <1>28, SMTT(20) DEF Redefine, InvJournal, InvVm, TypeOK, InvLab
  <2>4. InvStorage'
    BY <1>28, SMTT(20) DEF Redefine, InvStorage, TypeOK
  <2>5. InvKept'
    BY <1>28, SMTT(20) DEF Redefine, InvJournal, InvLab, InvVm, InvKept,
       InvStorage, CleanupOrder, Kept, Leaving, TypeOK
  <2>6. CleanupOrder'
    BY <1>28, SMTT(20) DEF Redefine, InvJournal, InvLab, InvVm, CleanupOrder,
       TypeOK
  <2>q. QED BY <2>1, <2>2, <2>3, <2>4, <2>5, <2>6, Zenon DEF Safe
<1>29. CASE UNCHANGED vars
  <2>1. InvJournal'
    BY <1>29, ZenonT(20) DEF InvJournal
  <2>2. InvLab'
    BY <1>29, SMTT(20) DEF InvJournal, InvLab, TypeOK
  <2>3. InvVm'
    BY <1>29, SMTT(20) DEF InvJournal, InvVm, TypeOK, InvLab
  <2>4. InvStorage'
    BY <1>29, SMTT(20) DEF InvStorage, TypeOK
  <2>5. InvKept'
    BY <1>29, SMTT(20) DEF InvJournal, InvLab, InvVm, InvKept, InvStorage,
       CleanupOrder, Kept, Leaving, TypeOK
  <2>6. CleanupOrder'
    BY <1>29, SMTT(20) DEF InvJournal, InvLab, InvVm, CleanupOrder, TypeOK
  <2>q. QED BY <2>1, <2>2, <2>3, <2>4, <2>5, <2>6, Zenon DEF Safe
<1>q. QED
  BY [Next]_vars, <1>1, <1>2, <1>3, <1>4, <1>5, <1>6, <1>7, <1>8, <1>9, <1>10,
     <1>11, <1>12, <1>13, <1>14, <1>15, <1>16, <1>17, <1>18, <1>19, <1>20,
     <1>21, <1>22, <1>23, <1>24, <1>25, <1>26, <1>27, <1>28, <1>29, Zenon
  DEF Next, Begin, Running, LabSteps, VmSteps, Environment

(* The invariant holds in every behaviour. *)
LEMMA Invariance == Spec => []IInv
<1>1. IInv /\ [Next]_vars => IInv'
  BY TypeStep, SafeStep, Zenon DEF IInv
<1>q. QED
  BY <1>1, InvInit, PTL DEF Spec

-----------------------------------------------------------------------------
(* Every variable keeps its type. *)
THEOREM TypeCorrect == Spec => []TypeOK
<1>1. IInv => TypeOK
  BY Zenon DEF IInv
<1>q. QED
  BY <1>1, Invariance, PTL

(* Domains and network go before storage, storage before the control files,
   and the state file last, wherever a removal fails or dies. *)
THEOREM CleanupOrderHolds == Spec => []CleanupOrder
<1>1. IInv => CleanupOrder
  BY Zenon DEF IInv, Safe
<1>q. QED
  BY <1>1, Invariance, PTL

(* In a lab that is kept, a VM without a domain has no dependant with one. *)
THEOREM DependantsFirstHolds == Spec => []DependantsFirst
<1>1. IInv => DependantsFirst
  <2> SUFFICES ASSUME IInv, Kept, NEW v \in VM, dom[v] = "absent", NEW w \in Dependants(v)
               PROVE  dom[w] = "absent"
    BY DEF DependantsFirst, Kept
  <2>1. files[w] # VmFiles
    BY DEF IInv, Safe, InvKept
  <2>2. w \in VM
    BY DEF Dependants
  <2>q. QED
    BY <2>1, <2>2 DEF IInv, Safe, CleanupOrder
<1>q. QED
  BY <1>1, Invariance, PTL

-----------------------------------------------------------------------------
(* No step of a lab removal without --force takes a running guest down. *)
GuestsStep ==
    journal = "remove" /\ ~force => \A v \in On : dom'[v] \in {"on", "transient"}

LEMMA GuestsLeft == ASSUME IInv, [Next]_vars PROVE GuestsStep
<1>0. TypeOK /\ InvJournal /\ InvLab
  BY Zenon DEF IInv, Safe
<1>1. CASE StopVm \/ DestroyVm \/ UndefineVm
  BY <1>0, <1>1, Zenon
  DEF StopVm, DestroyVm, UndefineVm, InvJournal, InvLab, RemoveVmPcs, GuestsStep
<1>2. CASE RemoveDomain
  <2>1. PICK v \in VM : Undefined(v) \/ UNCHANGED dom
    BY <1>2, Zenon DEF RemoveDomain
  <2>q. QED BY <1>0, <2>1 DEF Undefined, GuestsStep, On, TypeOK
<1>3. CASE \E v \in VM : PowerOn(v) \/ Redefine(v)
  <2>1. PICK v \in VM : dom'[v] \in {"on", "off"} /\ dom[v] \in {"off", "absent"}
                        /\ \A w \in VM : w # v => dom'[w] = dom[w]
    BY <1>0, <1>3 DEF PowerOn, Redefine, TypeOK
  <2>q. QED BY <2>1 DEF GuestsStep, On
<1>4. CASE UNCHANGED dom
  BY <1>4, Zenon DEF GuestsStep, On
<1>q. QED
  BY [Next]_vars, <1>1, <1>2, <1>3, <1>4, Zenon
  DEF Next, Begin, Running, LabSteps, VmSteps, Environment, BeginRemove, FinishRemove,
      BeginRemoveVm, MarkMissing, Correct, GuardRunning, StopDone, DomainsDone,
      RemoveNetwork, RemoveStorage, RemoveInstance, SaveFailure, UnlinkState,
      UnlinkJournal, RecordVm, UnlinkFile, SaveVmRemoved, UnlinkVmJournal, Crash,
      CrashInRmtree, CalmDown, host, vars

THEOREM UnforcedLeavesGuestsHolds == Spec => UnforcedLeavesGuests
<1>1. IInv /\ [Next]_vars =>
        [journal = "remove" /\ ~force =>
            \A v \in On : dom'[v] \in {"on", "transient"}]_vars
  BY GuestsLeft, Zenon DEF GuestsStep
<1>q. QED
  BY <1>1, Invariance, PTL DEF Spec, UnforcedLeavesGuests

-----------------------------------------------------------------------------
(* The removal implements RemovalContract.                                 *)

(* What a step does to the parts that are left. *)
CoreStays == /\ (net' = "absent") <=> (net = "absent")
             /\ (storage' = "absent") <=> (storage = "absent")
             /\ instance' <=> instance
PartsGo ==   /\ \A v \in VM : dom[v] = "absent" => dom'[v] = "absent"
             /\ net = "absent" => net' = "absent"
             /\ storage = "absent" => storage' = "absent"
             /\ ~instance => ~instance'
PartsStay == CoreStays /\ \A v \in VM : dom'[v] = "absent" <=> dom[v] = "absent"

LeftAre ==
    /\ \A v \in VM : <<"domain", v>> \in Left <=> dom[v] # "absent"
    /\ <<"network", 0>> \in Left <=> net # "absent"
    /\ <<"storage", 0>> \in Left <=> storage # "absent"
    /\ <<"instance", 0>> \in Left <=> instance
    /\ Left \subseteq LabParts

LEMMA LeftParts == LeftAre
  BY DEF LeftAre, Left, LabParts, CoreParts

LEMMA LabPart ==
    ASSUME NEW p \in LabParts
    PROVE  \/ p = <<"network", 0>> \/ p = <<"storage", 0>> \/ p = <<"instance", 0>>
           \/ \E v \in VM : p = <<"domain", v>> /\ p \notin CoreParts
  BY DEF LabParts, CoreParts

LEMMA LeftShrinks == ASSUME PartsGo PROVE Left' \subseteq Left
<1>1. LeftAre /\ LeftAre'
  BY LeftParts, PTL
<1>2. ASSUME NEW p \in Left' PROVE p \in Left
  <2>1. p \in LabParts
    BY <1>1, <1>2 DEF LeftAre, LabParts, CoreParts
  <2>q. QED BY <1>1, <1>2, <2>1, LabPart, Zenon DEF LeftAre, PartsGo
<1>q. QED BY <1>2

LEMMA LeftStays == ASSUME PartsStay PROVE Left' = Left
<1>1. Left' \subseteq Left
  BY LeftShrinks, Zenon DEF PartsStay, CoreStays, PartsGo
<1>2. LeftAre /\ LeftAre'
  BY LeftParts, PTL
<1>3. ASSUME NEW p \in Left PROVE p \in Left'
  <2>1. p \in LabParts
    BY <1>2, <1>3 DEF LeftAre
  <2>q. QED BY <1>2, <1>3, <2>1, LabPart, Zenon DEF LeftAre, PartsStay, CoreStays
<1>q. QED BY <1>1, <1>3

LEMMA LeftChanges ==
    ASSUME CoreStays
    PROVE  Left' \subseteq LabParts /\ Left' \intersect CoreParts = Left \intersect CoreParts
<1>1. LeftAre /\ LeftAre'
  BY LeftParts, PTL
<1>2. Left' \subseteq LabParts
  BY <1>1 DEF LeftAre, LabParts, CoreParts
<1>3. ASSUME NEW p \in CoreParts PROVE p \in Left' <=> p \in Left
  <2>1. p = <<"network", 0>> \/ p = <<"storage", 0>> \/ p = <<"instance", 0>>
    BY <1>3, Zenon DEF CoreParts
  <2>q. QED BY <1>1, <2>1, Zenon DEF LeftAre, CoreStays
<1>q. QED BY <1>2, <1>3

LEMMA LeftGrows ==
    ASSUME CoreStays, \A v \in VM : dom'[v] = "absent" => dom[v] = "absent"
    PROVE  Left \subseteq Left' /\ Left' \subseteq Left \union (LabParts \ CoreParts)
<1>1. LeftAre /\ LeftAre'
  BY LeftParts, PTL
<1>2. ASSUME NEW p \in Left PROVE p \in Left'
  <2>1. p \in LabParts
    BY <1>1, <1>2 DEF LeftAre
  <2>q. QED BY <1>1, <1>2, <2>1, LabPart, Zenon DEF LeftAre, CoreStays
<1>q. QED BY <1>2, LeftChanges

LEMMA NothingLeft ==
    ASSUME \A v \in VM : dom[v] = "absent", net = "absent", storage = "absent", ~instance
    PROVE  Left = {}
<1>1. ASSUME NEW p \in Left PROVE FALSE
  <2>1. p \in LabParts
    BY <1>1, LeftParts DEF LeftAre
  <2>q. QED BY <1>1, <2>1, LeftParts, LabPart, Zenon DEF LeftAre
<1>q. QED BY <1>1

LEMMA ContractInitially == Init => Outside!RemovalInit
<1> SUFFICES ASSUME Init PROVE Outside!RemovalInit
  OBVIOUS
<1>1. LabPhase = "kept"
  BY DEF Init, LabPhase
<1>2. /\ \A v \in VM : dom[v] # "absent"
      /\ net # "absent" /\ storage # "absent" /\ instance
  BY DEF Init
<1>3. ASSUME NEW p \in LabParts PROVE p \in Left
  BY <1>2, <1>3, LeftParts, LabPart, Zenon DEF LeftAre
<1>q. QED
  BY <1>1, <1>3, LeftParts DEF LeftAre, Outside!RemovalInit

(* Every step is a step of the contract, or none. *)
LEMMA ContractStep ==
    ASSUME IInv, [Next]_vars
    PROVE  [Outside!RemovalNext]_(Outside!removalVars)
<1>0. TypeOK /\ InvJournal /\ InvLab /\ CleanupOrder
  BY Zenon DEF IInv, Safe
<1> USE DEF Outside!RemovalNext, Outside!removalVars, Outside!Change, Outside!Begin,
            Outside!Shrink, Outside!Return, Outside!Finish, Outside!Reappear
<1>1. ASSUME PartsStay, \/ UNCHANGED LabPhase
                        \/ LabPhase = "kept" /\ LabPhase' = "leaving"
                        \/ LabPhase = "gone" /\ LabPhase' = "kept"
                        \/ LabPhase = "leaving" /\ LabPhase' = "gone" /\ Left = {}
      PROVE  [Outside!RemovalNext]_(Outside!removalVars)
  BY <1>1, LeftStays, Zenon
<1>2. ASSUME PartsGo, LabPhase = "leaving", UNCHANGED LabPhase
      PROVE  [Outside!RemovalNext]_(Outside!removalVars)
  BY <1>2, LeftShrinks, Zenon
<1>3. ASSUME CoreStays, LabPhase = "kept", UNCHANGED LabPhase
      PROVE  [Outside!RemovalNext]_(Outside!removalVars)
  BY <1>3, LeftChanges, Zenon
<1>s. UNCHANGED host => PartsStay
  <2>1. UNCHANGED host => UNCHANGED <<dom, net, storage, instance>>
    BY DEF host, trees
  <2>q. QED BY <2>1, Zenon DEF PartsStay, CoreStays
(* Beginning and ending. *)
<1>4. CASE BeginRemove
  BY <1>1, <1>4, <1>s DEF BeginRemove, LabPhase, state, txn
<1>5. CASE FinishRemove
  <2>1. Left = {}
    BY <1>0, <1>5, NothingLeft, Zenon DEF FinishRemove, CleanupOrder
  <2>q. QED BY <1>1, <1>5, <1>s, <2>1 DEF FinishRemove, LabPhase, state, txn
<1>6. CASE BeginRemoveVm
  BY <1>1, <1>6, <1>s DEF BeginRemoveVm, LabPhase, state, txn
<1>7. CASE UnlinkJournal
  <2>1. Left = {}
    BY <1>0, <1>7, NothingLeft, Zenon DEF UnlinkJournal, CleanupOrder, InvLab
  <2>2. UNCHANGED host /\ journal' \in {journal, "none"} /\ UNCHANGED status
        /\ status = "absent"
    BY <1>0, <1>7, Zenon DEF UnlinkJournal, InvLab, state
  <2>q. QED BY <1>1, <1>s, <2>1, <2>2 DEF LabPhase
<1>8. CASE SaveFailure
  <2>1. /\ UNCHANGED host /\ UNCHANGED journal
        /\ journal = "remove" \/ status = "absent"
        /\ status' \in {status, "failed_cleanup"}
    BY <1>0, <1>8, Zenon DEF SaveFailure, InvJournal, RemovePcs, state, txn
  <2>q. QED BY <1>1, <1>s, <2>1 DEF LabPhase
(* The removal of a lab takes parts away. *)
<1>9. CASE \/ MarkMissing \/ Correct \/ GuardRunning \/ StopVm \/ StopDone \/ RemoveDomain
           \/ DomainsDone \/ RemoveNetwork \/ RemoveStorage \/ RemoveInstance
           \/ UnlinkState
  <2>1. LabPhase = "leaving" /\ UNCHANGED LabPhase
    <3>1. journal = "remove" /\ UNCHANGED journal
      BY <1>0, <1>9, Zenon
      DEF InvJournal, RemovePcs, MarkMissing, Correct, GuardRunning, StopVm, StopDone,
          RemoveDomain, DomainsDone, RemoveNetwork, RemoveStorage, RemoveInstance,
          UnlinkState, txn
    <3>q. QED BY <3>1 DEF LabPhase
  <2>2. CASE MarkMissing \/ Correct \/ GuardRunning \/ StopDone \/ DomainsDone \/ UnlinkState
    BY <1>1, <1>s, <2>1, <2>2, Zenon
    DEF MarkMissing, Correct, GuardRunning, StopDone, DomainsDone, UnlinkState
  <2>3. CASE StopVm \/ RemoveDomain
    <3>1. UNCHANGED <<net, storage, instance>>
      BY <2>3, Zenon DEF StopVm, RemoveDomain, trees
    <3>2. CASE StopVm
      <4>1. pc = "stop"
        BY <3>2, Zenon DEF StopVm
      <4>q. QED BY <1>0, <1>2, <2>1, <3>1, <3>2, <4>1 DEF StopVm, IsLast, InvLab, PartsGo, TypeOK
    <3>3. CASE RemoveDomain
      <4>1. PICK v \in VM : Undefined(v) \/ UNCHANGED dom
        BY <3>3, Zenon DEF RemoveDomain
      <4>2. \A w \in VM : dom[w] = "absent" => dom'[w] = "absent"
        BY <1>0, <4>1 DEF Undefined, TypeOK
      <4>q. QED BY <1>2, <2>1, <3>1, <4>2, Zenon DEF PartsGo
    <3>q. QED BY <2>3, <3>2, <3>3, Zenon
  <2>4. CASE RemoveNetwork \/ RemoveStorage
    <3>1. /\ UNCHANGED <<dom, instance>> /\ (net = "absent" => net' = "absent")
          /\ storage = "absent" => storage' = "absent"
      BY <2>4 DEF RemoveNetwork, RemoveStorage, PartOfTree, trees
    <3>q. QED BY <1>2, <2>1, <3>1, Zenon DEF PartsGo
  <2>5. CASE RemoveInstance
    <3>1. UNCHANGED <<dom, net, storage>> /\ instance' \in {instance, FALSE}
      BY <2>5, Zenon DEF RemoveInstance
    <3>2. instance' = FALSE => ~instance'
      BY SMT
    <3>3. CASE UNCHANGED instance
      BY <1>2, <2>1, <3>1, <3>3, Zenon DEF PartsGo
    <3>4. CASE instance' = FALSE
      BY <1>2, <2>1, <3>1, <3>2, <3>4, Zenon DEF PartsGo
    <3>q. QED BY <3>1, <3>3, <3>4
  <2>q. QED BY <1>9, <2>2, <2>3, <2>4, <2>5, Zenon
(* The removal of a VM takes its domain away from a lab that is kept. *)
<1>10. CASE DestroyVm \/ UndefineVm
  <2>1. /\ journal = "remove-vm" /\ status # "absent"
        /\ UNCHANGED <<journal, status, net, storage, instance>>
    BY <1>0, <1>10, Zenon
    DEF InvJournal, RemoveVmPcs, DestroyVm, UndefineVm, txn, state, trees
  <2>2. LabPhase = "kept" /\ UNCHANGED LabPhase
    BY <2>1 DEF LabPhase
  <2>q. QED BY <1>3, <2>1, <2>2, Zenon DEF CoreStays
<1>11. CASE \/ RecordVm \/ SaveVmRemoved \/ UnlinkVmJournal
            \/ UnlinkFile("vm_overlay", "overlay", "vm_seed")
            \/ UnlinkFile("vm_seed", "seed", "vm_save")
  <2>1. /\ journal = "remove-vm" /\ journal' \in {"none", "remove-vm"}
        /\ status # "absent" /\ status' \in {status, "degraded", "failed_cleanup"}
        /\ UNCHANGED <<dom, net, storage, instance>>
    BY <1>0, <1>11, Zenon
    DEF InvJournal, RemoveVmPcs, RecordVm, SaveVmRemoved, UnlinkVmJournal, UnlinkFile,
        txn, state, host, trees
  <2>2. LabPhase = "kept" /\ UNCHANGED LabPhase
    BY <2>1 DEF LabPhase
  <2>q. QED BY <1>1, <2>1, <2>2, Zenon DEF PartsStay, CoreStays
(* The environment. *)
<1>12. CASE Crash \/ CalmDown \/ UNCHANGED vars
  <2>1. UNCHANGED <<host, journal, status>>
    BY <1>12, Zenon DEF Crash, CalmDown, vars, txn, state
  <2>q. QED BY <1>1, <1>s, <2>1 DEF LabPhase
<1>13. CASE CrashInRmtree
  <2>1. /\ UNCHANGED <<journal, status, dom, net, instance>>
        /\ storage = "marked" /\ storage' \in {"marked", "stripped"}
    BY <1>13 DEF CrashInRmtree, PartOfTree, txn, state
  <2>2. PartsStay
    BY <2>1 DEF PartsStay, CoreStays
  <2>q. QED BY <1>1, <2>1, <2>2 DEF LabPhase
<1>14. CASE \E v \in VM : PowerOn(v)
  <2>1. UNCHANGED <<journal, status, net, storage, instance>>
    BY <1>14, Zenon DEF PowerOn, txn, state, trees
  <2>2. \A w \in VM : dom'[w] = "absent" <=> dom[w] = "absent"
    BY <1>0, <1>14 DEF PowerOn, TypeOK
  <2>q. QED BY <1>1, <2>1, <2>2 DEF LabPhase, PartsStay, CoreStays
<1>15. CASE \E v \in VM : Redefine(v)
  <2>1. UNCHANGED <<journal, status, net, storage, instance>> /\ storage = "marked"
    BY <1>15, Zenon DEF Redefine, txn, state, trees
  <2>2. \A w \in VM : dom'[w] = "absent" => dom[w] = "absent"
    BY <1>0, <1>15 DEF Redefine, TypeOK
  <2>3. CoreStays /\ UNCHANGED LabPhase
    BY <2>1, Zenon DEF CoreStays, LabPhase
  <2>4. LabPhase \in {"kept", "leaving"}
    BY <1>0, <2>1 DEF CleanupOrder, LabPhase
  <2>5. CASE LabPhase = "leaving"
    BY <2>2, <2>3, <2>5, LeftGrows, Zenon
  <2>q. QED BY <1>3, <2>3, <2>4, <2>5, Zenon
<1>q. QED
  BY [Next]_vars, <1>4, <1>5, <1>6, <1>7, <1>8, <1>9, <1>10, <1>11, <1>12, <1>13,
     <1>14, <1>15, Zenon
  DEF Next, Begin, Running, LabSteps, VmSteps, Environment

(* A removal does what RemovalContract says: a kept lab loses nothing of its
   core, a removal on record only takes parts away, and the lab is forgotten
   only when nothing of it is left. *)
THEOREM ImplementsRemovalHolds == Spec => ImplementsRemoval
<1>1. IInv /\ [Next]_vars => [Outside!RemovalNext]_(Outside!removalVars)
  BY ContractStep, Zenon
<1>q. QED
  BY <1>1, Invariance, ContractInitially, PTL
  DEF Spec, ImplementsRemoval, Outside!Removal
=============================================================================
