--------------------------- MODULE ResetTxnProofs ---------------------------
(***************************************************************************)
(* Proofs about ResetTxn for any number of virtual machines, any selection *)
(* and any alphabetical order of their names.  What must be true wherever  *)
(* the process dies depends on how far the command, its rollback or a      *)
(* recovery has come with each VM, and on what the rollback's lists still  *)
(* hold.  The invariant has two layers: DiskInv is about disks and records *)
(* and leaves out the VMs of a reset whose commit was torn; IInv adds who  *)
(* owns the domains and what the guests have open, and leaves out the VMs  *)
(* whose domain a failing step left behind.                                *)
(***************************************************************************)
EXTENDS ResetTxn, TLAPS

InLoop == {"undefine", "backup", "create_overlay", "plan", "virt_install",
           "metadata", "attach", "wait_ready"}
InTry  == InLoop \union {"save_ready", "commit"}
Recovering == {"recover_vms", "recover_power", "recover_save", "recover_unlink"}

(* The old disk of v is in its place, ... *)
Untouched(v) == overlay[v] = "old" /\ backup[v] = "absent"
(* ... or beside it, with or without a new one in its place. *)
Replaced(v) == overlay[v] \in {"absent", "new"} /\ backup[v] = "old"
(* v has its new disk, and the old one is kept. *)
Renewed(v) == overlay[v] = "new" /\ backup[v] = "old"

-----------------------------------------------------------------------------
(* The first layer: disks and records.                                     *)

(* Where the process is, its journal tells.  A rollback meets a committed
   journal only if its own commit was torn, and only then is torn what is
   picked. *)
InvJournal ==
    /\ pc \in InTry \union {"shutdown"} \union Recovering => journal = "rollback"
    /\ pc \in UndoPcs => /\ journal # "none"
                         /\ journal = "committed" => picked \subseteq torn
    /\ pc \in {"drop_backups", "unlink_journal"} => journal = "committed"
    /\ pc = "begin" => journal = "none" /\ todo # {}
    /\ journal # "none" => picked # {}
    /\ \A v \in VM : /\ journal = "none" => v \notin picked
                     /\ v \in before => v \in picked
                     /\ journal = "rollback" => ~(v \in picked /\ v \in torn)

(* The disks under each kind of journal; an unselected VM is left alone. *)
InvDisks ==
    /\ \A v \in VM : /\ backup[v] \in {"absent", "old"}
                     /\ v \notin picked => backup[v] = "absent"
    /\ journal = "rollback" =>
          \A v \in VM : v \in torn \/ Untouched(v) \/ (Replaced(v) /\ v \in picked)
    /\ journal = "committed" =>
          \A v \in VM : v \in torn \/ IF v \in picked THEN overlay[v] = "new"
                                                   ELSE Untouched(v)

(* The way forward: VMs before k are done, those after it are still whole. *)
InvForward ==
    /\ pc = "shutdown" => \A v \in picked : Untouched(v)
    /\ pc \in InLoop => 
          /\ k \in picked
          /\ \A v \in picked : /\ v < k => Renewed(v)
                               /\ v > k => Untouched(v)
    /\ pc \in {"undefine", "backup"} => Untouched(k)
    /\ pc = "create_overlay" => overlay[k] = "absent" /\ backup[k] = "old"
    /\ pc \in {"plan", "virt_install", "metadata", "attach", "wait_ready"} => Renewed(k)
    /\ pc \in {"save_ready", "commit"} => \A v \in picked : Renewed(v)

(* The rollback's list of backups is exact until it has begun. *)
InvLists ==
    /\ \A v \in VM : v \in recreated \/ v \in backups \/ v \in undefined => v \in picked
    /\ pc \in InTry \union {"shutdown"} =>
          \A v \in VM : v \in backups <=> backup[v] = "old"
    /\ pc = "undo_domains" => \A v \in VM : v \in backups => backup[v] = "old"
    /\ pc = "undo_disks" =>
          \A v \in VM : v \in todo => backup[v] = "old" /\ v \in picked
    /\ pc \in {"idle", "begin", "recover_vms", "recover_power", "recover_unlink"} =>
          \A v \in VM : v \notin recreated /\ v \notin backups /\ v \notin undefined

(* How far a recovery, or the end of a commit, has come. *)
InvRecovery ==
    /\ pc = "recover_vms" /\ ~failed => \A v \in picked \ todo : backup[v] = "absent"
    /\ pc \in {"recover_power", "recover_unlink"} => \A v \in picked : backup[v] = "absent"
    /\ pc = "recover_power" /\ ~failed =>
          \A v \in picked \ todo : (guest[v] # "off") <=> v \in before
    /\ pc = "recover_unlink" =>
          /\ \A v \in picked : (guest[v] # "off") <=> v \in before
          /\ access = "pending"
    /\ pc = "drop_backups" /\ ~failed => \A v \in VM : backup[v] # "absent" => v \in todo
    /\ pc = "unlink_journal" => \A v \in VM : backup[v] = "absent"

(* Without a journal no backup is left and every disk is in its place. *)
InvWhole ==
    journal = "none" =>
        \A v \in VM : backup[v] = "absent" /\ (v \in torn \/ overlay[v] # "absent")

(* The claim of practice access while a reset is under way. *)
InvAccess ==
    /\ pc \in InTry \ {"commit"} => access = "pending"
    /\ (pc = "commit" \/ journal # "rollback") /\ torn = {} =>
          (access = "ready" => granted)

DiskSafe ==
    /\ InvJournal /\ InvDisks /\ InvForward /\ InvLists /\ InvRecovery /\ InvWhole
    /\ InvAccess
DiskInv == TypeOK /\ DiskSafe

-----------------------------------------------------------------------------
(* The second layer: domains and guests.                                   *)

(* Only the domains of selected VMs are ever taken away. *)
InvOwned ==
    \A v \in VM : v \notin torn /\ (v \notin picked \/ journal = "committed") =>
        dom[v] = "owned" \/ (dom[v] = "bare" /\ v \in stray)

(* A guest has the disk open that its definition names. *)
InvGuests ==
    \A v \in VM : /\ v \in stray \/ guest[v] \in {"off", overlay[v]}
                  /\ dom[v] = "absent" => guest[v] = "off"

(* A domain without metadata is the one being made, or one that a dead process
   left with its old disk still beside the new one, if no failing step left it. *)
InvBare ==
    \A v \in VM : dom[v] = "bare" /\ v \notin stray =>
        /\ journal = "rollback" /\ Replaced(v)
        /\ pc \in {"idle", "metadata", "recover_vms"}
        /\ pc = "metadata" => v = k

(* The domains on the way forward; what is still to be replaced is off. *)
InvInstall ==
    /\ pc = "shutdown" =>
          /\ \A v \in picked : dom[v] = "owned" /\ (guest[v] # "off" => v \in todo)
          /\ \A v \in VM : v \in todo => v \in picked
    /\ pc \in InLoop =>
          \A v \in picked : /\ v < k => dom[v] = "owned"
                            /\ v > k => dom[v] = "owned" /\ guest[v] = "off"
    /\ pc = "undefine" => dom[k] = "owned" /\ guest[k] = "off"
    /\ pc \in {"backup", "create_overlay", "plan", "virt_install"} => dom[k] = "absent"
    /\ pc = "metadata" => dom[k] = "bare"
    /\ pc \in {"attach", "wait_ready"} => dom[k] = "owned"
    /\ pc \in {"save_ready", "commit"} => \A v \in picked : dom[v] = "owned"

(* A disk that the rollback moves belongs to no domain. *)
InvUndo ==
    /\ pc \in InTry \union {"shutdown"} =>
          \A v \in VM : /\ v \in backups /\ dom[v] # "absent" => v \in recreated
                        /\ v \in recreated => dom[v] # "absent" /\ v \in backups
    /\ pc = "undo_domains" =>
          \A v \in VM : /\ v \in backups /\ dom[v] # "absent" => v \in todo \/ v \in stray
                        /\ v \in todo => /\ v \in picked /\ dom[v] # "absent"
                                         /\ dom[v] = "owned" \/ v \in stray
    /\ pc = "undo_disks" => \A v \in VM : v \in todo => dom[v] = "absent" \/ v \in stray
    /\ pc = "undo_install" => \A v \in VM : v \in todo => v \in picked

(* A VM that the recovery is done with has a domain again, and its own. *)
InvRebuilt ==
    /\ pc = "recover_vms" /\ ~failed =>
          \A v \in picked \ todo : dom[v] = "owned" \/ (dom[v] = "bare" /\ v \in stray)
    /\ pc \in {"recover_power", "recover_unlink"} =>
          \A v \in picked : dom[v] = "owned" \/ (dom[v] = "bare" /\ v \in stray)

OwnSafe == InvOwned /\ InvGuests /\ InvBare /\ InvInstall /\ InvUndo /\ InvRebuilt
IInv == DiskInv /\ OwnSafe

(* The type invariant in parts: sets and Booleans go to Zenon, the rest to SMT. *)
TypeSets ==
    /\ picked \in SUBSET VM /\ before \in SUBSET VM /\ todo \in SUBSET VM
    /\ recreated \in SUBSET VM /\ backups \in SUBSET VM /\ undefined \in SUBSET VM
    /\ granted \in BOOLEAN /\ failed \in BOOLEAN /\ calm \in BOOLEAN
    /\ stray \in SUBSET VM /\ torn \in SUBSET VM
TypeRecord ==
    /\ journal \in {"none", "rollback", "committed"}
    /\ stage \in [VM -> Stages]
    /\ status \in {"ready", "stopped", "degraded"}
    /\ vms \in [VM -> {"ready", "stopped"}] /\ access \in {"ready", "pending"}
    /\ pc \in {"idle"} \union ResetPcs \union UndoPcs \union RecoverPcs
    /\ k \in VM
TypeHost ==
    /\ overlay \in [VM -> Disks] /\ backup \in [VM -> Disks]
    /\ dom \in [VM -> {"absent", "bare", "owned"}]
    /\ guest \in [VM -> {"off", "old", "new"}]

LEMMA TypeParts == TypeOK <=> TypeSets /\ TypeRecord /\ TypeHost
  BY Zenon DEF TypeOK, TypeSets, TypeRecord, TypeHost

(* The invariant holds initially. *)
LEMMA InvInit == Init => IInv
<1> SUFFICES ASSUME Init PROVE IInv
  OBVIOUS
<1> USE NAssumption DEF VM
<1>1. TypeSets
  BY Zenon DEF Init, TypeSets
<1>2. TypeRecord /\ TypeHost
  BY DEF Init, TypeRecord, TypeHost, Lifecycle, Disks, Stages
<1>3. DiskSafe
  BY DEF Init, DiskSafe, InvJournal, InvDisks, InvForward, InvLists, InvRecovery,
         InvWhole, InvAccess, InTry, InLoop, UndoPcs, Recovering
<1>4. OwnSafe
  BY DEF Init, OwnSafe, InvOwned, InvGuests, InvBare, InvInstall, InvUndo,
         InvRebuilt, InTry, InLoop
<1>q. QED
  BY <1>1, <1>2, <1>3, <1>4, TypeParts DEF IInv, DiskInv

(* Every step keeps the types.  A domain is only ever installed on a disk that
   is there, which takes the invariant. *)
LEMMA TypeStep == ASSUME DiskInv, [Next]_vars PROVE TypeOK'
<1>0. TypeSets /\ TypeRecord /\ TypeHost
  BY TypeParts DEF DiskInv
<1>t. (TypeSets /\ TypeRecord /\ TypeHost)' => TypeOK'
  BY TypeParts, PTL
<1>i. InvJournal /\ InvDisks /\ InvForward
  BY DEF DiskInv, DiskSafe
<1> USE <1>0, NAssumption
    DEF TypeSets, TypeRecord, TypeHost, VM, Disks, Stages, ResetPcs, UndoPcs, RecoverPcs,
        Forget, Fault, MayFail, txn, state, disks, libvirt, undoWork, locals, history, vars
<1>1. CASE Reset
  <2>1. TypeSets'
    <3>1. PICK set \in SUBSET VM : BeginReset(set)
      BY <1>1, Zenon DEF Reset
    <3>2. Observed(set) \in SUBSET VM
      BY DEF Observed
    <3>q. QED BY <3>1, <3>2, ZenonT(20) DEF BeginReset
  <2>2. TypeRecord'
    BY <1>1, SMTT(20) DEF Reset, BeginReset, Resettable, Observed, On
  <2>3. TypeHost'
    BY <1>1, SMTT(20) DEF Reset, BeginReset, Resettable, Observed, On
  <2>q. QED BY <1>t, <2>1, <2>2, <2>3
<1>2. CASE ResetAgain
  <2>1. TypeSets'
    BY <1>2, ZenonT(20) DEF ResetAgain, BeginReset, Resettable, Observed, On
  <2>2. TypeRecord'
    BY <1>2, SMTT(20) DEF ResetAgain, BeginReset, Resettable, Observed, On
  <2>3. TypeHost'
    BY <1>2, SMTT(20) DEF ResetAgain, BeginReset, Resettable, Observed, On
  <2>q. QED BY <1>t, <2>1, <2>2, <2>3
<1>3. CASE ShutDown
  <2>1. TypeSets'
    BY <1>3, ZenonT(20) DEF ShutDown
  <2>2. TypeRecord'
    BY <1>3, SMTT(20) DEF ShutDown
  <2>3. TypeHost'
    BY <1>3, SMTT(20) DEF ShutDown
  <2>q. QED BY <1>t, <2>1, <2>2, <2>3
<1>4. CASE SaveStopped
  <2>1. TypeSets'
    BY <1>4, ZenonT(20) DEF SaveStopped, Powered, Lifecycle, Invalidated
  <2>2. TypeRecord'
    <3>1. CASE Forget /\ UNCHANGED state
      BY <1>4, <3>1, SMTT(20) DEF SaveStopped
    <3>2. CASE /\ vms' = Powered(picked, {}) /\ status' = Lifecycle(vms')
               /\ access' = Invalidated /\ pc' = "undefine" /\ k' \in picked
      <4>1. k' \in VM
        BY <3>2
      <4>q. QED BY <1>4, <3>2, <4>1, SMTT(20)
                DEF SaveStopped, Powered, Lifecycle, Invalidated
    <3>q. QED BY <1>4, <3>1, <3>2, Zenon DEF SaveStopped
  <2>3. TypeHost'
    BY <1>4, SMTT(20) DEF SaveStopped, Powered, Lifecycle, Invalidated
  <2>q. QED BY <1>t, <2>1, <2>2, <2>3
<1>5. CASE Undefine
  <2>1. TypeSets'
    BY <1>5, ZenonT(20) DEF Undefine
  <2>2. TypeRecord'
    BY <1>5, SMTT(20) DEF Undefine
  <2>3. TypeHost'
    BY <1>5, SMTT(20) DEF Undefine
  <2>q. QED BY <1>t, <2>1, <2>2, <2>3
<1>6. CASE BackUp
  <2>1. TypeSets'
    BY <1>6, ZenonT(20) DEF BackUp
  <2>2. TypeRecord'
    BY <1>6, SMTT(20) DEF BackUp
  <2>3. TypeHost'
    <3>1. CASE UNCHANGED <<overlay, backup>>
      BY <1>6, <3>1, SMTT(20) DEF BackUp
    <3>2. CASE /\ backup' = [backup EXCEPT ![k] = overlay[k]]
               /\ overlay' = [overlay EXCEPT ![k] = "absent"]
      BY <1>6, <3>2, SMTT(20) DEF BackUp
    <3>q. QED BY <1>6, <3>1, <3>2, Zenon DEF BackUp
  <2>q. QED BY <1>t, <2>1, <2>2, <2>3
<1>7. CASE CreateOverlay
  <2>1. TypeSets'
    BY <1>7, ZenonT(20) DEF CreateOverlay
  <2>2. TypeRecord'
    BY <1>7, SMTT(20) DEF CreateOverlay
  <2>3. TypeHost'
    BY <1>7, SMTT(20) DEF CreateOverlay
  <2>q. QED BY <1>t, <2>1, <2>2, <2>3
<1>8. CASE PlanVm
  <2>1. TypeSets'
    BY <1>8, ZenonT(20) DEF PlanVm
  <2>2. TypeRecord'
    BY <1>8, SMTT(20) DEF PlanVm
  <2>3. TypeHost'
    BY <1>8, SMTT(20) DEF PlanVm
  <2>q. QED BY <1>t, <2>1, <2>2, <2>3
<1>9. CASE InstallVm
  <2>1. TypeSets'
    BY <1>9, ZenonT(20) DEF InstallVm, Installed
  <2>2. TypeRecord'
    BY <1>9, SMTT(20) DEF InstallVm, Installed
  <2>3. TypeHost'
    <3>1. overlay[k] = "new" /\ UNCHANGED <<overlay, backup>>
      BY <1>9, <1>i, Zenon DEF InstallVm, InvForward, Renewed
    <3>2. /\ dom' \in {dom, [dom EXCEPT ![k] = "bare"]}
          /\ guest' \in {guest, [guest EXCEPT ![k] = overlay[k]]}
      BY <1>9, Zenon DEF InstallVm, Installed
    <3>q. QED BY <3>1, <3>2
  <2>q. QED BY <1>t, <2>1, <2>2, <2>3
<1>10. CASE AttachMetadata
  <2>1. TypeSets'
    BY <1>10, ZenonT(20) DEF AttachMetadata
  <2>2. TypeRecord'
    BY <1>10, SMTT(20) DEF AttachMetadata
  <2>3. TypeHost'
    BY <1>10, SMTT(20) DEF AttachMetadata
  <2>q. QED BY <1>t, <2>1, <2>2, <2>3
<1>11. CASE RecordAttached
  <2>1. TypeSets'
    BY <1>11, ZenonT(20) DEF RecordAttached
  <2>2. TypeRecord'
    BY <1>11, SMTT(20) DEF RecordAttached
  <2>3. TypeHost'
    BY <1>11, SMTT(20) DEF RecordAttached
  <2>q. QED BY <1>t, <2>1, <2>2, <2>3
<1>12. CASE WaitReady
  <2>1. TypeSets'
    BY <1>12, ZenonT(20) DEF WaitReady, Later
  <2>2. TypeRecord'
    <3>1. k' \in VM
      BY <1>12, ZenonT(20) DEF WaitReady, Later
    <3>q. QED BY <1>12, <3>1, SMTT(20) DEF WaitReady
  <2>3. TypeHost'
    BY <1>12, SMTT(20) DEF WaitReady, Later
  <2>q. QED BY <1>t, <2>1, <2>2, <2>3
<1>13. CASE SaveReady
  <2>1. TypeSets'
    BY <1>13, ZenonT(20) DEF SaveReady, Powered, Lifecycle, Invalidated, On
  <2>2. TypeRecord'
    BY <1>13, SMTT(20) DEF SaveReady, Powered, Lifecycle, Invalidated, On
  <2>3. TypeHost'
    BY <1>13, SMTT(20) DEF SaveReady, Powered, Lifecycle, Invalidated, On
  <2>q. QED BY <1>t, <2>1, <2>2, <2>3
<1>14. CASE Commit
  <2>1. TypeSets'
    BY <1>14, ZenonT(20) DEF Commit
  <2>2. TypeRecord'
    BY <1>14, SMTT(20) DEF Commit
  <2>3. TypeHost'
    BY <1>14, SMTT(20) DEF Commit
  <2>q. QED BY <1>t, <2>1, <2>2, <2>3
<1>15. CASE DropBackup
  <2>1. TypeSets'
    BY <1>15, ZenonT(20) DEF DropBackup
  <2>2. TypeRecord'
    BY <1>15, SMTT(20) DEF DropBackup
  <2>3. TypeHost'
    BY <1>15, SMTT(20) DEF DropBackup
  <2>q. QED BY <1>t, <2>1, <2>2, <2>3
<1>16. CASE DropBackupsDone
  <2>1. TypeSets'
    BY <1>16, ZenonT(20) DEF DropBackupsDone
  <2>2. TypeRecord'
    BY <1>16, SMTT(20) DEF DropBackupsDone
  <2>3. TypeHost'
    BY <1>16, SMTT(20) DEF DropBackupsDone
  <2>q. QED BY <1>t, <2>1, <2>2, <2>3
<1>17. CASE UnlinkJournal
  <2>1. TypeSets'
    BY <1>17, ZenonT(20) DEF UnlinkJournal, NoJournal
  <2>2. TypeRecord'
    BY <1>17, SMTT(20) DEF UnlinkJournal, NoJournal
  <2>3. TypeHost'
    BY <1>17, SMTT(20) DEF UnlinkJournal, NoJournal
  <2>q. QED BY <1>t, <2>1, <2>2, <2>3
<1>18. CASE UndoDomain
  <2>1. TypeSets'
    BY <1>18, ZenonT(20) DEF UndoDomain
  <2>2. TypeRecord'
    BY <1>18, SMTT(20) DEF UndoDomain
  <2>3. TypeHost'
    <3>1. PICK v \in VM :
              /\ dom' \in {dom, [dom EXCEPT ![v] = "absent"]}
              /\ guest' \in {guest, [guest EXCEPT ![v] = "off"]}
      BY <1>18, Zenon DEF UndoDomain
    <3>2. UNCHANGED <<overlay, backup>>
      BY <1>18, Zenon DEF UndoDomain
    <3>3. dom' \in [VM -> {"absent", "bare", "owned"}]
      BY <3>1
    <3>4. guest' \in [VM -> {"off", "old", "new"}]
      BY <3>1
    <3>q. QED BY <3>2, <3>3, <3>4, Zenon
  <2>q. QED BY <1>t, <2>1, <2>2, <2>3
<1>19. CASE UndoDomainsDone
  <2>1. TypeSets'
    BY <1>19, ZenonT(20) DEF UndoDomainsDone
  <2>2. TypeRecord'
    BY <1>19, SMTT(20) DEF UndoDomainsDone
  <2>3. TypeHost'
    BY <1>19, SMTT(20) DEF UndoDomainsDone
  <2>q. QED BY <1>t, <2>1, <2>2, <2>3
<1>20. CASE UndoDisk
  <2>1. TypeSets'
    BY <1>20, ZenonT(20) DEF UndoDisk, Restored, NotRestored
  <2>2. TypeRecord'
    BY <1>20, SMTT(20) DEF UndoDisk, Restored, NotRestored
  <2>3. TypeHost'
    BY <1>20, SMTT(20) DEF UndoDisk, Restored, NotRestored
  <2>q. QED BY <1>t, <2>1, <2>2, <2>3
<1>21. CASE UndoDisksDone
  <2>1. TypeSets'
    BY <1>21, ZenonT(20) DEF UndoDisksDone
  <2>2. TypeRecord'
    BY <1>21, SMTT(20) DEF UndoDisksDone
  <2>3. TypeHost'
    BY <1>21, SMTT(20) DEF UndoDisksDone
  <2>q. QED BY <1>t, <2>1, <2>2, <2>3
<1>22. CASE UndoInstall
  <2>1. TypeSets'
    BY <1>22, ZenonT(20) DEF UndoInstall, Rebuildable, RebuiltBare, Installed
  <2>2. TypeRecord'
    BY <1>22, SMTT(20) DEF UndoInstall, Rebuildable, RebuiltBare, Installed
  <2>3. TypeHost'
    BY <1>22, SMTT(20) DEF UndoInstall, Rebuildable, RebuiltBare, Installed
  <2>q. QED BY <1>t, <2>1, <2>2, <2>3
<1>23. CASE UndoInstallDone
  <2>1. TypeSets'
    BY <1>23, ZenonT(20) DEF UndoInstallDone
  <2>2. TypeRecord'
    BY <1>23, SMTT(20) DEF UndoInstallDone
  <2>3. TypeHost'
    BY <1>23, SMTT(20) DEF UndoInstallDone
  <2>q. QED BY <1>t, <2>1, <2>2, <2>3
<1>24. CASE UndoPower
  <2>1. TypeSets'
    BY <1>24, ZenonT(20) DEF UndoPower, RestorePower, PowerRestorable, PowerAsBefore, On
  <2>2. TypeRecord'
    BY <1>24, SMTT(20) DEF UndoPower, RestorePower, PowerRestorable, PowerAsBefore, On
  <2>3. TypeHost'
    BY <1>24, SMTT(20) DEF UndoPower, RestorePower, PowerRestorable, PowerAsBefore, On
  <2>q. QED BY <1>t, <2>1, <2>2, <2>3
<1>25. CASE UndoSave
  <2>1. TypeSets'
    BY <1>25, ZenonT(20) DEF UndoSave, RecordBefore, Powered, Lifecycle,
       Invalidated
  <2>2. TypeRecord'
    BY <1>25, SMTT(20) DEF UndoSave, RecordBefore, Powered, Lifecycle,
       Invalidated
  <2>3. TypeHost'
    BY <1>25, SMTT(20) DEF UndoSave, RecordBefore, Powered, Lifecycle,
       Invalidated
  <2>q. QED BY <1>t, <2>1, <2>2, <2>3
<1>26. CASE BeginRecovery
  <2>1. TypeSets'
    BY <1>26, ZenonT(20) DEF BeginRecovery, Uncommitted
  <2>2. TypeRecord'
    BY <1>26, SMTT(20) DEF BeginRecovery, Uncommitted
  <2>3. TypeHost'
    BY <1>26, SMTT(20) DEF BeginRecovery, Uncommitted
  <2>q. QED BY <1>t, <2>1, <2>2, <2>3
<1>27. CASE RecoverDomain
  <2>1. TypeSets'
    BY <1>27, ZenonT(20) DEF RecoverDomain, Skip, Adoptable
  <2>2. TypeRecord'
    BY <1>27, SMTT(20) DEF RecoverDomain, Skip, Adoptable
  <2>3. TypeHost'
    BY <1>27, SMTT(20) DEF RecoverDomain, Skip, Adoptable
  <2>q. QED BY <1>t, <2>1, <2>2, <2>3
<1>28. CASE RecoverDisk
  <2>1. TypeSets'
    BY <1>28, ZenonT(20) DEF RecoverDisk, Skip, Restored, NotRestored
  <2>2. TypeRecord'
    BY <1>28, SMTT(20) DEF RecoverDisk, Skip, Restored, NotRestored
  <2>3. TypeHost'
    <3>1. PICK v \in VM : Restored(v) \/ NotRestored(v)
      BY <1>28, Zenon DEF RecoverDisk
    <3>2. overlay' \in [VM -> Disks]
      BY <3>1, SMTT(20) DEF Restored, NotRestored
    <3>3. backup' \in [VM -> Disks]
      BY <3>1, SMTT(20) DEF Restored, NotRestored
    <3>q. QED BY <1>28, <3>2, <3>3, SMTT(20) DEF RecoverDisk
  <2>q. QED BY <1>t, <2>1, <2>2, <2>3
<1>29. CASE RecoverInstall
  <2>1. TypeSets'
    BY <1>29, ZenonT(20) DEF RecoverInstall, Skip, Rebuildable, RebuiltBare, Installed
  <2>2. TypeRecord'
    BY <1>29, SMTT(20) DEF RecoverInstall, Skip, Rebuildable, RebuiltBare, Installed
  <2>3. TypeHost'
    BY <1>29, <1>i, SMTT(20) DEF RecoverInstall, Skip, Rebuildable, RebuiltBare, Installed,
       InvForward, InvDisks, InvJournal, InTry, InLoop, Recovering,
       Untouched, Replaced, Renewed
  <2>q. QED BY <1>t, <2>1, <2>2, <2>3
<1>30. CASE RecoverVmsDone
  <2>1. TypeSets'
    BY <1>30, ZenonT(20) DEF RecoverVmsDone
  <2>2. TypeRecord'
    BY <1>30, SMTT(20) DEF RecoverVmsDone
  <2>3. TypeHost'
    BY <1>30, SMTT(20) DEF RecoverVmsDone
  <2>q. QED BY <1>t, <2>1, <2>2, <2>3
<1>31. CASE RecoverPower
  <2>1. TypeSets'
    BY <1>31, ZenonT(20) DEF RecoverPower, RestorePower, PowerRestorable, PowerAsBefore, On
  <2>2. TypeRecord'
    BY <1>31, SMTT(20) DEF RecoverPower, RestorePower, PowerRestorable, PowerAsBefore, On
  <2>3. TypeHost'
    BY <1>31, SMTT(20) DEF RecoverPower, RestorePower, PowerRestorable, PowerAsBefore, On
  <2>q. QED BY <1>t, <2>1, <2>2, <2>3
<1>32. CASE RecoverSave
  <2>1. TypeSets'
    BY <1>32, ZenonT(20) DEF RecoverSave, RecordBefore, Powered, Lifecycle,
       Invalidated
  <2>2. TypeRecord'
    <3>1. /\ UNCHANGED <<journal, stage>>
          /\ pc' \in {"idle", "recover_unlink"} /\ k' \in {k, 1}
      BY <1>32, Zenon DEF RecoverSave
    <3>2. CASE UNCHANGED state
      BY <3>1, <3>2, SMTT(20)
    <3>3. CASE RecordBefore
      <4>1. vms' \in [VM -> {"ready", "stopped"}] /\ access' = "pending"
        BY <3>3 DEF RecordBefore, Powered, Invalidated
      <4>2. status' \in {"ready", "stopped", "degraded"}
        BY <3>3, Zenon DEF RecordBefore, Lifecycle
      <4>q. QED BY <3>1, <4>1, <4>2, SMTT(20)
    <3>q. QED BY <1>32, <3>2, <3>3, Zenon DEF RecoverSave
  <2>3. TypeHost'
    BY <1>32, SMTT(20) DEF RecoverSave, RecordBefore, Powered, Lifecycle,
       Invalidated
  <2>q. QED BY <1>t, <2>1, <2>2, <2>3
<1>33. CASE RecoverUnlink
  <2>1. TypeSets'
    BY <1>33, ZenonT(20) DEF RecoverUnlink, NoJournal
  <2>2. TypeRecord'
    BY <1>33, SMTT(20) DEF RecoverUnlink, NoJournal
  <2>3. TypeHost'
    BY <1>33, SMTT(20) DEF RecoverUnlink, NoJournal
  <2>q. QED BY <1>t, <2>1, <2>2, <2>3
<1>34. CASE Crash
  <2>1. TypeSets'
    BY <1>34, ZenonT(20) DEF Crash
  <2>2. TypeRecord'
    BY <1>34, SMTT(20) DEF Crash
  <2>3. TypeHost'
    BY <1>34, SMTT(20) DEF Crash
  <2>q. QED BY <1>t, <2>1, <2>2, <2>3
<1>35. CASE HostReboot
  <2>1. TypeSets'
    BY <1>35, ZenonT(20) DEF HostReboot
  <2>2. TypeRecord'
    BY <1>35, SMTT(20) DEF HostReboot
  <2>3. TypeHost'
    BY <1>35, SMTT(20) DEF HostReboot
  <2>q. QED BY <1>t, <2>1, <2>2, <2>3
<1>36. CASE CalmDown
  <2>1. TypeSets'
    BY <1>36, ZenonT(20) DEF CalmDown
  <2>2. TypeRecord'
    BY <1>36, SMTT(20) DEF CalmDown
  <2>3. TypeHost'
    BY <1>36, SMTT(20) DEF CalmDown
  <2>q. QED BY <1>t, <2>1, <2>2, <2>3
<1>37. CASE \E v \in VM : GuestOff(v)
  <2>1. TypeSets'
    BY <1>37, ZenonT(20) DEF GuestOff
  <2>2. TypeRecord'
    BY <1>37, SMTT(20) DEF GuestOff
  <2>3. TypeHost'
    BY <1>37, SMTT(20) DEF GuestOff
  <2>q. QED BY <1>t, <2>1, <2>2, <2>3
<1>38. CASE UNCHANGED vars
  <2>1. TypeSets'
    BY <1>38, ZenonT(20)
  <2>2. TypeRecord'
    BY <1>38, SMTT(20)
  <2>3. TypeHost'
    BY <1>38, SMTT(20)
  <2>q. QED BY <1>t, <2>1, <2>2, <2>3
<1>q. QED
  BY [Next]_vars, <1>1, <1>2, <1>3, <1>4, <1>5, <1>6, <1>7, <1>8, <1>9,
     <1>10, <1>11, <1>12, <1>13, <1>14, <1>15, <1>16, <1>17, <1>18, <1>19,
     <1>20, <1>21, <1>22, <1>23, <1>24, <1>25, <1>26, <1>27, <1>28, <1>29,
     <1>30, <1>31, <1>32, <1>33, <1>34, <1>35, <1>36, <1>37, <1>38,
     ZenonT(30)
  DEF Next, Running, Forward, Rollback, Recovery, Environment

(* Observing the lab and writing the journal, in a first reset and in one that
   follows a recovery. *)
LEMMA BeginResetDisks ==
    ASSUME DiskInv, NEW set \in SUBSET VM, BeginReset(set), pc \in {"idle", "begin"},
           journal = "none", set # {}
    PROVE  DiskSafe'
<1> USE NAssumption
    DEF BeginReset, Untouched, InTry, InLoop, UndoPcs, Recovering, VM, state
<1>0. /\ TypeOK /\ InvWhole
      /\ \A v \in VM : v \notin recreated /\ v \notin backups /\ v \notin undefined
  BY DEF DiskInv, DiskSafe, InvLists
<1>1. /\ journal' = "rollback" /\ picked' = set /\ pc' = "shutdown"
      /\ before' = set \intersect On /\ torn' = torn \ set
      /\ UNCHANGED <<backup, recreated, backups, undefined>>
  BY DEF Observed, undoWork
<1>2. \A v \in VM : /\ backup[v] = "absent"
                    /\ v \in set \/ v \notin torn => overlay'[v] = "old"
  BY <1>0 DEF InvWhole, TypeOK, Resettable
<1>3. InvJournal' /\ InvWhole'
  BY <1>0, <1>1 DEF InvJournal, InvWhole, On
<1>4. InvDisks' /\ InvForward'
  BY <1>1, <1>2, SMTT(30) DEF InvDisks, InvForward
<1>5. InvLists'
  BY <1>0, <1>1, <1>2, SMTT(30) DEF InvLists
<1>6. InvRecovery' /\ InvAccess'
  BY <1>0, <1>1, <1>2 DEF InvRecovery, InvAccess
<1>q. QED
  BY <1>3, <1>4, <1>5, <1>6 DEF DiskSafe

LEMMA BeginResetOwned ==
    ASSUME IInv, NEW set \in SUBSET VM, BeginReset(set), pc \in {"idle", "begin"},
           journal = "none"
    PROVE  OwnSafe'
<1> USE NAssumption DEF BeginReset, Untouched, InTry, InLoop, VM, state
<1>0. /\ TypeOK /\ InvWhole /\ InvOwned /\ InvGuests /\ InvBare /\ InvJournal
      /\ \A v \in VM : v \notin recreated /\ v \notin backups
  BY DEF IInv, DiskInv, DiskSafe, OwnSafe, InvLists
<1>1. /\ journal' = "rollback" /\ picked' = set /\ pc' = "shutdown" /\ todo' = before'
      /\ UNCHANGED <<dom, backup, recreated, backups>>
      /\ before' = set \intersect On
      /\ stray' = stray \ (set \ On) /\ torn' = torn \ set
  BY DEF Observed, undoWork, libvirt
<1>2. \A v \in VM : /\ v \notin stray' => guest'[v] \in {"off", overlay'[v]}
                    /\ guest'[v] # "off" <=> guest[v] # "off"
                    /\ v \in set => dom[v] = "owned"
                    /\ v \notin set => (v \in stray' <=> v \in stray)
  <2> SUFFICES ASSUME NEW v \in VM
               PROVE  /\ v \notin stray' => guest'[v] \in {"off", overlay'[v]}
                      /\ guest'[v] # "off" <=> guest[v] # "off"
                      /\ v \in set => dom[v] = "owned"
                      /\ v \notin set => (v \in stray' <=> v \in stray)
    OBVIOUS
  <2>1. /\ v \notin stray' => v \notin stray \/ guest[v] = "off"
        /\ v \notin set => (v \in stray' <=> v \in stray)
    BY <1>1 DEF On
  <2>2. v \in set => dom[v] = "owned"
    BY DEF Resettable
  <2>3. /\ overlay'[v] = IF overlay[v] = "absent" THEN "absent" ELSE "old"
        /\ guest'[v] = IF guest[v] = overlay[v] THEN "old" ELSE guest[v]
    BY <1>0 DEF TypeOK
  <2>4. /\ overlay[v] \in Disks /\ guest[v] \in {"off", "old", "new"}
        /\ v \in stray \/ guest[v] \in {"off", overlay[v]}
    BY <1>0 DEF InvGuests, TypeOK
  <2>q. QED
    BY <2>1, <2>2, <2>3, <2>4 DEF Disks
<1>3. (InvOwned /\ InvGuests /\ InvBare)'
  BY <1>0, <1>1, <1>2, SMTT(30) DEF InvOwned, InvGuests, InvBare, InvJournal
<1>4. InvInstall'
  BY <1>1, <1>2 DEF InvInstall, On
<1>5. (InvUndo /\ InvRebuilt)'
  BY <1>0, <1>1, <1>2, SMTT(30) DEF InvUndo, InvRebuilt
<1>q. QED
  BY <1>3, <1>4, <1>5 DEF OwnSafe

(* Every step keeps the first layer. *)
LEMMA DiskStep ==
    ASSUME DiskInv, [Next]_vars PROVE DiskSafe'
<1>1. CASE Reset
  <2>1. /\ pc = "idle" /\ journal = "none"
        /\ \E set \in SUBSET VM : set # {} /\ BeginReset(set)
    BY <1>1, Zenon DEF Reset
  <2>q. QED BY <2>1, BeginResetDisks, Zenon
<1>2. CASE ResetAgain
  <2>1. CASE BeginReset(todo)
    <3>1. pc = "begin" /\ journal = "none" /\ todo \in SUBSET VM /\ todo # {}
      BY <1>2, Zenon DEF ResetAgain, DiskInv, DiskSafe, InvJournal, TypeOK
    <3>q. QED BY <2>1, <3>1, BeginResetDisks, Zenon
  <2>2. CASE Forget /\ UNCHANGED <<txn, state, disks, libvirt, calm, history>>
    <3>1. /\ pc = "begin" /\ journal = "none" /\ pc' = "idle"
          /\ recreated' = {} /\ backups' = {} /\ undefined' = {}
          /\ UNCHANGED <<journal, picked, before, access, overlay, backup, granted, guest>>
          /\ UNCHANGED torn
      BY <1>2, <2>2, Zenon
      DEF history, ResetAgain, Forget, DiskInv, DiskSafe, InvJournal, txn, state, disks, libvirt
    <3>q. QED BY <3>1, SMTT(30)
      DEF DiskInv, DiskSafe, InvJournal, InvDisks, InvForward, InvLists, InvRecovery,
          InvWhole, InvAccess, Untouched, Replaced, InTry, InLoop, UndoPcs, Recovering
  <2>q. QED BY <1>2, <2>1, <2>2, Zenon DEF ResetAgain
<1> USE NAssumption
    DEF DiskInv, DiskSafe, InvJournal, InvDisks, InvForward, InvLists, InvRecovery,
        InvWhole, InvAccess, Untouched, Replaced, Renewed, InTry, InLoop, UndoPcs,
        Recovering, TypeOK, Disks, VM, Forget, Fault, MayFail,
        txn, state, disks, libvirt, undoWork, locals, history, vars
<1>3. CASE ShutDown
  BY <1>3, SMTT(30) DEF ShutDown, IsFirst, IsLast
<1>4. CASE SaveStopped
  <2>1. (InvJournal /\ InvWhole)'
    BY <1>4, SMTT(30) DEF SaveStopped, Powered, Lifecycle, Invalidated
  <2>2. InvDisks'
    BY <1>4, SMTT(30) DEF SaveStopped, Powered, Lifecycle, Invalidated
  <2>3. InvForward'
    <3>1. CASE Forget
      BY <1>4, <3>1, SMTT(30) DEF SaveStopped
    <3>2. CASE pc' = "undefine" /\ k' \in picked /\ \A v \in picked : k' <= v
      <4>1. pc = "shutdown" /\ UNCHANGED <<picked, overlay, backup>>
        BY <1>4, Zenon DEF SaveStopped
      <4>2. \A v \in picked : v \in VM /\ ~(v < k')
        BY <3>2
      <4>q. QED BY <3>2, <4>1, <4>2, SMTT(30)
    <3>q. QED BY <1>4, <3>1, <3>2, Zenon DEF SaveStopped
  <2>4. InvLists'
    BY <1>4, SMTT(30) DEF SaveStopped, Powered, Lifecycle, Invalidated
  <2>5. InvRecovery'
    BY <1>4, SMTT(30) DEF SaveStopped, Powered, Lifecycle, Invalidated
  <2>6. InvAccess'
    BY <1>4, SMTT(30) DEF SaveStopped, Powered, Lifecycle, Invalidated
  <2>q. QED BY <2>1, <2>2, <2>3, <2>4, <2>5, <2>6, Zenon
<1>5. CASE Undefine
  BY <1>5, SMTT(30) DEF Undefine
<1>6. CASE BackUp
  BY <1>6, SMTT(30) DEF BackUp
<1>7. CASE CreateOverlay
  BY <1>7, SMTT(30) DEF CreateOverlay
<1>8. CASE PlanVm
  BY <1>8, SMTT(30) DEF PlanVm
<1>9. CASE InstallVm
  BY <1>9, SMTT(30) DEF InstallVm, Installed
<1>10. CASE AttachMetadata
  BY <1>10, SMTT(30) DEF AttachMetadata
<1>11. CASE RecordAttached
  BY <1>11, SMTT(30) DEF RecordAttached
<1>12. CASE WaitReady
  <2>1. (InvJournal /\ InvWhole)'
    BY <1>12, SMTT(30) DEF WaitReady, Later
  <2>2. InvDisks'
    BY <1>12, SMTT(30) DEF WaitReady, Later
  <2>3. InvForward'
    <3>0. pc = "wait_ready" /\ UNCHANGED <<picked, overlay, backup>>
      BY <1>12, Zenon DEF WaitReady
    <3>1. CASE pc' = "undefine" /\ k' \in Later /\ \A v \in Later : k' <= v
      <4>1. k' \in picked /\ k < k' /\ \A v \in picked : v < k' => v < k \/ v = k
        BY <3>1 DEF Later
      <4>2. \A v \in picked : v > k' => v > k
        BY <4>1
      <4>q. QED BY <3>0, <3>1, <4>1, <4>2, SMTT(30)
    <3>2. CASE Later = {} /\ pc' = "save_ready" /\ UNCHANGED k
      <4>1. \A v \in picked : v < k \/ v = k
        BY <3>2 DEF Later
      <4>q. QED BY <3>0, <3>2, <4>1, SMTT(30)
    <3>3. CASE Fault
      BY <1>12, <3>3, SMTT(30) DEF WaitReady
    <3>q. QED BY <1>12, <3>1, <3>2, <3>3, Zenon DEF WaitReady
  <2>4. InvLists'
    BY <1>12, SMTT(30) DEF WaitReady, Later
  <2>5. InvRecovery'
    BY <1>12, SMTT(30) DEF WaitReady, Later
  <2>6. InvAccess'
    BY <1>12, SMTT(30) DEF WaitReady, Later
  <2>q. QED BY <2>1, <2>2, <2>3, <2>4, <2>5, <2>6, Zenon
<1>13. CASE SaveReady
  BY <1>13, SMTT(30) DEF SaveReady, Powered, Lifecycle, Invalidated, On
<1>14. CASE Commit
  BY <1>14, SMTT(30) DEF Commit
<1>15. CASE DropBackup
  BY <1>15, SMTT(30) DEF DropBackup, IsFirst, IsLast
<1>16. CASE DropBackupsDone
  BY <1>16, SMTT(30) DEF DropBackupsDone
<1>17. CASE UnlinkJournal
  BY <1>17, SMTT(30) DEF UnlinkJournal, NoJournal
<1>18. CASE UndoDomain
  BY <1>18, SMTT(30) DEF UndoDomain, IsFirst, IsLast
<1>19. CASE UndoDomainsDone
  BY <1>19, SMTT(30) DEF UndoDomainsDone
<1>20. CASE UndoDisk
  BY <1>20, SMTT(30) DEF UndoDisk, Restored, NotRestored, IsFirst, IsLast
<1>21. CASE UndoDisksDone
  BY <1>21, SMTT(30) DEF UndoDisksDone
<1>22. CASE UndoInstall
  BY <1>22, SMTT(30) DEF UndoInstall, Rebuildable, RebuiltBare, Installed
<1>23. CASE UndoInstallDone
  BY <1>23, SMTT(30) DEF UndoInstallDone
<1>24. CASE UndoPower
  BY <1>24, SMTT(30) DEF UndoPower, RestorePower, PowerRestorable, PowerAsBefore, On,
     IsFirst, IsLast
<1>25. CASE UndoSave
  BY <1>25, SMTT(30) DEF UndoSave, RecordBefore, Powered, Lifecycle,
     Invalidated
<1>26. CASE BeginRecovery
  BY <1>26, SMTT(30) DEF BeginRecovery, Uncommitted
<1>27. CASE RecoverDomain
  BY <1>27, SMTT(30) DEF RecoverDomain, Skip, Adoptable, IsFirst, IsLast
<1>28. CASE RecoverDisk
  BY <1>28, SMTT(30) DEF RecoverDisk, Skip, Restored, NotRestored, IsFirst,
     IsLast
<1>29. CASE RecoverInstall
  BY <1>29, SMTT(30) DEF RecoverInstall, Skip, Rebuildable, RebuiltBare, Installed, IsFirst, IsLast
<1>30. CASE RecoverVmsDone
  BY <1>30, SMTT(30) DEF RecoverVmsDone
<1>31. CASE RecoverPower
  BY <1>31, SMTT(30) DEF RecoverPower, RestorePower, PowerRestorable, PowerAsBefore, On,
     IsFirst, IsLast
<1>32. CASE RecoverSave
  BY <1>32, SMTT(30) DEF RecoverSave, RecordBefore, Powered, Lifecycle,
     Invalidated
<1>33. CASE RecoverUnlink
  BY <1>33, SMTT(30) DEF RecoverUnlink, NoJournal
<1>34. CASE Crash
  BY <1>34, SMTT(30) DEF Crash
<1>35. CASE HostReboot
  BY <1>35, SMTT(30) DEF HostReboot
<1>36. CASE CalmDown
  BY <1>36, SMTT(30) DEF CalmDown
<1>37. CASE \E v \in VM : GuestOff(v)
  BY <1>37, SMTT(30) DEF GuestOff
<1>38. CASE UNCHANGED vars
  BY <1>38, SMTT(30)
<1>q. QED
  BY [Next]_vars, <1>1, <1>2, <1>3, <1>4, <1>5, <1>6, <1>7, <1>8, <1>9,
     <1>10, <1>11, <1>12, <1>13, <1>14, <1>15, <1>16, <1>17, <1>18, <1>19,
     <1>20, <1>21, <1>22, <1>23, <1>24, <1>25, <1>26, <1>27, <1>28, <1>29,
     <1>30, <1>31, <1>32, <1>33, <1>34, <1>35, <1>36, <1>37, <1>38,
     ZenonT(30)
  DEF Next, Running, Forward, Rollback, Recovery, Environment

(* Every step keeps the second layer. *)
LEMMA OwnStep ==
    ASSUME IInv, [Next]_vars PROVE OwnSafe'
<1>1. CASE Reset
  <2>1. /\ pc = "idle" /\ journal = "none"
        /\ \E set \in SUBSET VM : set # {} /\ BeginReset(set)
    BY <1>1, Zenon DEF Reset
  <2>q. QED BY <2>1, BeginResetOwned, Zenon
<1>2. CASE ResetAgain
  <2>1. CASE BeginReset(todo)
    <3>1. pc = "begin" /\ journal = "none" /\ todo \in SUBSET VM /\ todo # {}
      BY <1>2, Zenon DEF ResetAgain, IInv, DiskInv, DiskSafe, InvJournal, TypeOK
    <3>q. QED BY <2>1, <3>1, BeginResetOwned, Zenon
  <2>2. CASE Forget /\ UNCHANGED <<txn, state, disks, libvirt, calm, history>>
    <3>1. /\ pc = "begin" /\ journal = "none" /\ pc' = "idle"
          /\ UNCHANGED <<journal, picked, overlay, backup, dom, guest, stray, torn>>
      BY <1>2, <2>2, Zenon
      DEF history, ResetAgain, Forget, IInv, DiskInv, DiskSafe, InvJournal, txn, disks, libvirt
    <3>q. QED BY <3>1, SMTT(30)
      DEF IInv, OwnSafe, InvOwned, InvGuests, InvBare, InvInstall, InvUndo,
          InvRebuilt, Replaced, InTry, InLoop
  <2>q. QED BY <1>2, <2>1, <2>2, Zenon DEF ResetAgain
<1> USE NAssumption
    DEF IInv, DiskInv, DiskSafe, InvJournal, InvDisks, InvForward, InvLists,
        InvRecovery, InvWhole, OwnSafe, InvOwned, InvGuests, InvBare, InvInstall,
        InvUndo, InvRebuilt, Untouched, Replaced, Renewed, InTry, InLoop, UndoPcs,
        Recovering, TypeOK, Disks, VM, Forget, Fault, MayFail,
        txn, state, disks, libvirt, undoWork, locals, history, vars
<1>3. CASE ShutDown
  <2>1. InvOwned'
    BY <1>3, SMTT(30) DEF ShutDown, IsFirst, IsLast
  <2>2. InvGuests'
    BY <1>3, SMTT(30) DEF ShutDown, IsFirst, IsLast
  <2>3. InvBare'
    BY <1>3, SMTT(30) DEF ShutDown, IsFirst, IsLast
  <2>4. InvInstall'
    BY <1>3, SMTT(30) DEF ShutDown, IsFirst, IsLast
  <2>5. InvUndo'
    BY <1>3, SMTT(30) DEF ShutDown, IsFirst, IsLast
  <2>6. InvRebuilt'
    BY <1>3, SMTT(30) DEF ShutDown, IsFirst, IsLast
  <2>q. QED BY <2>1, <2>2, <2>3, <2>4, <2>5, <2>6, Zenon
<1>4. CASE SaveStopped
  <2>1. InvOwned'
    BY <1>4, SMTT(30) DEF SaveStopped, Powered, Lifecycle, Invalidated
  <2>2. InvGuests'
    BY <1>4, SMTT(30) DEF SaveStopped, Powered, Lifecycle, Invalidated
  <2>3. InvBare'
    BY <1>4, SMTT(30) DEF SaveStopped, Powered, Lifecycle, Invalidated
  <2>4. InvInstall'
    <3>1. CASE Forget
      BY <1>4, <3>1, SMTT(30) DEF SaveStopped
    <3>2. CASE pc' = "undefine" /\ k' \in picked /\ \A v \in picked : k' <= v
      <4>1. pc = "shutdown" /\ todo = {} /\ UNCHANGED <<picked, dom, guest>>
        BY <1>4, Zenon DEF SaveStopped
      <4>2. \A v \in picked : v \in VM /\ ~(v < k')
        BY <3>2
      <4>q. QED BY <3>2, <4>1, <4>2, SMTT(30)
    <3>q. QED BY <1>4, <3>1, <3>2, Zenon DEF SaveStopped
  <2>5. InvUndo'
    BY <1>4, SMTT(30) DEF SaveStopped, Powered, Lifecycle, Invalidated
  <2>6. InvRebuilt'
    BY <1>4, SMTT(30) DEF SaveStopped, Powered, Lifecycle, Invalidated
  <2>q. QED BY <2>1, <2>2, <2>3, <2>4, <2>5, <2>6, Zenon
<1>5. CASE Undefine
  <2>1. InvOwned'
    BY <1>5, SMTT(30) DEF Undefine
  <2>2. InvGuests'
    BY <1>5, SMTT(30) DEF Undefine
  <2>3. InvBare'
    BY <1>5, SMTT(30) DEF Undefine
  <2>4. InvInstall'
    BY <1>5, SMTT(30) DEF Undefine
  <2>5. InvUndo'
    <3>1. /\ pc = "undefine" /\ UNCHANGED <<picked, backup, recreated, backups>>
          /\ \A v \in VM : v # k => dom'[v] = dom[v]
          /\ undefined' \in {undefined, undefined \union {k}}
      BY <1>5, SMTT(30) DEF Undefine
    <3>2. CASE Fault
      <4>1. pc' = "undo_domains" /\ todo' = recreated
        BY <3>2
      <4>2. k \notin recreated /\ k \notin backups
        BY <3>1
      <4>q. QED BY <3>1, <4>1, <4>2, SMTT(30)
    <3>3. CASE pc' = "backup"
      <4>1. k \notin recreated /\ k \notin backups
        BY <3>1
      <4>q. QED BY <3>1, <3>3, <4>1, SMTT(30)
    <3>q. QED BY <1>5, <3>2, <3>3, Zenon DEF Undefine
  <2>6. InvRebuilt'
    BY <1>5, SMTT(30) DEF Undefine
  <2>q. QED BY <2>1, <2>2, <2>3, <2>4, <2>5, <2>6, Zenon
<1>6. CASE BackUp
  BY <1>6, SMTT(30) DEF BackUp
<1>7. CASE CreateOverlay
  BY <1>7, SMTT(30) DEF CreateOverlay
<1>8. CASE PlanVm
  BY <1>8, SMTT(30) DEF PlanVm
<1>9. CASE InstallVm
  <2>1. InvOwned'
    BY <1>9, SMTT(30) DEF InstallVm, Installed
  <2>2. InvGuests'
    <3>1. /\ pc = "virt_install" /\ UNCHANGED <<journal, picked, overlay, backup, k>>
          /\ pc' \in {"metadata", "undo_domains"} /\ UNCHANGED torn
      BY <1>9, Zenon DEF InstallVm
    <3>2. CASE Installed(k, "bare") /\ pc' = "metadata" /\ UNCHANGED stray
      BY <3>1, <3>2, SMTT(30) DEF Installed
    <3>3. CASE UNCHANGED libvirt /\ UNCHANGED stray
      BY <3>1, <3>3, SMTT(30)
    <3>4. CASE /\ dom' = [dom EXCEPT ![k] = "bare"] /\ stray' = stray \union {k}
               /\ guest' \in {guest, [guest EXCEPT ![k] = overlay[k]]}
      BY <3>1, <3>4, SMTT(30)
    <3>q. QED BY <1>9, <3>2, <3>3, <3>4, Zenon DEF InstallVm
  <2>3. InvBare'
    <3>1. /\ pc = "virt_install" /\ UNCHANGED <<journal, picked, overlay, backup, k>>
          /\ pc' \in {"metadata", "undo_domains"} /\ UNCHANGED torn
      BY <1>9, Zenon DEF InstallVm
    <3>2. CASE Installed(k, "bare") /\ pc' = "metadata" /\ UNCHANGED stray
      BY <3>1, <3>2, SMTT(30) DEF Installed
    <3>3. CASE UNCHANGED libvirt /\ UNCHANGED stray
      BY <3>1, <3>3, SMTT(30)
    <3>4. CASE /\ dom' = [dom EXCEPT ![k] = "bare"] /\ stray' = stray \union {k}
               /\ guest' \in {guest, [guest EXCEPT ![k] = overlay[k]]}
      BY <3>1, <3>4, SMTT(30)
    <3>q. QED BY <1>9, <3>2, <3>3, <3>4, Zenon DEF InstallVm
  <2>4. InvInstall'
    BY <1>9, SMTT(30) DEF InstallVm, Installed
  <2>5. InvUndo'
    BY <1>9, SMTT(30) DEF InstallVm, Installed
  <2>6. InvRebuilt'
    BY <1>9, SMTT(30) DEF InstallVm, Installed
  <2>q. QED BY <2>1, <2>2, <2>3, <2>4, <2>5, <2>6, Zenon
<1>10. CASE AttachMetadata
  BY <1>10, SMTT(30) DEF AttachMetadata
<1>11. CASE RecordAttached
  BY <1>11, SMTT(30) DEF RecordAttached
<1>12. CASE WaitReady
  <2>1. InvOwned'
    BY <1>12, SMTT(30) DEF WaitReady, Later
  <2>2. InvGuests'
    BY <1>12, SMTT(30) DEF WaitReady, Later
  <2>3. InvBare'
    BY <1>12, SMTT(30) DEF WaitReady, Later
  <2>4. InvInstall'
    <3>0. pc = "wait_ready" /\ UNCHANGED <<picked, dom, guest>>
      BY <1>12, Zenon DEF WaitReady
    <3>1. CASE pc' = "undefine" /\ k' \in Later /\ \A v \in Later : k' <= v
      <4>1. k' \in picked /\ k < k' /\ \A v \in picked : v < k' => v < k \/ v = k
        BY <3>1 DEF Later
      <4>2. \A v \in picked : v > k' => v > k
        BY <4>1
      <4>q. QED BY <3>0, <3>1, <4>1, <4>2, SMTT(30)
    <3>2. CASE Later = {} /\ pc' = "save_ready" /\ UNCHANGED k
      <4>1. \A v \in picked : v < k \/ v = k
        BY <3>2 DEF Later
      <4>q. QED BY <3>0, <3>2, <4>1, SMTT(30)
    <3>3. CASE Fault
      BY <1>12, <3>3, SMTT(30) DEF WaitReady
    <3>q. QED BY <1>12, <3>1, <3>2, <3>3, Zenon DEF WaitReady
  <2>5. InvUndo'
    BY <1>12, SMTT(30) DEF WaitReady, Later
  <2>6. InvRebuilt'
    BY <1>12, SMTT(30) DEF WaitReady, Later
  <2>q. QED BY <2>1, <2>2, <2>3, <2>4, <2>5, <2>6, Zenon
<1>13. CASE SaveReady
  BY <1>13, SMTT(30) DEF SaveReady, Powered, Lifecycle, Invalidated, On
<1>14. CASE Commit
  BY <1>14, SMTT(30) DEF Commit
<1>15. CASE DropBackup
  BY <1>15, SMTT(30) DEF DropBackup, IsFirst, IsLast
<1>16. CASE DropBackupsDone
  BY <1>16, SMTT(30) DEF DropBackupsDone
<1>17. CASE UnlinkJournal
  BY <1>17, SMTT(30) DEF UnlinkJournal, NoJournal
<1>18. CASE UndoDomain
  BY <1>18, SMTT(30) DEF UndoDomain, IsFirst, IsLast
<1>19. CASE UndoDomainsDone
  BY <1>19, SMTT(30) DEF UndoDomainsDone
<1>20. CASE UndoDisk
  BY <1>20, SMTT(30) DEF UndoDisk, Restored, NotRestored, IsFirst, IsLast
<1>21. CASE UndoDisksDone
  BY <1>21, SMTT(30) DEF UndoDisksDone
<1>22. CASE UndoInstall
  <2>1. InvOwned'
    BY <1>22, SMTT(30) DEF UndoInstall, Rebuildable, RebuiltBare, Installed
  <2>2. InvGuests'
    <3>1. PICK v \in VM :
              \/ dom[v] = "absent" /\ Installed(v, "owned") /\ UNCHANGED stray
              \/ RebuiltBare(v)
              \/ UNCHANGED <<libvirt, stray>>
      BY <1>22, Zenon DEF UndoInstall, Rebuildable
    <3>2. pc = "undo_install" /\ UNCHANGED <<journal, overlay, backup, pc, k>>
      BY <1>22, Zenon DEF UndoInstall
    <3>3. CASE dom[v] = "absent" /\ Installed(v, "owned") /\ UNCHANGED stray
      BY <3>2, <3>3, SMTT(30) DEF Installed
    <3>4. CASE UNCHANGED <<libvirt, stray>>
      BY <3>2, <3>4, SMTT(30)
    <3>5. CASE RebuiltBare(v)
      BY <3>2, <3>5, SMTT(30) DEF RebuiltBare, Rebuildable, Installed
    <3>q. QED BY <3>1, <3>3, <3>4, <3>5
  <2>3. InvBare'
    <3>1. PICK v \in VM :
              \/ dom[v] = "absent" /\ Installed(v, "owned") /\ UNCHANGED stray
              \/ RebuiltBare(v)
              \/ UNCHANGED <<libvirt, stray>>
      BY <1>22, Zenon DEF UndoInstall, Rebuildable
    <3>2. pc = "undo_install" /\ UNCHANGED <<journal, overlay, backup, pc, k>>
      BY <1>22, Zenon DEF UndoInstall
    <3>3. CASE dom[v] = "absent" /\ Installed(v, "owned") /\ UNCHANGED stray
      BY <3>2, <3>3, SMTT(30) DEF Installed
    <3>4. CASE UNCHANGED <<libvirt, stray>>
      BY <3>2, <3>4, SMTT(30)
    <3>5. CASE RebuiltBare(v)
      BY <3>2, <3>5, SMTT(30) DEF RebuiltBare, Rebuildable, Installed
    <3>q. QED BY <3>1, <3>3, <3>4, <3>5
  <2>4. InvInstall'
    BY <1>22, SMTT(30) DEF UndoInstall, Rebuildable, RebuiltBare, Installed
  <2>5. InvUndo'
    BY <1>22, SMTT(30) DEF UndoInstall, Rebuildable, RebuiltBare, Installed
  <2>6. InvRebuilt'
    BY <1>22, SMTT(30) DEF UndoInstall, Rebuildable, RebuiltBare, Installed
  <2>q. QED BY <2>1, <2>2, <2>3, <2>4, <2>5, <2>6, Zenon
<1>23. CASE UndoInstallDone
  BY <1>23, SMTT(30) DEF UndoInstallDone
<1>24. CASE UndoPower
  BY <1>24, SMTT(30) DEF UndoPower, RestorePower, PowerRestorable, PowerAsBefore, On,
     IsFirst, IsLast
<1>25. CASE UndoSave
  BY <1>25, SMTT(30) DEF UndoSave, RecordBefore, Powered, Lifecycle,
     Invalidated
<1>26. CASE BeginRecovery
  BY <1>26, SMTT(30) DEF BeginRecovery, Uncommitted
<1>27. CASE RecoverDomain
  <2>1. InvOwned'
    BY <1>27, SMTT(30) DEF RecoverDomain, Skip, Adoptable, IsFirst, IsLast
  <2>2. InvGuests'
    BY <1>27, SMTT(30) DEF RecoverDomain, Skip, Adoptable, IsFirst, IsLast
  <2>3. InvBare'
    BY <1>27, SMTT(30) DEF RecoverDomain, Skip, Adoptable, IsFirst, IsLast
  <2>4. InvInstall'
    BY <1>27, SMTT(30) DEF RecoverDomain, Skip, Adoptable, IsFirst, IsLast
  <2>5. InvUndo'
    BY <1>27, SMTT(30) DEF RecoverDomain, Skip, Adoptable, IsFirst, IsLast
  <2>6. InvRebuilt'
    BY <1>27, SMTT(30) DEF RecoverDomain, Skip, Adoptable, IsFirst, IsLast
  <2>q. QED BY <2>1, <2>2, <2>3, <2>4, <2>5, <2>6, Zenon
<1>28. CASE RecoverDisk
  BY <1>28, SMTT(30) DEF RecoverDisk, Skip, Restored, NotRestored, IsFirst,
     IsLast
<1>29. CASE RecoverInstall
  <2>1. InvOwned'
    BY <1>29, SMTT(30) DEF RecoverInstall, Skip, Rebuildable, RebuiltBare, Installed, IsFirst, IsLast
  <2>2. InvGuests'
    BY <1>29, SMTT(30) DEF RecoverInstall, Skip, Rebuildable, RebuiltBare, Installed, IsFirst, IsLast
  <2>3. InvBare'
    BY <1>29, SMTT(30) DEF RecoverInstall, Skip, Rebuildable, RebuiltBare, Installed, IsFirst, IsLast
  <2>4. InvInstall'
    BY <1>29, SMTT(30) DEF RecoverInstall, Skip, Rebuildable, RebuiltBare, Installed, IsFirst, IsLast
  <2>5. InvUndo'
    BY <1>29, SMTT(30) DEF RecoverInstall, Skip, Rebuildable, RebuiltBare, Installed, IsFirst, IsLast
  <2>6. InvRebuilt'
    BY <1>29, SMTT(30) DEF RecoverInstall, Skip, Rebuildable, RebuiltBare, Installed, IsFirst, IsLast
  <2>q. QED BY <2>1, <2>2, <2>3, <2>4, <2>5, <2>6, Zenon
<1>30. CASE RecoverVmsDone
  BY <1>30, SMTT(30) DEF RecoverVmsDone
<1>31. CASE RecoverPower
  BY <1>31, SMTT(30) DEF RecoverPower, RestorePower, PowerRestorable, PowerAsBefore, On,
     IsFirst, IsLast
<1>32. CASE RecoverSave
  BY <1>32, SMTT(30) DEF RecoverSave, RecordBefore, Powered, Lifecycle,
     Invalidated
<1>33. CASE RecoverUnlink
  BY <1>33, SMTT(30) DEF RecoverUnlink, NoJournal
<1>34. CASE Crash
  BY <1>34, SMTT(30) DEF Crash
<1>35. CASE HostReboot
  BY <1>35, SMTT(30) DEF HostReboot
<1>36. CASE CalmDown
  BY <1>36, SMTT(30) DEF CalmDown
<1>37. CASE \E v \in VM : GuestOff(v)
  BY <1>37, SMTT(30) DEF GuestOff
<1>38. CASE UNCHANGED vars
  BY <1>38, SMTT(30)
<1>q. QED
  BY [Next]_vars, <1>1, <1>2, <1>3, <1>4, <1>5, <1>6, <1>7, <1>8, <1>9,
     <1>10, <1>11, <1>12, <1>13, <1>14, <1>15, <1>16, <1>17, <1>18, <1>19,
     <1>20, <1>21, <1>22, <1>23, <1>24, <1>25, <1>26, <1>27, <1>28, <1>29,
     <1>30, <1>31, <1>32, <1>33, <1>34, <1>35, <1>36, <1>37, <1>38,
     ZenonT(30)
  DEF Next, Running, Forward, Rollback, Recovery, Environment

(* The invariant holds in every behaviour. *)
LEMMA DiskInvariance == Spec => []DiskInv
<1>1. DiskInv /\ [Next]_vars => DiskInv'
  BY TypeStep, DiskStep, Zenon DEF DiskInv
<1>2. Init => DiskInv
  BY InvInit, Zenon DEF IInv
<1>q. QED
  BY <1>1, <1>2, PTL DEF Spec

LEMMA Invariance == Spec => []IInv
<1>1. IInv /\ [Next]_vars => IInv'
  <2> SUFFICES ASSUME IInv, [Next]_vars PROVE DiskInv' /\ OwnSafe'
    BY Zenon DEF IInv
  <2>1. DiskInv
    BY DEF IInv
  <2>2. DiskInv'
    BY <2>1, TypeStep, DiskStep, Zenon DEF DiskInv
  <2>3. OwnSafe'
    BY OwnStep, Zenon
  <2>q. QED BY <2>2, <2>3
<1>q. QED
  BY <1>1, InvInit, PTL DEF Spec

-----------------------------------------------------------------------------
(* Every variable keeps its type; in particular no guest is ever defined on, or
   started from, a disk that is not there. *)
THEOREM TypeCorrect == Spec => []TypeOK
<1>1. DiskInv => TypeOK
  BY Zenon DEF DiskInv
<1>q. QED
  BY <1>1, DiskInvariance, PTL

(* Until the commit every VM's old disk exists as its overlay or its backup,
   after it every selected VM has its new disk, and a VM that was not selected
   keeps its disk throughout, wherever a step fails or the process dies; only
   the VMs of a reset whose commit was torn are left out. *)
THEOREM DisksKeptHolds == Spec => []DisksKept
<1>1. DiskInv => DisksKept
  BY DEF DiskInv, DiskSafe, InvDisks, InvJournal, DisksKept, Untouched, Replaced, TypeOK
<1>q. QED
  BY <1>1, DiskInvariance, PTL

(* A lab without a pending reset that is recorded as having working practice
   access has had no disk replaced since it was last set up. *)
THEOREM AccessIsCurrentHolds == Spec => []AccessIsCurrent
<1>1. DiskInv => AccessIsCurrent
  BY DEF DiskInv, DiskSafe, InvAccess, AccessIsCurrent
<1>q. QED
  BY <1>1, DiskInvariance, PTL

(* A lab without a reset journal is whole, whatever failed before: what is half
   done is on record, but for domains that a failing step left behind. *)
THEOREM UnrecordedIsWholeHolds == Spec => []UnrecordedIsWhole
<1>1. IInv => UnrecordedIsWhole
  BY DEF IInv, DiskInv, DiskSafe, OwnSafe, InvJournal, InvWhole, InvOwned, InvGuests,
         UnrecordedIsWhole
<1>2. Spec => []IInv
  BY Invariance
<1>q. QED
  BY <1>1, <1>2, PTL

-----------------------------------------------------------------------------
(* What one step may do to a pending reset. *)
EndStep ==
    journal # "none" /\ journal' = "none" =>
        IF journal = "committed"
        THEN \A v \in picked \ torn : overlay[v] = "new"
        ELSE /\ \A v \in VM \ torn : overlay[v] = "old"
             /\ picked \intersect On = before

CommitStep ==
    journal = "committed" => \/ UNCHANGED <<overlay, dom, status, vms>>
                             \/ pc \in UndoPcs /\ picked \subseteq torn

OfflineStep ==
    journal # "none" =>
        \A v \in VM \ stray : overlay'[v] # overlay[v] => v \notin On

LEMMA RecordSteps ==
    ASSUME DiskInv, [Next]_vars
    PROVE  EndStep /\ CommitStep
<1>0. /\ TypeOK /\ InvJournal /\ InvDisks /\ InvForward /\ InvLists /\ InvRecovery
  BY Zenon DEF DiskInv, DiskSafe
<1> USE DEF EndStep, CommitStep, Forget, txn, state, disks, libvirt,
            undoWork, locals, history, vars
<1>1. CASE Commit
  BY <1>1, <1>0 DEF Commit, Fault, InvJournal, InTry
<1>2. CASE UnlinkJournal
  BY <1>2, <1>0 DEF UnlinkJournal, NoJournal, InvJournal, InvDisks, TypeOK
<1>3. CASE RecoverUnlink
  <2>1. /\ pc = "recover_unlink" /\ journal = "rollback"
        /\ UNCHANGED <<overlay, dom, status, vms>>
    BY <1>3, <1>0, Zenon DEF RecoverUnlink, InvJournal, Recovering
  <2>2. \A v \in VM \ torn : overlay[v] = "old"
    BY <2>1, <1>0 DEF InvDisks, InvRecovery, Untouched, Replaced
  <2>3. picked \intersect On = before
    BY <2>1, <1>0 DEF InvRecovery, InvJournal, TypeOK, On
  <2>q. QED BY <2>1, <2>2, <2>3
<1>4. CASE \/ Reset \/ ResetAgain
  BY <1>4, <1>0, Zenon
  DEF Reset, ResetAgain, BeginReset, InvJournal, Recovering
<1>5. CASE \/ SaveStopped \/ Undefine \/ BackUp \/ CreateOverlay \/ InstallVm
         \/ AttachMetadata \/ SaveReady \/ UndoDomain \/ UndoDisk
         \/ UndoInstall \/ UndoSave \/ RecoverDomain \/ RecoverDisk
         \/ RecoverInstall \/ RecoverSave
  BY <1>5, <1>0, Zenon DEF SaveStopped, Undefine, BackUp, CreateOverlay,
     InstallVm, AttachMetadata, SaveReady, UndoDomain, UndoDisk,
     UndoInstall, UndoSave, RecoverDomain, RecoverDisk, RecoverInstall,
     RecoverSave, InvJournal, InTry, InLoop, UndoPcs, Recovering
<1>6. CASE \/ ShutDown \/ PlanVm \/ RecordAttached \/ WaitReady \/ DropBackup
         \/ DropBackupsDone \/ UndoDomainsDone \/ UndoDisksDone
         \/ UndoInstallDone \/ UndoPower \/ BeginRecovery \/ RecoverVmsDone
         \/ RecoverPower \/ Crash \/ HostReboot \/ CalmDown
         \/ (\E v \in VM : GuestOff(v)) \/ UNCHANGED vars
  BY <1>6, Zenon DEF ShutDown, PlanVm, RecordAttached, WaitReady,
     DropBackup, DropBackupsDone, UndoDomainsDone, UndoDisksDone,
     UndoInstallDone, UndoPower, BeginRecovery, RecoverVmsDone,
     RecoverPower, Crash, HostReboot, CalmDown, GuestOff
<1>q. QED
  BY [Next]_vars, <1>1, <1>2, <1>3, <1>4, <1>5, <1>6, ZenonT(30)
  DEF Next, Running, Forward, Rollback, Recovery, Environment

LEMMA DiskSteps ==
    ASSUME IInv, [Next]_vars
    PROVE  OfflineStep
<1>0. /\ TypeOK /\ InvJournal /\ InvLists /\ InvGuests /\ InvInstall /\ InvUndo
  BY Zenon DEF IInv, DiskInv, DiskSafe, OwnSafe
<1> USE DEF OfflineStep, Forget, txn, state, disks, libvirt, undoWork, locals, history, vars
<1>1. CASE BackUp
  <2>1. /\ pc = "backup" /\ dom[k] = "absent" /\ k \in VM
    BY <1>1, <1>0, Zenon DEF BackUp, InvInstall, TypeOK
  <2>2. \A v \in VM : v # k => overlay'[v] = overlay[v]
    BY <1>1, <1>0 DEF BackUp, TypeOK
  <2>q. QED BY <2>1, <2>2, <1>0 DEF InvGuests, On
<1>2. CASE CreateOverlay
  <2>1. /\ pc = "create_overlay" /\ dom[k] = "absent" /\ k \in VM
    BY <1>2, <1>0, Zenon DEF CreateOverlay, InvInstall, TypeOK
  <2>2. \A v \in VM : v # k => overlay'[v] = overlay[v]
    BY <1>2, <1>0 DEF CreateOverlay, TypeOK
  <2>q. QED BY <2>1, <2>2, <1>0 DEF InvGuests, On
<1>3. CASE UndoDisk
  <2>1. pc = "undo_disks"
    BY <1>3, Zenon DEF UndoDisk
  <2>2. PICK v \in todo : Restored(v) \/ NotRestored(v)
    BY <1>3, Zenon DEF UndoDisk, IsLast
  <2>3. \A w \in VM : w # v => overlay'[w] = overlay[w]
    BY <2>2, <1>0 DEF Restored, NotRestored, TypeOK
  <2>4. v \in VM /\ (dom[v] = "absent" \/ v \in stray)
    BY <2>1, <1>0 DEF InvUndo, TypeOK
  <2>q. QED BY <2>3, <2>4, <1>0 DEF InvGuests, On
<1>4. CASE RecoverDisk
  <2>2. PICK v \in VM : dom[v] = "absent" /\ (Restored(v) \/ NotRestored(v))
    BY <1>4, Zenon DEF RecoverDisk
  <2>3. \A w \in VM : w # v => overlay'[w] = overlay[w]
    BY <2>2, <1>0 DEF Restored, NotRestored, TypeOK
  <2>q. QED BY <2>2, <2>3, <1>0 DEF InvGuests, On
<1>5. CASE \/ Reset \/ ResetAgain
  BY <1>5, <1>0, Zenon
  DEF Reset, ResetAgain, BeginReset, InvJournal, Recovering
<1>6. CASE \/ ShutDown \/ SaveStopped \/ Undefine \/ PlanVm \/ InstallVm
         \/ AttachMetadata \/ RecordAttached \/ WaitReady \/ SaveReady
         \/ Commit \/ DropBackup \/ DropBackupsDone \/ UnlinkJournal
         \/ UndoDomain \/ UndoDomainsDone \/ UndoDisksDone \/ UndoInstall
         \/ UndoInstallDone \/ UndoPower \/ UndoSave \/ BeginRecovery
         \/ RecoverDomain \/ RecoverInstall \/ RecoverVmsDone
         \/ RecoverPower \/ RecoverSave \/ RecoverUnlink \/ Crash
         \/ HostReboot \/ CalmDown \/ (\E v \in VM : GuestOff(v))
         \/ UNCHANGED vars
  BY <1>6, Zenon DEF ShutDown, SaveStopped, Undefine, PlanVm, InstallVm,
     AttachMetadata, RecordAttached, WaitReady, SaveReady, Commit,
     DropBackup, DropBackupsDone, UnlinkJournal, UndoDomain,
     UndoDomainsDone, UndoDisksDone, UndoInstall, UndoInstallDone,
     UndoPower, UndoSave, BeginRecovery, RecoverDomain, RecoverInstall,
     RecoverVmsDone, RecoverPower, RecoverSave, RecoverUnlink, Crash,
     HostReboot, CalmDown, GuestOff
<1>q. QED
  BY [Next]_vars, <1>1, <1>2, <1>3, <1>4, <1>5, <1>6, ZenonT(30)
  DEF Next, Running, Forward, Rollback, Recovery, Environment

(* A reset ends as a whole: committed with every selected disk new, or undone
   with every disk old and the selected VMs powered as they were before, but
   for the VMs of a torn commit. *)
THEOREM EndsWholeHolds == Spec => EndsWhole
<1>1. DiskInv /\ [Next]_vars =>
        [journal # "none" /\ journal' = "none" =>
            IF journal = "committed"
            THEN \A v \in picked \ torn : overlay[v] = "new"
            ELSE /\ \A v \in VM \ torn : overlay[v] = "old"
                 /\ picked \intersect On = before]_vars
  BY RecordSteps, Zenon DEF EndStep
<1>q. QED
  BY <1>1, DiskInvariance, PTL DEF Spec, EndsWhole

(* A committed reset is not undone and the state file keeps what it says, except
   by the rollback of the process whose own commit was torn. *)
THEOREM CommitStaysHolds == Spec => CommitStays
<1>1. DiskInv /\ [Next]_vars =>
        [journal = "committed" => \/ UNCHANGED <<overlay, dom, status, vms>>
                                  \/ pc \in UndoPcs /\ picked \subseteq torn]_vars
  BY RecordSteps, Zenon DEF CommitStep
<1>q. QED
  BY <1>1, DiskInvariance, PTL DEF Spec, CommitStays

(* No disk is removed, replaced or renamed under a guest that runs, unless a
   failing step left that guest behind. *)
THEOREM DiskChangesOfflineHolds == Spec => DiskChangesOffline
<1>1. IInv /\ [Next]_vars =>
        [journal # "none" =>
            \A v \in VM \ stray : overlay'[v] # overlay[v] => v \notin On]_vars
  BY DiskSteps, Zenon DEF OfflineStep
<1>q. QED
  BY <1>1, Invariance, PTL DEF Spec, DiskChangesOffline
=============================================================================
