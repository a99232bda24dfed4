------------------------ MODULE PracticeAccessProofs ------------------------
(***************************************************************************)
(* Proofs about PracticeAccess for any number of targets.  That a record   *)
(* which says ready is true is not inductive: a refresh makes it true one  *)
(* guest after the other, and a command may carry the claim in memory      *)
(* while disks change.  IInv says how far each of them has come.           *)
(***************************************************************************)
EXTENDS PracticeAccess, TLAPS

Refreshing == {"definition", "peers", "key", "authorize", "publish", "save"}

(* Where a reset is, its journal tells. *)
InvJournal ==
    /\ pc \in {"invalidate", "replace", "commit", "rollback", "rollback_save",
              "recover", "recover_save", "recover_done"} => journal = "prepared"
    /\ pc \in Refreshing /\ op = "reset" => journal = "prepared"
    /\ pc \in {"invalidate", "replace", "commit", "recover", "recover_save", "recover_done",
              "again"} => op = "reset"
    /\ pc = "drop" => journal = "committed"
    /\ pc = "again" => journal = "none"

(* The claim in memory is as true as the one in the record has to be. *)
InvClaim ==
    /\ pc \in {"idle", "invalidate", "replace", "key", "authorize", "publish", "again",
              "recover", "recover_save", "recover_done"} => mem = "pending"
    /\ pc \in {"definition", "peers", "save", "restore"} /\ mem = "ready" => Connected
    /\ pc = "commit" /\ access = "ready" => Connected
    /\ pc = "recover_done" => access = "pending"

(* What the refresh has done so far. *)
InvKeys ==
    /\ pc = "authorize" =>
         /\ key # None /\ key = disk[Controller].private
         /\ \A t \in Targets \ todo : disk[t].block = key
    /\ pc = "publish" =>
         /\ disk[Controller].private # None
         /\ \A t \in Targets : disk[t].block = disk[Controller].private

(* Backups exist only while a reset needs them. *)
InvBackups ==
    journal = "none" \/ pc \in {"invalidate", "replace", "recover_save", "recover_done"}
    => \A v \in VMs : kept[v] = NoDisk

IInv == TypeOK /\ ReadyIsConnected /\ InvJournal /\ InvClaim /\ InvKeys /\ InvBackups
-----------------------------------------------------------------------------
(* The invariant holds initially. *)
LEMMA InvInit == Init => IInv
<1> SUFFICES ASSUME Init PROVE IInv
  OBVIOUS
<1> USE ControllerAssumption, KeysAssumption DEF Init, OnDisk, Fresh, NoDisk, None, VMs
<1>1. TypeFlags /\ TypeSets
  BY ZenonT(20) DEF TypeFlags, TypeSets
<1>2. TypeRecord /\ TypeDisks
  BY SMTT(20) DEF TypeRecord, TypeDisks, Disks, Files, OnDisk
<1>3. ReadyIsConnected /\ InvJournal /\ InvClaim /\ InvKeys /\ InvBackups
  BY SMTT(20)
  DEF OnDisk, ReadyIsConnected, Connected, InvJournal, InvClaim, InvKeys, InvBackups, Refreshing
<1>q. QED
  BY <1>1, <1>2, <1>3 DEF IInv, TypeOK

(* Every step keeps the types.  Booleans and sets go to Zenon, functions and
   enumerations to SMT. *)
LEMMA TypeStep == ASSUME TypeOK, [Next]_vars PROVE TypeOK'
<1> USE ControllerAssumption, KeysAssumption, SelectionsAssumption
    DEF TypeOK, TypeRecord, TypeDisks, TypeSets, TypeFlags, Disks, Files, OnDisk, Fresh, NoDisk, None, VMs,
        Forget, Goto, Unwind, Fault, reset, process, vars
<1>1. CASE BeginPower
  <2>1. (TypeFlags /\ TypeSets)'
    BY <1>1, ZenonT(20) DEF BeginPower
  <2>2. (TypeRecord /\ TypeDisks)'
    BY <1>1, SMTT(20) DEF BeginPower
  <2>q. QED BY <2>1, <2>2
<1>2. CASE BeginReset
  <2>1. (TypeFlags /\ TypeSets)'
    BY <1>2, ZenonT(20) DEF BeginReset
  <2>2. (TypeRecord /\ TypeDisks)'
    BY <1>2, SMTT(20) DEF BeginReset
  <2>q. QED BY <2>1, <2>2
<1>3. CASE BeginRecovery
  <2>1. (TypeFlags /\ TypeSets)'
    BY <1>3, ZenonT(20) DEF BeginRecovery
  <2>2. (TypeRecord /\ TypeDisks)'
    BY <1>3, SMTT(20) DEF BeginRecovery
  <2>q. QED BY <2>1, <2>2
<1>4. CASE ReadDefinition
  <2>1. (TypeFlags /\ TypeSets)'
    BY <1>4, ZenonT(20) DEF ReadDefinition
  <2>2. (TypeRecord /\ TypeDisks)'
    BY <1>4, SMTT(20) DEF ReadDefinition
  <2>q. QED BY <2>1, <2>2
<1>5. CASE Peers
  <2>1. (TypeFlags /\ TypeSets)'
    BY <1>5, ZenonT(20) DEF Peers
  <2>2. (TypeRecord /\ TypeDisks)'
    BY <1>5, SMTT(20) DEF Peers
  <2>q. QED BY <2>1, <2>2
<1>6. CASE PrepareKey
  <2>1. (TypeFlags /\ TypeSets)'
    BY <1>6, ZenonT(20) DEF PrepareKey, Generated, Half, CutOff, MayFail
  <2>2. (TypeRecord /\ TypeDisks)'
    BY <1>6, SMTT(20) DEF PrepareKey, Generated, Half, CutOff, MayFail
  <2>q. QED BY <2>1, <2>2
<1>7. CASE Authorize
  <2>1. (TypeFlags /\ TypeSets)'
    BY <1>7, ZenonT(20) DEF Authorize, Authorized, CutOff, MayFail
  <2>2. (TypeRecord /\ TypeDisks)'
    BY <1>7, SMTT(20) DEF Authorize, Authorized, CutOff, MayFail
  <2>q. QED BY <2>1, <2>2
<1>8. CASE Publish
  <2>1. (TypeFlags /\ TypeSets)'
    BY <1>8, ZenonT(20) DEF Publish, Written, CutOff, MayFail
  <2>2. (TypeRecord /\ TypeDisks)'
    BY <1>8, SMTT(20) DEF Publish, Written, CutOff, MayFail
  <2>q. QED BY <2>1, <2>2
<1>9. CASE Save
  <2>1. (TypeFlags /\ TypeSets)'
    BY <1>9, ZenonT(20) DEF Save
  <2>2. (TypeRecord /\ TypeDisks)'
    BY <1>9, SMTT(20) DEF Save
  <2>q. QED BY <2>1, <2>2
<1>10. CASE Restore
  <2>1. (TypeFlags /\ TypeSets)'
    BY <1>10, ZenonT(20) DEF Restore
  <2>2. (TypeRecord /\ TypeDisks)'
    BY <1>10, SMTT(20) DEF Restore
  <2>q. QED BY <2>1, <2>2
<1>11. CASE Invalidate
  <2>1. (TypeFlags /\ TypeSets)'
    BY <1>11, ZenonT(20) DEF Invalidate
  <2>2. (TypeRecord /\ TypeDisks)'
    BY <1>11, SMTT(20) DEF Invalidate
  <2>q. QED BY <2>1, <2>2
<1>12. CASE Replace
  <2>1. (TypeFlags /\ TypeSets)'
    BY <1>12, ZenonT(20) DEF Replace, Replaced
  <2>2. TypeRecord'
    <3>1. UNCHANGED <<access, journal>> /\ (Goto("definition") \/ Fault)
      BY <1>12, Zenon DEF Replace
    <3>q. QED BY <3>1, SMTT(20)
  <2>3. PICK set \in SUBSET VMs : Replaced(set)
    BY <1>12, Zenon DEF Replace
  <2>4. Fresh \in Disks
    BY SMTT(20)
  <2>5. \A v \in VMs : disk[v] \in Disks /\ kept[v] \in Disks
    BY SMTT(20)
  <2>6. TypeDisks'
    <3> HIDE DEF Fresh, Disks, VMs
    <3>q. QED BY <2>3, <2>4, <2>5, SMTT(20) DEF Replaced
  <2>q. QED BY <2>1, <2>2, <2>6
<1>13. CASE Commit
  <2>1. (TypeFlags /\ TypeSets)'
    BY <1>13, ZenonT(20) DEF Commit
  <2>2. (TypeRecord /\ TypeDisks)'
    BY <1>13, SMTT(20) DEF Commit
  <2>q. QED BY <2>1, <2>2
<1>14. CASE Drop
  <2>1. (TypeFlags /\ TypeSets)'
    BY <1>14, ZenonT(20) DEF Drop
  <2>2. (TypeRecord /\ TypeDisks)'
    BY <1>14, SMTT(20) DEF Drop
  <2>q. QED BY <2>1, <2>2
<1>15. CASE Rollback
  <2>1. (TypeFlags /\ TypeSets)'
    BY <1>15, ZenonT(20) DEF Rollback, Returned, Old
  <2>2. (TypeRecord /\ TypeDisks)'
    BY <1>15, SMTT(20) DEF Rollback, Returned, Old
  <2>q. QED BY <2>1, <2>2
<1>16. CASE RollbackSave
  <2>1. (TypeFlags /\ TypeSets)'
    BY <1>16, ZenonT(20) DEF RollbackSave
  <2>2. (TypeRecord /\ TypeDisks)'
    BY <1>16, SMTT(20) DEF RollbackSave
  <2>q. QED BY <2>1, <2>2
<1>17. CASE Recover
  <2>1. (TypeFlags /\ TypeSets)'
    BY <1>17, ZenonT(20) DEF Recover, Returned, Old
  <2>2. (TypeRecord /\ TypeDisks)'
    BY <1>17, SMTT(20) DEF Recover, Returned, Old
  <2>q. QED BY <2>1, <2>2
<1>18. CASE RecoverSave
  <2>1. (TypeFlags /\ TypeSets)'
    BY <1>18, ZenonT(20) DEF RecoverSave, Recovered
  <2>2. (TypeRecord /\ TypeDisks)'
    BY <1>18, SMTT(20) DEF RecoverSave, Recovered
  <2>q. QED BY <2>1, <2>2
<1>19. CASE RecoverDone
  <2>1. (TypeFlags /\ TypeSets)'
    BY <1>19, ZenonT(20) DEF RecoverDone
  <2>2. (TypeRecord /\ TypeDisks)'
    BY <1>19, SMTT(20) DEF RecoverDone
  <2>q. QED BY <2>1, <2>2
<1>20. CASE ResetAgain
  <2>1. (TypeFlags /\ TypeSets)'
    BY <1>20, ZenonT(20) DEF ResetAgain
  <2>2. (TypeRecord /\ TypeDisks)'
    BY <1>20, SMTT(20) DEF ResetAgain
  <2>q. QED BY <2>1, <2>2
<1>21. CASE Crash
  <2>1. (TypeFlags /\ TypeSets)'
    BY <1>21, ZenonT(20) DEF Crash
  <2>2. (TypeRecord /\ TypeDisks)'
    BY <1>21, SMTT(20) DEF Crash
  <2>q. QED BY <2>1, <2>2
<1>22. CASE GuestOff
  <2>1. (TypeFlags /\ TypeSets)'
    BY <1>22, ZenonT(20) DEF GuestOff
  <2>2. (TypeRecord /\ TypeDisks)'
    BY <1>22, SMTT(20) DEF GuestOff
  <2>q. QED BY <2>1, <2>2
<1>23. CASE CalmDown
  <2>1. (TypeFlags /\ TypeSets)'
    BY <1>23, ZenonT(20) DEF CalmDown
  <2>2. (TypeRecord /\ TypeDisks)'
    BY <1>23, SMTT(20) DEF CalmDown
  <2>q. QED BY <2>1, <2>2
<1>24. CASE UNCHANGED vars
  BY <1>24
<1>q. QED
  BY <1>1, <1>2, <1>3, <1>4, <1>5, <1>6, <1>7, <1>8, <1>9, <1>10, <1>11, <1>12,
     <1>13, <1>14, <1>15, <1>16, <1>17, <1>18, <1>19, <1>20, <1>21, <1>22, <1>23, <1>24
  DEF Next, Begin, Running, Refresh, Reset

(* Every step keeps the rest of the invariant. *)
LEMMA InvStep == ASSUME IInv, [Next]_vars PROVE IInv'
<1> USE ControllerAssumption, KeysAssumption
    DEF IInv, ReadyIsConnected, Connected, InvJournal, InvClaim, InvKeys, InvBackups,
        Refreshing, OnDisk, Fresh, NoDisk, None, VMs,
        Forget, Goto, Unwind, Fault,
        reset, process, vars
<1>0. TypeOK'
  BY TypeStep
<1>1. CASE BeginPower
  BY <1>0, <1>1, SMTT(20)
  DEF BeginPower, TypeOK, TypeRecord, TypeDisks, TypeSets, Disks, Files
<1>2. CASE BeginReset
  BY <1>0, <1>2, SMTT(20)
  DEF BeginReset, TypeOK, TypeRecord, TypeDisks, TypeSets, Disks, Files
<1>3. CASE BeginRecovery
  BY <1>0, <1>3, SMTT(20)
  DEF BeginRecovery, TypeOK, TypeRecord, TypeDisks, TypeSets, Disks, Files
<1>4. CASE ReadDefinition
  BY <1>0, <1>4, SMTT(20)
  DEF ReadDefinition, TypeOK, TypeRecord, TypeDisks, TypeSets, Disks, Files
<1>5. CASE Peers
  BY <1>0, <1>5, SMTT(20)
  DEF Peers, TypeOK, TypeRecord, TypeDisks, TypeSets, Disks, Files
<1>6. CASE PrepareKey
  BY <1>0, <1>6, SMTT(20)
  DEF PrepareKey, Generated, Half, CutOff, MayFail, TypeOK, TypeRecord, TypeDisks, TypeSets, Disks, Files
<1>7. CASE Authorize
  BY <1>0, <1>7, SMTT(20)
  DEF Authorize, Authorized, CutOff, MayFail, TypeOK, TypeRecord, TypeDisks, TypeSets, Disks, Files
<1>8. CASE Publish
  BY <1>0, <1>8, SMTT(20)
  DEF Publish, Written, CutOff, MayFail, TypeOK, TypeRecord, TypeDisks, TypeSets, Disks, Files
<1>9. CASE Save
  BY <1>0, <1>9, SMTT(20)
  DEF Save, TypeOK, TypeRecord, TypeDisks, TypeSets, Disks, Files
<1>10. CASE Restore
  BY <1>0, <1>10, SMTT(20)
  DEF Restore, TypeOK, TypeRecord, TypeDisks, TypeSets, Disks, Files
<1>11. CASE Invalidate
  BY <1>0, <1>11, SMTT(20)
  DEF Invalidate, TypeOK, TypeRecord, TypeDisks, TypeSets, Disks, Files
<1>12. CASE Replace
  <2>1. /\ pc = "replace" /\ UNCHANGED <<access, journal>>
        /\ Goto("definition") \/ Fault
    BY <1>12, Zenon DEF Replace
  <2>q. QED
    BY <1>0, <2>1, SMTT(20) DEF TypeOK, TypeRecord, TypeDisks, TypeSets, Disks, Files
<1>13. CASE Commit
  BY <1>0, <1>13, SMTT(20)
  DEF Commit, TypeOK, TypeRecord, TypeDisks, TypeSets, Disks, Files
<1>14. CASE Drop
  BY <1>0, <1>14, SMTT(20)
  DEF Drop, TypeOK, TypeRecord, TypeDisks, TypeSets, Disks, Files
<1>15. CASE Rollback
  BY <1>0, <1>15, SMTT(20)
  DEF Rollback, Returned, Old, TypeOK, TypeRecord, TypeDisks, TypeSets, Disks, Files
<1>16. CASE RollbackSave
  BY <1>0, <1>16, SMTT(20)
  DEF RollbackSave, TypeOK, TypeRecord, TypeDisks, TypeSets, Disks, Files
<1>17. CASE Recover
  BY <1>0, <1>17, SMTT(20)
  DEF Recover, Returned, Old, TypeOK, TypeRecord, TypeDisks, TypeSets, Disks, Files
<1>18. CASE RecoverSave
  BY <1>0, <1>18, SMTT(20)
  DEF RecoverSave, Recovered, TypeOK, TypeRecord, TypeDisks, TypeSets, Disks, Files
<1>19. CASE RecoverDone
  BY <1>0, <1>19, SMTT(20)
  DEF RecoverDone, TypeOK, TypeRecord, TypeDisks, TypeSets, Disks, Files
<1>20. CASE ResetAgain
  BY <1>0, <1>20, SMTT(20)
  DEF ResetAgain, TypeOK, TypeRecord, TypeDisks, TypeSets, Disks, Files
<1>21. CASE Crash
  BY <1>0, <1>21, SMTT(20)
  DEF Crash, TypeOK, TypeRecord, TypeDisks, TypeSets, Disks, Files
<1>22. CASE GuestOff
  BY <1>0, <1>22, SMTT(20)
  DEF GuestOff, TypeOK, TypeRecord, TypeDisks, TypeSets, Disks, Files
<1>23. CASE CalmDown
  BY <1>0, <1>23, SMTT(20)
  DEF CalmDown, TypeOK, TypeRecord, TypeDisks, TypeSets, Disks, Files
<1>24. CASE UNCHANGED vars
  BY <1>0, <1>24
<1>q. QED
  BY <1>1, <1>2, <1>3, <1>4, <1>5, <1>6, <1>7, <1>8, <1>9, <1>10, <1>11, <1>12,
     <1>13, <1>14, <1>15, <1>16, <1>17, <1>18, <1>19, <1>20, <1>21, <1>22, <1>23, <1>24
  DEF Next, Begin, Running, Refresh, Reset

(* What only a replaced disk does to the key of the controller. *)
KeyStep ==
    disk[Controller].private # None /\ disk'[Controller].private # disk[Controller].private
    => kept'[Controller] # kept[Controller]

(* Every step of a command keeps the key, or moves a disk to or from its backup. *)
LEMMA KeyKept == ASSUME IInv, [Next]_vars PROVE KeyStep
<1> USE DEF KeyStep, IInv, TypeOK, TypeDisks, TypeSets, VMs
<1>1. CASE PrepareKey
  BY <1>1, SMTT(20) DEF PrepareKey, Generated, Half
<1>2. CASE Authorize
  BY <1>2, SMTT(20) DEF Authorize, Authorized, OnDisk
<1>3. CASE Publish
  BY <1>3, SMTT(20) DEF Publish, Written, OnDisk
<1>4. CASE Replace
  <2>1. PICK set : Replaced(set)
    BY <1>4, Zenon DEF Replace
  <2>2. kept[Controller] = NoDisk
    BY <1>4, SMTT(20) DEF Replace, InvBackups
  <2>3. disk[Controller].private # None => disk[Controller] # NoDisk
    BY SMTT(20) DEF NoDisk, OnDisk, None
  <2>q. QED
    BY <2>1, <2>2, <2>3, SMTT(20) DEF Replaced
<1>5. CASE Rollback \/ Recover
  <2>1. PICK set \in SUBSET Old : Returned(set)
    BY <1>5, Zenon DEF Rollback, Recover
  <2>q. QED
    BY <2>1, SMTT(20) DEF Returned, Old
<1>6. CASE disk' = disk
  BY <1>6
<1>q. QED
  BY <1>1, <1>2, <1>3, <1>4, <1>5, <1>6, Zenon
  DEF Next, Begin, Running, Refresh, Reset, BeginPower, BeginReset, BeginRecovery, ReadDefinition, Peers, Save, Restore,
      Invalidate, Commit, Drop, RollbackSave, RecoverSave, RecoverDone, ResetAgain, Crash, GuestOff, CalmDown, vars

(* The invariant holds in every behaviour. *)
LEMMA Invariant == Spec => []IInv
<1>1. Init => IInv
  BY InvInit
<1>2. IInv /\ [Next]_vars => IInv'
  BY InvStep
<1>q. QED
  BY <1>1, <1>2, PTL DEF Spec

(* Every variable keeps its type. *)
THEOREM TypeCorrect == Spec => []TypeOK
<1>1. IInv => TypeOK
  BY DEF IInv
<1>q. QED
  BY <1>1, Invariant, PTL

(* For any number of targets and however resets, refreshes, their rollbacks and
   their recoveries fail or die: access that is recorded as ready is there. *)
THEOREM ReadyIsConnectedHolds == Spec => []ReadyIsConnected
<1>1. IInv => ReadyIsConnected
  BY DEF IInv
<1>q. QED
  BY <1>1, Invariant, PTL

(* Nor does the key of a controller change but with its disk, however often a
   refresh is cut off or repeated. *)
THEOREM KeyIsStableHolds == Spec => KeyIsStable
<1>1. IInv /\ [Next]_vars => [KeyStep]_vars
  BY KeyKept
<1>q. QED
  BY <1>1, Invariant, PTL DEF Spec, KeyIsStable, KeyStep
=============================================================================
