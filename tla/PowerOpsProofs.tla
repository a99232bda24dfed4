--------------------------- MODULE PowerOpsProofs ---------------------------
(***************************************************************************)
(* Proofs about PowerOps for any number of virtual machines, dependencies  *)
(* and participants of the controller access, and any number of            *)
(* interferences by others.  A command sees power once and works from what *)
(* it saw, so the invariant relates three things that drift apart: what is *)
(* true of each VM, what the command has seen or done, and what it is      *)
(* going to write down; a VM that somebody else switched is excepted.      *)
(***************************************************************************)
EXTENDS PowerOps, TLAPS

Stopping == {"shutdown", "await_stop", "destroy"}
Starting == {"start", "await_start"}
Ending   == {"refresh", "save"}

(* What each command can be at, and what its loops go over. *)
InvPhase ==
    /\ pc = "network" => op = "start"
    /\ pc \in Starting \union {"refresh"} => op \in {"start", "restart"}
    /\ pc \in Stopping => op \in {"stop", "restart"}
    /\ pc \in {"save", "restore"} => op \in {"start", "stop", "restart"}
    /\ pc \in {"inspect_network", "inspect"} => op = "reconcile"
    /\ pc \in Stopping \union Starting \union {"network"} =>
          \A v \in VM : v \in todo => v \in Selected
    /\ pc = "network" => \A v \in VM : v \in Selected => v \in todo
    /\ pc \in Ending => \A v \in VM : v \notin todo
    /\ pc \in Stopping \union Starting \union Ending /\ op \in {"stop", "restart"} =>
          \A v \in VM : v \in before => v \in Selected

(* A domain on record as missing, on disk or in memory, is gone for good; a
   stop does not change which ones are. *)
InvMissing ==
    \A v \in VM :
        /\ vms[v] = "missing" \/ mem.vms[v] = "missing" => dom[v] = "absent"
        /\ op = "stop" => (mem.vms[v] = "missing" <=> vms[v] = "missing")

(* Reconcile that has found nothing has changed nothing. *)
InvFound ==
    /\ pc = "inspect_network" => mem.vms = vms
    /\ pc = "inspect" /\ found = {} => mem.vms = vms

(* The shutdown loop: what it has passed is off, the rest as it was seen. *)
InvStop ==
    pc \in Stopping =>
        \A v \in VM : v \in Selected /\ v \notin disturbed =>
            IF v \in todo THEN v \in On <=> v \in before ELSE v \notin On

(* The start loop: what it has passed is on and, unless it was on before, up;
   what was on before still is. *)
InvStart ==
    pc \in Starting \union Ending \union {"network"} /\ op = "start" =>
        \A v \in VM : v \in Selected =>
            /\ v \notin todo =>
                  /\ mem.vms[v] = "ready"
                  /\ dom[v] = "up" \/ v \in before \/ v \in disturbed
            /\ v \notin disturbed /\ (v \notin todo \/ v \in before) => v \in On

(* The second loop of restart brings back what was on before, and only that. *)
InvRestart ==
    /\ pc \in Starting \union Ending /\ op = "restart" =>
          \A v \in VM : v \in Selected /\ v \notin disturbed =>
              /\ v \notin before => v \notin On
              /\ v \in before => v \in On \/ v \in todo
    /\ pc \in Starting /\ op = "restart" => \A v \in VM : v \in todo => v \in before
    /\ pc \in Ending /\ op = "restart" =>
          \A v \in VM : v \in Selected => (mem.vms[v] = "ready" <=> v \in before)

(* A stop about to be recorded. *)
InvStopped ==
    pc = "save" /\ op = "stop" =>
        \A v \in VM : v \in Selected =>
            mem.vms[v] # "ready" /\ (v \notin disturbed => v \notin On)

(* The rollback: what it has passed is as the command found it. *)
InvRestore ==
    pc = "restore" =>
        \A v \in VM : v \in Selected /\ v \notin todo /\ v \notin disturbed
                      /\ v \notin unrestored => (v \in On <=> v \in before)

Safe ==
    /\ InvPhase /\ InvMissing /\ InvFound /\ InvStop /\ InvStart /\ InvRestart
    /\ InvStopped /\ InvRestore /\ RecordIsConsistent
IInv == TypeOK /\ Safe

-----------------------------------------------------------------------------
(* What the selection of a command is.                                     *)

LEMMA NeedsType == Needs \in [VM -> SUBSET VM] /\ NeededBy \in [VM -> SUBSET VM]
  BY DEF Needs, NeededBy

(* What a VM needs is closed under dependence, ... *)
LEMMA NeedsClosed ==
    ASSUME NEW v \in VM, NEW w \in Needs[v], NEW x \in DependsOn[w]
    PROVE  x \in Needs[v]
<1>1. w \in VM /\ x \in VM
  BY DependsOnAssumption DEF Needs
<1>2. ASSUME NEW set \in SUBSET VM, v \in set, \A u \in set : DependsOn[u] \subseteq set
      PROVE  x \in set
  BY <1>2 DEF Needs
<1>q. QED BY <1>1, <1>2, Zenon DEF Needs

(* ... and so is what needs it, the other way round. *)
LEMMA NeededByClosed ==
    ASSUME NEW v \in VM, NEW w \in NeededBy[v], NEW x \in VM, w \in DependsOn[x]
    PROVE  x \in NeededBy[v]
<1>1. v \in Needs[w] /\ w \in VM
  BY DEF NeededBy
<1>2. ASSUME NEW set \in SUBSET VM, x \in set, \A u \in set : DependsOn[u] \subseteq set
      PROVE  v \in set
  <2>1. w \in set
    BY <1>2
  <2>q. QED BY <1>1, <1>2, <2>1 DEF Needs
<1>q. QED BY <1>2, Zenon DEF Needs, NeededBy

LEMMA ScopeType == \A o, t : t \in VM \union {Lab} => Scope(o, t) \subseteq VM
  BY NeedsType DEF Scope

(* A stop can change the record of its selection, not the selection itself. *)
LEMMA SelectedStays ==
    ASSUME UNCHANGED <<op, target>>,
           op = "stop" => \A v \in VM : vms'[v] = "missing" <=> vms[v] = "missing",
           target \in VM \union {Lab}
    PROVE  Selected' = Selected
<1>1. CASE op = "stop"
  <2>1. (IF target = Lab THEN VM ELSE NeededBy[target]) \subseteq VM
    BY NeedsType
  <2>q. QED BY <1>1, <2>1 DEF Selected, Scope
<1>2. CASE op # "stop"
  BY <1>2 DEF Selected, Scope
<1>q. QED BY <1>1, <1>2
-----------------------------------------------------------------------------
(* The type invariant in parts: sets and Booleans go to Zenon, the rest to SMT. *)
TypeSets ==
    /\ before \in SUBSET VM /\ todo \in SUBSET VM /\ unrestored \in SUBSET VM
    /\ disturbed \in SUBSET VM /\ calm \in BOOLEAN
TypeRest ==
    /\ status \in {"ready", "stopped", "degraded", "failed_cleanup"}
    /\ access \in {"pending", "ready"} /\ net \in {"absent", "inactive", "active"}
    /\ pc \in {"idle", "network", "start", "await_start", "refresh", "save", "shutdown",
               "await_stop", "destroy", "restore", "inspect_network", "inspect"}
    /\ op \in {"none", "start", "stop", "restart", "reconcile"}
    /\ target \in VM \union {Lab} /\ events \in 0 .. MaxEvents
TypeVms ==
    /\ vms \in [VM -> VmStates] /\ dom \in [VM -> {"absent", "off", "booting", "up"}]
TypeMem == mem \in [vms : [VM -> VmStates], access : {"pending", "ready"}]
TypeFound == found \in SUBSET {"network", "missing", "stopped", "manual"}

LEMMA TypeParts == TypeOK <=> TypeSets /\ TypeRest /\ TypeVms /\ TypeMem /\ TypeFound
  BY Zenon DEF TypeOK, TypeSets, TypeRest, TypeVms, TypeMem, TypeFound

(* The invariant holds initially. *)
LEMMA InvInit == Init => IInv
<1> SUFFICES ASSUME Init PROVE IInv
  OBVIOUS
<1> USE NAssumption, MaxEventsAssumption DEF VM
<1>1. TypeSets /\ TypeFound
  BY Zenon DEF Init, TypeSets, TypeFound
<1>2. TypeRest
  BY DEF Init, TypeRest, Summary, Lab
<1>3. TypeVms /\ TypeMem
  BY DEF Init, TypeVms, TypeMem, VmStates
<1>4. RecordIsConsistent
  BY DEF Init, RecordIsConsistent, Summary
<1>5. InvMissing
  BY DEF Init, InvMissing
<1>6. Safe
  BY <1>4, <1>5 DEF Init, Safe, InvPhase, InvFound, InvStop, InvStart, InvRestart,
     InvStopped, InvRestore, Stopping, Starting, Ending
<1>q. QED
  BY <1>1, <1>2, <1>3, <1>6, TypeParts DEF IInv

(* Every step keeps the types. *)
LEMMA TypeStep == ASSUME TypeOK, [Next]_vars PROVE TypeOK'
<1>0. TypeSets /\ TypeRest /\ TypeVms /\ TypeMem /\ TypeFound
  BY TypeParts
<1>t. (TypeSets /\ TypeRest /\ TypeVms /\ TypeMem /\ TypeFound)' => TypeOK'
  BY TypeParts, PTL
<1>s. \A o : \A t \in VM \union {Lab} : Scope(o, t) \in SUBSET VM
  BY ScopeType
<1>o. On \in SUBSET VM
  BY DEF On
<1>l. Selected \in SUBSET VM
  BY <1>0, <1>s DEF Selected, TypeRest
<1>m. mem.vms \in [VM -> VmStates] /\ mem.access \in {"pending", "ready"}
  BY <1>0 DEF TypeMem
<1>p. Powered(mem.vms, before) \in [VM -> VmStates]
  BY <1>m DEF Powered, VmStates
<1>y. \A states : Summary(states) \in {"ready", "stopped", "degraded"}
  BY DEF Summary
<1> USE <1>0, MaxEventsAssumption
    DEF Forget, Fault, MayFail, record, host, args, locals, env, vars
<1>1. CASE BeginStart
  <2>1. TypeSets'
    BY <1>1, <1>s, <1>o, <1>l, ZenonT(20) DEF BeginStart, Begin, TypeSets
  <2>2. TypeRest'
    BY <1>1, SMTT(20) DEF BeginStart, Begin, TypeRest, Summary
  <2>3. TypeVms'
    BY <1>1, <1>0, SMTT(20) DEF BeginStart, Begin, TypeVms, VmStates, On
  <2>4. TypeMem'
    BY <1>1, <1>l, SMTT(20) DEF BeginStart, Begin, TypeVms, TypeRest, TypeMem,
       VmStates, Powered
  <2>5. TypeFound'
    BY <1>1, ZenonT(20) DEF BeginStart, Begin, TypeFound
  <2>q. QED BY <1>t, <2>1, <2>2, <2>3, <2>4, <2>5
<1>2. CASE BeginStop
  <2>1. TypeSets'
    BY <1>2, <1>s, <1>o, <1>l, ZenonT(20) DEF BeginStop, Begin, TypeSets
  <2>2. TypeRest'
    BY <1>2, SMTT(20) DEF BeginStop, Begin, TypeRest, Summary
  <2>3. TypeVms'
    BY <1>2, <1>0, SMTT(20) DEF BeginStop, Begin, TypeVms, VmStates, On
  <2>4. TypeMem'
    BY <1>2, <1>l, SMTT(20) DEF BeginStop, Begin, TypeVms, TypeRest, TypeMem,
       VmStates, Powered
  <2>5. TypeFound'
    BY <1>2, ZenonT(20) DEF BeginStop, Begin, TypeFound
  <2>q. QED BY <1>t, <2>1, <2>2, <2>3, <2>4, <2>5
<1>3. CASE BeginRestart
  <2>1. TypeSets'
    BY <1>3, <1>s, <1>o, <1>l, ZenonT(20) DEF BeginRestart, Begin, TypeSets
  <2>2. TypeRest'
    BY <1>3, SMTT(20) DEF BeginRestart, Begin, TypeRest, Summary
  <2>3. TypeVms'
    BY <1>3, <1>0, SMTT(20) DEF BeginRestart, Begin, TypeVms, VmStates, On
  <2>4. TypeMem'
    BY <1>3, <1>l, SMTT(20) DEF BeginRestart, Begin, TypeVms, TypeRest,
       TypeMem, VmStates, Powered
  <2>5. TypeFound'
    BY <1>3, ZenonT(20) DEF BeginRestart, Begin, TypeFound
  <2>q. QED BY <1>t, <2>1, <2>2, <2>3, <2>4, <2>5
<1>4. CASE BeginReconcile
  <2>1. TypeSets'
    BY <1>4, <1>s, <1>o, <1>l, ZenonT(20) DEF BeginReconcile, Begin, TypeSets
  <2>2. TypeRest'
    BY <1>4, SMTT(20) DEF BeginReconcile, Begin, TypeRest, Summary
  <2>3. TypeVms'
    BY <1>4, <1>0, SMTT(20) DEF BeginReconcile, Begin, TypeVms, VmStates, On
  <2>4. TypeMem'
    BY <1>4, <1>l, SMTT(20) DEF BeginReconcile, Begin, TypeVms, TypeRest,
       TypeMem, VmStates, Powered
  <2>5. TypeFound'
    BY <1>4, ZenonT(20) DEF BeginReconcile, Begin, TypeFound
  <2>q. QED BY <1>t, <2>1, <2>2, <2>3, <2>4, <2>5
<1>5. CASE EnsureNetwork
  <2>1. TypeSets'
    BY <1>5, <1>s, <1>o, <1>l, ZenonT(20) DEF EnsureNetwork, TypeSets
  <2>2. TypeRest'
    BY <1>5, SMTT(20) DEF EnsureNetwork, TypeRest, Summary
  <2>3. TypeVms'
    BY <1>5, <1>0, SMTT(20) DEF EnsureNetwork, TypeVms, VmStates, On
  <2>4. TypeMem'
    BY <1>5, <1>l, SMTT(20) DEF EnsureNetwork, TypeVms, TypeRest, TypeMem,
       VmStates, Powered
  <2>5. TypeFound'
    BY <1>5, ZenonT(20) DEF EnsureNetwork, TypeFound
  <2>q. QED BY <1>t, <2>1, <2>2, <2>3, <2>4, <2>5
<1>6. CASE StartVm
  <2>1. TypeSets'
    BY <1>6, <1>s, <1>o, <1>l, ZenonT(20) DEF StartVm, IsFirst, TypeSets
  <2>2. TypeRest'
    BY <1>6, SMTT(20) DEF StartVm, IsFirst, TypeRest, Summary
  <2>3. TypeVms'
    BY <1>6, <1>0, SMTT(20) DEF StartVm, IsFirst, TypeVms, VmStates, On
  <2>4. TypeMem'
    BY <1>6, <1>l, SMTT(20) DEF StartVm, IsFirst, TypeVms, TypeRest, TypeMem,
       VmStates, Powered
  <2>5. TypeFound'
    BY <1>6, ZenonT(20) DEF StartVm, IsFirst, TypeFound
  <2>q. QED BY <1>t, <2>1, <2>2, <2>3, <2>4, <2>5
<1>7. CASE AwaitStart
  <2>1. TypeSets'
    BY <1>7, <1>s, <1>o, <1>l, ZenonT(20) DEF AwaitStart, IsFirst, TypeSets
  <2>2. TypeRest'
    BY <1>7, SMTT(20) DEF AwaitStart, IsFirst, TypeRest, Summary
  <2>3. TypeVms'
    BY <1>7, <1>0, SMTT(20) DEF AwaitStart, IsFirst, TypeVms, VmStates, On
  <2>4. TypeMem'
    BY <1>7, <1>l, SMTT(20) DEF AwaitStart, IsFirst, TypeVms, TypeRest,
       TypeMem, VmStates, Powered
  <2>5. TypeFound'
    BY <1>7, ZenonT(20) DEF AwaitStart, IsFirst, TypeFound
  <2>q. QED BY <1>t, <2>1, <2>2, <2>3, <2>4, <2>5
<1>8. CASE StartDone
  <2>1. TypeSets'
    BY <1>8, <1>s, <1>o, <1>l, ZenonT(20) DEF StartDone, TypeSets
  <2>2. TypeRest'
    BY <1>8, SMTT(20) DEF StartDone, TypeRest, Summary
  <2>3. TypeVms'
    BY <1>8, <1>0, SMTT(20) DEF StartDone, TypeVms, VmStates, On
  <2>4. TypeMem'
    BY <1>8, <1>l, SMTT(20) DEF StartDone, TypeVms, TypeRest, TypeMem,
       VmStates, Powered
  <2>5. TypeFound'
    BY <1>8, ZenonT(20) DEF StartDone, TypeFound
  <2>q. QED BY <1>t, <2>1, <2>2, <2>3, <2>4, <2>5
<1>9. CASE RefreshAccess
  <2>1. TypeSets'
    BY <1>9, <1>s, <1>o, <1>l, ZenonT(20) DEF RefreshAccess, TypeSets
  <2>2. TypeRest'
    BY <1>9, SMTT(20) DEF RefreshAccess, TypeRest, Summary
  <2>3. TypeVms'
    BY <1>9, <1>0, SMTT(20) DEF RefreshAccess, TypeVms, VmStates, On
  <2>4. TypeMem'
    BY <1>9, <1>l, SMTT(20) DEF RefreshAccess, TypeVms, TypeRest, TypeMem,
       VmStates, Powered
  <2>5. TypeFound'
    BY <1>9, ZenonT(20) DEF RefreshAccess, TypeFound
  <2>q. QED BY <1>t, <2>1, <2>2, <2>3, <2>4, <2>5
<1>10. CASE Save
  <2>1. TypeSets'
    BY <1>10, <1>s, <1>o, <1>l, ZenonT(20) DEF Save, Saved, TypeSets
  <2>2. TypeRest'
    <3>1. access' \in {access, mem.access} /\ UNCHANGED <<net, events>>
      BY <1>10, Zenon DEF Save, Saved
    <3>2. status' \in {"ready", "stopped", "degraded", status}
      BY <1>10, <1>y DEF Save, Saved
    <3>3. pc' \in {"idle", "restore"} /\ op' \in {op, "none"} /\ target' \in {target, Lab}
      BY <1>10, Zenon DEF Save, Saved
    <3>q. QED BY <1>m, <3>1, <3>2, <3>3 DEF TypeRest
  <2>3. TypeVms'
    <3>1. vms' \in {vms, mem.vms} /\ UNCHANGED dom
      BY <1>10, Zenon DEF Save, Saved
    <3>q. QED BY <1>m, <3>1 DEF TypeVms
  <2>4. TypeMem'
    BY <1>10, <1>l, SMTT(20) DEF Save, Saved, TypeVms, TypeRest, TypeMem,
       VmStates, Powered
  <2>5. TypeFound'
    BY <1>10, ZenonT(20) DEF Save, Saved, TypeFound
  <2>q. QED BY <1>t, <2>1, <2>2, <2>3, <2>4, <2>5
<1>11. CASE Shutdown
  <2>1. TypeSets'
    BY <1>11, <1>s, <1>o, <1>l, ZenonT(20) DEF Shutdown, IsLast, TypeSets
  <2>2. TypeRest'
    BY <1>11, SMTT(20) DEF Shutdown, IsLast, TypeRest, Summary
  <2>3. TypeVms'
    BY <1>11, <1>0, SMTT(20) DEF Shutdown, IsLast, TypeVms, VmStates, On
  <2>4. TypeMem'
    BY <1>11, <1>l, SMTT(20) DEF Shutdown, IsLast, TypeVms, TypeRest, TypeMem,
       VmStates, Powered
  <2>5. TypeFound'
    BY <1>11, ZenonT(20) DEF Shutdown, IsLast, TypeFound
  <2>q. QED BY <1>t, <2>1, <2>2, <2>3, <2>4, <2>5
<1>12. CASE AwaitStop
  <2>1. TypeSets'
    BY <1>12, <1>s, <1>o, <1>l, ZenonT(20) DEF AwaitStop, IsLast, TypeSets
  <2>2. TypeRest'
    BY <1>12, SMTT(20) DEF AwaitStop, IsLast, TypeRest, Summary
  <2>3. TypeVms'
    BY <1>12, <1>0, SMTT(20) DEF AwaitStop, IsLast, TypeVms, VmStates, On
  <2>4. TypeMem'
    BY <1>12, <1>l, SMTT(20) DEF AwaitStop, IsLast, TypeVms, TypeRest,
       TypeMem, VmStates, Powered
  <2>5. TypeFound'
    BY <1>12, ZenonT(20) DEF AwaitStop, IsLast, TypeFound
  <2>q. QED BY <1>t, <2>1, <2>2, <2>3, <2>4, <2>5
<1>13. CASE Destroy
  <2>1. TypeSets'
    BY <1>13, <1>s, <1>o, <1>l, ZenonT(20) DEF Destroy, IsLast, TypeSets
  <2>2. TypeRest'
    BY <1>13, SMTT(20) DEF Destroy, IsLast, TypeRest, Summary
  <2>3. TypeVms'
    BY <1>13, <1>0, SMTT(20) DEF Destroy, IsLast, TypeVms, VmStates, On
  <2>4. TypeMem'
    BY <1>13, <1>l, SMTT(20) DEF Destroy, IsLast, TypeVms, TypeRest, TypeMem,
       VmStates, Powered
  <2>5. TypeFound'
    BY <1>13, ZenonT(20) DEF Destroy, IsLast, TypeFound
  <2>q. QED BY <1>t, <2>1, <2>2, <2>3, <2>4, <2>5
<1>14. CASE ShutdownDone
  <2>1. TypeSets'
    BY <1>14, <1>s, <1>o, <1>l, ZenonT(20) DEF ShutdownDone, TypeSets
  <2>2. TypeRest'
    BY <1>14, SMTT(20) DEF ShutdownDone, TypeRest, Summary
  <2>3. TypeVms'
    BY <1>14, <1>0, SMTT(20) DEF ShutdownDone, TypeVms, VmStates, On
  <2>4. TypeMem'
    BY <1>14, <1>l, SMTT(20) DEF ShutdownDone, TypeVms, TypeRest, TypeMem,
       VmStates, Powered
  <2>5. TypeFound'
    BY <1>14, ZenonT(20) DEF ShutdownDone, TypeFound
  <2>q. QED BY <1>t, <2>1, <2>2, <2>3, <2>4, <2>5
<1>15. CASE RestartVm
  <2>1. TypeSets'
    BY <1>15, <1>s, <1>o, <1>l, ZenonT(20) DEF RestartVm, IsFirst, TypeSets
  <2>2. TypeRest'
    BY <1>15, SMTT(20) DEF RestartVm, IsFirst, TypeRest, Summary
  <2>3. TypeVms'
    BY <1>15, <1>0, SMTT(20) DEF RestartVm, IsFirst, TypeVms, VmStates, On
  <2>4. TypeMem'
    BY <1>15, <1>l, SMTT(20) DEF RestartVm, IsFirst, TypeVms, TypeRest,
       TypeMem, VmStates, Powered
  <2>5. TypeFound'
    BY <1>15, ZenonT(20) DEF RestartVm, IsFirst, TypeFound
  <2>q. QED BY <1>t, <2>1, <2>2, <2>3, <2>4, <2>5
<1>16. CASE Restore
  <2>1. TypeSets'
    BY <1>16, <1>s, <1>o, <1>l, ZenonT(20) DEF Restore, IsFirst, IsLast,
       TypeSets
  <2>2. TypeRest'
    BY <1>16, SMTT(20) DEF Restore, IsFirst, IsLast, TypeRest, Summary
  <2>3. TypeVms'
    BY <1>16, <1>0, SMTT(20) DEF Restore, IsFirst, IsLast, TypeVms, VmStates,
       On
  <2>4. TypeMem'
    BY <1>16, <1>l, SMTT(20) DEF Restore, IsFirst, IsLast, TypeVms, TypeRest,
       TypeMem, VmStates, Powered
  <2>5. TypeFound'
    BY <1>16, ZenonT(20) DEF Restore, IsFirst, IsLast, TypeFound
  <2>q. QED BY <1>t, <2>1, <2>2, <2>3, <2>4, <2>5
<1>17. CASE RestoreSave
  <2>1. TypeSets'
    BY <1>17, <1>s, <1>o, <1>l, ZenonT(20) DEF RestoreSave, TypeSets
  <2>2. TypeRest'
    <3>1. access' \in {access, mem.access} /\ UNCHANGED <<net, events>>
      BY <1>17, Zenon DEF RestoreSave
    <3>2. status' \in {"ready", "stopped", "degraded", status}
      BY <1>17, <1>y DEF RestoreSave
    <3>3. pc' = "idle" /\ op' = "none" /\ target' = Lab
      BY <1>17, Zenon DEF RestoreSave
    <3>q. QED BY <1>m, <3>1, <3>2, <3>3 DEF TypeRest
  <2>3. TypeVms'
    <3>1. vms' \in {vms, Powered(mem.vms, before)} /\ UNCHANGED dom
      BY <1>17, Zenon DEF RestoreSave
    <3>q. QED BY <1>p, <3>1 DEF TypeVms
  <2>4. TypeMem'
    BY <1>17, <1>l, SMTT(20) DEF RestoreSave, TypeVms, TypeRest, TypeMem,
       VmStates, Powered
  <2>5. TypeFound'
    BY <1>17, ZenonT(20) DEF RestoreSave, TypeFound
  <2>q. QED BY <1>t, <2>1, <2>2, <2>3, <2>4, <2>5
<1>18. CASE InspectNetwork
  <2>1. TypeSets'
    BY <1>18, <1>s, <1>o, <1>l, ZenonT(20) DEF InspectNetwork, NetworkDrift,
       TypeSets
  <2>2. TypeRest'
    BY <1>18, SMTT(20) DEF InspectNetwork, NetworkDrift, TypeRest, Summary
  <2>3. TypeVms'
    BY <1>18, <1>0, SMTT(20) DEF InspectNetwork, NetworkDrift, TypeVms,
       VmStates, On
  <2>4. TypeMem'
    BY <1>18, <1>l, SMTT(20) DEF InspectNetwork, NetworkDrift, TypeVms,
       TypeRest, TypeMem, VmStates, Powered
  <2>5. TypeFound'
    BY <1>18, ZenonT(20) DEF InspectNetwork, NetworkDrift, TypeFound
  <2>q. QED BY <1>t, <2>1, <2>2, <2>3, <2>4, <2>5
<1>19. CASE Inspect
  <2>1. TypeSets'
    BY <1>19, <1>s, <1>o, <1>l, ZenonT(20) DEF Inspect, IsFirst, DomainDrift,
       PowerDrift, TypeSets
  <2>2. TypeRest'
    BY <1>19, SMTT(20) DEF Inspect, IsFirst, DomainDrift, PowerDrift,
       TypeRest, Summary
  <2>3. TypeVms'
    BY <1>19, <1>0, SMTT(20) DEF Inspect, IsFirst, DomainDrift, PowerDrift,
       TypeVms, VmStates, On
  <2>4. TypeMem'
    BY <1>19, <1>l, SMTT(20) DEF Inspect, IsFirst, DomainDrift, PowerDrift,
       TypeVms, TypeRest, TypeMem, VmStates, Powered
  <2>5. TypeFound'
    BY <1>19, ZenonT(20) DEF Inspect, IsFirst, DomainDrift, PowerDrift,
       TypeFound
  <2>q. QED BY <1>t, <2>1, <2>2, <2>3, <2>4, <2>5
<1>20. CASE RepairRecord
  <2>1. TypeSets'
    BY <1>20, <1>s, <1>o, <1>l, ZenonT(20) DEF RepairRecord, TypeSets
  <2>2. TypeRest'
    BY <1>20, SMTT(20) DEF RepairRecord, TypeRest, Summary
  <2>3. TypeVms'
    <3>1. vms' \in {vms, mem.vms} /\ UNCHANGED dom
      BY <1>20, Zenon DEF RepairRecord
    <3>q. QED BY <1>m, <3>1 DEF TypeVms
  <2>4. TypeMem'
    BY <1>20, <1>l, SMTT(20) DEF RepairRecord, TypeVms, TypeRest, TypeMem,
       VmStates, Powered
  <2>5. TypeFound'
    BY <1>20, ZenonT(20) DEF RepairRecord, TypeFound
  <2>q. QED BY <1>t, <2>1, <2>2, <2>3, <2>4, <2>5
<1>21. CASE Crash
  <2>1. TypeSets'
    BY <1>21, <1>s, <1>o, <1>l, ZenonT(20) DEF Crash, TypeSets
  <2>2. TypeRest'
    BY <1>21, SMTT(20) DEF Crash, TypeRest, Summary
  <2>3. TypeVms'
    BY <1>21, <1>0, SMTT(20) DEF Crash, TypeVms, VmStates, On
  <2>4. TypeMem'
    BY <1>21, <1>l, SMTT(20) DEF Crash, TypeVms, TypeRest, TypeMem, VmStates,
       Powered
  <2>5. TypeFound'
    BY <1>21, ZenonT(20) DEF Crash, TypeFound
  <2>q. QED BY <1>t, <2>1, <2>2, <2>3, <2>4, <2>5
<1>22. CASE HostReboot
  <2>1. TypeSets'
    BY <1>22, <1>s, <1>o, <1>l, ZenonT(20) DEF HostReboot, Event, TypeSets
  <2>2. TypeRest'
    BY <1>22, SMTT(20) DEF HostReboot, Event, TypeRest, Summary
  <2>3. TypeVms'
    BY <1>22, <1>0, SMTT(20) DEF HostReboot, Event, TypeVms, VmStates, On
  <2>4. TypeMem'
    BY <1>22, <1>l, SMTT(20) DEF HostReboot, Event, TypeVms, TypeRest,
       TypeMem, VmStates, Powered
  <2>5. TypeFound'
    BY <1>22, ZenonT(20) DEF HostReboot, Event, TypeFound
  <2>q. QED BY <1>t, <2>1, <2>2, <2>3, <2>4, <2>5
<1>23. CASE NetGone
  <2>1. TypeSets'
    BY <1>23, <1>s, <1>o, <1>l, ZenonT(20) DEF NetGone, Event, TypeSets
  <2>2. TypeRest'
    BY <1>23, SMTT(20) DEF NetGone, Event, TypeRest, Summary
  <2>3. TypeVms'
    BY <1>23, <1>0, SMTT(20) DEF NetGone, Event, TypeVms, VmStates, On
  <2>4. TypeMem'
    BY <1>23, <1>l, SMTT(20) DEF NetGone, Event, TypeVms, TypeRest, TypeMem,
       VmStates, Powered
  <2>5. TypeFound'
    BY <1>23, ZenonT(20) DEF NetGone, Event, TypeFound
  <2>q. QED BY <1>t, <2>1, <2>2, <2>3, <2>4, <2>5
<1>24. CASE CalmDown
  <2>1. TypeSets'
    BY <1>24, <1>s, <1>o, <1>l, ZenonT(20) DEF CalmDown, TypeSets
  <2>2. TypeRest'
    BY <1>24, SMTT(20) DEF CalmDown, TypeRest, Summary
  <2>3. TypeVms'
    BY <1>24, <1>0, SMTT(20) DEF CalmDown, TypeVms, VmStates, On
  <2>4. TypeMem'
    BY <1>24, <1>l, SMTT(20) DEF CalmDown, TypeVms, TypeRest, TypeMem,
       VmStates, Powered
  <2>5. TypeFound'
    BY <1>24, ZenonT(20) DEF CalmDown, TypeFound
  <2>q. QED BY <1>t, <2>1, <2>2, <2>3, <2>4, <2>5
<1>25. CASE \E v \in VM : Boot(v)
  <2>1. TypeSets'
    BY <1>25, <1>s, <1>o, <1>l, ZenonT(20) DEF Boot, TypeSets
  <2>2. TypeRest'
    BY <1>25, SMTT(20) DEF Boot, TypeRest, Summary
  <2>3. TypeVms'
    BY <1>25, <1>0, SMTT(20) DEF Boot, TypeVms, VmStates, On
  <2>4. TypeMem'
    BY <1>25, <1>l, SMTT(20) DEF Boot, TypeVms, TypeRest, TypeMem, VmStates,
       Powered
  <2>5. TypeFound'
    BY <1>25, ZenonT(20) DEF Boot, TypeFound
  <2>q. QED BY <1>t, <2>1, <2>2, <2>3, <2>4, <2>5
<1>26. CASE \E v \in VM : GuestOff(v)
  <2>1. TypeSets'
    BY <1>26, <1>s, <1>o, <1>l, ZenonT(20) DEF GuestOff, Disturb, Event,
       TypeSets
  <2>2. TypeRest'
    BY <1>26, SMTT(20) DEF GuestOff, Disturb, Event, TypeRest, Summary
  <2>3. TypeVms'
    BY <1>26, <1>0, SMTT(20) DEF GuestOff, Disturb, Event, TypeVms, VmStates,
       On
  <2>4. TypeMem'
    BY <1>26, <1>l, SMTT(20) DEF GuestOff, Disturb, Event, TypeVms, TypeRest,
       TypeMem, VmStates, Powered
  <2>5. TypeFound'
    BY <1>26, ZenonT(20) DEF GuestOff, Disturb, Event, TypeFound
  <2>q. QED BY <1>t, <2>1, <2>2, <2>3, <2>4, <2>5
<1>27. CASE \E v \in VM : PowerOn(v)
  <2>1. TypeSets'
    BY <1>27, <1>s, <1>o, <1>l, ZenonT(20) DEF PowerOn, Disturb, Event,
       TypeSets
  <2>2. TypeRest'
    BY <1>27, SMTT(20) DEF PowerOn, Disturb, Event, TypeRest, Summary
  <2>3. TypeVms'
    BY <1>27, <1>0, SMTT(20) DEF PowerOn, Disturb, Event, TypeVms, VmStates,
       On
  <2>4. TypeMem'
    BY <1>27, <1>l, SMTT(20) DEF PowerOn, Disturb, Event, TypeVms, TypeRest,
       TypeMem, VmStates, Powered
  <2>5. TypeFound'
    BY <1>27, ZenonT(20) DEF PowerOn, Disturb, Event, TypeFound
  <2>q. QED BY <1>t, <2>1, <2>2, <2>3, <2>4, <2>5
<1>28. CASE UNCHANGED vars
  <2>1. TypeSets'
    BY <1>28, <1>s, <1>o, <1>l, ZenonT(20) DEF TypeSets
  <2>2. TypeRest'
    BY <1>28, SMTT(20) DEF TypeRest, Summary
  <2>3. TypeVms'
    BY <1>28, <1>0, SMTT(20) DEF TypeVms, VmStates, On
  <2>4. TypeMem'
    BY <1>28, <1>l, SMTT(20) DEF TypeVms, TypeRest, TypeMem, VmStates, Powered
  <2>5. TypeFound'
    BY <1>28, ZenonT(20) DEF TypeFound
  <2>q. QED BY <1>t, <2>1, <2>2, <2>3, <2>4, <2>5
<1>q. QED
  BY [Next]_vars, <1>1, <1>2, <1>3, <1>4, <1>5, <1>6, <1>7, <1>8, <1>9, <1>10,
     <1>11, <1>12, <1>13, <1>14, <1>15, <1>16, <1>17, <1>18, <1>19, <1>20,
     <1>21, <1>22, <1>23, <1>24, <1>25, <1>26, <1>27, <1>28, Zenon
  DEF Next, Commands, Running, Environment

(* Every step keeps the rest of the invariant. *)
LEMMA SafeStep == ASSUME IInv, [Next]_vars PROVE Safe'
<1>0. TypeOK /\ Safe
  BY DEF IInv
<1>s. UNCHANGED <<vms, op, target>> => Selected' = Selected
  BY DEF Selected, Scope
<1> USE <1>0 DEF Safe, Forget, Fault, MayFail, record, host, args, locals, env, vars
<1>1. CASE BeginStart
  <2>a. PICK t : /\ op' = "start" /\ target' = t /\ before' = On /\ todo' = Scope("start", t)
                 /\ UNCHANGED <<vms, dom>> /\ pc' = "network"
    BY <1>1, Zenon DEF BeginStart, Begin
  <2>b. Selected' = todo'
    BY <2>a DEF Selected, Scope
  <2>1. InvPhase'
    BY <2>a, <2>b DEF InvPhase, Stopping, Starting, Ending
  <2>2. InvMissing'
    BY <1>1, SMTT(20) DEF BeginStart, Begin, InvMissing, TypeOK, On
  <2>3. InvFound'
    BY <1>1, SMTT(20) DEF BeginStart, Begin, InvFound, TypeOK
  <2>4. InvStop'
    BY <1>1, <1>s, SMTT(20) DEF BeginStart, Begin, InvPhase, InvStop, TypeOK,
       On, Stopping, Starting, Ending
  <2>5. InvStart'
    BY <2>a, <2>b DEF InvStart, Starting, Ending, On
  <2>6. InvRestart'
    BY <1>1, <1>s, SMTT(20) DEF BeginStart, Begin, InvPhase, InvRestart,
       InvStop, TypeOK, On, Stopping, Starting, Ending
  <2>7. InvStopped'
    BY <1>1, <1>s, SMTT(20) DEF BeginStart, Begin, InvPhase, InvStopped,
       InvStop, TypeOK, On, Stopping, Starting, Ending
  <2>8. InvRestore'
    BY <1>1, <1>s, SMTT(20) DEF BeginStart, Begin, InvPhase, InvRestore,
       TypeOK, On, Stopping, Starting, Ending
  <2>9. RecordIsConsistent'
    BY <1>1, SMTT(20) DEF BeginStart, Begin, InvPhase, InvFound,
       RecordIsConsistent, Summary, TypeOK
  <2>q. QED BY <2>1, <2>2, <2>3, <2>4, <2>5, <2>6, <2>7, <2>8, <2>9, Zenon DEF Safe
<1>2. CASE BeginStop
  <2>a. PICK t : /\ op' = "stop" /\ target' = t /\ todo' = Scope("stop", t)
                 /\ before' = On \intersect todo'
                 /\ UNCHANGED <<vms, dom>> /\ pc' = "shutdown"
    BY <1>2, Zenon DEF BeginStop, Begin
  <2>b. Selected' = todo'
    BY <2>a DEF Selected, Scope
  <2>1. InvPhase'
    BY <2>a, <2>b DEF InvPhase, Stopping, Starting, Ending
  <2>2. InvMissing'
    BY <1>2, SMTT(20) DEF BeginStop, Begin, InvMissing, TypeOK, On
  <2>3. InvFound'
    BY <1>2, SMTT(20) DEF BeginStop, Begin, InvFound, TypeOK
  <2>4. InvStop'
    BY <2>a, <2>b DEF InvStop, Stopping, On
  <2>5. InvStart'
    BY <1>2, <1>s, SMTT(20) DEF BeginStop, Begin, InvPhase, InvStart, TypeOK,
       On, Stopping, Starting, Ending
  <2>6. InvRestart'
    BY <1>2, <1>s, SMTT(20) DEF BeginStop, Begin, InvPhase, InvRestart,
       InvStop, TypeOK, On, Stopping, Starting, Ending
  <2>7. InvStopped'
    BY <1>2, <1>s, SMTT(20) DEF BeginStop, Begin, InvPhase, InvStopped,
       InvStop, TypeOK, On, Stopping, Starting, Ending
  <2>8. InvRestore'
    BY <1>2, <1>s, SMTT(20) DEF BeginStop, Begin, InvPhase, InvRestore,
       TypeOK, On, Stopping, Starting, Ending
  <2>9. RecordIsConsistent'
    BY <1>2, SMTT(20) DEF BeginStop, Begin, InvPhase, InvFound,
       RecordIsConsistent, Summary, TypeOK
  <2>q. QED BY <2>1, <2>2, <2>3, <2>4, <2>5, <2>6, <2>7, <2>8, <2>9, Zenon DEF Safe
<1>3. CASE BeginRestart
  <2>a. PICK t : /\ op' = "restart" /\ target' = t /\ todo' = Scope("restart", t)
                 /\ before' = On \intersect todo'
                 /\ UNCHANGED <<vms, dom>> /\ pc' = "shutdown"
    BY <1>3, Zenon DEF BeginRestart, Begin
  <2>b. Selected' = todo'
    BY <2>a DEF Selected, Scope
  <2>1. InvPhase'
    BY <2>a, <2>b DEF InvPhase, Stopping, Starting, Ending
  <2>2. InvMissing'
    BY <1>3, SMTT(20) DEF BeginRestart, Begin, InvMissing, TypeOK, On
  <2>3. InvFound'
    BY <1>3, SMTT(20) DEF BeginRestart, Begin, InvFound, TypeOK
  <2>4. InvStop'
    BY <2>a, <2>b DEF InvStop, Stopping, On
  <2>5. InvStart'
    BY <1>3, <1>s, SMTT(20) DEF BeginRestart, Begin, InvPhase, InvStart,
       TypeOK, On, Stopping, Starting, Ending
  <2>6. InvRestart'
    BY <1>3, <1>s, SMTT(20) DEF BeginRestart, Begin, InvPhase, InvRestart,
       InvStop, TypeOK, On, Stopping, Starting, Ending
  <2>7. InvStopped'
    BY <1>3, <1>s, SMTT(20) DEF BeginRestart, Begin, InvPhase, InvStopped,
       InvStop, TypeOK, On, Stopping, Starting, Ending
  <2>8. InvRestore'
    BY <1>3, <1>s, SMTT(20) DEF BeginRestart, Begin, InvPhase, InvRestore,
       TypeOK, On, Stopping, Starting, Ending
  <2>9. RecordIsConsistent'
    BY <1>3, SMTT(20) DEF BeginRestart, Begin, InvPhase, InvFound,
       RecordIsConsistent, Summary, TypeOK
  <2>q. QED BY <2>1, <2>2, <2>3, <2>4, <2>5, <2>6, <2>7, <2>8, <2>9, Zenon DEF Safe
<1>4. CASE BeginReconcile
  <2>1. InvPhase'
    BY <1>4, <1>s, SMTT(20) DEF BeginReconcile, Begin, InvPhase, TypeOK,
       Stopping, Starting, Ending
  <2>2. InvMissing'
    BY <1>4, SMTT(20) DEF BeginReconcile, Begin, InvMissing, TypeOK, On
  <2>3. InvFound'
    BY <1>4, SMTT(20) DEF BeginReconcile, Begin, InvFound, TypeOK
  <2>4. InvStop'
    BY <1>4, <1>s, SMTT(20) DEF BeginReconcile, Begin, InvPhase, InvStop,
       TypeOK, On, Stopping, Starting, Ending
  <2>5. InvStart'
    BY <1>4, <1>s, SMTT(20) DEF BeginReconcile, Begin, InvPhase, InvStart,
       TypeOK, On, Stopping, Starting, Ending
  <2>6. InvRestart'
    BY <1>4, <1>s, SMTT(20) DEF BeginReconcile, Begin, InvPhase, InvRestart,
       InvStop, TypeOK, On, Stopping, Starting, Ending
  <2>7. InvStopped'
    BY <1>4, <1>s, SMTT(20) DEF BeginReconcile, Begin, InvPhase, InvStopped,
       InvStop, TypeOK, On, Stopping, Starting, Ending
  <2>8. InvRestore'
    BY <1>4, <1>s, SMTT(20) DEF BeginReconcile, Begin, InvPhase, InvRestore,
       TypeOK, On, Stopping, Starting, Ending
  <2>9. RecordIsConsistent'
    BY <1>4, SMTT(20) DEF BeginReconcile, Begin, InvPhase, InvFound,
       RecordIsConsistent, Summary, TypeOK
  <2>q. QED BY <2>1, <2>2, <2>3, <2>4, <2>5, <2>6, <2>7, <2>8, <2>9, Zenon DEF Safe
<1>5. CASE EnsureNetwork
  <2>1. InvPhase'
    BY <1>5, <1>s, SMTT(20) DEF EnsureNetwork, InvPhase, TypeOK, Stopping,
       Starting, Ending
  <2>2. InvMissing'
    BY <1>5, SMTT(20) DEF EnsureNetwork, InvMissing, TypeOK, On
  <2>3. InvFound'
    BY <1>5, SMTT(20) DEF EnsureNetwork, InvFound, TypeOK
  <2>4. InvStop'
    BY <1>5, <1>s, SMTT(20) DEF EnsureNetwork, InvPhase, InvStop, TypeOK, On,
       Stopping, Starting, Ending
  <2>5. InvStart'
    BY <1>5, <1>s, SMTT(20) DEF EnsureNetwork, InvPhase, InvStart, TypeOK, On,
       Stopping, Starting, Ending
  <2>6. InvRestart'
    BY <1>5, <1>s, SMTT(20) DEF EnsureNetwork, InvPhase, InvRestart, InvStop,
       TypeOK, On, Stopping, Starting, Ending
  <2>7. InvStopped'
    BY <1>5, <1>s, SMTT(20) DEF EnsureNetwork, InvPhase, InvStopped, InvStop,
       TypeOK, On, Stopping, Starting, Ending
  <2>8. InvRestore'
    BY <1>5, <1>s, SMTT(20) DEF EnsureNetwork, InvPhase, InvRestore, TypeOK,
       On, Stopping, Starting, Ending
  <2>9. RecordIsConsistent'
    BY <1>5, SMTT(20) DEF EnsureNetwork, InvPhase, InvFound,
       RecordIsConsistent, Summary, TypeOK
  <2>q. QED BY <2>1, <2>2, <2>3, <2>4, <2>5, <2>6, <2>7, <2>8, <2>9, Zenon DEF Safe
<1>6. CASE StartVm
  <2>1. InvPhase'
    BY <1>6, <1>s, SMTT(20) DEF StartVm, IsFirst, InvPhase, TypeOK, Stopping,
       Starting, Ending
  <2>2. InvMissing'
    BY <1>6, SMTT(20) DEF StartVm, IsFirst, InvMissing, TypeOK, On
  <2>3. InvFound'
    BY <1>6, SMTT(20) DEF StartVm, IsFirst, InvFound, TypeOK
  <2>4. InvStop'
    BY <1>6, <1>s, SMTT(20) DEF StartVm, IsFirst, InvPhase, InvStop, TypeOK,
       On, Stopping, Starting, Ending
  <2>5. InvStart'
    BY <1>6, <1>s, SMTT(20) DEF StartVm, IsFirst, InvPhase, InvStart, TypeOK,
       On, Stopping, Starting, Ending
  <2>6. InvRestart'
    BY <1>6, <1>s, SMTT(20) DEF StartVm, IsFirst, InvPhase, InvRestart,
       InvStop, TypeOK, On, Stopping, Starting, Ending
  <2>7. InvStopped'
    BY <1>6, <1>s, SMTT(20) DEF StartVm, IsFirst, InvPhase, InvStopped,
       InvStop, TypeOK, On, Stopping, Starting, Ending
  <2>8. InvRestore'
    BY <1>6, <1>s, SMTT(20) DEF StartVm, IsFirst, InvPhase, InvRestore,
       TypeOK, On, Stopping, Starting, Ending
  <2>9. RecordIsConsistent'
    BY <1>6, SMTT(20) DEF StartVm, IsFirst, InvPhase, InvFound,
       RecordIsConsistent, Summary, TypeOK
  <2>q. QED BY <2>1, <2>2, <2>3, <2>4, <2>5, <2>6, <2>7, <2>8, <2>9, Zenon DEF Safe
<1>7. CASE AwaitStart
  <2>1. InvPhase'
    BY <1>7, <1>s, SMTT(20) DEF AwaitStart, IsFirst, InvPhase, TypeOK,
       Stopping, Starting, Ending
  <2>2. InvMissing'
    BY <1>7, SMTT(20) DEF AwaitStart, IsFirst, InvMissing, TypeOK, On
  <2>3. InvFound'
    BY <1>7, SMTT(20) DEF AwaitStart, IsFirst, InvFound, TypeOK
  <2>4. InvStop'
    BY <1>7, <1>s, SMTT(20) DEF AwaitStart, IsFirst, InvPhase, InvStop,
       TypeOK, On, Stopping, Starting, Ending
  <2>5. InvStart'
    BY <1>7, <1>s, SMTT(20) DEF AwaitStart, IsFirst, InvPhase, InvStart,
       TypeOK, On, Stopping, Starting, Ending
  <2>6. InvRestart'
    BY <1>7, <1>s, SMTT(20) DEF AwaitStart, IsFirst, InvPhase, InvRestart,
       InvStop, TypeOK, On, Stopping, Starting, Ending
  <2>7. InvStopped'
    BY <1>7, <1>s, SMTT(20) DEF AwaitStart, IsFirst, InvPhase, InvStopped,
       InvStop, TypeOK, On, Stopping, Starting, Ending
  <2>8. InvRestore'
    BY <1>7, <1>s, SMTT(20) DEF AwaitStart, IsFirst, InvPhase, InvRestore,
       TypeOK, On, Stopping, Starting, Ending
  <2>9. RecordIsConsistent'
    BY <1>7, SMTT(20) DEF AwaitStart, IsFirst, InvPhase, InvFound,
       RecordIsConsistent, Summary, TypeOK
  <2>q. QED BY <2>1, <2>2, <2>3, <2>4, <2>5, <2>6, <2>7, <2>8, <2>9, Zenon DEF Safe
<1>8. CASE StartDone
  <2>a. /\ pc = "start" /\ todo = {} /\ pc' = "refresh" /\ op \in {"start", "restart"}
        /\ UNCHANGED <<vms, dom, op, target, before, todo, disturbed>>
        /\ mem' = IF op = "restart" THEN [mem EXCEPT !.vms = Powered(@, before)] ELSE mem
    BY <1>8, Zenon DEF StartDone, InvPhase, Starting
  <2>b. \A v \in VM :
            /\ mem'.vms[v] = "missing" => mem.vms[v] = "missing"
            /\ op = "restart" /\ v \in Selected => (mem'.vms[v] = "ready" <=> v \in before)
    BY <2>a DEF TypeOK, Powered
  <2>1. InvPhase'
    BY <1>8, <1>s, SMTT(20) DEF StartDone, InvPhase, TypeOK, Stopping,
       Starting, Ending
  <2>2. InvMissing'
    BY <2>a, <2>b, SMT DEF InvMissing
  <2>3. InvFound'
    BY <1>8, SMTT(20) DEF StartDone, InvFound, TypeOK
  <2>4. InvStop'
    BY <1>8, <1>s, SMTT(20) DEF StartDone, InvPhase, InvStop, TypeOK, On,
       Stopping, Starting, Ending
  <2>5. InvStart'
    BY <1>8, <1>s, SMTT(20) DEF StartDone, InvPhase, InvStart, TypeOK, On,
       Stopping, Starting, Ending
  <2>6. InvRestart'
    BY <1>s, <2>a, <2>b, SMT DEF InvRestart, Starting, Ending, On
  <2>7. InvStopped'
    BY <1>8, <1>s, SMTT(20) DEF StartDone, InvPhase, InvStopped, InvStop,
       TypeOK, On, Stopping, Starting, Ending
  <2>8. InvRestore'
    BY <1>8, <1>s, SMTT(20) DEF StartDone, InvPhase, InvRestore, TypeOK, On,
       Stopping, Starting, Ending
  <2>9. RecordIsConsistent'
    BY <1>8, SMTT(20) DEF StartDone, InvPhase, InvFound, RecordIsConsistent,
       Summary, TypeOK
  <2>q. QED BY <2>1, <2>2, <2>3, <2>4, <2>5, <2>6, <2>7, <2>8, <2>9, Zenon DEF Safe
<1>9. CASE RefreshAccess
  <2>1. InvPhase'
    BY <1>9, <1>s, SMTT(20) DEF RefreshAccess, InvPhase, TypeOK, Stopping,
       Starting, Ending
  <2>2. InvMissing'
    BY <1>9, SMTT(20) DEF RefreshAccess, InvMissing, TypeOK, On
  <2>3. InvFound'
    BY <1>9, SMTT(20) DEF RefreshAccess, InvFound, TypeOK
  <2>4. InvStop'
    BY <1>9, <1>s, SMTT(20) DEF RefreshAccess, InvPhase, InvStop, TypeOK, On,
       Stopping, Starting, Ending
  <2>5. InvStart'
    BY <1>9, <1>s, SMTT(20) DEF RefreshAccess, InvPhase, InvStart, TypeOK, On,
       Stopping, Starting, Ending
  <2>6. InvRestart'
    BY <1>9, <1>s, SMTT(20) DEF RefreshAccess, InvPhase, InvRestart, InvStop,
       TypeOK, On, Stopping, Starting, Ending
  <2>7. InvStopped'
    BY <1>9, <1>s, SMTT(20) DEF RefreshAccess, InvPhase, InvStopped, InvStop,
       TypeOK, On, Stopping, Starting, Ending
  <2>8. InvRestore'
    BY <1>9, <1>s, SMTT(20) DEF RefreshAccess, InvPhase, InvRestore, TypeOK,
       On, Stopping, Starting, Ending
  <2>9. RecordIsConsistent'
    BY <1>9, SMTT(20) DEF RefreshAccess, InvPhase, InvFound,
       RecordIsConsistent, Summary, TypeOK
  <2>q. QED BY <2>1, <2>2, <2>3, <2>4, <2>5, <2>6, <2>7, <2>8, <2>9, Zenon DEF Safe
<1>10. CASE Save
  <2>1. InvPhase'
    BY <1>10, <1>s, SMTT(20) DEF Save, Saved, InvPhase, TypeOK, Stopping,
       Starting, Ending
  <2>2. InvMissing'
    BY <1>10, SMTT(20) DEF Save, Saved, InvMissing, TypeOK, On
  <2>3. InvFound'
    BY <1>10, SMTT(20) DEF Save, Saved, InvFound, TypeOK
  <2>4. InvStop'
    BY <1>10, <1>s, SMTT(20) DEF Save, Saved, InvPhase, InvStop, TypeOK, On,
       Stopping, Starting, Ending
  <2>5. InvStart'
    BY <1>10, <1>s, SMTT(20) DEF Save, Saved, InvPhase, InvStart, TypeOK, On,
       Stopping, Starting, Ending
  <2>6. InvRestart'
    BY <1>10, <1>s, SMTT(20) DEF Save, Saved, InvPhase, InvRestart, InvStop,
       TypeOK, On, Stopping, Starting, Ending
  <2>7. InvStopped'
    BY <1>10, <1>s, SMTT(20) DEF Save, Saved, InvPhase, InvStopped, InvStop,
       TypeOK, On, Stopping, Starting, Ending
  <2>8. InvRestore'
    <3>1. CASE pc' = "idle"
      BY <3>1, Zenon DEF InvRestore
    <3>2. CASE /\ pc' = "restore" /\ todo' = Selected /\ UNCHANGED args
               /\ vms' \in {vms, mem.vms}
      <4>1. UNCHANGED <<op, target>>
        BY <3>2
      <4>2. op = "stop" => \A v \in VM : vms'[v] = "missing" <=> vms[v] = "missing"
        BY <3>2 DEF InvMissing
      <4>3. Selected' = Selected
        BY <4>1, <4>2, SelectedStays DEF TypeOK
      <4>q. QED BY <3>2, <4>3 DEF InvRestore
    <3>q. QED BY <1>10, <3>1, <3>2, Zenon DEF Save, Saved
  <2>9. RecordIsConsistent'
    BY <1>10, SMTT(20) DEF Save, Saved, InvPhase, InvFound,
       RecordIsConsistent, Summary, TypeOK
  <2>q. QED BY <2>1, <2>2, <2>3, <2>4, <2>5, <2>6, <2>7, <2>8, <2>9, Zenon DEF Safe
<1>11. CASE Shutdown
  <2>1. InvPhase'
    BY <1>11, <1>s, SMTT(20) DEF Shutdown, IsLast, InvPhase, TypeOK, Stopping,
       Starting, Ending
  <2>2. InvMissing'
    BY <1>11, SMTT(20) DEF Shutdown, IsLast, InvMissing, TypeOK, On
  <2>3. InvFound'
    BY <1>11, SMTT(20) DEF Shutdown, IsLast, InvFound, TypeOK
  <2>4. InvStop'
    BY <1>11, <1>s, SMTT(20) DEF Shutdown, IsLast, InvPhase, InvStop, TypeOK,
       On, Stopping, Starting, Ending
  <2>5. InvStart'
    BY <1>11, <1>s, SMTT(20) DEF Shutdown, IsLast, InvPhase, InvStart, TypeOK,
       On, Stopping, Starting, Ending
  <2>6. InvRestart'
    BY <1>11, <1>s, SMTT(20) DEF Shutdown, IsLast, InvPhase, InvRestart,
       InvStop, TypeOK, On, Stopping, Starting, Ending
  <2>7. InvStopped'
    BY <1>11, <1>s, SMTT(20) DEF Shutdown, IsLast, InvPhase, InvStopped,
       InvStop, TypeOK, On, Stopping, Starting, Ending
  <2>8. InvRestore'
    BY <1>11, <1>s, SMTT(20) DEF Shutdown, IsLast, InvPhase, InvRestore,
       TypeOK, On, Stopping, Starting, Ending
  <2>9. RecordIsConsistent'
    BY <1>11, SMTT(20) DEF Shutdown, IsLast, InvPhase, InvFound,
       RecordIsConsistent, Summary, TypeOK
  <2>q. QED BY <2>1, <2>2, <2>3, <2>4, <2>5, <2>6, <2>7, <2>8, <2>9, Zenon DEF Safe
<1>12. CASE AwaitStop
  <2>1. InvPhase'
    BY <1>12, <1>s, SMTT(20) DEF AwaitStop, IsLast, InvPhase, TypeOK,
       Stopping, Starting, Ending
  <2>2. InvMissing'
    BY <1>12, SMTT(20) DEF AwaitStop, IsLast, InvMissing, TypeOK, On
  <2>3. InvFound'
    BY <1>12, SMTT(20) DEF AwaitStop, IsLast, InvFound, TypeOK
  <2>4. InvStop'
    BY <1>12, <1>s, SMTT(20) DEF AwaitStop, IsLast, InvPhase, InvStop, TypeOK,
       On, Stopping, Starting, Ending
  <2>5. InvStart'
    BY <1>12, <1>s, SMTT(20) DEF AwaitStop, IsLast, InvPhase, InvStart,
       TypeOK, On, Stopping, Starting, Ending
  <2>6. InvRestart'
    BY <1>12, <1>s, SMTT(20) DEF AwaitStop, IsLast, InvPhase, InvRestart,
       InvStop, TypeOK, On, Stopping, Starting, Ending
  <2>7. InvStopped'
    BY <1>12, <1>s, SMTT(20) DEF AwaitStop, IsLast, InvPhase, InvStopped,
       InvStop, TypeOK, On, Stopping, Starting, Ending
  <2>8. InvRestore'
    BY <1>12, <1>s, SMTT(20) DEF AwaitStop, IsLast, InvPhase, InvRestore,
       TypeOK, On, Stopping, Starting, Ending
  <2>9. RecordIsConsistent'
    BY <1>12, SMTT(20) DEF AwaitStop, IsLast, InvPhase, InvFound,
       RecordIsConsistent, Summary, TypeOK
  <2>q. QED BY <2>1, <2>2, <2>3, <2>4, <2>5, <2>6, <2>7, <2>8, <2>9, Zenon DEF Safe
<1>13. CASE Destroy
  <2>1. InvPhase'
    BY <1>13, <1>s, SMTT(20) DEF Destroy, IsLast, InvPhase, TypeOK, Stopping,
       Starting, Ending
  <2>2. InvMissing'
    BY <1>13, SMTT(20) DEF Destroy, IsLast, InvMissing, TypeOK, On
  <2>3. InvFound'
    BY <1>13, SMTT(20) DEF Destroy, IsLast, InvFound, TypeOK
  <2>4. InvStop'
    BY <1>13, <1>s, SMTT(20) DEF Destroy, IsLast, InvPhase, InvStop, TypeOK,
       On, Stopping, Starting, Ending
  <2>5. InvStart'
    BY <1>13, <1>s, SMTT(20) DEF Destroy, IsLast, InvPhase, InvStart, TypeOK,
       On, Stopping, Starting, Ending
  <2>6. InvRestart'
    BY <1>13, <1>s, SMTT(20) DEF Destroy, IsLast, InvPhase, InvRestart,
       InvStop, TypeOK, On, Stopping, Starting, Ending
  <2>7. InvStopped'
    BY <1>13, <1>s, SMTT(20) DEF Destroy, IsLast, InvPhase, InvStopped,
       InvStop, TypeOK, On, Stopping, Starting, Ending
  <2>8. InvRestore'
    BY <1>13, <1>s, SMTT(20) DEF Destroy, IsLast, InvPhase, InvRestore,
       TypeOK, On, Stopping, Starting, Ending
  <2>9. RecordIsConsistent'
    BY <1>13, SMTT(20) DEF Destroy, IsLast, InvPhase, InvFound,
       RecordIsConsistent, Summary, TypeOK
  <2>q. QED BY <2>1, <2>2, <2>3, <2>4, <2>5, <2>6, <2>7, <2>8, <2>9, Zenon DEF Safe
<1>14. CASE ShutdownDone
  <2>a. /\ pc = "shutdown" /\ todo = {} /\ op \in {"stop", "restart"}
        /\ UNCHANGED <<vms, dom, op, target, before, disturbed>>
        /\ op = "stop" => mem' = [mem EXCEPT !.vms = Powered(@, {})]
        /\ op = "restart" => pc' = "start" /\ UNCHANGED mem
    BY <1>14, Zenon DEF ShutdownDone
  <2>b. op = "stop" => \A v \in VM :
            IF v \in Selected THEN mem'.vms[v] = "stopped" ELSE mem'.vms[v] = mem.vms[v]
    BY <2>a DEF TypeOK, Powered
  <2>1. InvPhase'
    BY <1>14, <1>s, SMTT(20) DEF ShutdownDone, InvPhase, TypeOK, Stopping,
       Starting, Ending
  <2>2. InvMissing'
    <3>1. CASE op = "stop"
      <4>1. \A v \in VM : v \in Selected => vms[v] # "missing"
        BY <3>1 DEF Selected, Scope
      <4>q. QED BY <2>a, <2>b, <3>1, <4>1, SMT DEF InvMissing
    <3>2. CASE op = "restart"
      BY <2>a, <3>2, Zenon DEF InvMissing
    <3>q. QED BY <2>a, <3>1, <3>2
  <2>3. InvFound'
    BY <1>14, SMTT(20) DEF ShutdownDone, InvFound, TypeOK
  <2>4. InvStop'
    BY <1>14, <1>s, SMTT(20) DEF ShutdownDone, InvPhase, InvStop, TypeOK, On,
       Stopping, Starting, Ending
  <2>5. InvStart'
    BY <1>14, <1>s, SMTT(20) DEF ShutdownDone, InvPhase, InvStart, TypeOK, On,
       Stopping, Starting, Ending
  <2>6. InvRestart'
    BY <1>14, <1>s, SMTT(20) DEF ShutdownDone, InvPhase, InvRestart, InvStop,
       TypeOK, On, Stopping, Starting, Ending
  <2>7. InvStopped'
    BY <1>s, <2>a, <2>b, SMT DEF InvStopped, InvStop, Stopping, On
  <2>8. InvRestore'
    BY <1>14, <1>s, SMTT(20) DEF ShutdownDone, InvPhase, InvRestore, TypeOK,
       On, Stopping, Starting, Ending
  <2>9. RecordIsConsistent'
    BY <1>14, SMTT(20) DEF ShutdownDone, InvPhase, InvFound,
       RecordIsConsistent, Summary, TypeOK
  <2>q. QED BY <2>1, <2>2, <2>3, <2>4, <2>5, <2>6, <2>7, <2>8, <2>9, Zenon DEF Safe
<1>15. CASE RestartVm
  <2>1. InvPhase'
    BY <1>15, <1>s, SMTT(20) DEF RestartVm, IsFirst, InvPhase, TypeOK,
       Stopping, Starting, Ending
  <2>2. InvMissing'
    BY <1>15, SMTT(20) DEF RestartVm, IsFirst, InvMissing, TypeOK, On
  <2>3. InvFound'
    BY <1>15, SMTT(20) DEF RestartVm, IsFirst, InvFound, TypeOK
  <2>4. InvStop'
    BY <1>15, <1>s, SMTT(20) DEF RestartVm, IsFirst, InvPhase, InvStop,
       TypeOK, On, Stopping, Starting, Ending
  <2>5. InvStart'
    BY <1>15, <1>s, SMTT(20) DEF RestartVm, IsFirst, InvPhase, InvStart,
       TypeOK, On, Stopping, Starting, Ending
  <2>6. InvRestart'
    BY <1>15, <1>s, SMTT(20) DEF RestartVm, IsFirst, InvPhase, InvRestart,
       InvStop, TypeOK, On, Stopping, Starting, Ending
  <2>7. InvStopped'
    BY <1>15, <1>s, SMTT(20) DEF RestartVm, IsFirst, InvPhase, InvStopped,
       InvStop, TypeOK, On, Stopping, Starting, Ending
  <2>8. InvRestore'
    BY <1>15, <1>s, SMTT(20) DEF RestartVm, IsFirst, InvPhase, InvRestore,
       TypeOK, On, Stopping, Starting, Ending
  <2>9. RecordIsConsistent'
    BY <1>15, SMTT(20) DEF RestartVm, IsFirst, InvPhase, InvFound,
       RecordIsConsistent, Summary, TypeOK
  <2>q. QED BY <2>1, <2>2, <2>3, <2>4, <2>5, <2>6, <2>7, <2>8, <2>9, Zenon DEF Safe
<1>16. CASE Restore
  <2>1. InvPhase'
    BY <1>16, <1>s, SMTT(20) DEF Restore, IsFirst, IsLast, InvPhase, TypeOK,
       Stopping, Starting, Ending
  <2>2. InvMissing'
    BY <1>16, SMTT(20) DEF Restore, IsFirst, IsLast, InvMissing, TypeOK, On
  <2>3. InvFound'
    BY <1>16, SMTT(20) DEF Restore, IsFirst, IsLast, InvFound, TypeOK
  <2>4. InvStop'
    BY <1>16, <1>s, SMTT(20) DEF Restore, IsFirst, IsLast, InvPhase, InvStop,
       TypeOK, On, Stopping, Starting, Ending
  <2>5. InvStart'
    BY <1>16, <1>s, SMTT(20) DEF Restore, IsFirst, IsLast, InvPhase, InvStart,
       TypeOK, On, Stopping, Starting, Ending
  <2>6. InvRestart'
    BY <1>16, <1>s, SMTT(20) DEF Restore, IsFirst, IsLast, InvPhase,
       InvRestart, InvStop, TypeOK, On, Stopping, Starting, Ending
  <2>7. InvStopped'
    BY <1>16, <1>s, SMTT(20) DEF Restore, IsFirst, IsLast, InvPhase,
       InvStopped, InvStop, TypeOK, On, Stopping, Starting, Ending
  <2>8. InvRestore'
    BY <1>16, <1>s, SMTT(20) DEF Restore, IsFirst, IsLast, InvPhase,
       InvRestore, TypeOK, On, Stopping, Starting, Ending
  <2>9. RecordIsConsistent'
    BY <1>16, SMTT(20) DEF Restore, IsFirst, IsLast, InvPhase, InvFound,
       RecordIsConsistent, Summary, TypeOK
  <2>q. QED BY <2>1, <2>2, <2>3, <2>4, <2>5, <2>6, <2>7, <2>8, <2>9, Zenon DEF Safe
<1>17. CASE RestoreSave
  <2>1. InvPhase'
    BY <1>17, <1>s, SMTT(20) DEF RestoreSave, InvPhase, TypeOK, Stopping,
       Starting, Ending
  <2>2. InvMissing'
    <3>1. /\ UNCHANGED dom /\ op' = "none" /\ mem'.vms = [v \in VM |-> "stopped"]
          /\ vms' \in {vms, Powered(mem.vms, before)}
      BY <1>17 DEF RestoreSave
    <3>2. \A v \in VM : Powered(mem.vms, before)[v] = "missing" => mem.vms[v] = "missing"
      BY DEF Powered
    <3>q. QED BY <3>1, <3>2 DEF InvMissing
  <2>3. InvFound'
    BY <1>17, SMTT(20) DEF RestoreSave, InvFound, TypeOK
  <2>4. InvStop'
    BY <1>17, <1>s, SMTT(20) DEF RestoreSave, InvPhase, InvStop, TypeOK, On,
       Stopping, Starting, Ending
  <2>5. InvStart'
    BY <1>17, <1>s, SMTT(20) DEF RestoreSave, InvPhase, InvStart, TypeOK, On,
       Stopping, Starting, Ending
  <2>6. InvRestart'
    BY <1>17, <1>s, SMTT(20) DEF RestoreSave, InvPhase, InvRestart, InvStop,
       TypeOK, On, Stopping, Starting, Ending
  <2>7. InvStopped'
    BY <1>17, <1>s, SMTT(20) DEF RestoreSave, InvPhase, InvStopped, InvStop,
       TypeOK, On, Stopping, Starting, Ending
  <2>8. InvRestore'
    BY <1>17, <1>s, SMTT(20) DEF RestoreSave, InvPhase, InvRestore, TypeOK,
       On, Stopping, Starting, Ending
  <2>9. RecordIsConsistent'
    BY <1>17, SMTT(20) DEF RestoreSave, InvPhase, InvFound,
       RecordIsConsistent, Summary, TypeOK
  <2>q. QED BY <2>1, <2>2, <2>3, <2>4, <2>5, <2>6, <2>7, <2>8, <2>9, Zenon DEF Safe
<1>18. CASE InspectNetwork
  <2>1. InvPhase'
    BY <1>18, <1>s, SMTT(20) DEF InspectNetwork, NetworkDrift, InvPhase,
       TypeOK, Stopping, Starting, Ending
  <2>2. InvMissing'
    BY <1>18, SMTT(20) DEF InspectNetwork, NetworkDrift, InvMissing, TypeOK,
       On
  <2>3. InvFound'
    BY <1>18, SMTT(20) DEF InspectNetwork, NetworkDrift, InvFound, TypeOK
  <2>4. InvStop'
    BY <1>18, <1>s, SMTT(20) DEF InspectNetwork, NetworkDrift, InvPhase,
       InvStop, TypeOK, On, Stopping, Starting, Ending
  <2>5. InvStart'
    BY <1>18, <1>s, SMTT(20) DEF InspectNetwork, NetworkDrift, InvPhase,
       InvStart, TypeOK, On, Stopping, Starting, Ending
  <2>6. InvRestart'
    BY <1>18, <1>s, SMTT(20) DEF InspectNetwork, NetworkDrift, InvPhase,
       InvRestart, InvStop, TypeOK, On, Stopping, Starting, Ending
  <2>7. InvStopped'
    BY <1>18, <1>s, SMTT(20) DEF InspectNetwork, NetworkDrift, InvPhase,
       InvStopped, InvStop, TypeOK, On, Stopping, Starting, Ending
  <2>8. InvRestore'
    BY <1>18, <1>s, SMTT(20) DEF InspectNetwork, NetworkDrift, InvPhase,
       InvRestore, TypeOK, On, Stopping, Starting, Ending
  <2>9. RecordIsConsistent'
    BY <1>18, SMTT(20) DEF InspectNetwork, NetworkDrift, InvPhase, InvFound,
       RecordIsConsistent, Summary, TypeOK
  <2>q. QED BY <2>1, <2>2, <2>3, <2>4, <2>5, <2>6, <2>7, <2>8, <2>9, Zenon DEF Safe
<1>19. CASE Inspect
  <2>1. InvPhase'
    BY <1>19, <1>s, SMTT(20) DEF Inspect, IsFirst, DomainDrift, PowerDrift,
       InvPhase, TypeOK, Stopping, Starting, Ending
  <2>2. InvMissing'
    <3>1. PICK v \in VM :
              \/ v \in Absent /\ mem' = [mem EXCEPT !.vms[v] = "missing"]
              \/ mem' \in {mem, [mem EXCEPT !.vms[v] = "stopped"]}
      BY <1>19, Zenon DEF Inspect
    <3>2. op = "reconcile" /\ UNCHANGED <<vms, dom, op>>
      BY <1>19, Zenon DEF Inspect, InvPhase
    <3>3. \A w \in VM : mem'.vms[w] = "missing" => mem.vms[w] = "missing" \/ dom[w] = "absent"
      BY <3>1 DEF TypeOK, Absent
    <3>q. QED BY <3>2, <3>3 DEF InvMissing
  <2>3. InvFound'
    BY <1>19, SMTT(20) DEF Inspect, IsFirst, DomainDrift, PowerDrift,
       InvFound, TypeOK
  <2>4. InvStop'
    BY <1>19, <1>s, SMTT(20) DEF Inspect, IsFirst, DomainDrift, PowerDrift,
       InvPhase, InvStop, TypeOK, On, Stopping, Starting, Ending
  <2>5. InvStart'
    BY <1>19, <1>s, SMTT(20) DEF Inspect, IsFirst, DomainDrift, PowerDrift,
       InvPhase, InvStart, TypeOK, On, Stopping, Starting, Ending
  <2>6. InvRestart'
    BY <1>19, <1>s, SMTT(20) DEF Inspect, IsFirst, DomainDrift, PowerDrift,
       InvPhase, InvRestart, InvStop, TypeOK, On, Stopping, Starting, Ending
  <2>7. InvStopped'
    BY <1>19, <1>s, SMTT(20) DEF Inspect, IsFirst, DomainDrift, PowerDrift,
       InvPhase, InvStopped, InvStop, TypeOK, On, Stopping, Starting, Ending
  <2>8. InvRestore'
    BY <1>19, <1>s, SMTT(20) DEF Inspect, IsFirst, DomainDrift, PowerDrift,
       InvPhase, InvRestore, TypeOK, On, Stopping, Starting, Ending
  <2>9. RecordIsConsistent'
    BY <1>19, SMTT(20) DEF Inspect, IsFirst, DomainDrift, PowerDrift,
       InvPhase, InvFound, RecordIsConsistent, Summary, TypeOK
  <2>q. QED BY <2>1, <2>2, <2>3, <2>4, <2>5, <2>6, <2>7, <2>8, <2>9, Zenon DEF Safe
<1>20. CASE RepairRecord
  <2>1. InvPhase'
    BY <1>20, <1>s, SMTT(20) DEF RepairRecord, InvPhase, TypeOK, Stopping,
       Starting, Ending
  <2>2. InvMissing'
    BY <1>20, SMTT(20) DEF RepairRecord, InvMissing, TypeOK, On
  <2>3. InvFound'
    BY <1>20, SMTT(20) DEF RepairRecord, InvFound, TypeOK
  <2>4. InvStop'
    BY <1>20, <1>s, SMTT(20) DEF RepairRecord, InvPhase, InvStop, TypeOK, On,
       Stopping, Starting, Ending
  <2>5. InvStart'
    BY <1>20, <1>s, SMTT(20) DEF RepairRecord, InvPhase, InvStart, TypeOK, On,
       Stopping, Starting, Ending
  <2>6. InvRestart'
    BY <1>20, <1>s, SMTT(20) DEF RepairRecord, InvPhase, InvRestart, InvStop,
       TypeOK, On, Stopping, Starting, Ending
  <2>7. InvStopped'
    BY <1>20, <1>s, SMTT(20) DEF RepairRecord, InvPhase, InvStopped, InvStop,
       TypeOK, On, Stopping, Starting, Ending
  <2>8. InvRestore'
    BY <1>20, <1>s, SMTT(20) DEF RepairRecord, InvPhase, InvRestore, TypeOK,
       On, Stopping, Starting, Ending
  <2>9. RecordIsConsistent'
    BY <1>20, SMTT(20) DEF RepairRecord, InvPhase, InvFound,
       RecordIsConsistent, Summary, TypeOK
  <2>q. QED BY <2>1, <2>2, <2>3, <2>4, <2>5, <2>6, <2>7, <2>8, <2>9, Zenon DEF Safe
<1>21. CASE Crash
  <2>1. InvPhase'
    BY <1>21, <1>s, SMTT(20) DEF Crash, InvPhase, TypeOK, Stopping, Starting,
       Ending
  <2>2. InvMissing'
    BY <1>21, SMTT(20) DEF Crash, InvMissing, TypeOK, On
  <2>3. InvFound'
    BY <1>21, SMTT(20) DEF Crash, InvFound, TypeOK
  <2>4. InvStop'
    BY <1>21, <1>s, SMTT(20) DEF Crash, InvPhase, InvStop, TypeOK, On,
       Stopping, Starting, Ending
  <2>5. InvStart'
    BY <1>21, <1>s, SMTT(20) DEF Crash, InvPhase, InvStart, TypeOK, On,
       Stopping, Starting, Ending
  <2>6. InvRestart'
    BY <1>21, <1>s, SMTT(20) DEF Crash, InvPhase, InvRestart, InvStop, TypeOK,
       On, Stopping, Starting, Ending
  <2>7. InvStopped'
    BY <1>21, <1>s, SMTT(20) DEF Crash, InvPhase, InvStopped, InvStop, TypeOK,
       On, Stopping, Starting, Ending
  <2>8. InvRestore'
    BY <1>21, <1>s, SMTT(20) DEF Crash, InvPhase, InvRestore, TypeOK, On,
       Stopping, Starting, Ending
  <2>9. RecordIsConsistent'
    BY <1>21, SMTT(20) DEF Crash, InvPhase, InvFound, RecordIsConsistent,
       Summary, TypeOK
  <2>q. QED BY <2>1, <2>2, <2>3, <2>4, <2>5, <2>6, <2>7, <2>8, <2>9, Zenon DEF Safe
<1>22. CASE HostReboot
  <2>1. InvPhase'
    BY <1>22, <1>s, SMTT(20) DEF HostReboot, Event, InvPhase, TypeOK,
       Stopping, Starting, Ending
  <2>2. InvMissing'
    BY <1>22, SMTT(20) DEF HostReboot, Event, InvMissing, TypeOK, On
  <2>3. InvFound'
    BY <1>22, SMTT(20) DEF HostReboot, Event, InvFound, TypeOK
  <2>4. InvStop'
    BY <1>22, <1>s, SMTT(20) DEF HostReboot, Event, InvPhase, InvStop, TypeOK,
       On, Stopping, Starting, Ending
  <2>5. InvStart'
    BY <1>22, <1>s, SMTT(20) DEF HostReboot, Event, InvPhase, InvStart,
       TypeOK, On, Stopping, Starting, Ending
  <2>6. InvRestart'
    BY <1>22, <1>s, SMTT(20) DEF HostReboot, Event, InvPhase, InvRestart,
       InvStop, TypeOK, On, Stopping, Starting, Ending
  <2>7. InvStopped'
    BY <1>22, <1>s, SMTT(20) DEF HostReboot, Event, InvPhase, InvStopped,
       InvStop, TypeOK, On, Stopping, Starting, Ending
  <2>8. InvRestore'
    BY <1>22, <1>s, SMTT(20) DEF HostReboot, Event, InvPhase, InvRestore,
       TypeOK, On, Stopping, Starting, Ending
  <2>9. RecordIsConsistent'
    BY <1>22, SMTT(20) DEF HostReboot, Event, InvPhase, InvFound,
       RecordIsConsistent, Summary, TypeOK
  <2>q. QED BY <2>1, <2>2, <2>3, <2>4, <2>5, <2>6, <2>7, <2>8, <2>9, Zenon DEF Safe
<1>23. CASE NetGone
  <2>1. InvPhase'
    BY <1>23, <1>s, SMTT(20) DEF NetGone, Event, InvPhase, TypeOK, Stopping,
       Starting, Ending
  <2>2. InvMissing'
    BY <1>23, SMTT(20) DEF NetGone, Event, InvMissing, TypeOK, On
  <2>3. InvFound'
    BY <1>23, SMTT(20) DEF NetGone, Event, InvFound, TypeOK
  <2>4. InvStop'
    BY <1>23, <1>s, SMTT(20) DEF NetGone, Event, InvPhase, InvStop, TypeOK,
       On, Stopping, Starting, Ending
  <2>5. InvStart'
    BY <1>23, <1>s, SMTT(20) DEF NetGone, Event, InvPhase, InvStart, TypeOK,
       On, Stopping, Starting, Ending
  <2>6. InvRestart'
    BY <1>23, <1>s, SMTT(20) DEF NetGone, Event, InvPhase, InvRestart,
       InvStop, TypeOK, On, Stopping, Starting, Ending
  <2>7. InvStopped'
    BY <1>23, <1>s, SMTT(20) DEF NetGone, Event, InvPhase, InvStopped,
       InvStop, TypeOK, On, Stopping, Starting, Ending
  <2>8. InvRestore'
    BY <1>23, <1>s, SMTT(20) DEF NetGone, Event, InvPhase, InvRestore, TypeOK,
       On, Stopping, Starting, Ending
  <2>9. RecordIsConsistent'
    BY <1>23, SMTT(20) DEF NetGone, Event, InvPhase, InvFound,
       RecordIsConsistent, Summary, TypeOK
  <2>q. QED BY <2>1, <2>2, <2>3, <2>4, <2>5, <2>6, <2>7, <2>8, <2>9, Zenon DEF Safe
<1>24. CASE CalmDown
  <2>1. InvPhase'
    BY <1>24, <1>s, SMTT(20) DEF CalmDown, InvPhase, TypeOK, Stopping,
       Starting, Ending
  <2>2. InvMissing'
    BY <1>24, SMTT(20) DEF CalmDown, InvMissing, TypeOK, On
  <2>3. InvFound'
    BY <1>24, SMTT(20) DEF CalmDown, InvFound, TypeOK
  <2>4. InvStop'
    BY <1>24, <1>s, SMTT(20) DEF CalmDown, InvPhase, InvStop, TypeOK, On,
       Stopping, Starting, Ending
  <2>5. InvStart'
    BY <1>24, <1>s, SMTT(20) DEF CalmDown, InvPhase, InvStart, TypeOK, On,
       Stopping, Starting, Ending
  <2>6. InvRestart'
    BY <1>24, <1>s, SMTT(20) DEF CalmDown, InvPhase, InvRestart, InvStop,
       TypeOK, On, Stopping, Starting, Ending
  <2>7. InvStopped'
    BY <1>24, <1>s, SMTT(20) DEF CalmDown, InvPhase, InvStopped, InvStop,
       TypeOK, On, Stopping, Starting, Ending
  <2>8. InvRestore'
    BY <1>24, <1>s, SMTT(20) DEF CalmDown, InvPhase, InvRestore, TypeOK, On,
       Stopping, Starting, Ending
  <2>9. RecordIsConsistent'
    BY <1>24, SMTT(20) DEF CalmDown, InvPhase, InvFound, RecordIsConsistent,
       Summary, TypeOK
  <2>q. QED BY <2>1, <2>2, <2>3, <2>4, <2>5, <2>6, <2>7, <2>8, <2>9, Zenon DEF Safe
<1>25. CASE \E v \in VM : Boot(v)
  <2>1. InvPhase'
    BY <1>25, <1>s, SMTT(20) DEF Boot, InvPhase, TypeOK, Stopping, Starting,
       Ending
  <2>2. InvMissing'
    BY <1>25, SMTT(20) DEF Boot, InvMissing, TypeOK, On
  <2>3. InvFound'
    BY <1>25, SMTT(20) DEF Boot, InvFound, TypeOK
  <2>4. InvStop'
    BY <1>25, <1>s, SMTT(20) DEF Boot, InvPhase, InvStop, TypeOK, On,
       Stopping, Starting, Ending
  <2>5. InvStart'
    BY <1>25, <1>s, SMTT(20) DEF Boot, InvPhase, InvStart, TypeOK, On,
       Stopping, Starting, Ending
  <2>6. InvRestart'
    BY <1>25, <1>s, SMTT(20) DEF Boot, InvPhase, InvRestart, InvStop, TypeOK,
       On, Stopping, Starting, Ending
  <2>7. InvStopped'
    BY <1>25, <1>s, SMTT(20) DEF Boot, InvPhase, InvStopped, InvStop, TypeOK,
       On, Stopping, Starting, Ending
  <2>8. InvRestore'
    BY <1>25, <1>s, SMTT(20) DEF Boot, InvPhase, InvRestore, TypeOK, On,
       Stopping, Starting, Ending
  <2>9. RecordIsConsistent'
    BY <1>25, SMTT(20) DEF Boot, InvPhase, InvFound, RecordIsConsistent,
       Summary, TypeOK
  <2>q. QED BY <2>1, <2>2, <2>3, <2>4, <2>5, <2>6, <2>7, <2>8, <2>9, Zenon DEF Safe
<1>26. CASE \E v \in VM : GuestOff(v)
  <2>1. InvPhase'
    BY <1>26, <1>s, SMTT(20) DEF GuestOff, Disturb, Event, InvPhase, TypeOK,
       Stopping, Starting, Ending
  <2>2. InvMissing'
    BY <1>26, SMTT(20) DEF GuestOff, Disturb, Event, InvMissing, TypeOK, On
  <2>3. InvFound'
    BY <1>26, SMTT(20) DEF GuestOff, Disturb, Event, InvFound, TypeOK
  <2>4. InvStop'
    BY <1>26, <1>s, SMTT(20) DEF GuestOff, Disturb, Event, InvPhase, InvStop,
       TypeOK, On, Stopping, Starting, Ending
  <2>5. InvStart'
    BY <1>26, <1>s, SMTT(20) DEF GuestOff, Disturb, Event, InvPhase, InvStart,
       TypeOK, On, Stopping, Starting, Ending
  <2>6. InvRestart'
    BY <1>26, <1>s, SMTT(20) DEF GuestOff, Disturb, Event, InvPhase,
       InvRestart, InvStop, TypeOK, On, Stopping, Starting, Ending
  <2>7. InvStopped'
    BY <1>26, <1>s, SMTT(20) DEF GuestOff, Disturb, Event, InvPhase,
       InvStopped, InvStop, TypeOK, On, Stopping, Starting, Ending
  <2>8. InvRestore'
    BY <1>26, <1>s, SMTT(20) DEF GuestOff, Disturb, Event, InvPhase,
       InvRestore, TypeOK, On, Stopping, Starting, Ending
  <2>9. RecordIsConsistent'
    BY <1>26, SMTT(20) DEF GuestOff, Disturb, Event, InvPhase, InvFound,
       RecordIsConsistent, Summary, TypeOK
  <2>q. QED BY <2>1, <2>2, <2>3, <2>4, <2>5, <2>6, <2>7, <2>8, <2>9, Zenon DEF Safe
<1>27. CASE \E v \in VM : PowerOn(v)
  <2>1. InvPhase'
    BY <1>27, <1>s, SMTT(20) DEF PowerOn, Disturb, Event, InvPhase, TypeOK,
       Stopping, Starting, Ending
  <2>2. InvMissing'
    BY <1>27, SMTT(20) DEF PowerOn, Disturb, Event, InvMissing, TypeOK, On
  <2>3. InvFound'
    BY <1>27, SMTT(20) DEF PowerOn, Disturb, Event, InvFound, TypeOK
  <2>4. InvStop'
    BY <1>27, <1>s, SMTT(20) DEF PowerOn, Disturb, Event, InvPhase, InvStop,
       TypeOK, On, Stopping, Starting, Ending
  <2>5. InvStart'
    BY <1>27, <1>s, SMTT(20) DEF PowerOn, Disturb, Event, InvPhase, InvStart,
       TypeOK, On, Stopping, Starting, Ending
  <2>6. InvRestart'
    BY <1>27, <1>s, SMTT(20) DEF PowerOn, Disturb, Event, InvPhase,
       InvRestart, InvStop, TypeOK, On, Stopping, Starting, Ending
  <2>7. InvStopped'
    BY <1>27, <1>s, SMTT(20) DEF PowerOn, Disturb, Event, InvPhase,
       InvStopped, InvStop, TypeOK, On, Stopping, Starting, Ending
  <2>8. InvRestore'
    BY <1>27, <1>s, SMTT(20) DEF PowerOn, Disturb, Event, InvPhase,
       InvRestore, TypeOK, On, Stopping, Starting, Ending
  <2>9. RecordIsConsistent'
    BY <1>27, SMTT(20) DEF PowerOn, Disturb, Event, InvPhase, InvFound,
       RecordIsConsistent, Summary, TypeOK
  <2>q. QED BY <2>1, <2>2, <2>3, <2>4, <2>5, <2>6, <2>7, <2>8, <2>9, Zenon DEF Safe
<1>28. CASE UNCHANGED vars
  <2>1. InvPhase'
    BY <1>28, <1>s, SMTT(20) DEF InvPhase, TypeOK, Stopping, Starting, Ending
  <2>2. InvMissing'
    BY <1>28, SMTT(20) DEF InvMissing, TypeOK, On
  <2>3. InvFound'
    BY <1>28, SMTT(20) DEF InvFound, TypeOK
  <2>4. InvStop'
    BY <1>28, <1>s, SMTT(20) DEF InvPhase, InvStop, TypeOK, On, Stopping,
       Starting, Ending
  <2>5. InvStart'
    BY <1>28, <1>s, SMTT(20) DEF InvPhase, InvStart, TypeOK, On, Stopping,
       Starting, Ending
  <2>6. InvRestart'
    BY <1>28, <1>s, SMTT(20) DEF InvPhase, InvRestart, InvStop, TypeOK, On,
       Stopping, Starting, Ending
  <2>7. InvStopped'
    BY <1>28, <1>s, SMTT(20) DEF InvPhase, InvStopped, InvStop, TypeOK, On,
       Stopping, Starting, Ending
  <2>8. InvRestore'
    BY <1>28, <1>s, SMTT(20) DEF InvPhase, InvRestore, TypeOK, On, Stopping,
       Starting, Ending
  <2>9. RecordIsConsistent'
    BY <1>28, SMTT(20) DEF InvPhase, InvFound, RecordIsConsistent, Summary,
       TypeOK
  <2>q. QED BY <2>1, <2>2, <2>3, <2>4, <2>5, <2>6, <2>7, <2>8, <2>9, Zenon DEF Safe
<1>q. QED
  BY [Next]_vars, <1>1, <1>2, <1>3, <1>4, <1>5, <1>6, <1>7, <1>8, <1>9, <1>10,
     <1>11, <1>12, <1>13, <1>14, <1>15, <1>16, <1>17, <1>18, <1>19, <1>20,
     <1>21, <1>22, <1>23, <1>24, <1>25, <1>26, <1>27, <1>28, Zenon
  DEF Next, Commands, Running, Environment

(* The invariant holds in every behaviour. *)
LEMMA Invariance == Spec => []IInv
<1>1. IInv /\ [Next]_vars => IInv'
  BY TypeStep, SafeStep, Zenon DEF IInv
<1>q. QED
  BY <1>1, InvInit, PTL DEF Spec

-----------------------------------------------------------------------------
(* Every variable keeps its type. *)
THEOREM TypeCorrect == Spec => []TypeOK
<1>1. IInv => TypeOK
  BY Zenon DEF IInv
<1>q. QED
  BY <1>1, Invariance, PTL

(* The lab's recorded state summarises those of its VMs, whatever failed, was
   interrupted or was repaired before. *)
THEOREM RecordIsConsistentHolds == Spec => []RecordIsConsistent
<1>1. IInv => RecordIsConsistent
  BY Zenon DEF IInv, Safe
<1>q. QED
  BY <1>1, Invariance, PTL

(* A rollback leaves every VM as the command found it. *)
THEOREM RollbackRestoresPowerHolds == Spec => []RollbackRestoresPower
<1>1. IInv => RollbackRestoresPower
  <2> SUFFICES ASSUME IInv, pc = "restore", todo = {},
                      NEW v \in Selected \ (disturbed \union unrestored)
               PROVE  (v \in On) = (v \in before)
    BY DEF RollbackRestoresPower
  <2>1. v \in VM
    BY ScopeType DEF Selected, IInv, TypeOK
  <2>q. QED BY <2>1 DEF IInv, Safe, InvRestore
<1>q. QED
  BY <1>1, Invariance, PTL

(* A selection is closed under the dependencies that its command follows. *)
LEMMA SelectionClosed ==
    ASSUME TypeOK, NEW v \in VM, NEW w \in DependsOn[v]
    PROVE  /\ w \in VM /\ w < v
           /\ op = "start" /\ v \in Selected => w \in Selected
           /\ op = "stop" /\ w \in Selected /\ vms[v] # "missing" => v \in Selected
<1>1. w \in VM /\ w < v
  BY DependsOnAssumption
<1>2. target \in VM \union {Lab}
  BY DEF TypeOK
<1>3. ASSUME op = "start", v \in Selected PROVE w \in Selected
  <2>1. CASE target = Lab
    BY <1>1, <1>3, <2>1 DEF Selected, Scope
  <2>2. CASE target # Lab
    BY <1>1, <1>2, <1>3, <2>2, NeedsClosed DEF Selected, Scope
  <2>q. QED BY <2>1, <2>2
<1>4. ASSUME op = "stop", w \in Selected, vms[v] # "missing" PROVE v \in Selected
  <2>1. CASE target = Lab
    BY <1>4, <2>1 DEF Selected, Scope
  <2>2. CASE target # Lab
    <3>1. target \in VM /\ w \in NeededBy[target]
      BY <1>2, <1>4, <2>2 DEF Selected, Scope
    <3>2. v \in NeededBy[target]
      BY <3>1, NeededByClosed
    <3>q. QED BY <1>4, <2>2, <3>2, NeedsType, <3>1 DEF Selected, Scope
  <2>q. QED BY <2>1, <2>2
<1>q. QED BY <1>1, <1>3, <1>4

(* When a command is about to record its success, every VM that a started one
   depends on runs, and none runs that depends on a stopped one. *)
THEOREM SelectionIsClosedHolds == Spec => []SelectionIsClosed
<1>1. IInv => SelectionIsClosed
  <2> SUFFICES ASSUME IInv, pc = "save", NEW v \in VM, NEW w \in DependsOn[v] \ disturbed
               PROVE  /\ (op = "start" /\ v \in Selected) => w \in On
                      /\ (op = "stop" /\ w \in Selected) => v \notin On \/ v \in disturbed
    BY DEF SelectionIsClosed
  <2>0. TypeOK /\ InvPhase /\ InvMissing /\ InvStart /\ InvStopped
    BY Zenon DEF IInv, Safe
  <2>1. /\ w \in VM
        /\ op = "start" /\ v \in Selected => w \in Selected
        /\ op = "stop" /\ w \in Selected /\ vms[v] # "missing" => v \in Selected
    BY <2>0, SelectionClosed
  <2>2. (op = "start" /\ v \in Selected) => w \in On
    BY <2>0, <2>1 DEF InvPhase, InvStart, Starting, Ending
  <2>3. (op = "stop" /\ w \in Selected) => v \notin On \/ v \in disturbed
    BY <2>0, <2>1 DEF InvMissing, InvStopped, On
  <2>q. QED BY <2>2, <2>3
<1>q. QED
  BY <1>1, Invariance, PTL

-----------------------------------------------------------------------------
(* What a power command writes is how the VMs it is about are powered.     *)
RecordStep ==
    vms' # vms /\ op \in {"start", "stop", "restart"} =>
        \A v \in Selected \ (disturbed \union unrestored) :
            (vms'[v] = "ready") = (v \in On)

LEMMA RecordWritten == ASSUME IInv, [Next]_vars PROVE RecordStep
<1>0. /\ TypeOK /\ InvPhase /\ InvMissing /\ InvStart /\ InvRestart /\ InvStopped
      /\ InvRestore
  BY Zenon DEF IInv, Safe
<1>s. \A v \in Selected : v \in VM
  BY <1>0, ScopeType DEF Selected, TypeOK
<1>1. CASE Save
  <2> SUFFICES ASSUME vms' # vms, NEW v \in Selected \ (disturbed \union unrestored)
               PROVE  (vms'[v] = "ready") = (v \in On)
    BY DEF RecordStep
  <2>1. pc = "save" /\ vms' = mem.vms /\ v \in VM
    BY <1>1, <1>s DEF Save, Saved, record
  <2>2. (mem.vms[v] = "ready") <=> (v \in On)
    BY <1>0, <2>1, SMTT(30)
    DEF InvPhase, InvStart, InvRestart, InvStopped, Starting, Ending
  <2>q. QED BY <2>1, <2>2
<1>2. CASE RestoreSave
  <2> SUFFICES ASSUME vms' # vms, NEW v \in Selected \ (disturbed \union unrestored)
               PROVE  (vms'[v] = "ready") = (v \in On)
    BY DEF RecordStep
  <2>1. pc = "restore" /\ todo = {} /\ vms' = Powered(mem.vms, before) /\ v \in VM
    BY <1>2, <1>s DEF RestoreSave, record
  <2>2. v \in On <=> v \in before
    BY <1>0, <2>1 DEF InvRestore
  <2>q. QED BY <2>1, <2>2 DEF Powered
<1>3. CASE RepairRecord
  BY <1>0, <1>3 DEF RepairRecord, InvPhase, RecordStep
<1>4. CASE UNCHANGED vms
  BY <1>4, Zenon DEF RecordStep
<1>q. QED
  BY [Next]_vars, <1>1, <1>2, <1>3, <1>4, Zenon
  DEF Next, Commands, Running, Environment, BeginStart, BeginStop, BeginRestart,
      BeginReconcile, Begin, EnsureNetwork, StartVm, AwaitStart, StartDone,
      RefreshAccess, Shutdown, AwaitStop, Destroy, ShutdownDone, RestartVm, Restore,
      InspectNetwork, Inspect, Crash, HostReboot, NetGone, CalmDown, Boot, GuestOff,
      PowerOn, record, vars

THEOREM RecordTellsPowerHolds == Spec => RecordTellsPower
<1>1. IInv /\ [Next]_vars =>
        [vms' # vms /\ op \in {"start", "stop", "restart"} =>
            \A v \in Selected \ (disturbed \union unrestored) :
                (vms'[v] = "ready") = (v \in On)]_vars
  BY RecordWritten, Zenon DEF RecordStep
<1>q. QED
  BY <1>1, Invariance, PTL DEF Spec, RecordTellsPower

-----------------------------------------------------------------------------
(* A guest is started when those it depends on are up or were running, and
   goes down when none of its dependants is left running.                  *)
OrderStep ==
    op' = op => \A v \in VM \ disturbed' :
        /\ (op = "start" /\ pc = "start" /\ dom[v] = "off" /\ dom'[v] = "booting") =>
              \A w \in DependsOn[v] : dom[w] = "up" \/ w \in before \union disturbed
        /\ (op = "stop" /\ pc \in {"await_stop", "destroy"} /\ v \in On /\ dom'[v] = "off") =>
              \A w \in VM : v \in DependsOn[w] => w \notin On \/ w \in disturbed

LEMMA OrderKept == ASSUME IInv, [Next]_vars PROVE OrderStep
<1>0. TypeOK /\ InvPhase /\ InvMissing /\ InvStart /\ InvStop
  BY Zenon DEF IInv, Safe
<1>1. CASE StartVm
  <2> SUFFICES ASSUME op = "start", pc = "start",
                      NEW v \in VM, dom[v] = "off", dom'[v] = "booting",
                      NEW w \in DependsOn[v]
               PROVE  dom[w] = "up" \/ w \in before \union disturbed
    BY <1>1 DEF StartVm, OrderStep
  <2>1. v \in todo /\ \A x \in todo : v <= x
    BY <1>0, <1>1 DEF StartVm, IsFirst, TypeOK
  <2>2. v \in Selected
    BY <1>0, <2>1 DEF InvPhase, Starting
  <2>3. w \in VM /\ w < v /\ w \in Selected
    BY <1>0, <2>2, SelectionClosed
  <2>4. w \notin todo
    BY <2>1, <2>3 DEF VM
  <2>q. QED BY <1>0, <2>3, <2>4 DEF InvStart, Starting
<1>2. CASE AwaitStop \/ Destroy
  <2> SUFFICES ASSUME op = "stop", pc \in {"await_stop", "destroy"},
                      NEW v \in VM, v \in On, dom'[v] = "off",
                      NEW w \in VM, v \in DependsOn[w], w \notin disturbed
               PROVE  w \notin On
    BY <1>2 DEF AwaitStop, Destroy, OrderStep
  <2>1. v \in todo /\ \A x \in todo : x <= v
    BY <1>0, <1>2 DEF AwaitStop, Destroy, IsLast, On, TypeOK
  <2>2. v \in Selected
    BY <1>0, <2>1 DEF InvPhase, Stopping
  <2>3. v < w /\ (vms[w] # "missing" => w \in Selected)
    BY <1>0, <2>2, SelectionClosed
  <2>4. w \notin todo
    BY <2>1, <2>3 DEF VM
  <2>5. CASE vms[w] = "missing"
    BY <1>0, <2>5 DEF InvMissing, On
  <2>6. CASE w \in Selected
    BY <1>0, <2>4, <2>6 DEF InvStop, Stopping
  <2>q. QED BY <2>3, <2>5, <2>6
<1>3. CASE op' = op /\ ~StartVm /\ ~AwaitStop /\ ~Destroy
  <2>1. \/ UNCHANGED dom \/ pc \notin {"start", "await_stop", "destroy"}
        \/ RestartVm \/ \E v \in VM : Boot(v) \/ GuestOff(v) \/ PowerOn(v)
        \/ HostReboot
    BY [Next]_vars, <1>3, Zenon
    DEF Next, Commands, Running, Environment, BeginStart, BeginStop, BeginRestart,
        BeginReconcile, Begin, EnsureNetwork, AwaitStart, StartDone, RefreshAccess,
        Save, Shutdown, ShutdownDone, Restore, RestoreSave, InspectNetwork, Inspect,
        RepairRecord, Crash, NetGone, CalmDown, host, vars
  <2>2. CASE UNCHANGED dom
    BY <2>2 DEF OrderStep, On
  <2>3. CASE pc \notin {"start", "await_stop", "destroy"}
    BY <2>3 DEF OrderStep
  <2>4. CASE RestartVm
    BY <2>4 DEF OrderStep, RestartVm
  <2>5. CASE \E v \in VM : Boot(v)
    BY <1>0, <2>5 DEF OrderStep, Boot, On, TypeOK
  <2>6. CASE \E v \in VM : GuestOff(v) \/ PowerOn(v)
    <3>1. CASE pc = "idle"
      BY <3>1 DEF OrderStep
    <3>2. CASE pc # "idle"
      <4>1. PICK v \in VM : v \in disturbed' /\ \A w \in VM : w # v => dom'[w] = dom[w]
        BY <1>0, <2>6, <3>2 DEF GuestOff, PowerOn, Disturb, TypeOK
      <4>q. QED BY <1>0, <4>1 DEF OrderStep, On, TypeOK
    <3>q. QED BY <3>1, <3>2
  <2>7. CASE HostReboot
    BY <1>3, <2>7 DEF OrderStep, HostReboot, Forget
  <2>q. QED BY <2>1, <2>2, <2>3, <2>4, <2>5, <2>6, <2>7, Zenon
<1>4. CASE op' # op
  BY <1>4, Zenon DEF OrderStep
<1>q. QED BY <1>1, <1>2, <1>3, <1>4, Zenon

(* The loops of start and of stop respect the dependencies, for any VMs and any
   dependencies between them. *)
THEOREM DependencyOrderHolds == Spec => DependencyOrder
<1>1. IInv /\ [Next]_vars =>
        [op' = op => \A v \in VM \ disturbed' :
            /\ (op = "start" /\ pc = "start" /\ dom[v] = "off" /\ dom'[v] = "booting") =>
                  \A w \in DependsOn[v] : dom[w] = "up" \/ w \in before \union disturbed
            /\ (op = "stop" /\ pc \in {"await_stop", "destroy"} /\ v \in On
                /\ dom'[v] = "off") =>
                  \A w \in VM : v \in DependsOn[w] => w \notin On \/ w \in disturbed]_vars
  BY OrderKept, Zenon DEF OrderStep
<1>q. QED
  BY <1>1, Invariance, PTL DEF Spec, DependencyOrder
=============================================================================
