--------------------------- MODULE GradingProofs ---------------------------
(***************************************************************************)
(* Proofs about Grading for any lab, any declared VMs and any processes.   *)
(* That nothing survives a verdict is not inductive: it rests on where the *)
(* termination loop is and on the fact that only what is alive can start   *)
(* another process.  That a verdict is earned rests on how the exit status *)
(* came to be known: collected in time, or lost and read as 0.             *)
(***************************************************************************)
EXTENDS Grading, TLAPS

(* The VMs whose disks the grading has replaced. *)
FreshAre(set) == \A v \in VMs : disk[v] = "fresh" <=> v \in set

Grader == {"communicate", "scan", "kill", "again", "join", "verdict"}

(* A command in progress holds the lock and has given no verdict. *)
InvCommand ==
    pc # "idle" => lock = "grade" /\ verdict = "none"

(* The process tree: nothing before the launch, nothing from the join on. *)
InvTree ==
    /\ pc \in {"drift", "options", "reset", "start", "hosts", "spawn"} =>
          grader = "none" /\ kids = {} /\ ~loud /\ ~timedout
    /\ pc \in {"again", "join", "verdict"} => grader = "reaped"
    /\ pc \in {"join", "verdict"} => kids = {}
    /\ pc \in {"scan", "kill"} => grader \in {"exited", "reaped"}
    /\ pc = "communicate" => grader \in {"running", "exited"} /\ ~timedout
    /\ pc \in Grader /\ ~timedout /\ grader # "running" => code \in {0, 1, 2}

(* Unless time ran out, labctl knows the status the grader gave. *)
InvStatus ==
    pc \in {"scan", "kill", "again", "join", "verdict"} /\ ~timedout =>
        grader = "reaped" /\ status = code

(* Which disks are replaced when, and by whose leave. *)
InvDisks ==
    /\ pc \in {"drift", "options", "reset"} => FreshAre({})
    /\ pc \in {"reset", "start"} => reset /\ consent
    /\ pc = "start" => FreshAre(ResetVms)
    /\ pc \in {"hosts", "spawn", "communicate"} =>
          FreshAre(IF reset THEN ResetVms ELSE {})

IInv ==
    /\ TypeOK /\ NothingSurvives /\ VerdictIsEarned /\ ResetIsConsented
    /\ InvCommand /\ InvTree /\ InvStatus /\ InvDisks
-----------------------------------------------------------------------------
(* The type invariant, Booleans apart: they go to Zenon, the rest to SMT. *)
TypeFlags ==
    /\ pending \in BOOLEAN /\ reset \in BOOLEAN /\ consent \in BOOLEAN
    /\ timedout \in BOOLEAN /\ loud \in BOOLEAN
TypeProcess ==
    /\ lock \in {"nobody", "grade", "other"}
    /\ pc \in {"idle", "drift", "options", "reset", "start", "hosts", "spawn",
               "communicate", "scan", "kill", "again", "join", "verdict"}
    /\ verdict \in {"none", "PASS", "FAIL", "ERROR", "refused", "broken"}
    /\ status \in {Unset, 0, 1, 2, 9} /\ code \in {Unset, 0, 1, 2, 9}
    /\ grader \in {"none", "running", "exited", "reaped"}
TypeSets ==
    /\ vms \in [VMs -> {"ready", "stopped"}] /\ on \in SUBSET VMs
    /\ disk \in [VMs -> {"learner", "fresh"}]
    /\ kids \in SUBSET Processes /\ doomed \in SUBSET Processes

LEMMA TypeParts == TypeOK <=> TypeFlags /\ TypeProcess /\ TypeSets
  BY Zenon DEF TypeOK, TypeFlags, TypeProcess, TypeSets

(* The invariant holds initially. *)
LEMMA InvInit == Init => IInv
<1> SUFFICES ASSUME Init PROVE IInv
  OBVIOUS
<1>1. TypeFlags
  BY Zenon DEF Init, TypeFlags
<1>2. TypeProcess /\ TypeSets
  BY DEF Init, TypeProcess, TypeSets
<1>3. /\ NothingSurvives /\ VerdictIsEarned /\ ResetIsConsented
      /\ InvCommand /\ InvTree /\ InvStatus /\ InvDisks
  BY DEF Init, NothingSurvives, VerdictIsEarned, ResetIsConsented, InvCommand,
         InvTree, InvStatus, InvDisks, FreshAre, Grader
<1>q. QED
  BY <1>1, <1>2, <1>3, TypeParts DEF IInv

(* Every step keeps the types. *)
LEMMA TypeStep == ASSUME TypeOK, [Next]_vars PROVE TypeOK'
<1>0. TypeFlags /\ TypeProcess /\ TypeSets
  BY TypeParts
<1>t. (TypeFlags /\ TypeProcess /\ TypeSets)' => TypeOK'
  BY TypeParts, PTL
<1> USE <1>0, ResetVmsAssumption, ProcessesAssumption
    DEF TypeFlags, TypeProcess, TypeSets, End, Refuse, Unset,
        lab, choice, outcome, run, vars
<1>1. CASE BeginGrade
  <2>1. TypeFlags'
    BY <1>1, ZenonT(20) DEF BeginGrade
  <2>2. (TypeProcess /\ TypeSets)'
    BY <1>1, SMTT(20) DEF BeginGrade
  <2>q. QED BY <1>t, <2>1, <2>2
<1>2. CASE CheckDrift
  <2>1. TypeFlags'
    BY <1>2, ZenonT(20) DEF CheckDrift
  <2>2. (TypeProcess /\ TypeSets)'
    BY <1>2, SMTT(20) DEF CheckDrift
  <2>q. QED BY <1>t, <2>1, <2>2
<1>3. CASE AskReset
  <2>1. TypeFlags'
    BY <1>3, ZenonT(20) DEF AskReset
  <2>2. (TypeProcess /\ TypeSets)'
    BY <1>3, SMTT(20) DEF AskReset
  <2>q. QED BY <1>t, <2>1, <2>2
<1>4. CASE KeepDisks
  <2>1. TypeFlags'
    BY <1>4, ZenonT(20) DEF KeepDisks
  <2>2. (TypeProcess /\ TypeSets)'
    BY <1>4, SMTT(20) DEF KeepDisks
  <2>q. QED BY <1>t, <2>1, <2>2
<1>5. CASE RefuseOptions
  <2>1. TypeFlags'
    BY <1>5, ZenonT(20) DEF RefuseOptions
  <2>2. (TypeProcess /\ TypeSets)'
    BY <1>5, SMTT(20) DEF RefuseOptions
  <2>q. QED BY <1>t, <2>1, <2>2
<1>6. CASE ResetDeclared
  <2>1. TypeFlags'
    BY <1>6, ZenonT(20) DEF ResetDeclared
  <2>2. (TypeProcess /\ TypeSets)'
    BY <1>6, SMTT(20) DEF ResetDeclared
  <2>q. QED BY <1>t, <2>1, <2>2
<1>7. CASE StartAll
  <2>1. TypeFlags'
    BY <1>7, ZenonT(20) DEF StartAll
  <2>2. (TypeProcess /\ TypeSets)'
    BY <1>7, SMTT(20) DEF StartAll
  <2>q. QED BY <1>t, <2>1, <2>2
<1>8. CASE BuildContext
  <2>1. TypeFlags'
    BY <1>8, ZenonT(20) DEF BuildContext
  <2>2. (TypeProcess /\ TypeSets)'
    BY <1>8, SMTT(20) DEF BuildContext
  <2>q. QED BY <1>t, <2>1, <2>2
<1>9. CASE Spawn
  <2>1. TypeFlags'
    BY <1>9, ZenonT(20) DEF Spawn
  <2>2. (TypeProcess /\ TypeSets)'
    BY <1>9, SMTT(20) DEF Spawn
  <2>q. QED BY <1>t, <2>1, <2>2
<1>10. CASE Collect
  <2>1. TypeFlags'
    BY <1>10, ZenonT(20) DEF Collect
  <2>2. (TypeProcess /\ TypeSets)'
    BY <1>10, SMTT(20) DEF Collect
  <2>q. QED BY <1>t, <2>1, <2>2
<1>11. CASE TimeOut
  <2>1. TypeFlags'
    BY <1>11, ZenonT(20) DEF TimeOut
  <2>2. (TypeProcess /\ TypeSets)'
    BY <1>11, SMTT(20) DEF TimeOut
  <2>q. QED BY <1>t, <2>1, <2>2
<1>12. CASE Scan
  <2>1. TypeFlags'
    BY <1>12, ZenonT(20) DEF Scan
  <2>2. (TypeProcess /\ TypeSets)'
    BY <1>12, SMTT(20) DEF Scan
  <2>q. QED BY <1>t, <2>1, <2>2
<1>13. CASE Kill
  <2>1. TypeFlags'
    BY <1>13, ZenonT(20) DEF Kill
  <2>2. (TypeProcess /\ TypeSets)'
    BY <1>13, SMTT(20) DEF Kill
  <2>q. QED BY <1>t, <2>1, <2>2
<1>14. CASE Again
  <2>1. TypeFlags'
    BY <1>14, ZenonT(20) DEF Again
  <2>2. (TypeProcess /\ TypeSets)'
    BY <1>14, SMTT(20) DEF Again
  <2>q. QED BY <1>t, <2>1, <2>2
<1>15. CASE Join
  <2>1. TypeFlags'
    BY <1>15, ZenonT(20) DEF Join
  <2>2. (TypeProcess /\ TypeSets)'
    BY <1>15, SMTT(20) DEF Join
  <2>q. QED BY <1>t, <2>1, <2>2
<1>16. CASE Report
  <2>1. TypeFlags'
    BY <1>16, ZenonT(20) DEF Report, Outcome
  <2>2. (TypeProcess /\ TypeSets)'
    BY <1>16, SMTT(20) DEF Report, Outcome
  <2>q. QED BY <1>t, <2>1, <2>2
<1>17. CASE Fork
  <2>1. TypeFlags'
    BY <1>17, ZenonT(20) DEF Fork
  <2>2. (TypeProcess /\ TypeSets)'
    BY <1>17, SMTT(20) DEF Fork
  <2>q. QED BY <1>t, <2>1, <2>2
<1>18. CASE KidExit
  <2>1. TypeFlags'
    BY <1>18, ZenonT(20) DEF KidExit
  <2>2. (TypeProcess /\ TypeSets)'
    BY <1>18, SMTT(20) DEF KidExit
  <2>q. QED BY <1>t, <2>1, <2>2
<1>19. CASE WriteMuch
  <2>1. TypeFlags'
    BY <1>19, ZenonT(20) DEF WriteMuch
  <2>2. (TypeProcess /\ TypeSets)'
    BY <1>19, SMTT(20) DEF WriteMuch
  <2>q. QED BY <1>t, <2>1, <2>2
<1>20. CASE GraderExit
  <2>1. TypeFlags'
    BY <1>20, ZenonT(20) DEF GraderExit
  <2>2. (TypeProcess /\ TypeSets)'
    BY <1>20, SMTT(20) DEF GraderExit
  <2>q. QED BY <1>t, <2>1, <2>2
<1>21. CASE OtherBegin
  <2>1. TypeFlags'
    BY <1>21, ZenonT(20) DEF OtherBegin
  <2>2. (TypeProcess /\ TypeSets)'
    BY <1>21, SMTT(20) DEF OtherBegin
  <2>q. QED BY <1>t, <2>1, <2>2
<1>22. CASE OtherEnd
  <2>1. TypeFlags'
    BY <1>22, ZenonT(20) DEF OtherEnd
  <2>2. (TypeProcess /\ TypeSets)'
    BY <1>22, SMTT(20) DEF OtherEnd
  <2>q. QED BY <1>t, <2>1, <2>2
<1>23. CASE GuestOff
  <2>1. TypeFlags'
    BY <1>23, ZenonT(20) DEF GuestOff
  <2>2. (TypeProcess /\ TypeSets)'
    BY <1>23, SMTT(20) DEF GuestOff
  <2>q. QED BY <1>t, <2>1, <2>2
<1>24. CASE UNCHANGED vars
  <2>1. TypeFlags'
    BY <1>24, ZenonT(20)
  <2>2. (TypeProcess /\ TypeSets)'
    BY <1>24, SMTT(20)
  <2>q. QED BY <1>t, <2>1, <2>2
<1>q. QED
  BY <1>1, <1>2, <1>3, <1>4, <1>5, <1>6, <1>7, <1>8, <1>9, <1>10, <1>11,
     <1>12, <1>13, <1>14, <1>15, <1>16, <1>17, <1>18, <1>19, <1>20, <1>21,
     <1>22, <1>23, <1>24, ZenonT(30)
  DEF Next, Running, Surroundings

(* Every step keeps the rest of the invariant. *)
Safe ==
    /\ NothingSurvives /\ VerdictIsEarned /\ ResetIsConsented
    /\ InvCommand /\ InvTree /\ InvStatus /\ InvDisks

LEMMA SafeStep == ASSUME IInv, [Next]_vars PROVE Safe'
<1> USE ResetVmsAssumption, ProcessesAssumption
    DEF IInv, Safe, NothingSurvives, VerdictIsEarned, ResetIsConsented, InvCommand,
        InvTree, InvStatus, InvDisks, FreshAre, Grader, Alive, TypeOK, End, Refuse,
        Unset, lab, choice, outcome, run, vars
<1>1. CASE BeginGrade
  BY <1>1, SMTT(30) DEF BeginGrade
<1>2. CASE CheckDrift
  BY <1>2, SMTT(30) DEF CheckDrift
<1>3. CASE AskReset
  BY <1>3, SMTT(30) DEF AskReset
<1>4. CASE KeepDisks
  BY <1>4, SMTT(30) DEF KeepDisks
<1>5. CASE RefuseOptions
  BY <1>5, SMTT(30) DEF RefuseOptions
<1>6. CASE ResetDeclared
  BY <1>6, SMTT(30) DEF ResetDeclared
<1>7. CASE StartAll
  BY <1>7, SMTT(30) DEF StartAll
<1>8. CASE BuildContext
  BY <1>8, SMTT(30) DEF BuildContext
<1>9. CASE Spawn
  BY <1>9, SMTT(30) DEF Spawn
<1>10. CASE Collect
  BY <1>10, SMTT(30) DEF Collect
<1>11. CASE TimeOut
  BY <1>11, SMTT(30) DEF TimeOut
<1>12. CASE Scan
  BY <1>12, SMTT(30) DEF Scan
<1>13. CASE Kill
  BY <1>13, SMTT(30) DEF Kill
<1>14. CASE Again
  BY <1>14, SMTT(30) DEF Again
<1>15. CASE Join
  BY <1>15, SMTT(30) DEF Join
<1>16. CASE Report
  BY <1>16, SMTT(30) DEF Report, Outcome
<1>17. CASE Fork
  BY <1>17, SMTT(30) DEF Fork
<1>18. CASE KidExit
  BY <1>18, SMTT(30) DEF KidExit
<1>19. CASE WriteMuch
  BY <1>19, SMTT(30) DEF WriteMuch
<1>20. CASE GraderExit
  BY <1>20, SMTT(30) DEF GraderExit
<1>21. CASE OtherBegin
  BY <1>21, SMTT(30) DEF OtherBegin
<1>22. CASE OtherEnd
  BY <1>22, SMTT(30) DEF OtherEnd
<1>23. CASE GuestOff
  BY <1>23, SMTT(30) DEF GuestOff
<1>24. CASE UNCHANGED vars
  BY <1>24, SMTT(30)
<1>q. QED
  BY <1>1, <1>2, <1>3, <1>4, <1>5, <1>6, <1>7, <1>8, <1>9, <1>10, <1>11,
     <1>12, <1>13, <1>14, <1>15, <1>16, <1>17, <1>18, <1>19, <1>20, <1>21,
     <1>22, <1>23, <1>24, ZenonT(30)
  DEF Next, Running, Surroundings

(* The invariant holds in every behaviour. *)
LEMMA Invariance == Spec => []IInv
<1>1. IInv /\ [Next]_vars => IInv'
  BY TypeStep, SafeStep, Zenon DEF IInv, Safe
<1>q. QED
  BY <1>1, InvInit, PTL DEF Spec

-----------------------------------------------------------------------------
(* Every variable keeps its type, for any lab and any set of processes. *)
THEOREM TypeCorrect == Spec => []TypeOK
  BY Invariance, PTL DEF IInv

(* When a verdict is given, the grader is reaped and no process that it has
   started is alive, however many there were, whichever left its process group,
   and whenever they forked. *)
THEOREM NothingSurvivesHolds == Spec => []NothingSurvives
  BY Invariance, PTL DEF IInv

(* A pass or a fail is the status the grader gave in time and within the output
   limit; the status 0 that a killed grader reads as never makes a pass. *)
THEOREM VerdictIsEarnedHolds == Spec => []VerdictIsEarned
  BY Invariance, PTL DEF IInv

(* No disk is replaced without --reset and consent, and the grader meets fresh
   disks in exactly the declared VMs, or in none. *)
THEOREM ResetIsConsentedHolds == Spec => []ResetIsConsented
  BY Invariance, PTL DEF IInv
=============================================================================
