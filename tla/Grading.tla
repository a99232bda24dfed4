------------------------------ MODULE Grading ------------------------------
(***************************************************************************)
(* labctl lab grade: the checks, the optional reset of the declared VMs,   *)
(* and the run of the grader with the containment of its processes         *)
(* (Application._lab_grade, grading.run_grader).                           *)
(*                                                                         *)
(* The grader is any program: it starts processes, some of which leave its *)
(* process group, writes as much as it likes, and exits with any status or *)
(* never.  Reset and start are transactions of their own and are one step  *)
(* each here; the lab lock is held from the first check to the verdict.    *)
(***************************************************************************)
EXTENDS Integers

CONSTANTS
    VMs,        \* virtual machines of the lab
    ResetVms,   \* grading.reset_vms of its definition
    Processes,  \* ids for the processes the grader starts
    Escaped,    \* those that leave its process group (setsid)
    Silent      \* those that close its pipes

ASSUME ResetVmsAssumption == ResetVms \subseteq VMs
ASSUME ProcessesAssumption == Escaped \subseteq Processes /\ Silent \subseteq Processes

VARIABLES
    (* The lab. *)
    lock,       \* who holds the lab lock: nobody, grade, other
    pending,    \* is a journal pending?
    vms,        \* recorded state of each VM
    on,         \* the guests that run
    disk,       \* of each VM: learner (work in progress) or fresh
    (* The grading command. *)
    pc,
    reset,      \* its option --reset
    consent,    \* --yes, or the prompt answered with yes
    verdict,    \* of the last grading: none, PASS, FAIL, ERROR, refused, broken
    timedout,
    status,     \* returncode as labctl has it
    (* The grader. *)
    grader,     \* none, running, exited (not reaped yet), reaped
    code,       \* the exit status it gave: 0, 1, 2, or 9 when it was killed
    kids,       \* its descendants that are alive
    doomed,     \* those the termination loop has found
    loud        \* has it written more than the limit?

lab     == <<lock, pending, vms, on, disk>>
choice  == <<reset, consent>>
outcome == <<verdict, timedout, status>>
run     == <<grader, code, kids, doomed, loud>>
vars    == <<lab, pc, choice, outcome, run>>

Unset == -1
Alive == IF grader = "running" THEN {"grader"} \union kids ELSE kids

Init ==
    /\ lock = "nobody" /\ pending = FALSE /\ disk = [v \in VMs |-> "learner"]
    /\ on \in SUBSET VMs
    /\ vms = [v \in VMs |-> IF v \in on THEN "ready" ELSE "stopped"]
    /\ pc = "idle" /\ reset = FALSE /\ consent = FALSE
    /\ verdict = "none" /\ timedout = FALSE /\ status = Unset
    /\ grader = "none" /\ code = Unset /\ kids = {} /\ doomed = {} /\ loud = FALSE

-----------------------------------------------------------------------------
(* Checks and preparation; every refusal releases the lock. *)

End(result) ==
    /\ pc' = "idle" /\ verdict' = result /\ lock' = "nobody"

Refuse == End("refused") /\ UNCHANGED <<pending, vms, on, disk, choice, timedout, status, run>>

(* grade_session: the lock is not waited for, and no journal may be pending.
   By now there is new work on the disks, and what a broken grading has left
   running is no descendant of this process. *)
BeginGrade ==
    /\ pc = "idle" /\ lock = "nobody" /\ ~pending
    /\ lock' = "grade" /\ pc' = "drift"
    /\ reset' \in BOOLEAN /\ consent' = FALSE
    /\ verdict' = "none" /\ timedout' = FALSE /\ status' = Unset
    /\ disk' = [v \in VMs |-> "learner"]
    /\ grader' = "none" /\ code' = Unset /\ kids' = {} /\ doomed' = {} /\ loud' = FALSE
    /\ UNCHANGED <<pending, vms, on>>

(* Any drift refuses; other drift than of power may be met at any time. *)
CheckDrift ==
    /\ pc = "drift"
    /\ \/ /\ \A v \in VMs : (v \in on) = (vms[v] = "ready")
          /\ pc' = "options" /\ UNCHANGED <<lab, choice, outcome, run>>
       \/ Refuse

(* The snapshot's definition decides; without --yes there must be somebody to
   ask, and the answer must be yes. *)
ResetUnasked ==   \* mutant: --reset is taken for consent
    /\ pc = "options" /\ reset /\ ResetVms # {}
    /\ pc' = "reset" /\ UNCHANGED <<lab, choice, outcome, run>>

AskReset ==
    /\ pc = "options" /\ reset /\ ResetVms # {}
    /\ consent' = TRUE /\ pc' = "reset"
    /\ UNCHANGED <<lab, reset, outcome, run>>

KeepDisks ==
    /\ pc = "options" /\ ~reset
    /\ pc' = "hosts" /\ UNCHANGED <<lab, choice, outcome, run>>

RefuseOptions == pc = "options" /\ Refuse

(* session.reset of exactly the declared VMs.  A failure ends the command; the
   rollback brings the old disks back, or leaves its journal. *)
ResetDeclared ==
    /\ pc = "reset"
    /\ \/ /\ disk' = [v \in VMs |-> IF v \in ResetVms THEN "fresh" ELSE disk[v]]
          /\ on' = on \union ResetVms
          /\ vms' = [v \in VMs |-> IF v \in ResetVms THEN "ready" ELSE vms[v]]
          /\ pc' = "start" /\ UNCHANGED <<lock, pending, verdict>>
       \/ /\ End("broken") /\ pending' \in BOOLEAN
          /\ UNCHANGED <<vms, on, disk>>
    /\ UNCHANGED <<choice, timedout, status, run>>

(* session.start of the whole lab. *)
StartAll ==
    /\ pc = "start"
    /\ \/ /\ on' = VMs /\ vms' = [v \in VMs |-> "ready"]
          /\ pc' = "hosts" /\ UNCHANGED <<lock, verdict>>
       \/ End("broken") /\ UNCHANGED <<vms, on>>
    /\ UNCHANGED <<pending, disk, choice, timedout, status, run>>

(* Every VM must be recorded as running, with its connection data. *)
BuildContext ==
    /\ pc = "hosts"
    /\ \/ /\ \A v \in VMs : vms[v] = "ready"
          /\ pc' = "spawn" /\ UNCHANGED <<lab, choice, outcome, run>>
       \/ Refuse

-----------------------------------------------------------------------------
(* run_grader. *)

(* Without a subreaper or /proc nothing is launched. *)
Spawn ==
    /\ pc = "spawn"
    /\ \/ /\ grader' = "running" /\ pc' = "communicate"
          /\ UNCHANGED <<lab, choice, outcome, code, kids, doomed, loud>>
       \/ End("broken") /\ UNCHANGED <<pending, vms, on, disk, choice, timedout, status, run>>

(* communicate() returns when the grader itself has exited. *)
Collect ==
    /\ pc = "communicate" /\ grader = "exited"
    /\ grader' = "reaped" /\ status' = code /\ pc' = "scan"
    /\ UNCHANGED <<lab, choice, verdict, timedout, code, kids, doomed, loud>>

(* At the deadline its process group is killed. *)
TimeOut ==
    /\ pc = "communicate" /\ grader # "reaped"
    /\ timedout' = TRUE /\ pc' = "scan"
    /\ grader' = "exited" /\ code' = IF grader = "running" THEN 9 ELSE code
    /\ kids' = kids \intersect Escaped
    /\ UNCHANGED <<lab, choice, verdict, status, doomed, loud>>

(* _terminate_and_reap_process_tree: first the process group, then rounds that
   look for descendants, and kill and reap what they have found.  That reaps
   the grader too, and its exit status is lost: subprocess reports 0. *)
Scan ==
    /\ pc = "scan"
    /\ doomed' = kids /\ kids' = kids \intersect Escaped /\ pc' = "kill"
    /\ UNCHANGED <<lab, choice, outcome, grader, code, loud>>

GroupOnly ==   \* mutant: processes that have left the group are not looked for
    /\ pc = "kill"
    /\ grader' = "reaped" /\ status' = (IF grader = "exited" THEN 0 ELSE status)
    /\ pc' = "join" /\ UNCHANGED <<lab, choice, verdict, timedout, code, kids, doomed, loud>>

Kill ==
    /\ pc = "kill"
    /\ kids' = kids \ doomed
    /\ grader' = "reaped" /\ status' = (IF grader = "exited" THEN 0 ELSE status)
    /\ pc' = (IF kids' = {} THEN "join" ELSE "again")
    /\ UNCHANGED <<lab, choice, verdict, timedout, code, doomed, loud>>

(* Another round, until two seconds are over. *)
AgainForEver ==   \* mutant: no deadline
    /\ pc = "again" /\ doomed' = kids /\ pc' = "kill"
    /\ UNCHANGED <<lab, verdict, choice, timedout, status, grader, code, kids, loud>>

Again ==
    /\ pc = "again"
    /\ \/ doomed' = kids /\ pc' = "kill" /\ UNCHANGED <<lab, verdict>>
       \/ End("broken") /\ UNCHANGED <<pending, vms, on, disk, doomed>>
    /\ UNCHANGED <<choice, timedout, status, grader, code, kids, loud>>

(* The threads that drain the pipes end when nobody can write any more. *)
Join ==
    /\ pc = "join" /\ Alive \subseteq Silent
    /\ pc' = "verdict" /\ UNCHANGED <<lab, choice, outcome, run>>

StatusFirst ==   \* mutant: the exit status is looked at before the limits
    IF status = 0 THEN "PASS" ELSE IF timedout \/ loud THEN "ERROR"
    ELSE IF status = 1 THEN "FAIL" ELSE "ERROR"

Outcome ==
    IF timedout \/ loud THEN "ERROR"
    ELSE IF status = 0 THEN "PASS"
    ELSE IF status = 1 THEN "FAIL" ELSE "ERROR"

Report ==
    /\ pc = "verdict" /\ End(Outcome)
    /\ UNCHANGED <<pending, vms, on, disk, choice, timedout, status, run>>

-----------------------------------------------------------------------------
(* The grader, other commands, and guests. *)

(* Whoever of its processes is alive may start another one. *)
Fork ==
    /\ Alive # {} /\ \E k \in Processes \ kids : kids' = kids \union {k}
    /\ UNCHANGED <<lab, pc, choice, outcome, grader, code, doomed, loud>>

KidExit ==
    /\ \E k \in kids : kids' = kids \ {k}
    /\ UNCHANGED <<lab, pc, choice, outcome, grader, code, doomed, loud>>

WriteMuch ==
    /\ Alive # {} /\ ~loud /\ loud' = TRUE
    /\ UNCHANGED <<lab, pc, choice, outcome, grader, code, kids, doomed>>

GraderExit ==
    /\ grader = "running" /\ pc = "communicate"
    /\ grader' = "exited" /\ code' \in {0, 1, 2}
    /\ UNCHANGED <<lab, pc, choice, outcome, kids, doomed, loud>>

(* Another command of labctl takes the lock, and changes the lab under it. *)
OtherBegin ==
    /\ lock = "nobody" /\ lock' = "other"
    /\ UNCHANGED <<pending, vms, on, disk, pc, choice, outcome, run>>

OtherEnd ==
    /\ lock = "other" /\ lock' = "nobody"
    /\ on' \in SUBSET VMs /\ vms' = [v \in VMs |-> IF v \in on' THEN "ready" ELSE "stopped"]
    /\ pending' = FALSE
    /\ UNCHANGED <<disk, pc, choice, outcome, run>>

GuestOff ==
    /\ \E v \in on : on' = on \ {v}
    /\ UNCHANGED <<lock, pending, vms, disk, pc, choice, outcome, run>>

Running ==
    \/ CheckDrift \/ AskReset \/ KeepDisks \/ RefuseOptions \/ ResetDeclared \/ StartAll
    \/ BuildContext \/ Spawn \/ Collect \/ TimeOut \/ Scan \/ Kill \/ Again \/ Join \/ Report

Surroundings ==
    \/ Fork \/ KidExit \/ WriteMuch \/ GraderExit
    \/ OtherBegin \/ OtherEnd \/ GuestOff

Next == BeginGrade \/ Running \/ Surroundings

Spec == Init /\ [][Next]_vars

(* The command itself goes on, the prompt is answered, and deadlines pass: nothing is assumed of
   the grader, which may neither exit nor stop starting processes. *)
DeadlinePasses == Again /\ verdict' = "broken"
FairSpec == Spec /\ WF_vars(Running) /\ SF_vars(DeadlinePasses)

-----------------------------------------------------------------------------
(* Properties. *)

(* Every variable holds a value of its type. *)
TypeOK ==
    /\ lock \in {"nobody", "grade", "other"} /\ pending \in BOOLEAN
    /\ vms \in [VMs -> {"ready", "stopped"}] /\ on \subseteq VMs
    /\ disk \in [VMs -> {"learner", "fresh"}]
    /\ pc \in {"idle", "drift", "options", "reset", "start", "hosts", "spawn",
               "communicate", "scan", "kill", "again", "join", "verdict"}
    /\ reset \in BOOLEAN /\ consent \in BOOLEAN /\ timedout \in BOOLEAN /\ loud \in BOOLEAN
    /\ verdict \in {"none", "PASS", "FAIL", "ERROR", "refused", "broken"}
    /\ status \in {Unset, 0, 1, 2, 9} /\ code \in {Unset, 0, 1, 2, 9}
    /\ grader \in {"none", "running", "exited", "reaped"}
    /\ kids \subseteq Processes /\ doomed \subseteq Processes

(* docs/grading.md: "kills and reaps adopted descendants including processes
   that escape with setsid".  When a verdict is given, nothing of the grader is
   left running, whatever it started and when. *)
NothingSurvives == verdict \in {"PASS", "FAIL", "ERROR"} => Alive = {}

(* PASS and FAIL are the grader's own exit statuses 0 and 1, given in time and
   within the output limit; that the status of a killed grader reads as 0
   never makes a pass. *)
VerdictIsEarned ==
    /\ verdict = "PASS" => code = 0 /\ ~timedout /\ ~loud
    /\ verdict = "FAIL" => code = 1 /\ ~timedout /\ ~loud

(* docs/grading.md: the prompt "precedes all reset/start/grader activity", and
   clean-baseline grading resets the declared VMs, while "preserved VMs are
   started without replacing their disks". *)
ResetIsConsented ==
    /\ (\E v \in VMs : disk[v] = "fresh") => reset /\ consent
    /\ pc \in {"spawn", "communicate"} =>
          {v \in VMs : disk[v] = "fresh"} = (IF reset THEN ResetVms ELSE {})

(* Grading ends, whatever the grader does: it may ignore its time limit, leave
   processes behind that hold its pipes, or fork while it is being killed. *)
GradingEnds == pc # "idle" ~> pc = "idle"
=============================================================================
