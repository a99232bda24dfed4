---------------------------- MODULE HostCommand ----------------------------
(***************************************************************************)
(* A labctl command on the host, from its arguments to its exit status:    *)
(* cli.main, Application.execute, and the configuration.  Several run at   *)
(* the same time and share files; what each of them does is in the modules *)
(* that extend this one.                                                   *)
(***************************************************************************)
EXTENDS Sequences, FiniteSets

CONSTANTS
    Procs,      \* processes that run a command of labctl
    None        \* no value

ASSUME NoneAssumption == None \notin Procs

VARIABLES
    op,         \* what each process runs
    pc,         \* and where it is
    exit,       \* the status with which it ends
    loc         \* its local variables

command == <<op, pc, exit, loc>>

(* What a command has read and keeps: an image's digest and whether its
   reference said verified, the content of a definition, the accepted digests,
   whether --allow-untrusted-image was given, the connection, the VMs that it is
   about, and of these the ones that it has yet to work on. *)
Blank == [digest |-> None, verified |-> FALSE, version |-> None, trust |-> {},
          allowed |-> FALSE, uri |-> None, chosen |-> {}, todo |-> {}]

CommandInit ==
    /\ op = [p \in Procs |-> "none"] /\ pc = [p \in Procs |-> "idle"]
    /\ exit = [p \in Procs |-> "none"] /\ loc = [p \in Procs |-> Blank]

-----------------------------------------------------------------------------

(* Process statuses, named for what they are used for here. *)
ExitStatus ==
    [success |-> 0, parse |-> 2, absent |-> 3, conflict |-> 4,
     prerequisite |-> 5, operation |-> 6]

At(p, where) == pc[p] = where
Goto(p, where) == pc' = [pc EXCEPT ![p] = where] /\ UNCHANGED <<op, exit>>
Keep(p, value) == loc' = [loc EXCEPT ![p] = value]
Proceed(p, where) == Goto(p, where) /\ UNCHANGED loc

(* What execute makes of the errors of the handlers: the lock and the existence
   of a lab are known by the words of an OrchestrationError; an ImageError has
   none of its own, not even for the lock of the image. *)
StatusOf(error) ==
    CASE error \in {"exists", "locked"} -> ExitStatus.conflict
      [] error \in {"image", "state"}   -> ExitStatus.operation
      [] OTHER                          -> ExitStatus[error]

Leave(p, error) ==
    /\ pc' = [pc EXCEPT ![p] = "exit"] /\ exit' = [exit EXCEPT ![p] = StatusOf(error)]
    /\ Keep(p, Blank) /\ UNCHANGED op

(* parse_args: what argparse and _validate refuse never reaches a handler. *)
Parse(p, name, first) ==
    /\ At(p, "idle") /\ op' = [op EXCEPT ![p] = name] /\ UNCHANGED loc
    /\ \/ pc' = [pc EXCEPT ![p] = first] /\ UNCHANGED exit
       \/ /\ pc' = [pc EXCEPT ![p] = "exit"]
          /\ exit' = [exit EXCEPT ![p] = StatusOf("parse")]

(* main prints the result or the error, and the process is gone. *)
Return(p) ==
    /\ At(p, "exit")
    /\ op' = [op EXCEPT ![p] = "none"] /\ pc' = [pc EXCEPT ![p] = "idle"]
    /\ exit' = [exit EXCEPT ![p] = "none"] /\ UNCHANGED loc

-----------------------------------------------------------------------------

(* load_config: the file, the environment over it, the arguments over both. *)
Setting(file, environment, argument) ==
    CHOOSE value \in {file, environment, argument} :
        \/ argument # None /\ value = argument
        \/ argument = None /\ environment # None /\ value = environment
        \/ argument = None /\ environment = None /\ value = file
=============================================================================
