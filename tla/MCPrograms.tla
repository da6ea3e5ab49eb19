----------------------------- MODULE MCPrograms -----------------------------
(* Nook and the programs around it: the child, the shell and others during  *)
(* one run, and what replaces nook itself, on Unix and on Windows.  The     *)
(* parts share no state; Init picks the one a behaviour is about.           *)
EXTENDS RunSupervisor, SelfUpdate, DeferredUpdate

CONSTANTS c1, c2

VARIABLE subject

programVars == <<subject, supervisorVars, updateVars, deferredVars>>

ProgramsInit ==
    /\ subject \in {"run", "update", "deferred"}
    /\ SupervisorInit /\ UpdateInit /\ DeferredInit
    /\ subject # "run" => jobControl /\ tty = "job"

ProgramsNext ==
    /\ UNCHANGED subject
    /\ \/ /\ subject = "run" /\ SupervisorNext
          /\ UNCHANGED <<updateVars, deferredVars>>
       \/ /\ subject = "update" /\ UpdateNext
          /\ UNCHANGED <<supervisorVars, deferredVars>>
       \/ /\ subject = "deferred" /\ DeferredNext
          /\ UNCHANGED <<supervisorVars, updateVars>>

ProgramsFairness ==
    \/ subject = "run" /\ SupervisorFairness
    \/ subject = "update" /\ UpdateFairness
    \/ subject = "deferred" /\ DeferredFairness

ProgramsSpec == ProgramsInit /\ [][ProgramsNext]_programVars /\ ProgramsFairness
=============================================================================
