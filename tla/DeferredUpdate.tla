--------------------------- MODULE DeferredUpdate ---------------------------
(***************************************************************************)
(* The replacement of the binary on Windows, where a running executable    *)
(* cannot be replaced: an update leaves the verified binary to a script,   *)
(* which waits until no nook runs, tries to move it into place and, after  *)
(* the third failure no running nook explains, writes the result file that *)
(* the next command reports.  Commands and scripts run concurrently, and   *)
(* nothing but Windows' sharing of open files orders what they do with it. *)
(***************************************************************************)
EXTENDS Naturals

CONSTANTS Nooks   \* processes running nook; each may have left one script

ASSUME NooksAreNoFileState == Nooks \cap {"none", "empty"} = {}

VARIABLES
    nooks,     \* what each process does
    holds,      \* what each process has read of the result file
    scripts,   \* the script of the last update of each process
    result,    \* nook.update-error.txt: the script whose failure it reports
    \* history: scripts that failed and no command has said so since, and
    \* those whose failure met one of the cases in which it is lost
    untold, excused

deferredVars == <<nooks, holds, scripts, result, untold, excused>>

NoScript == [at |-> "none", failures |-> 0]

Activities == {"idle", "start", "read", "tell", "run", "update"}
FileStates == {"none", "empty"} \cup Nooks

DeferredTypeOK ==
    /\ nooks \in [Nooks -> Activities]
    /\ holds \in [Nooks -> FileStates]
    /\ scripts \in [Nooks -> [at : {"none", "parent", "look", "move", "judge", "give", "write"},
                             failures : 0..2]]
    /\ result \in FileStates
    /\ untold \subseteq Nooks /\ excused \subseteq Nooks

Become(n, activity) == nooks' = [nooks EXCEPT ![n] = activity]

\* Get-NookUpdateBlockers: the processes of the installed binary
Blocked == \E n \in Nooks : nooks[n] # "idle"

\* WriteAllText shares the file it has open with readers, not with writers
\* or those who remove it
HasItOpen(s) == scripts[s].at = "write"
Locked == \E s \in Nooks : HasItOpen(s)

-----------------------------------------------------------------------------
(* Commands.  A process that left a script is not reused while it waits.   *)

\* History: the failure of a script that is past its last look at the running
\* processes may be lost to a command that starts only now.
StartNook(n) ==
    /\ nooks[n] = "idle" /\ scripts[n].at # "parent"
    /\ Become(n, "start")
    /\ excused' = excused \cup {s \in Nooks : scripts[s].at \in {"give", "write"}}
    /\ UNCHANGED <<holds, scripts, result, untold>>

\* Mutation of ReadResult: only an update looks at the result.
ReadResultToUpdate(n) ==
    /\ nooks[n] = "start"
    /\ \/ result = "none" /\ Become(n, "update") /\ UNCHANGED holds
       \/ result # "none" /\ Become(n, "read") /\ holds' = [holds EXCEPT ![n] = result]
       \/ Become(n, "run") /\ UNCHANGED holds
    /\ UNCHANGED <<scripts, result, untold, excused>>

\* report_deferred_update_failure: the message is read, or as much of it as
\* there is, ...
ReadResult(n) ==
    /\ nooks[n] = "start"
    /\ holds' = [holds EXCEPT ![n] = result]
    /\ IF result # "none" THEN Become(n, "read")
       ELSE \E activity \in {"run", "update"} : Become(n, activity)
    /\ UNCHANGED <<scripts, result, untold, excused>>

\* ... the file removed, whatever it says by then; an error is ignored ...
RemoveResult(n) ==
    /\ nooks[n] = "read"
    /\ result' = IF Locked THEN result ELSE "none"
    /\ Become(n, "tell")
    /\ UNCHANGED <<holds, scripts, untold, excused>>

\* ... and what was read is printed, unless it is empty.
TellResult(n) ==
    /\ nooks[n] = "tell"
    /\ untold' = untold \ {holds[n]}
    /\ holds' = [holds EXCEPT ![n] = "none"]
    /\ \E activity \in {"run", "update"} : Become(n, activity)
    /\ UNCHANGED <<scripts, result, excused>>

\* replace_binary: an older result goes away, read or not, before the script
\* is spawned, or the update fails.  The spawn may fail; then the new binary
\* is removed.
ScheduleSwap(n) ==
    /\ nooks[n] = "update" /\ scripts[n] = NoScript
    /\ IF Locked THEN UNCHANGED <<result, scripts>>
       ELSE /\ result' = "none"
            /\ \E spawned \in BOOLEAN :
                 scripts' = [scripts EXCEPT ![n].at = IF spawned THEN "parent" ELSE "none"]
    /\ Become(n, "run")
    /\ UNCHANGED <<holds, untold, excused>>

NookEnds(n) ==
    /\ nooks[n] \in {"run", "update"}
    /\ Become(n, "idle")
    /\ UNCHANGED <<holds, scripts, result, untold, excused>>

\* Killed at any point; a message it has read and removed is gone.
NookKilled(n) ==
    /\ nooks[n] # "idle"
    /\ Become(n, "idle")
    /\ excused' = IF nooks[n] = "tell" THEN excused \cup ({holds[n]} \cap Nooks) ELSE excused
    /\ holds' = [holds EXCEPT ![n] = "none"]
    /\ UNCHANGED <<scripts, result, untold>>

-----------------------------------------------------------------------------
(* The script.                                                             *)

Continue(n, at) == scripts' = [scripts EXCEPT ![n].at = at]
ScriptOnly == UNCHANGED <<nooks, holds, result, untold, excused>>

\* Wait-Process on the parent, then on every nook there was
AwaitParent(n) ==
    /\ scripts[n].at = "parent"
    /\ nooks[n] = "idle"
    /\ Continue(n, "look")
    /\ ScriptOnly

AwaitNooks(n) ==
    /\ scripts[n].at = "look"
    /\ ~Blocked
    /\ Continue(n, "move")
    /\ ScriptOnly

\* Move-Item: never over a running binary
MoveBinary(n) ==
    /\ scripts[n].at = "move"
    /\ ~Blocked
    /\ scripts' = [scripts EXCEPT ![n] = NoScript]
    /\ ScriptOnly

\* A nook started since, or something else holds the file
MoveFails(n) ==
    /\ scripts[n].at = "move"
    /\ Continue(n, "judge")
    /\ ScriptOnly

\* A running nook explains the failure; otherwise the third one is final
Retry(n) ==
    /\ scripts[n].at = "judge"
    /\ Blocked \/ scripts[n].failures < 2
    /\ scripts' = [scripts EXCEPT ![n].at = "look",
                                ![n].failures = IF Blocked THEN @ ELSE @ + 1]
    /\ ScriptOnly

\* From here on the script looks at no process any more.
GiveUp(n) ==
    /\ scripts[n].at = "judge"
    /\ ~Blocked /\ scripts[n].failures = 2
    /\ Continue(n, "give")
    /\ untold' = untold \cup {n}
    /\ excused' = excused \ {n}
    /\ UNCHANGED <<nooks, holds, result>>

\* WriteAllText truncates the file, and an older message with it.  It throws
\* while another script has the file open, and the script ends.
OpenResult(n) ==
    /\ scripts[n].at = "give"
    /\ IF Locked
         THEN /\ scripts' = [scripts EXCEPT ![n] = NoScript]
              /\ excused' = excused \cup {n}
              /\ UNCHANGED result
         ELSE /\ Continue(n, "write")
              /\ result' = "empty"
              /\ excused' = excused \cup ({result} \cap Nooks)
    /\ UNCHANGED <<nooks, holds, untold>>

WriteResult(n) ==
    /\ scripts[n].at = "write"
    /\ result' = n
    /\ scripts' = [scripts EXCEPT ![n] = NoScript]
    /\ UNCHANGED <<nooks, holds, untold, excused>>

-----------------------------------------------------------------------------
DeferredInit ==
    /\ nooks = [n \in Nooks |-> "idle"]
    /\ holds = [n \in Nooks |-> "none"]
    /\ scripts = [n \in Nooks |-> NoScript]
    /\ result = "none"
    /\ untold = {} /\ excused = {}

ScriptStep(n) ==
    \/ AwaitParent(n) \/ AwaitNooks(n) \/ MoveBinary(n) \/ MoveFails(n)
    \/ Retry(n) \/ GiveUp(n) \/ OpenResult(n) \/ WriteResult(n)

DeferredNext ==
    \E n \in Nooks :
      \/ StartNook(n) \/ ReadResult(n) \/ RemoveResult(n) \/ TellResult(n)
      \/ ScheduleSwap(n) \/ NookEnds(n) \/ NookKilled(n)
      \/ ScriptStep(n)

NookStep(n) ==
    ReadResult(n) \/ RemoveResult(n) \/ TellResult(n) \/ NookEnds(n)

\* Users go on running commands, which go on unless killed, and not all are
\* killed when they get to the same place. A script whose turn it is goes on.
DeferredFairness ==
    /\ \A n \in Nooks : WF_deferredVars(NookStep(n)) /\ WF_deferredVars(ScriptStep(n))
    /\ SF_deferredVars(\E n \in Nooks : StartNook(n))
    /\ SF_deferredVars(\E n \in Nooks : ReadResult(n))
    /\ SF_deferredVars(\E n \in Nooks : RemoveResult(n))
    /\ SF_deferredVars(\E n \in Nooks : TellResult(n))

DeferredSpec == DeferredInit /\ [][DeferredNext]_deferredVars /\ DeferredFairness

-----------------------------------------------------------------------------
\* README.md:414-415: "If that deferred replacement fails, the next Nook
\* invocation reports the persisted failure on stderr." A failed replacement
\* does not stay hidden: some later command prints what the script wrote,
\* though commands and scripts read, remove, truncate and write the one file
\* concurrently, and are killed. Three exceptions the code does make:
\*   - a command started between the script's last look at the processes and
\*     its message (update.rs:528, 534): it removes the message unread if it
\*     updates (update.rs:555) or has read an older one (update.rs:609);
\*   - the reader was killed between removing and printing it (609, 612);
\*   - another script's message replaced it or kept it out (534).
FailureReachesUser ==
    \A s \in Nooks : s \in untold \ excused ~> s \notin untold \/ s \in excused
=============================================================================
