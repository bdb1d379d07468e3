----------------------------- MODULE ProcessTree -----------------------------
(***************************************************************************)
(* A spawned process, the one descendant it may fork, and what             *)
(* process_runtime does about them: ProcessRunner's wait for the exit, the *)
(* deadline or the token, the tree walk, the kill, and the join of the     *)
(* threads that capture the output.  A descendant can be found from its    *)
(* root only while the root lives.                                         *)
(***************************************************************************)
EXTENDS Attempt

VARIABLES phase,    \* where the runner, or the ACP client, is
          procs,    \* the processes
          kidPipe,  \* the descendant inherited the captured pipes
          targets,  \* handles to terminate
          owed,     \* processes that were within reach when the cleanup began
          primary,  \* what ended the wait: "none" is a normal end
          cleanup   \* a ProcessCleanupError was caught

treeVars == <<phase, procs, kidPipe, targets, owed, primary, cleanup>>

Names == {"root", "kid"}

TreeInit ==
  /\ phase = "idle"
  /\ procs = [p \in Names |-> "none"] /\ kidPipe = FALSE
  /\ targets = {} /\ owed = {}
  /\ primary = "none" /\ cleanup = FALSE

Alive == {p \in Names : procs[p] = "alive"}

\* psutil.Process(pid) and children(recursive=True).
Reach == IF "root" \in Alive THEN Alive ELSE {}

Dead(S) == [p \in Names |-> IF p \in S THEN "dead" ELSE procs[p]]

\* Someone holds the write end, so the capture threads cannot see the end.
PipeHeld == "root" \in Alive \/ ("kid" \in Alive /\ kidPipe)

----------------------------------------------------------------------------
(* The processes themselves.                                               *)

Fork ==
  /\ report = "none" /\ procs["root"] = "alive" /\ procs["kid"] = "none"
  /\ procs' = [procs EXCEPT !["kid"] = "alive"]
  /\ kidPipe' \in BOOLEAN
  /\ UNCHANGED <<attemptVars, phase, targets, owed, primary, cleanup>>

Exits(p) ==
  /\ report = "none" /\ p \in Alive
  /\ procs' = Dead({p})
  /\ UNCHANGED <<attemptVars, phase, kidPipe, targets, owed, primary, cleanup>>

----------------------------------------------------------------------------
(* terminate_process_tree.                                                 *)

\* The fresh walk, united with a snapshot if there is one; psutil may refuse.
Walk ==
  /\ phase = "stop"
  /\ \/ /\ targets' = targets \cup Reach
        /\ owed' = owed \cup Reach
        /\ phase' = "kill"
        /\ UNCHANGED <<faults, cleanup>>
     \/ /\ faults < MaxFaults
        /\ faults' = faults + 1 /\ cleanup' = TRUE
        /\ phase' = "killed"
        /\ UNCHANGED <<targets, owed>>
  /\ UNCHANGED <<kind, cancel, record, broken, report, procs, kidPipe, primary>>

\* terminate, half a second, kill, one second; survivors are an error.
Kill ==
  /\ phase = "kill"
  /\ phase' = "killed"
  /\ \/ /\ procs' = Dead(targets)
        /\ UNCHANGED <<faults, cleanup>>
     \/ /\ faults < MaxFaults
        /\ \E S \in SUBSET (targets \cap Alive) \ {{}} : procs' = Dead(targets \ S)
        /\ faults' = faults + 1 /\ cleanup' = TRUE
  /\ UNCHANGED <<kind, cancel, record, broken, report, kidPipe, targets, owed, primary>>

----------------------------------------------------------------------------
(* ProcessRunner.run                                                       *)

Spawn ==
  /\ kind = "process" /\ phase = "idle"
  /\ \/ /\ procs' = [procs EXCEPT !["root"] = "alive"] /\ phase' = "wait"
        /\ UNCHANGED report
     \/ /\ report' = "failed" /\ phase' = "done"
        /\ UNCHANGED procs
  /\ UNCHANGED <<kind, cancel, record, broken, faults, kidPipe, targets, owed, primary, cleanup>>

\* The loop: the deadline may have passed whatever the process did meanwhile.
StopWaiting ==
  /\ kind = "process" /\ phase = "wait"
  /\ \/ primary' = "timeout"
     \/ cancel /\ primary' = "cancelled"
  /\ phase' = "stop"
  /\ UNCHANGED <<attemptVars, procs, kidPipe, targets, owed, cleanup>>

NoticeExit ==
  /\ kind = "process" /\ phase = "wait" /\ procs["root"] = "dead"
  /\ phase' = "join"
  /\ UNCHANGED <<attemptVars, procs, kidPipe, targets, owed, primary, cleanup>>

\* process.wait(timeout=2) after the kill.
Reap ==
  /\ kind = "process" /\ phase = "killed"
  /\ phase' = "join"
  /\ cleanup' = (cleanup \/ "root" \in Alive)
  /\ UNCHANGED <<attemptVars, procs, kidPipe, targets, owed, primary>>

\* The exception in flight wins; then capture threads that are still blocked after
\* three seconds; otherwise a ProcessResult, timed_out or not.
Join ==
  /\ kind = "process" /\ phase = "join"
  /\ report' = IF cleanup THEN "failed"
               ELSE IF primary = "cancelled" THEN "cancelled"
               ELSE IF PipeHeld THEN "failed"
               ELSE IF primary = "timeout" THEN "timeout" ELSE "completed"
  /\ phase' = "done"
  /\ UNCHANGED <<kind, cancel, record, broken, faults, procs, kidPipe, targets, owed, primary,
                 cleanup>>

TreeStep == Walk \/ Kill \/ Spawn \/ StopWaiting \/ NoticeExit \/ Reap \/ Join

TreeWorld == Fork \/ \E p \in Names : Exits(p)
=============================================================================
