----------------------------- MODULE MCHostRun -----------------------------
(***************************************************************************)
(* TLC instances of HostRun.  The "host" run checks the union of four      *)
(* scenarios: every Run, on one file, with one failure or with one edit;   *)
(* one Run, on every file, with several failures or with one and an edit.  *)
(* "stuck" and "stale" are the pipeline alone.                             *)
(***************************************************************************)
EXTENDS HostRun

CONSTANTS p1, p2, d1

VARIABLE scenario

Scenarios == {[runs |-> MaxRuns, paths |-> {p1}, faults |-> 1, edits |-> 0],
              [runs |-> MaxRuns, paths |-> {p1}, faults |-> 0, edits |-> MaxEdits],
              [runs |-> 1, paths |-> Paths, faults |-> MaxFaults, edits |-> 0],
              [runs |-> 1, paths |-> Paths, faults |-> 1, edits |-> MaxEdits]}

\* A thread that _active does not know ends an instance: nothing is claimed after it.
Within ==
  /\ UNCHANGED scenario /\ ~strayed
  /\ \A r \in RunIds : r > scenario.runs => status'[r] = "none"
  /\ main'.wanted \subseteq scenario.paths
  /\ \A p \in Paths \ scenario.paths : file'[p] = file[p]
  /\ faults' <= scenario.faults /\ edits' <= scenario.edits

ScenarioInit == Init /\ scenario \in Scenarios
ScenarioNext == Next /\ Within
ScenarioSpec == ScenarioInit /\ [][ScenarioNext]_<<vars, scenario>>
=============================================================================
