---------------------------- MODULE RunLifecycle ----------------------------
(***************************************************************************)
(* What a canonical Run promises to everybody who looks at its status: it  *)
(* is started once, it pauses for the user and resumes only from that      *)
(* pause, and once it is terminal nothing moves it again.  The projector   *)
(* enforces none of this by itself (a deliberate choice, see projector.py);*)
(* RunCore, the ledger with its recorders, is shown to implement it.       *)
(***************************************************************************)
VARIABLE status

Terminal == {"SUCCEEDED", "FAILED", "CANCELLED", "INTERRUPTED"}

Created == status = "CREATED"

\* run.started, or run.failed when the start could not be recorded.
Start == /\ status = "CREATED"
         /\ status' \in {"RUNNING", "FAILED"}

\* The Run stops running: a pause for the user or a terminal status.
Stop == /\ status = "RUNNING"
        /\ status' \in {"WAITING_USER"} \cup Terminal

\* The user's decision settles a pending proposal, an answer or a follow-up
\* resumes the Run, the host may give up on it.  A waiting Run is never
\* interrupted: recovery leaves it to the user.
Decide == /\ status = "WAITING_USER"
          /\ status' \in {"RUNNING", "SUCCEEDED", "FAILED", "CANCELLED"}

LifecycleNext == Start \/ Stop \/ Decide

LifecycleSpec == Created /\ [][LifecycleNext]_status
=============================================================================
