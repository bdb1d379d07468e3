----------------------------- MODULE AcpAttempt ------------------------------
(***************************************************************************)
(* One ACP attempt: AcpClientRuntime.run with its fresh agent process, the *)
(* callbacks the agent makes while a prompt runs, the race of prompt,      *)
(* fatal signal, token and timeout, the teardown that always runs to its   *)
(* end, and the adapters (Worker; Planner and Reviewer) that record it.    *)
(***************************************************************************)
EXTENDS ProcessTree

CONSTANTS MaxUpdates  \* limits.max_updates

ASSUME AcpAssumption == MaxUpdates \in Nat

VARIABLES fatal,    \* _FatalSignal.error
          prompt,   \* prompt_task
          updates,  \* session updates accepted
          wrote     \* when the agent changed the workspace: before or after the adapter looked

acpVars == <<fatal, prompt, updates, wrote>>

AcpInit == fatal = "none" /\ prompt = "none" /\ updates = 0 /\ wrote = "no"

IsAcp == kind \in {"worker", "reader"}

\* The SDK connection is open and dispatches what the agent sends.
Connected == phase \in {"init", "session", "prompt", "settle", "cleanup", "close"}

----------------------------------------------------------------------------
\* The sink's start event; without it nothing is spawned.
SinkStart ==
  /\ IsAcp /\ phase = "idle"
  /\ \/ /\ phase' = "spawn"
        /\ UNCHANGED <<broken, faults, report>>
     \/ /\ faults < MaxFaults
        /\ faults' = faults + 1 /\ broken' = TRUE
        /\ report' = "failed" /\ phase' = "done"
  /\ UNCHANGED <<kind, cancel, record, procs, kidPipe, targets, owed, primary, cleanup, acpVars>>

\* spawn_acp_agent_connection: no process, a process whose connection cannot be
\* built and which is rolled back, or both.
SpawnAgent ==
  /\ IsAcp /\ phase = "spawn"
  /\ \/ /\ phase' = "record" /\ primary' = "failed"
        /\ UNCHANGED procs
     \/ /\ phase' = "stop" /\ primary' = "failed"
        /\ procs' = [procs EXCEPT !["root"] = "alive"]
     \/ /\ phase' = "init"
        /\ procs' = [procs EXCEPT !["root"] = "alive"]
        /\ UNCHANGED primary
  /\ UNCHANGED <<attemptVars, kidPipe, targets, owed, cleanup, acpVars>>

\* initialize, then new_session: neither is bounded and neither watches the token.
Handshake ==
  /\ phase \in {"init", "session"}
  /\ \/ /\ procs["root"] = "alive"
        /\ phase' = IF phase = "init" THEN "session" ELSE "prompt"
        /\ prompt' = IF phase = "init" THEN "none" ELSE "pending"
        /\ UNCHANGED primary
     \/ /\ phase' = "cleanup" /\ primary' = "failed"
        /\ UNCHANGED prompt
  /\ UNCHANGED <<attemptVars, procs, kidPipe, targets, owed, cleanup, fatal, updates, wrote>>

----------------------------------------------------------------------------
(* Callbacks.  Once the signal is set they are ignored.                    *)

\* The ledger refuses the event: a fatal error that also marks the sink.  A reader's
\* sink only collects text and cannot fail.
EmitFails ==
  /\ kind = "worker" /\ faults < MaxFaults
  /\ faults' = faults + 1 /\ broken' = TRUE /\ fatal' = "sink"

\* session_update: another session (none is bound before new_session), an update that
\* is too large or cannot be serialised, and the count limit are fatal.
SessionUpdate ==
  /\ Connected /\ "root" \in Alive /\ fatal = "none"
  /\ \/ /\ fatal' = "protocol"
        /\ UNCHANGED <<updates, faults, broken>>
     \/ /\ phase \notin {"init", "session"}
        /\ updates' = updates + 1
        /\ \/ /\ updates + 1 > MaxUpdates /\ fatal' = "limit"
              /\ UNCHANGED <<faults, broken>>
           \/ /\ updates + 1 <= MaxUpdates
              /\ \/ EmitFails
                 \/ UNCHANGED <<fatal, faults, broken>>
  /\ UNCHANGED <<kind, cancel, record, report, treeVars, prompt, wrote>>

\* The permission policy: a Planner or Reviewer is always refused, and of a Worker only
\* an edit whose every path is inside the worktree is granted.
Grants == IF kind = "worker" THEN BOOLEAN ELSE {FALSE}

\* request_permission: requested and resolved are recorded around the policy's answer.
\* The agent makes the edit it was granted, also when recording the answer failed.
RequestPermission ==
  /\ Connected /\ phase \notin {"init", "session"} /\ "root" \in Alive /\ fatal = "none"
  /\ \/ EmitFails
     \/ UNCHANGED <<fatal, faults, broken>>
  /\ \E granted \in Grants : wrote' = IF granted THEN "before" ELSE wrote
  /\ UNCHANGED <<kind, cancel, record, report, treeVars, prompt, updates>>

\* An agent can write without asking: nothing but the fingerprint sees it, and nothing
\* sees what a process that is still there writes after the fingerprint.
AgentWrites ==
  /\ IsAcp /\ report = "none" /\ Alive # {} /\ wrote = "no"
  /\ wrote' = IF phase = "checked" THEN "after" ELSE "before"
  /\ UNCHANGED <<attemptVars, treeVars, fatal, prompt, updates>>

PromptReturns ==
  /\ prompt = "pending" /\ Connected
  /\ \/ "root" \in Alive /\ prompt' \in {"done", "error"}
     \/ "root" \notin Alive /\ prompt' = "error"
  /\ UNCHANGED <<attemptVars, treeVars, fatal, updates, wrote>>

----------------------------------------------------------------------------
(* _run_prompt                                                             *)

\* After FIRST_COMPLETED or the timeout: fatal, then the token, then the timeout.
StopPrompt ==
  /\ phase = "prompt"
  /\ \/ fatal # "none" /\ primary' = "failed"
     \/ fatal = "none" /\ cancel /\ primary' = "cancelled"
     \/ fatal = "none" /\ ~cancel /\ prompt = "pending" /\ primary' = "failed"
  /\ phase' = "settle"
  /\ UNCHANGED <<attemptVars, procs, kidPipe, targets, owed, cleanup, acpVars>>

\* Only a finished prompt without fatal error and without cancellation is a result;
\* callbacks that run after this are not looked at again.
TakeResult ==
  /\ phase = "prompt" /\ fatal = "none" /\ ~cancel /\ prompt \in {"done", "error"}
  /\ primary' = IF prompt = "done" THEN "none" ELSE "failed"
  /\ phase' = "cleanup"
  /\ UNCHANGED <<attemptVars, procs, kidPipe, targets, owed, cleanup, acpVars>>

\* Mutation: the cancelled prompt is awaited without a bound.
SettleUnbounded ==
  /\ phase = "settle" /\ prompt # "pending"
  /\ phase' = "cleanup"
  /\ UNCHANGED <<attemptVars, procs, kidPipe, targets, owed, primary, cleanup, acpVars>>

\* _cancel_and_settle: bounded; a prompt that is still pending is cancelled.
Settle ==
  /\ phase = "settle"
  /\ phase' = "cleanup"
  /\ prompt' = IF prompt = "pending" THEN "cancelling" ELSE prompt
  /\ UNCHANGED <<attemptVars, procs, kidPipe, targets, owed, primary, cleanup, fatal, updates,
                 wrote>>

----------------------------------------------------------------------------
(* The teardown, shielded from further cancellation.                       *)

\* Mutation: no snapshot, only the walk after the connection was closed.
SnapshotNothing ==
  /\ phase = "cleanup"
  /\ phase' = "close" /\ owed' = Reach
  /\ UNCHANGED <<attemptVars, procs, kidPipe, targets, primary, cleanup, acpVars>>

\* capture_process_tree, before anything may make the root exit.
Snapshot ==
  /\ phase = "cleanup"
  /\ phase' = "close"
  /\ \/ /\ targets' = Reach /\ owed' = Reach
        /\ UNCHANGED <<faults, cleanup>>
     \/ /\ faults < MaxFaults
        /\ faults' = faults + 1 /\ cleanup' = TRUE
        /\ UNCHANGED <<targets, owed>>
  /\ UNCHANGED <<kind, cancel, record, broken, report, procs, kidPipe, primary, acpVars>>

\* close_session (best effort) and the connection, each bounded; a connection that does
\* not close is a protocol error unless the attempt failed already.
CloseConnection ==
  /\ phase = "close"
  /\ phase' = "stop"
  /\ \/ UNCHANGED primary
     \/ primary = "none" /\ primary' = "failed"
  /\ UNCHANGED <<attemptVars, procs, kidPipe, targets, owed, cleanup, acpVars>>

\* _drain_owned_tasks: a prompt that resists cancellation is a cleanup error.
Drain ==
  /\ IsAcp /\ phase = "killed"
  /\ phase' = "record"
  /\ \/ UNCHANGED <<faults, cleanup>>
     \/ /\ prompt = "cancelling" /\ faults < MaxFaults
        /\ faults' = faults + 1 /\ cleanup' = TRUE
  /\ UNCHANGED <<kind, cancel, record, broken, report, procs, kidPipe, targets, owed, primary,
                 acpVars>>

----------------------------------------------------------------------------
(* The adapters.                                                           *)

\* What run() raised or returned: a cleanup error hides the primary one.
Raised == IF cleanup THEN "failed" ELSE primary

\* One terminal event, unless the ledger refuses it: then the attempt failed.
Recorded(r, write) ==
  \/ /\ write /\ report' = r
     /\ UNCHANGED <<broken, faults>>
  \/ /\ faults < MaxFaults
     /\ faults' = faults + 1 /\ broken' = TRUE
     /\ report' = "failed"
     /\ UNCHANGED record

\* AcpWorkerAttemptAdapter and the readers' _fail; a broken sink takes nothing more
\* and turns a cancellation into a failure.
RecordFailure ==
  /\ Raised # "none"
  /\ \/ broken /\ report' = "failed" /\ UNCHANGED <<record, broken, faults>>
     \/ ~broken /\ Recorded(Raised, RecordFailed)

\* sink.complete does not look at an earlier failed append.
RecordWorkerResult ==
  /\ Raised = "none" /\ kind = "worker"
  /\ \/ Recorded("completed", RecordCompleted)
     \/ broken /\ report' = "failed" /\ UNCHANGED <<record, broken, faults>>

\* Mutation: the fingerprints are not compared.
CheckNothing ==
  /\ Raised = "none" /\ kind = "reader" /\ phase = "record"
  /\ phase' = "checked"
  /\ UNCHANGED <<attemptVars, procs, kidPipe, targets, owed, primary, cleanup, acpVars>>

\* run_acp_semantic_prompt, for a Planner or Reviewer: the workspace must be as it was.
\* A fingerprint that cannot be taken fails the attempt as well.
CheckWorkspace ==
  /\ Raised = "none" /\ kind = "reader" /\ phase = "record"
  /\ \/ /\ wrote = "no" /\ phase' = "checked"
        /\ UNCHANGED primary
     \/ /\ primary' = "failed"
        /\ UNCHANGED phase
  /\ UNCHANGED <<attemptVars, procs, kidPipe, targets, owed, cleanup, acpVars>>

\* Then its text must parse.
RecordReading ==
  /\ phase = "checked"
  /\ Recorded("completed", RecordCompleted) \/ Recorded("failed", RecordFailed)

RecordOutcome ==
  /\ IsAcp /\ phase \in {"record", "checked"}
  /\ RecordFailure \/ RecordWorkerResult \/ RecordReading
  /\ phase' = "done"
  /\ UNCHANGED <<kind, cancel, procs, kidPipe, targets, owed, primary, cleanup, acpVars>>

AcpStep ==
  \/ StopPrompt \/ TakeResult \/ Settle \/ Snapshot \/ CloseConnection \/ Drain \/ CheckWorkspace
  \/ RecordOutcome

AcpStarting == SinkStart \/ SpawnAgent \/ Handshake

AcpWorld == SessionUpdate \/ RequestPermission \/ AgentWrites \/ PromptReturns
=============================================================================
