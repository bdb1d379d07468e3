---------------------------- MODULE WorkerAttempt ----------------------------
(***************************************************************************)
(* An attempt as the pipeline's worker, planner, reviewer and check ports  *)
(* make it, by whichever of the three mechanisms carries it out.           *)
(***************************************************************************)
EXTENDS AgentSession, AcpAttempt

vars == <<attemptVars, sessionVars, treeVars, acpVars>>

Init == AttemptInit /\ SessionInit /\ TreeInit /\ AcpInit

Running == kind \in {"worker", "reader", "process"} /\ UNCHANGED sessionVars

Session == SessionStep /\ UNCHANGED <<treeVars, acpVars>>

Asked == SessionUser /\ UNCHANGED <<treeVars, acpVars>>

Tree == Running /\ TreeStep /\ UNCHANGED acpVars

World == Running /\ ((TreeWorld /\ UNCHANGED acpVars) \/ AcpWorld)

Acp == Running /\ AcpStep

Starting == Running /\ AcpStarting

HostCancels == Cancel /\ UNCHANGED <<sessionVars, treeVars, acpVars>>

Next == Session \/ Asked \/ Tree \/ World \/ Acp \/ Starting \/ HostCancels

(***************************************************************************)
(* The threads of an attempt keep running and their waits are bounded; a   *)
(* model provider answers or its request times out.  Nothing is assumed of *)
(* the user, the ACP agent or the processes.                               *)
(***************************************************************************)
Spec == Init /\ [][Next]_vars /\ WF_vars(Session) /\ WF_vars(Tree) /\ WF_vars(Acp)

----------------------------------------------------------------------------
\* The variables keep their types, and the counters their limits.
TypeOK ==
  /\ kind \in Kinds /\ cancel \in BOOLEAN /\ broken \in BOOLEAN /\ faults \in 0..MaxFaults
  /\ record \in [completed : Nat, failed : Nat]
  /\ report \in {"none", "completed", "timeout", "cancelled", "failed"}
  /\ state \in {"ready", "running", "waiting_approval", "completed", "failed"}
  /\ at \in {"idle", "respond", "model", "batch", "tool", "approval", "over"}
  /\ turns \in 0..MaxTurns /\ calls \in 0..MaxCalls /\ errors \in 0..MaxErrors + 1
  /\ batch \in Seq(CallIds) /\ cur \in CallIds \cup {"none"}
  /\ DOMAIN prepared \subseteq CallIds /\ granted \subseteq CallIds
  /\ ran \in [CallIds -> Nat]
  /\ procs \in [Names -> {"none", "alive", "dead"}]
  /\ targets \subseteq Names /\ owed \subseteq Names
  /\ primary \in {"none", "timeout", "cancelled", "failed"} /\ cleanup \in BOOLEAN
  /\ fatal \in {"none", "protocol", "limit", "sink"}
  /\ prompt \in {"none", "pending", "done", "error", "cancelling"}
  /\ updates \in 0..MaxUpdates + 1 /\ wrote \in {"no", "before", "after"}

\* The ledger and the pipeline hear the same end, whichever of prompt, fatal signal,
\* token, timeout, teardown and ledger failure came first: one terminal event at most;
\* exactly one while the ledger works; completed is reported only with its event, and
\* cancelled only with the failure event of a cancelled attempt.
OneOutcome ==
  (report # "none" /\ kind # "process") =>
    /\ record.completed + record.failed <= 1
    /\ ~broken => record.completed + record.failed = 1
    /\ (report = "completed") <=> (record.completed = 1)
    /\ report = "cancelled" => cancel /\ record.failed = 1

\* The executor of a tool call is entered at most once in a session, however often the
\* model reuses its id, and never for a call the user had to approve and did not.
ApprovedOnce ==
  \A c \in CallIds :
    /\ ran[c] <= 1
    /\ ran[c] = 1 => c \in DOMAIN prepared /\ (prepared[c] = "allow" \/ (prepared[c] = "ask" /\ c \in granted))

\* A call that comes back without a cleanup error leaves no process behind that was
\* within reach when its cleanup began, also when the root exits in the middle of it;
\* its root is gone, and no process it captured can still write to the captured pipes.
NoSilentSurvivor ==
  (report # "none" /\ kind # "native" /\ ~cleanup) =>
    /\ owed \cap Alive = {}
    /\ "root" \notin Alive
    /\ kind = "process" /\ report \in {"completed", "timeout"} => ~PipeHeld

\* A process was started that the cleanup could not find.
Escaped == \E p \in Names \ owed : procs[p] # "none"

\* A Planner or Reviewer is believed only if the workspace was unchanged when its session,
\* teardown included, was over.  It may still have changed before the attempt was
\* recorded, but only if a process had escaped the cleanup.
ReaderChangedNothing ==
  kind = "reader" /\ report = "completed" =>
    /\ wrote # "before"
    /\ wrote = "after" => Escaped

Busy ==
  \/ kind = "native" /\ state = "running"
  \/ kind = "process" /\ phase # "idle"
  \/ IsAcp /\ phase \in {"prompt", "settle", "cleanup", "close", "stop", "kill", "killed", "record",
                         "checked"}

\* Once the model loop, the process or the prompt runs, the call comes back, or asks the
\* user: no agent, process or token can hold it.
CallComesBack == Busy ~> (report # "none" \/ at = "approval")
=============================================================================
