------------------------------- MODULE Attempt -------------------------------
(***************************************************************************)
(* What every attempt shares, whether a native AgentSession, an ACP agent  *)
(* or a supervised process carries it out: the cancellation token, the     *)
(* terminal events of its execution in the ledger, and how the port call   *)
(* came back to the pipeline.                                              *)
(***************************************************************************)
EXTENDS Naturals, FiniteSets

CONSTANTS MaxFaults  \* event sink writes that fail

ASSUME AttemptAssumption == MaxFaults \in Nat

VARIABLES kind,    \* who carries the attempt out
          cancel,  \* CancellationToken: set once, never cleared
          record,  \* terminal events written: how many completed, how many failed
          broken,  \* the sink failed: no terminal event may be attempted any more
          faults,
          report   \* how the port call ended

attemptVars == <<kind, cancel, record, broken, faults, report>>

Kinds == {"native",   \* an AgentSession
          "worker",   \* an ACP agent as Worker
          "reader",   \* an ACP agent as Planner or Reviewer
          "process"}  \* a supervised process (a check, a shell tool)

AttemptInit ==
  /\ kind \in Kinds
  /\ cancel = FALSE /\ broken = FALSE /\ faults = 0
  /\ record = [completed |-> 0, failed |-> 0]
  /\ report = "none"

RecordCompleted == record' = [record EXCEPT !.completed = @ + 1]

RecordFailed == record' = [record EXCEPT !.failed = @ + 1]

\* threading.Event.set() by the host, at any time while the port call runs.
Cancel ==
  /\ report = "none" /\ ~cancel
  /\ cancel' = TRUE
  /\ UNCHANGED <<kind, record, broken, faults, report>>
=============================================================================
