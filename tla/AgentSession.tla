---------------------------- MODULE AgentSession ----------------------------
(***************************************************************************)
(* agent_runtime.AgentSession with its tool_runtime.Dispatcher: the native *)
(* agent loop of model turns and tool calls, pauses for approval, limits,  *)
(* cancellation between steps, and the failure that is recorded once.      *)
(* The session blocks in three places: while the model answers, while a    *)
(* tool runs and while the user is asked.                                  *)
(***************************************************************************)
EXTENDS Sequences, Attempt

CONSTANTS CallIds,     \* call ids the model may use, also again
          MaxTurns,    \* limits.max_model_turns
          MaxCalls,    \* limits.max_tool_calls
          MaxErrors,   \* limits.max_consecutive_tool_errors
          MaxBatch     \* bound: calls of one turn

ASSUME SessionAssumption ==
  /\ MaxTurns \in Nat /\ MaxCalls \in Nat /\ MaxErrors \in Nat /\ MaxBatch \in Nat
  /\ IsFiniteSet(CallIds)

VARIABLES state,     \* AgentSessionState
          at,        \* where the session is: idle, respond, model, batch, tool, approval, over
          turns, calls, errors,
          batch,     \* calls of the turn that are still to do
          cur,       \* the call in hand
          prepared,  \* Dispatcher._prepared_records, by policy effect
          granted,   \* calls a matching decision of the user approved
          ran        \* calls whose executor was entered, as often as it was

sessionVars == <<state, at, turns, calls, errors, batch, cur, prepared, granted, ran>>

Effects == {"allow", "ask", "deny"}

SessionInit ==
  /\ state = "ready" /\ at = "idle"
  /\ turns = 0 /\ calls = 0 /\ errors = 0
  /\ batch = <<>> /\ cur = "none"
  /\ prepared = [c \in {} |-> "allow"] /\ granted = {}
  /\ ran = [c \in CallIds |-> 0]

\* Mutation: every handler on the way out records the failure again.
FailTwice(r) ==
  /\ state' = "failed" /\ at' = "over" /\ report' = r
  /\ record' = [record EXCEPT !.failed = @ + 2]

\* _record_execution_failure with the exception that leaves the session; nested
\* handlers find _failure_recorded set.
Fail(r) ==
  /\ state' = "failed" /\ at' = "over" /\ report' = r
  /\ RecordFailed

----------------------------------------------------------------------------
\* start(): execution.started, then the backend opens a model session or fails.
SessionStart ==
  /\ kind = "native" /\ at = "idle"
  /\ \/ /\ state' = "running" /\ at' = "respond"
        /\ UNCHANGED <<record, report>>
     \/ Fail("failed")
  /\ UNCHANGED <<kind, cancel, broken, faults, turns, calls, errors, batch, cur, prepared,
                 granted, ran>>

\* _respond up to the model call: the token, then the turn limit.
Respond ==
  /\ at = "respond"
  /\ \/ /\ cancel /\ Fail("cancelled")
        /\ UNCHANGED turns
     \/ /\ ~cancel /\ turns >= MaxTurns /\ Fail("failed")
        /\ UNCHANGED turns
     \/ /\ ~cancel /\ turns < MaxTurns
        /\ turns' = turns + 1 /\ at' = "model"
        /\ UNCHANGED <<state, record, report>>
  /\ UNCHANGED <<kind, cancel, broken, faults, calls, errors, batch, cur, prepared, granted, ran>>

\* A ModelTurn that asks for tools; nothing keeps the model from using an id twice.
Batches == UNION {[1..n -> CallIds] : n \in 1..MaxBatch}

ModelCallsTools ==
  /\ at = "model"
  /\ batch' \in Batches
  /\ at' = "batch"
  /\ UNCHANGED <<kind, cancel, broken, faults, record, report, state, turns, calls, errors,
                 cur, prepared, granted, ran>>

\* A non-empty COMPLETED turn: turn.completed, execution.completed.
ModelCompletes ==
  /\ at = "model"
  /\ state' = "completed" /\ at' = "over" /\ report' = "completed"
  /\ RecordCompleted
  /\ UNCHANGED <<kind, cancel, broken, faults, turns, calls, errors, batch, cur, prepared,
                 granted, ran>>

\* A backend error, a protocol violation, a length stop or a refusal.
ModelFails ==
  /\ at = "model"
  /\ Fail("failed")
  /\ UNCHANGED <<kind, cancel, broken, faults, turns, calls, errors, batch, cur, prepared,
                 granted, ran>>

----------------------------------------------------------------------------
(* The tool batch.                                                         *)

\* The calls of a turn are taken in their order.
InHand(c) == batch # <<>> /\ c = Head(batch)

\* _record_tool_error: one result goes back to the model, or the limit ends it.
ToolError ==
  /\ batch' = Tail(batch)
  /\ errors' = errors + 1
  /\ IF errors + 1 > MaxErrors
     THEN Fail("failed")
     ELSE /\ at' = "batch" /\ state' = "running"
          /\ UNCHANGED <<record, report>>

\* The top of the loop: the token, and the tool call limit after tool.requested.
RefuseCall ==
  /\ at = "batch" /\ batch # <<>>
  /\ \/ cancel /\ Fail("cancelled")
     \/ ~cancel /\ calls >= MaxCalls /\ Fail("failed")
  /\ UNCHANGED <<kind, cancel, broken, faults, turns, calls, errors, batch, cur, prepared,
                 granted, ran>>

\* Dispatcher.prepare refuses: unknown tool, bad arguments, a policy error.
PrepareFails(c) ==
  /\ at = "batch" /\ InHand(c) /\ ~cancel /\ calls < MaxCalls
  /\ calls' = calls + 1
  /\ ToolError
  /\ UNCHANGED <<kind, cancel, broken, faults, turns, cur, prepared, granted, ran>>

\* A call id that was prepared before is an internal error, never a second record.
PrepareAgain(c) ==
  /\ at = "batch" /\ InHand(c) /\ ~cancel /\ calls < MaxCalls /\ c \in DOMAIN prepared
  /\ calls' = calls + 1
  /\ Fail("failed")
  /\ UNCHANGED <<kind, cancel, broken, faults, turns, errors, batch, cur, prepared, granted, ran>>

\* Mutation: a call id may be prepared again.
NotPrepared(c) == TRUE

\* Dispatcher.prepare under its lock: one record per call id.
Fresh(c) == c \notin DOMAIN prepared

\* A prepared call: ALLOW runs at once (consumed before the executor is entered),
\* DENY is a tool error, ASK pauses the session.
Prepare(c, e) ==
  /\ at = "batch" /\ InHand(c) /\ ~cancel /\ calls < MaxCalls /\ Fresh(c)
  /\ calls' = calls + 1 /\ cur' = c
  /\ prepared' = [d \in DOMAIN prepared \cup {c} |-> IF d = c THEN e ELSE prepared[d]]
  /\ \/ /\ e = "allow"
        /\ at' = "tool" /\ ran' = [ran EXCEPT ![c] = @ + 1]
        /\ UNCHANGED <<state, record, report, errors, batch>>
     \/ /\ e = "deny"
        /\ ToolError
        /\ UNCHANGED ran
     \/ /\ e = "ask"
        /\ state' = "waiting_approval" /\ at' = "approval"
        /\ UNCHANGED <<record, report, errors, batch, ran>>
  /\ UNCHANGED <<kind, cancel, broken, faults, turns, granted>>

\* _execute_prepared returned: tool.completed resets the consecutive errors.
ToolReturns ==
  /\ at = "tool"
  /\ batch' = Tail(batch)
  /\ errors' = 0 /\ at' = "batch"
  /\ UNCHANGED <<kind, cancel, broken, faults, record, report, state, turns, calls, cur,
                 prepared, granted, ran>>

\* The executor raised: the side effect may have happened and is never replayed.
ToolRaises ==
  /\ at = "tool"
  /\ ToolError
  /\ UNCHANGED <<kind, cancel, broken, faults, turns, calls, cur, prepared, granted, ran>>

\* turn.completed, and the results go back to the model.
BatchDone ==
  /\ at = "batch" /\ batch = <<>>
  /\ at' = "respond"
  /\ UNCHANGED <<kind, cancel, broken, faults, record, report, state, turns, calls, errors,
                 batch, cur, prepared, granted, ran>>

----------------------------------------------------------------------------
(* resume(decision): a decision for another call, fingerprint or session is *)
(* refused and changes nothing; the token is looked at first.               *)

ResumeCancelled ==
  /\ at = "approval" /\ cancel
  /\ Fail("cancelled")
  /\ UNCHANGED <<kind, cancel, broken, faults, turns, calls, errors, batch, cur, prepared,
                 granted, ran>>

\* Approved: approval.resolved, then the prepared call runs with a grant.
ResumeApproved(c) ==
  /\ at = "approval" /\ ~cancel /\ c = cur
  /\ granted' = granted \cup {c}
  /\ state' = "running" /\ at' = "tool"
  /\ ran' = [ran EXCEPT ![cur] = @ + 1]
  /\ UNCHANGED <<kind, cancel, broken, faults, record, report, turns, calls, errors, batch,
                 cur, prepared>>

ResumeDenied(c) ==
  /\ at = "approval" /\ ~cancel /\ c = cur
  /\ ToolError
  /\ UNCHANGED <<kind, cancel, broken, faults, turns, calls, cur, prepared, granted, ran>>

\* _emit: a sink that fails ends the session without a terminal event.
SessionSinkFails ==
  /\ kind = "native" /\ at # "over" /\ faults < MaxFaults
  /\ faults' = faults + 1 /\ broken' = TRUE
  /\ state' = "failed" /\ at' = "over" /\ report' = "failed"
  /\ UNCHANGED <<kind, cancel, record, turns, calls, errors, batch, cur, prepared, granted, ran>>

SessionStep ==
  \/ SessionStart \/ Respond \/ ModelCallsTools \/ ModelCompletes \/ ModelFails
  \/ RefuseCall \/ ToolReturns \/ ToolRaises \/ BatchDone
  \/ \E c \in CallIds : PrepareFails(c) \/ PrepareAgain(c) \/ \E e \in Effects : Prepare(c, e)
  \/ ResumeCancelled \/ SessionSinkFails

SessionUser == \E c \in CallIds : ResumeApproved(c) \/ ResumeDenied(c)
=============================================================================
