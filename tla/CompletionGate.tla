--------------------------- MODULE CompletionGate ---------------------------
(***************************************************************************)
(* RunCompletionGate: the only way a Run is completed, proposed to the     *)
(* user or failed on the evidence of its own history.  Each operation      *)
(* reads the Run, checks the history up to the seq it read and appends its *)
(* settlement under that seq.                                              *)
(***************************************************************************)
EXTENDS RunLedger

CONSTANT SettlementModes  \* modes of the gates in use, within {"complete", "await_user"}

ASSUME SettlementAssumption == SettlementModes \subseteq {"complete", "await_user"}

-----------------------------------------------------------------------------
(* Evidence in the history: sets of seqs                                   *)

Starts(fam) == {n \in DOMAIN log : log[n].fam = fam /\ log[n].kind = "started"}

TerminalKinds(fam) ==
  CASE fam = "verification" -> {"completed", "interrupted"}
    [] fam = "fix_loop"     -> {"completed", "exhausted", "failed", "interrupted"}
    [] OTHER                -> {"completed", "failed", "interrupted"}

\* Terminal events of the attempt that started at seq s.
Terminals(s) ==
  {n \in DOMAIN log : /\ n >= s
                      /\ log[n].fam = log[s].fam /\ log[n].id = log[s].id
                      /\ log[n].kind \in TerminalKinds(log[s].fam)}

ExecutionLifecycle ==
  {n \in DOMAIN log : /\ log[n].fam = "execution"
                      /\ log[n].kind \in {"started", "completed", "failed"}}

\* The last of some seqs, as a set: empty if there is none.
Latest(S) == {n \in S : \A m \in S : m <= n}

\* Mutation: a later execution does not make the evidence stale.
HasNewerExecutionNever(n) == FALSE

\* _has_newer_execution_activity
HasNewerExecution(n) == \E m \in ExecutionLifecycle : m > n

\* _require_latest_*: where the latest attempt of the family began, if it is a.
LatestStart(fam, a) == {n \in Latest(Starts(fam)) : log[n].id = a}

-----------------------------------------------------------------------------
(* The gate's operations                                                   *)

\* _settle: complete the Run, or propose the change set to the user.
Settlement(mode, why) ==
  IF mode = "complete"
  THEN <<[why EXCEPT !.fam = "run", !.kind = "completed"]>>
  ELSE <<[why EXCEPT !.fam = "proposal", !.kind = "ready"], RunEvent("waiting_user", "gate")>>

Evidence(res, execution, verification, diff) ==
  [RunEvent("completed", "gate") EXCEPT !.res = res, !.id = execution,
                                        !.ref = verification, !.diff = diff]

\* The evidence both completions ask for: the latest verification, begun at s
\* and ended at t, passed; it began after a successful execution (e is the
\* latest execution event before s) and nothing was executed since.
Passed(s, t) == log[t].kind = "completed" /\ log[t].res = "pass" /\ ~HasNewerExecution(s)

ExecutedBefore(s) == Latest({m \in ExecutionLifecycle : m < s})

CompleteVerified(w, v) ==
  \E mode \in SettlementModes, s \in LatestStart("verification", v) :
  \E t \in Latest(Terminals(s)), e \in ExecutedBefore(s) :
    /\ Passed(s, t)
    /\ log[e].kind = "completed"
    /\ Decides(w, "RUNNING", Settlement(mode, Evidence("verified", log[e].id, v, NoId)))

\* The review's terminal event approves verification v and the change set d
\* the workspace holds now.
Approves(r, v, d) ==
  /\ log[r].kind = "completed" /\ log[r].res = "APPROVED"
  /\ log[r].ref = v /\ log[r].diff = d

CompleteReviewed(w, v, r, d) ==
  \E mode \in SettlementModes, s \in LatestStart("verification", v), rs \in LatestStart("review", r) :
  \E t \in Latest(Terminals(s)), e \in ExecutedBefore(s), rt \in Latest(Terminals(rs)) :
    /\ Passed(s, t)
    /\ log[e].kind = "completed"
    /\ rs > t /\ Approves(rt, v, d)
    /\ Decides(w, "RUNNING", Settlement(mode, Evidence("reviewed", log[e].id, v, d)))

Failure(res, a) == <<[RunEvent("failed", "gate") EXCEPT !.res = res, !.id = a]>>

FailExecution(w, x) ==
  \E n \in Latest({m \in ExecutionLifecycle : log[m].kind = "failed" /\ log[m].id = x}) :
    /\ ~HasNewerExecution(n)
    /\ Decides(w, "RUNNING", Failure("execution", x))

FailVerification(w, v) ==
  \E s \in LatestStart("verification", v) : \E t \in Latest(Terminals(s)) :
    /\ log[t].kind = "completed" /\ log[t].res = "fail"
    /\ ~HasNewerExecution(s)
    /\ \A e \in ExecutedBefore(s) : log[e].kind # "started"
    /\ Decides(w, "RUNNING", Failure("verification", v))

FailFixLoop(w, l) ==
  \E s \in LatestStart("fix_loop", l) : \E t \in Latest(Terminals(s)) :
    /\ log[t].kind \in {"exhausted", "failed"}
    /\ ~HasNewerExecution(t)
    /\ Decides(w, "RUNNING", Failure("fix_loop", l))
=============================================================================
