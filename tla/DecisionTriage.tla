--------------------------- MODULE DecisionTriage ---------------------------
(***************************************************************************)
(* How a failed verification is classified and what the fix loop does about*)
(* it (decision_runtime: gate, triage, policy, baseline, jev_backend,      *)
(* remote_state).  The code hands a filtered state to a backend; here a    *)
(* state is the signal found in the error block and the outcome of the same*)
(* check on the pre-change baseline.  The remote model may answer anything *)
(* or fail; the deterministic rules are always there to fall back on.      *)
(***************************************************************************)

\* What extract_error_block finds, as far as the rules tell it apart.
Signals == {"no_command", "missing_foreign", "missing_local", "other"}

\* run_baseline_check with _baseline_status: "none" when the rerun was not possible.
BaselineOutcomes == {"none", "pass", "fail", "timeout", "error"}

Kinds == {"code_bug", "test_needs_update", "missing_dependency",
          "environment_or_tooling", "flaky_or_timeout", "unrelated_preexisting"}

Actions == {"continue_fix_loop", "needs_user", "rerun_verification_once", "mark_pre_existing"}

\* An answer: a kind, and whether its confidence reaches the policy's act threshold.
Answers == [kind : Kinds, act : BOOLEAN]

Answer(k, act) == [kind |-> k, act |-> act]

\* RuleDecisionBackend._classify.  A triaged check has failed, so the rule for
\* timed-out checks never applies.
RuleAnswer(signal, baseline) ==
  CASE baseline \in {"fail", "timeout", "error"} -> Answer("unrelated_preexisting", TRUE)
    [] baseline \in {"none", "pass"} /\ signal = "no_command" -> Answer("environment_or_tooling", TRUE)
    [] baseline \in {"none", "pass"} /\ signal = "missing_local" -> Answer("code_bug", TRUE)
    [] baseline \in {"none", "pass"} /\ signal = "missing_foreign" -> Answer("missing_dependency", TRUE)
    [] OTHER -> Answer("code_bug", FALSE)

\* VerificationFailureGate._decide over JevDecisionBackend.decide.  Raw output
\* that cannot be sanitized, a missing key, a deadline, a network or a protocol
\* failure all end in the rules; a well-formed remote answer is taken as it is.
BackendAnswers(remote, signal, baseline) ==
  {RuleAnswer(signal, baseline)} \cup (IF remote THEN Answers ELSE {})

\* decide_triage_action
TriageAction(a) ==
  CASE ~a.act -> "continue_fix_loop"
    [] a.act /\ a.kind \in {"missing_dependency", "environment_or_tooling"} -> "needs_user"
    [] a.act /\ a.kind = "flaky_or_timeout" -> "rerun_verification_once"
    [] a.act /\ a.kind = "unrelated_preexisting" -> "mark_pre_existing"
    [] a.act /\ a.kind \in {"code_bug", "test_needs_update"} -> "continue_fix_loop"

\* Mutation: any baseline that did not pass authorises the skip.
GuardAnyBaseline(action, baseline) ==
  IF action = "mark_pre_existing" /\ baseline = "pass" THEN "continue_fix_loop" ELSE action

\* _guard_pre_existing: only a real FAIL on the baseline lets the loop be skipped.
GuardPreExisting(action, baseline) ==
  IF action = "mark_pre_existing" /\ baseline # "fail" THEN "continue_fix_loop" ELSE action

\* VerificationFailureGate.evaluate: every action it can come to, given whether a
\* remote backend is configured and what the baseline rerun showed.
TriageActions(remote, baseline) ==
  {GuardPreExisting(TriageAction(a), baseline) :
     a \in UNION {BackendAnswers(remote, s, baseline) : s \in Signals}}
=============================================================================
