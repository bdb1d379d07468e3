------------------------------ MODULE Pipeline ------------------------------
(***************************************************************************)
(* One Run driven by pipeline_runtime.PipelineRunner (plan, worker,        *)
(* verification, review, bounded fix loop, follow-up on a proposal) or by  *)
(* agent_execution_runtime.execute_task (worker and verification only).    *)
(*                                                                         *)
(* The runner is one thread.  A port call (planner, worker, verification,  *)
(* reviewer) is a pair of steps, its start and its return, and between the *)
(* two the Run may be cancelled; the worktree may change at any moment,    *)
(* since checks write files and leave processes behind.  A worktree is its *)
(* cumulative diff, a small number, and 0 is the unchanged tree.  Of every *)
(* kind of attempt the latest is kept, with whether it still speaks of the *)
(* latest attempt before it; their recorders are RunCore's subject.        *)
(***************************************************************************)
EXTENDS Naturals, DecisionTriage

CONSTANTS MaxFix,       \* max_fix_attempts of a fix loop
          Checks,       \* number of checks in a detected verification plan
          Diffs,        \* cumulative diffs the worktree can have besides 0
          MaxFollowUps, \* how often the user answers a proposal with feedback
          Fingerprint,  \* what the workspace fingerprint sees of a worktree
          Remote,       \* whether a remote decision backend is configured
          MaxFaults     \* ledger writes that fail

ASSUME PipelineAssumption ==
  /\ MaxFix \in Nat \ {0} /\ Checks \in Nat \ {0}
  /\ Diffs \subseteq Nat \ {0} /\ Diffs # {}
  /\ Fingerprint \in [{0} \cup Diffs -> Nat]
  /\ MaxFollowUps \in Nat /\ MaxFaults \in Nat /\ Remote \in BOOLEAN

VARIABLES
  status,   \* the canonical Run status
  call,     \* "run", "follow" (continue_with_feedback) or "agent" (execute_task)
  pc,       \* where that call is; "idle" before and after it
  site,     \* who asked for the attempt in progress: main, loop, only, agent, advice
  cancel,   \* the call's CancellationToken
  tree,     \* the worktree's cumulative diff
  seen,     \* the change set captured last
  plan,     \* whether detect_verification_plan found one
  trigger,  \* the FixTrigger handed to the fix loop: its kind and diff
  exec,     \* the state of the latest execution
  ver,      \* the latest verification: state, worktree at its start, checks done,
            \* whether it is a triage rerun, whether it follows the latest execution
  rev,      \* the latest review: state, diff reviewed, and whether the verification it
            \* cites is the latest one
  advice,   \* why the loop asked for advice, and what the baseline rerun showed
  loop,     \* the current fix loop: state, attempts, open attempt, terminal events
  exam,     \* execute_task's look at the worktree: before the checks, the outcome it
            \* concludes, and whether the tree moved where no fingerprint can tell
  prop,     \* the proposal on the table
  report,   \* how the call returned
  rounds,   \* follow-ups asked
  dropped,  \* a write to the ledger was lost
  faults    \* ledger writes that failed

vars == <<status, call, pc, site, cancel, tree, seen, plan, trigger, exec, ver, rev, advice,
          loop, exam, prop, report, rounds, dropped, faults>>

\* A change set: what differs from the snapshot commit, file by file and exactly.
Trees == {0} \cup Diffs

Outcomes == {"pass", "fail", "timeout", "error"}

\* parse_review_decision: anything but one well-formed verdict is a failed review.
Verdicts == {"approved", "needs_fix"}

Ports == {"plan", "work", "verify", "review"}

NoLoop == [state |-> "none", attempts |-> 0, open |-> FALSE, ends |-> 0]

NoProposal == [kind |-> "none", diff |-> 0, outcome |-> "none"]

NoReview == [state |-> "none", diff |-> 0, fresh |-> FALSE]

NoExam == [before |-> 0, outcome |-> "none", moved |-> FALSE]

NoAdvice == [why |-> "none", baseline |-> "none"]

Init ==
  /\ status = "CREATED" /\ call = "none" /\ pc = "idle" /\ site = "main"
  /\ cancel = FALSE /\ tree = 0 /\ seen = 0 /\ plan = FALSE
  /\ trigger = [kind |-> "none", diff |-> 0]
  /\ exec = "none"
  /\ ver = [state |-> "none", diff |-> 0, done |-> {}, left |-> 0, rerun |-> FALSE, fresh |-> FALSE]
  /\ rev = NoReview /\ advice = NoAdvice
  /\ loop = NoLoop /\ exam = NoExam /\ prop = NoProposal /\ report = "none"
  /\ rounds = 0 /\ dropped = FALSE /\ faults = 0

----------------------------------------------------------------------------
(* The ways a call ends.                                                   *)

Return(r) == /\ pc' = "idle"
             /\ report' = r

\* CanonicalPipelineRecorder: every outcome but resumed is a no-op unless RUNNING.
Record(s) == status' = IF status = "RUNNING" THEN s ELSE status

Propose(k, d, o) ==
  /\ Record("WAITING_USER")
  /\ prop' = IF status = "RUNNING" THEN [kind |-> k, diff |-> d, outcome |-> o] ELSE prop

CloseLoop(s) == loop' = [loop EXCEPT !.state = s, !.open = FALSE, !.ends = @ + 1]

\* recorder.failed or recorder.exhausted; the Run's own failure is the next write.
LoopGivesUp(s) ==
  /\ CloseLoop(s)
  /\ pc' = "giveup"
  /\ UNCHANGED <<status, site, trigger, exec, ver, rev, advice, report>>

\* An exception leaves the call; webhost settles the Run afterwards.
Raise == /\ Return("raised")
         /\ UNCHANGED <<status, site, trigger, exec, ver, rev, advice, loop, prop>>

\* The worker, verification and reviewer ports are given a fresh attempt id.
Work(s) ==
  /\ site' = s /\ pc' = "work"
  /\ exec' = "running"
  /\ ver' = [ver EXCEPT !.fresh = FALSE]
  /\ rev' = [rev EXCEPT !.fresh = FALSE]

\* Mutation: a rerun is not marked as one.
VerifyForgetsRerun(rerun) ==
  /\ pc' = "verify"
  /\ ver' = [state |-> "running", diff |-> tree, done |-> {}, left |-> Checks,
             rerun |-> FALSE, fresh |-> TRUE]
  /\ rev' = [rev EXCEPT !.fresh = FALSE]

Verify(rerun) ==
  /\ pc' = "verify"
  /\ ver' = [state |-> "running", diff |-> tree, done |-> {}, left |-> Checks,
             rerun |-> rerun, fresh |-> TRUE]
  /\ rev' = [rev EXCEPT !.fresh = FALSE]

\* ChangeProvider.capture.
Capture == seen' = tree

\* detect_verification_plan: a plan, none, or a malformed .imece/verify.json.
DetectPlan(found, none) ==
  \/ plan' = TRUE /\ pc' = found
  \/ plan' = FALSE /\ pc' = none
  \/ UNCHANGED plan /\ pc' = "abort"

\* A ReviewRequest carries the diff captured last and the verification report, if any.
Review(d, cites) ==
  /\ pc' = "review"
  /\ rev' = [state |-> "running", diff |-> d, fresh |-> cites]

----------------------------------------------------------------------------
(* Starting a Run.                                                         *)

\* run.started is recorded before the worker thread enters the call.
Launch(c) ==
  /\ status = "CREATED" /\ pc = "idle"
  /\ status' = "RUNNING" /\ call' = c /\ pc' = "begin"
  /\ UNCHANGED <<site, cancel, tree, seen, plan, trigger, exec, ver, rev, advice, loop,
                 exam, prop, report, rounds, dropped, faults>>

\* _run starts the planner.
Begin ==
  /\ pc = "begin" /\ call = "run" /\ ~cancel
  /\ pc' = "plan" /\ site' = "main"
  /\ UNCHANGED <<status, call, cancel, tree, seen, plan, trigger, exec, ver, rev, advice,
                 loop, exam, prop, report, rounds, dropped, faults>>

\* The planner port returned the requested plan; detect_verification_plan follows.
PlanReturns ==
  /\ pc = "plan"
  /\ DetectPlan("planned", "planned")
  /\ UNCHANGED <<status, call, site, cancel, tree, seen, trigger, exec, ver, rev, advice,
                 loop, exam, prop, report, rounds, dropped, faults>>

\* _run step 3, or execute_task's only attempt, which follows its detection at once.
StartWork ==
  /\ pc = "planned" /\ (call = "run" => ~cancel)
  /\ Work(IF call = "run" THEN "main" ELSE "agent")
  /\ UNCHANGED <<status, call, cancel, tree, seen, plan, trigger, advice, loop, exam, prop,
                 report, rounds, dropped, faults>>

\* execute_task looks at the token and detects a plan.
BeginAgent ==
  /\ pc = "begin" /\ call = "agent" /\ ~cancel
  /\ DetectPlan("planned", "planned")
  /\ UNCHANGED <<status, call, site, cancel, tree, seen, trigger, exec, ver, rev, advice,
                 loop, exam, prop, report, rounds, dropped, faults>>

\* The worker port returned and its execution.completed is in the ledger.
WorkReturns ==
  /\ pc = "work"
  /\ tree' \in Trees
  /\ exec' = "completed"
  /\ pc' = "worked"
  /\ UNCHANGED <<status, call, site, cancel, seen, plan, trigger, ver, rev, advice, loop,
                 exam, prop, report, rounds, dropped, faults>>

----------------------------------------------------------------------------
(* After a worker attempt outside the fix loop.                            *)

\* execute_task first pins the workspace's paths and takes a fingerprint of them.
AgentExamines ==
  /\ pc = "worked" /\ site = "agent" /\ ~cancel
  /\ exam' = [before |-> tree, outcome |-> "none", moved |-> FALSE]
  /\ pc' = "examined"
  /\ UNCHANGED <<status, call, site, cancel, tree, seen, plan, trigger, exec, ver, rev,
                 advice, loop, prop, report, rounds, dropped, faults>>

\* An attempt outside the loop is over and its change set is looked at.
AttemptMade == pc = IF site = "agent" THEN "examined" ELSE "worked"

\* An empty change set ends the Run: run.completed, reason no_changes.
NoChanges ==
  /\ AttemptMade /\ site # "loop" /\ tree = 0
  /\ site = "agent" => ~cancel
  /\ seen' = 0
  /\ Record("SUCCEEDED")
  /\ Return("no_changes")
  /\ UNCHANGED <<call, site, cancel, tree, plan, trigger, exec, ver, rev, advice, loop,
                 exam, prop, rounds, dropped, faults>>

\* The changes are verified when a plan was detected.
StartVerify ==
  /\ AttemptMade /\ site \in {"main", "agent"} /\ tree # 0 /\ plan /\ ~cancel
  /\ Capture
  /\ Verify(FALSE)
  /\ UNCHANGED <<status, call, site, cancel, tree, plan, trigger, exec, advice, loop, exam,
                 prop, report, rounds, dropped, faults>>

\* No plan: an advisory review of the change set just captured, no verification report.
StartAdvice ==
  /\ pc = "worked" /\ site \in {"main", "only"} /\ tree # 0 /\ ~cancel
  /\ site = "main" => ~plan
  /\ Capture
  /\ Review(tree, FALSE)
  /\ site' = "advice"
  /\ UNCHANGED <<status, call, cancel, tree, plan, trigger, exec, ver, advice, loop, exam,
                 prop, report, rounds, dropped, faults>>

\* execute_task without a plan has nothing to verify.
AgentUnverified ==
  /\ pc = "examined" /\ tree # 0 /\ ~plan /\ ~cancel
  /\ Capture
  /\ exam' = [exam EXCEPT !.outcome = "not_run"]
  /\ pc' = "concluded"
  /\ UNCHANGED <<status, call, site, cancel, tree, plan, trigger, exec, ver, rev, advice,
                 loop, prop, report, rounds, dropped, faults>>

----------------------------------------------------------------------------
(* Verification.                                                           *)

\* VerificationReport.status: the worst check decides.
Worst(done) ==
  IF "error" \in done THEN "error"
  ELSE IF "timeout" \in done THEN "timeout"
  ELSE IF "fail" \in done THEN "fail" ELSE "pass"

\* VerificationRunner.run, one check: classify its process result, or record an
\* error when the process could not be run; the report closes after the last one.
CheckEnds(o) ==
  /\ pc = "verify"
  /\ LET done == ver.done \cup {o}
     IN IF ver.left > 1
        THEN /\ ver' = [ver EXCEPT !.done = done, !.left = @ - 1]
             /\ UNCHANGED pc
        ELSE /\ ver' = [ver EXCEPT !.done = done, !.left = 0, !.state = Worst(done)]
             /\ pc' = "verified"
  /\ UNCHANGED <<status, call, site, cancel, tree, seen, plan, trigger, exec, rev, advice,
                 loop, exam, prop, report, rounds, dropped, faults>>

\* A failed initial verification becomes the fix loop's trigger.
HandOffFailure ==
  /\ pc = "verified" /\ site = "main" /\ ver.state = "fail"
  /\ trigger' = [kind |-> "verification_fail", diff |-> 0]
  /\ pc' = "handoff"
  /\ UNCHANGED <<status, call, site, cancel, tree, seen, plan, exec, ver, rev, advice, loop,
                 exam, prop, report, rounds, dropped, faults>>

\* FixTrigger refuses a VERIFICATION_FAIL report whose status is not FAIL.
RefuseTrigger ==
  /\ pc = "verified" /\ site = "main" /\ ver.state \in {"timeout", "error"}
  /\ Raise
  /\ UNCHANGED <<call, cancel, tree, seen, plan, exam, rounds, dropped, faults>>

\* A passed verification is reviewed; the fix loop does not look at the token here.
StartReview ==
  /\ pc = "verified" /\ site \in {"main", "loop"} /\ ver.state = "pass"
  /\ site = "main" => ~cancel
  /\ Capture
  /\ Review(tree, TRUE)
  /\ UNCHANGED <<status, call, site, cancel, tree, plan, trigger, exec, ver, advice, loop,
                 exam, prop, report, rounds, dropped, faults>>

\* Mutation: execute_task trusts the report whatever the checks did to the tree.
AgentTrustsReport ==
  /\ pc = "verified" /\ site = "agent" /\ ~cancel
  /\ exam' = [exam EXCEPT !.outcome = IF ver.state = "failed" THEN "error" ELSE ver.state]
  /\ pc' = "concluded"
  /\ UNCHANGED <<status, call, site, cancel, tree, seen, plan, trigger, exec, ver, rev,
                 advice, loop, prop, report, rounds, dropped, faults>>

\* The workspace fingerprints before and after the checks are alike, and every entry
\* could be examined both times.  A fingerprint sees every file but those under an
\* entry named .git and the caches and .pyc files that are new.
Untouched(complete) == complete /\ Fingerprint[tree] = Fingerprint[exam.before]

\* execute_task after the checks: a report the ledger does not bear out is an error,
\* a pass over files that changed since the first fingerprint is invalidated.
AgentVerified ==
  /\ pc = "verified" /\ site = "agent" /\ ~cancel
  /\ \E complete, matches \in BOOLEAN :
       exam' = [exam EXCEPT !.outcome =
                  CASE ver.state = "failed" \/ ~matches -> "error"
                    [] ver.state = "pass" /\ matches /\ ~Untouched(complete) -> "invalidated"
                    [] OTHER -> ver.state]
  /\ pc' = "concluded"
  /\ UNCHANGED <<status, call, site, cancel, tree, seen, plan, trigger, exec, ver, rev,
                 advice, loop, prop, report, rounds, dropped, faults>>

\* The proposal is the change set captured now, whatever was written meanwhile.
AgentProposes ==
  /\ pc = "concluded"
  /\ Capture
  /\ Propose("agent", tree, exam.outcome)
  /\ Return("needs_user")
  /\ UNCHANGED <<call, site, cancel, tree, plan, trigger, exec, ver, rev, advice, loop,
                 exam, rounds, dropped, faults>>

----------------------------------------------------------------------------
(* The fix loop.                                                           *)

\* FixLoopRunner.run: a review or a feedback trigger must speak of the current
\* change set; a stale one is refused before fix_loop.started.
StartLoop ==
  /\ pc = "handoff"
  /\ trigger.kind = "user_feedback" => ~cancel
  /\ trigger.kind # "verification_fail" => tree = trigger.diff
  /\ loop' = [NoLoop EXCEPT !.state = "running"]
  /\ pc' = "attempt" /\ site' = "loop"
  /\ UNCHANGED <<status, call, cancel, tree, seen, plan, trigger, exec, ver, rev, advice,
                 exam, prop, report, rounds, dropped, faults>>

StaleTrigger ==
  /\ pc = "handoff"
  /\ trigger.kind = "user_feedback" => ~cancel
  /\ trigger.kind # "verification_fail" /\ tree # trigger.diff
  /\ Raise
  /\ UNCHANGED <<call, cancel, tree, seen, plan, exam, rounds, dropped, faults>>

\* The top of the attempt loop: the token, the change set before, then
\* fix_attempt.started and the worker.
StartAttempt ==
  /\ pc = "attempt" /\ ~cancel
  /\ Capture
  /\ loop' = [loop EXCEPT !.attempts = @ + 1, !.open = TRUE]
  /\ Work("loop")
  /\ UNCHANGED <<status, call, cancel, tree, plan, trigger, advice, exam, prop, report,
                 rounds, dropped, faults>>

\* fix_attempt.completed; an attempt that changed nothing ends the loop as stalled.
Stalled ==
  /\ pc = "worked" /\ site = "loop" /\ tree = seen
  /\ LoopGivesUp("exhausted")
  /\ UNCHANGED <<call, cancel, tree, seen, plan, exam, prop, rounds, dropped, faults>>

StartLoopVerify ==
  /\ pc = "worked" /\ site = "loop" /\ tree # seen
  /\ loop' = [loop EXCEPT !.open = FALSE]
  /\ Capture
  /\ Verify(FALSE)
  /\ UNCHANGED <<status, call, site, cancel, tree, plan, trigger, exec, advice, exam, prop,
                 report, rounds, dropped, faults>>

\* ERROR and TIMEOUT are infrastructure, not something a worker can fix.
LoopVerifyBroken ==
  /\ pc = "verified" /\ site = "loop" /\ ver.state \in {"timeout", "error"}
  /\ LoopGivesUp("failed")
  /\ UNCHANGED <<call, cancel, tree, seen, plan, exam, prop, rounds, dropped, faults>>

\* Mutation: the budget is compared after one attempt too many.
NextAttemptLate ==
  /\ loop.attempts <= MaxFix
  /\ pc' = "attempt"
  /\ UNCHANGED <<status, site, trigger, exec, ver, rev, advice, loop, report>>

\* The budget decides whether there is another attempt.
NextAttempt ==
  /\ loop.attempts < MaxFix
  /\ pc' = "attempt"
  /\ UNCHANGED <<status, site, trigger, exec, ver, rev, advice, loop, report>>

BudgetExhausted ==
  /\ loop.attempts = MaxFix
  /\ LoopGivesUp("exhausted")

\* Mutation: the loop closes its own trail and leaves the Run RUNNING.
GiveUpQuietly ==
  /\ pc = "giveup"
  /\ Return(loop.state)
  /\ UNCHANGED <<status, call, site, cancel, tree, seen, plan, trigger, exec, ver, rev,
                 advice, loop, exam, prop, rounds, dropped, faults>>

\* RunCompletionGate.fail_fix_loop, once the loop's own trail is closed.
GiveUp ==
  /\ pc = "giveup"
  /\ Record("FAILED")
  /\ Return(loop.state)
  /\ UNCHANGED <<call, site, cancel, tree, seen, plan, trigger, exec, ver, rev, advice,
                 loop, exam, prop, rounds, dropped, faults>>

\* A real FAIL is triaged once per attempt, and a second FAIL after a rerun is not.
\* evaluate() reruns the check on the baseline; any failure of the decision
\* layer counts as "continue".
Triage(b) ==
  /\ pc = "verified" /\ site = "loop" /\ ver.state = "fail"
  /\ \E a \in (IF ver.rerun THEN {"continue_fix_loop"}
               ELSE {"continue_fix_loop"} \cup TriageActions(Remote, b)) :
       \/ /\ a = "continue_fix_loop"
          /\ NextAttempt \/ BudgetExhausted
       \/ /\ a = "rerun_verification_once"
          /\ Verify(TRUE)
          /\ UNCHANGED <<status, site, trigger, exec, advice, loop, report>>
       \/ /\ a \in {"needs_user", "mark_pre_existing"}
          /\ CloseLoop("exhausted")
          /\ site' = "advice" /\ pc' = "advise"
          /\ advice' = [why |-> a, baseline |-> b]
          /\ UNCHANGED <<status, trigger, exec, ver, rev, report>>
  /\ UNCHANGED <<call, cancel, tree, seen, plan, exam, prop, rounds, dropped, faults>>

\* _settle_decision_needs_user: an advisory review of a fresh capture, citing the
\* failed report.
StartDecisionAdvice ==
  /\ pc = "advise" /\ ~cancel
  /\ Capture
  /\ Review(tree, TRUE)
  /\ UNCHANGED <<status, call, site, cancel, tree, plan, trigger, exec, ver, advice, loop,
                 exam, prop, report, rounds, dropped, faults>>

----------------------------------------------------------------------------
(* After a review.                                                         *)

ReviewReturns(v) ==
  /\ pc = "review"
  /\ rev' = [rev EXCEPT !.state = v]
  /\ pc' = "reviewed"
  /\ UNCHANGED <<status, call, site, cancel, tree, seen, plan, trigger, exec, ver, advice,
                 loop, exam, prop, report, rounds, dropped, faults>>

\* An advisory review never decides: its verdict travels with the proposal.
Advised ==
  /\ pc = "reviewed" /\ site = "advice"
  /\ Propose("advisory", seen, rev.state)
  /\ Return("needs_user")
  /\ UNCHANGED <<call, site, cancel, tree, seen, plan, trigger, exec, ver, rev, advice,
                 loop, exam, rounds, dropped, faults>>

HandOffReview ==
  /\ pc = "reviewed" /\ site = "main" /\ rev.state = "needs_fix"
  /\ trigger' = [kind |-> "review_needs_fix", diff |-> rev.diff]
  /\ pc' = "handoff"
  /\ UNCHANGED <<status, call, site, cancel, tree, seen, plan, exec, ver, rev, advice, loop,
                 exam, prop, report, rounds, dropped, faults>>

LoopNeedsFix ==
  /\ pc = "reviewed" /\ site = "loop" /\ rev.state = "needs_fix"
  /\ NextAttempt \/ BudgetExhausted
  /\ UNCHANGED <<call, cancel, tree, seen, plan, exam, prop, rounds, dropped, faults>>

\* The final capture differs from what the reviewer approved: the Run fails, and
\* the report still carries the change set.
ChangedAfterReview ==
  /\ pc = "reviewed" /\ site \in {"main", "loop"} /\ rev.state = "approved" /\ tree # rev.diff
  /\ Capture
  /\ \/ /\ site = "main"
        /\ Record("FAILED")
        /\ Return("failed")
        /\ UNCHANGED <<site, trigger, exec, ver, rev, advice, loop>>
     \/ /\ site = "loop"
        /\ LoopGivesUp("failed")
  /\ UNCHANGED <<call, cancel, tree, plan, exam, prop, rounds, dropped, faults>>

\* Mutation: the final capture is compared with nothing.
ApproveUnchecked ==
  /\ pc = "reviewed" /\ site \in {"main", "loop"} /\ rev.state = "approved"
  /\ Capture
  /\ IF site = "loop" THEN CloseLoop("completed") ELSE UNCHANGED loop
  /\ pc' = "settle"
  /\ UNCHANGED <<status, call, site, cancel, tree, plan, trigger, exec, ver, rev, advice,
                 exam, prop, report, rounds, dropped, faults>>

\* The approved diff is still current: the loop closes, the gate is asked.
Approved ==
  /\ pc = "reviewed" /\ site \in {"main", "loop"} /\ rev.state = "approved" /\ tree = rev.diff
  /\ Capture
  /\ IF site = "loop" THEN CloseLoop("completed") ELSE UNCHANGED loop
  /\ pc' = "settle"
  /\ UNCHANGED <<status, call, site, cancel, tree, plan, trigger, exec, ver, rev, advice,
                 exam, prop, report, rounds, dropped, faults>>

\* RunCompletionGate.complete_reviewed with settlement "await_user"; its evidence
\* checks are CompletionGate's subject and must never refuse this caller.
Settle ==
  /\ pc = "settle"
  /\ Propose("reviewed", seen, ver.state)
  /\ Return("needs_user")
  /\ UNCHANGED <<call, site, cancel, tree, seen, plan, trigger, exec, ver, rev, advice,
                 loop, exam, rounds, dropped, faults>>

----------------------------------------------------------------------------
(* Cancellation and failure.                                               *)

\* Where the token is looked at between ports.
AtCheckpoint ==
  \/ pc \in {"begin", "attempt", "advise", "feedback"}
  \/ pc = "planned" /\ call = "run"
  \/ pc = "handoff" /\ trigger.kind = "user_feedback"
  \/ pc = "worked" /\ site = "agent"
  \/ pc = "examined"
  \/ pc = "worked" /\ site \in {"main", "only"} /\ tree # 0
  \/ pc = "verified" /\ site = "main" /\ ver.state = "pass"
  \/ pc = "verified" /\ site = "agent"

\* A port that notices the token records its attempt as interrupted and raises.
Interrupted(state) ==
  /\ exec' = IF pc = "work" THEN state ELSE exec
  /\ ver' = IF pc = "verify" THEN [ver EXCEPT !.state = state] ELSE ver
  /\ rev' = IF pc = "review" THEN [rev EXCEPT !.state = state] ELSE rev

ObserveCancel ==
  /\ cancel /\ (AtCheckpoint \/ pc \in Ports)
  /\ Interrupted("interrupted")
  /\ pc' = "unwind"
  /\ UNCHANGED <<status, call, site, cancel, tree, seen, plan, trigger, advice, loop, exam,
                 prop, report, rounds, dropped, faults>>

\* Mutation: the loop leaves its open attempt to somebody else.
UnwindLoopOnly ==
  loop' = IF loop.state = "running"
          THEN [loop EXCEPT !.state = "interrupted", !.ends = @ + 1] ELSE loop

\* FixLoopRunner._best_effort_interrupt: the open attempt, then the loop; the Run
\* is left to the caller.
UnwindLoop ==
  IF loop.state = "running" THEN CloseLoop("interrupted") ELSE UNCHANGED loop

\* OperationCancelledError reaches run(), continue_with_feedback() or
\* execute_task(): run.cancelled, once, and a CANCELLED report.
Unwind ==
  /\ pc = "unwind"
  /\ UnwindLoop
  /\ Record("CANCELLED")
  /\ Return("cancelled")
  /\ UNCHANGED <<call, site, cancel, tree, seen, plan, trigger, exec, ver, rev, advice,
                 exam, prop, rounds, dropped, faults>>

\* A port that fails; its adapter has recorded the attempt's failure.
PortFails ==
  /\ pc \in Ports
  /\ Interrupted("failed")
  /\ pc' = IF pc = "verify" /\ site = "agent" THEN "verified" ELSE "abort"
  /\ UNCHANGED <<status, call, site, cancel, tree, seen, plan, trigger, advice, loop, exam,
                 prop, report, rounds, dropped, faults>>

\* The change provider fails where a change set is needed.
CaptureFails ==
  /\ \/ pc \in {"examined", "concluded", "handoff", "attempt", "advise", "feedback"}
     \/ pc = "worked" /\ site # "agent"
     \/ pc = "verified" /\ site # "agent" /\ ver.state = "pass"
     \/ pc = "reviewed" /\ site # "advice" /\ rev.state = "approved"
  /\ pc' = "abort"
  /\ UNCHANGED <<status, call, site, cancel, tree, seen, plan, trigger, exec, ver, rev,
                 advice, loop, exam, prop, report, rounds, dropped, faults>>

\* A FixLoopExecutionError closes the loop and fails the Run before it leaves
\* (_best_effort_fail); execute_task records run.failed; _run only raises.
Abort ==
  /\ pc = "abort"
  /\ IF loop.state = "running" THEN CloseLoop("failed") ELSE UNCHANGED loop
  /\ IF loop.state = "running" \/ call = "agent" THEN Record("FAILED") ELSE UNCHANGED status
  /\ Return(IF call = "agent" THEN "failed" ELSE "raised")
  /\ UNCHANGED <<call, site, cancel, tree, seen, plan, trigger, exec, ver, rev, advice,
                 exam, prop, rounds, dropped, faults>>

\* The ledger refuses a best-effort write: the loop's trail stays open and the
\* outcome is still recorded.
DropTrail ==
  /\ pc = "unwind" /\ loop.state = "running" /\ faults < MaxFaults
  /\ faults' = faults + 1 /\ dropped' = TRUE
  /\ Record("CANCELLED")
  /\ Return("cancelled")
  /\ UNCHANGED <<call, site, cancel, tree, seen, plan, trigger, exec, ver, rev, advice,
                 loop, exam, prop, rounds>>

\* Any other failed write leaves the call as an exception, nothing unwound;
\* execute_task first tries to record the failure.
LedgerFails ==
  /\ pc # "idle" /\ faults < MaxFaults
  /\ faults' = faults + 1 /\ dropped' = TRUE
  /\ IF call = "agent" /\ pc \notin {"abort", "unwind"}
     THEN /\ pc' = "abort"
          /\ UNCHANGED <<status, site, trigger, exec, ver, rev, advice, loop, prop, report>>
     ELSE Raise
  /\ UNCHANGED <<call, cancel, tree, seen, plan, exam, rounds>>

\* webhost's on_pipeline_failed settles a Run whose call raised.
HostSettles ==
  /\ pc = "idle" /\ report = "raised" /\ status = "RUNNING"
  /\ status' = "FAILED"
  /\ UNCHANGED <<call, pc, site, cancel, tree, seen, plan, trigger, exec, ver, rev, advice,
                 loop, exam, prop, report, rounds, dropped, faults>>

----------------------------------------------------------------------------
(* The user and the worktree.                                              *)

\* run.cancel sets the event of the call in progress.
Cancel ==
  /\ pc # "idle" /\ ~cancel
  /\ cancel' = TRUE
  /\ UNCHANGED <<status, call, pc, site, tree, seen, plan, trigger, exec, ver, rev, advice,
                 loop, exam, prop, report, rounds, dropped, faults>>

\* The worktree changes under the runner: a check or a reviewer writes files, or a
\* process one of them left behind does.  execute_task cannot tell when that is after
\* its first fingerprint and before the checks, or after its last one.
Mutate ==
  /\ pc # "idle"
  /\ tree' \in Trees \ {tree}
  /\ exam' = [exam EXCEPT !.moved = @ \/ pc \in {"examined", "concluded"}]
  /\ UNCHANGED <<status, call, pc, site, cancel, seen, plan, trigger, exec, ver, rev,
                 advice, loop, prop, report, rounds, dropped, faults>>

\* Mutation: a decision does not ask whether the Run still waits for one.
UserDecidesAgain ==
  /\ pc = "idle" /\ status # "CREATED"
  /\ status' = "SUCCEEDED"
  /\ prop' = NoProposal
  /\ UNCHANGED <<call, pc, site, cancel, tree, seen, plan, trigger, exec, ver, rev, advice,
                 loop, exam, report, rounds, dropped, faults>>

\* Apply or Reject: the Run has succeeded either way.
UserDecides ==
  /\ pc = "idle" /\ status = "WAITING_USER"
  /\ status' = "SUCCEEDED"
  /\ prop' = NoProposal
  /\ UNCHANGED <<call, pc, site, cancel, tree, seen, plan, trigger, exec, ver, rev, advice,
                 loop, exam, report, rounds, dropped, faults>>

\* run.followUp: a new call with a token of its own.
FollowUp ==
  /\ pc = "idle" /\ status = "WAITING_USER" /\ call # "agent" /\ rounds < MaxFollowUps
  /\ rounds' = rounds + 1
  /\ call' = "follow" /\ pc' = "feedback" /\ cancel' = FALSE /\ report' = "none"
  /\ UNCHANGED <<status, site, tree, seen, plan, trigger, exec, ver, rev, advice, loop,
                 exam, prop, dropped, faults>>

\* For a single agent the host resumes the Run and calls execute_task again.
AgentFollowUp ==
  /\ pc = "idle" /\ status = "WAITING_USER" /\ call = "agent" /\ rounds < MaxFollowUps
  /\ rounds' = rounds + 1
  /\ status' = "RUNNING" /\ prop' = NoProposal
  /\ pc' = "begin" /\ cancel' = FALSE /\ report' = "none"
  /\ UNCHANGED <<call, site, tree, seen, plan, trigger, exec, ver, rev, advice, loop, exam,
                 dropped, faults>>

\* _continue_with_feedback: capture for the trigger, run.resumed, detect a plan.
Resume ==
  /\ pc = "feedback" /\ ~cancel
  /\ Capture
  /\ trigger' = [kind |-> "user_feedback", diff |-> tree]
  /\ status' = "RUNNING" /\ prop' = NoProposal
  /\ DetectPlan("handoff", "only")
  /\ loop' = NoLoop /\ rev' = NoReview /\ advice' = NoAdvice
  /\ UNCHANGED <<call, site, cancel, tree, exec, ver, exam, report, rounds, dropped,
                 faults>>

\* _continue_needs_user_path: one worker attempt, the token is not looked at first.
StartFeedbackWork ==
  /\ pc = "only"
  /\ Work("only")
  /\ UNCHANGED <<status, call, cancel, tree, seen, plan, trigger, advice, loop, exam, prop,
                 report, rounds, dropped, faults>>

----------------------------------------------------------------------------
PipelineStep ==
  \/ Begin \/ BeginAgent \/ PlanReturns \/ StartWork \/ WorkReturns
  \/ AgentExamines \/ NoChanges \/ StartVerify \/ StartAdvice \/ AgentUnverified
  \/ \E o \in Outcomes : CheckEnds(o)
  \/ HandOffFailure \/ RefuseTrigger \/ StartReview \/ AgentVerified \/ AgentProposes
  \/ StartLoop \/ StaleTrigger \/ StartAttempt \/ Stalled \/ StartLoopVerify
  \/ LoopVerifyBroken \/ GiveUp \/ (\E b \in BaselineOutcomes : Triage(b)) \/ StartDecisionAdvice
  \/ \E v \in Verdicts : ReviewReturns(v)
  \/ Advised \/ HandOffReview \/ LoopNeedsFix \/ ChangedAfterReview \/ Approved \/ Settle
  \/ ObserveCancel \/ Unwind \/ PortFails \/ CaptureFails \/ Abort \/ DropTrail \/ LedgerFails
  \/ Resume \/ StartFeedbackWork

Next ==
  \/ \E c \in {"run", "agent"} : Launch(c)
  \/ PipelineStep \/ HostSettles
  \/ Cancel \/ Mutate \/ UserDecides \/ FollowUp \/ AgentFollowUp

\* The runner is a thread that keeps going, and a port is taken to come back: an agent
\* session has a turn limit, processes and prompts have deadlines.  Nothing bounds the
\* opening handshake of an ACP agent, so this does not speak of one that never answers.
Spec == Init /\ [][Next]_vars /\ WF_vars(PipelineStep) /\ WF_vars(HostSettles)

----------------------------------------------------------------------------
(* Properties.                                                             *)

\* The variables have their types; the bounds are the code's own.
TypeOK ==
  /\ status \in {"CREATED", "RUNNING", "WAITING_USER", "SUCCEEDED", "FAILED", "CANCELLED"}
  /\ call \in {"none", "run", "follow", "agent"}
  /\ pc \in {"idle", "begin", "planned", "worked", "verified", "handoff", "attempt", "advise",
             "examined", "concluded", "reviewed", "giveup", "settle", "unwind", "abort",
             "feedback", "only"} \cup Ports
  /\ site \in {"main", "loop", "only", "agent", "advice"}
  /\ cancel \in BOOLEAN /\ plan \in BOOLEAN /\ dropped \in BOOLEAN
  /\ tree \in Trees /\ seen \in Trees
  /\ trigger \in [kind : {"none", "verification_fail", "review_needs_fix", "user_feedback"},
                  diff : Trees]
  /\ exec \in {"none", "running", "completed", "failed", "interrupted"}
  /\ ver \in [state : {"none", "running", "failed", "interrupted"} \cup Outcomes, diff : Trees,
              done : SUBSET Outcomes, left : 0..Checks, rerun : BOOLEAN, fresh : BOOLEAN]
  /\ rev \in [state : {"none", "running", "failed", "interrupted", "approved", "needs_fix"},
              diff : Trees, fresh : BOOLEAN]
  /\ advice \in [why : {"none", "needs_user", "mark_pre_existing"}, baseline : BaselineOutcomes]
  /\ loop \in [state : {"none", "running", "completed", "failed", "exhausted", "interrupted"},
               attempts : 0..MaxFix, open : BOOLEAN, ends : 0..1]
  /\ exam \in [before : Trees, moved : BOOLEAN,
               outcome : {"none", "not_run", "invalidated"} \cup Outcomes]
  /\ prop \in [kind : {"none", "reviewed", "advisory", "agent"}, diff : Trees,
               outcome : {"none", "not_run", "invalidated", "approved", "needs_fix"} \cup Outcomes]
  /\ report \in {"none", "no_changes", "needs_user", "failed", "exhausted", "cancelled", "raised"}
  /\ rounds \in 0..MaxFollowUps /\ faults \in 0..MaxFaults

\* A proposal offered as reviewed is the last captured change set, approved by the
\* latest review, which cites the latest verification, a pass that follows the
\* latest execution: what RunCompletionGate.complete_reviewed demands, so that it never
\* refuses the runner.
ReviewedIsCurrent ==
  (pc = "settle" \/ prop.kind = "reviewed") =>
    /\ seen = rev.diff /\ rev.state = "approved" /\ rev.fresh
    /\ ver.state = "pass" /\ ver.fresh /\ exec = "completed"
    /\ loop.state \in {"none", "completed"}
    /\ prop.kind = "reviewed" => prop.diff = seen

\* A single-agent proposal that claims a pass comes of checks that all passed after the
\* latest execution.  Unless something wrote to the worktree between a fingerprint and
\* what it brackets, a fingerprint cannot tell the change set proposed from the one the
\* checks started on: what the checks themselves write revokes the claim.
AgentPassIsReal ==
  prop.kind = "agent" /\ prop.outcome = "pass" =>
    /\ ver.fresh /\ ver.done = {"pass"}
    /\ ~exam.moved => Fingerprint[prop.diff] = Fingerprint[ver.diff]

\* The fix loop is skipped as a pre-existing failure only when the same check was
\* seen to fail on the baseline, and its proposal cites the failed verification.
SkipOnBaseline ==
  advice.why = "mark_pre_existing" =>
    /\ advice.baseline = "fail"
    /\ prop.kind = "advisory" => ver.state = "fail" /\ rev.fresh

\* Unless a write to the ledger was lost, a call that returns a report has closed the
\* fix loop, its open attempt and every port attempt it started.
ReportedIsClosed ==
  pc = "idle" /\ report \notin {"none", "raised"} /\ ~dropped =>
    /\ loop.state # "running" /\ ~loop.open
    /\ "running" \notin {exec, ver.state, rev.state}

\* The report a call returns is the status it leaves the Run in.  A cancelled
\* follow-up that had not resumed the Run yet leaves the old proposal pending.
HonestReport ==
  [][pc # "idle" /\ pc' = "idle" =>
       CASE report' = "needs_user" -> status' = "WAITING_USER" /\ prop'.kind # "none"
         [] report' = "no_changes" -> status' = "SUCCEEDED" /\ tree = 0
         [] report' \in {"failed", "exhausted"} -> status' = "FAILED" /\ prop'.kind = "none"
         [] report' = "cancelled" -> \/ status' = "CANCELLED" /\ prop'.kind = "none"
                                     \/ status' = "WAITING_USER" /\ prop' = prop
         [] report' = "raised" -> status' \in {"RUNNING", "FAILED", "WAITING_USER"}]_vars

\* Every call returns, whatever the checks, the reviewer and the decision layer answer,
\* if the ports it calls do.  (They do, see CallComesBack of WorkerAttempt, but for the
\* handshake with an ACP agent, which nothing bounds.)
CallsReturn == (pc # "idle") ~> (pc = "idle")

\* The Run's status moves as RunLifecycle allows.
Lifecycle == INSTANCE RunLifecycle WITH status <- status

ImplementsLifecycle == Lifecycle!LifecycleSpec

\* What the runner's docstring says of the initial verification: whatever is not a
\* pass goes to the fix loop.
FailuresHandedOff ==
  [][pc = "verified" /\ site = "main" /\ ver.state # "pass" /\ pc' # "verified"
       /\ faults' = faults => pc' = "handoff"]_vars
=============================================================================
