--------------------------- MODULE PipelineProofs ---------------------------
(***************************************************************************)
(* For any fix budget, number of checks, set of diffs, number of follow-ups*)
(* and of failed ledger writes, with or without a remote decision backend: *)
(* Pipeline keeps its types, offers as reviewed only what was verified and *)
(* reviewed, claims a pass only for the tree the checks ran on, closes what*)
(* it opened before it reports, reports what the ledger says, and moves the*)
(* Run as RunLifecycle allows.                                             *)
(***************************************************************************)
EXTENDS Pipeline, TLAPS

\* The types of the records, and TypeOK as the conjunction of its parts.
Triggers == [kind : {"none", "verification_fail", "review_needs_fix", "user_feedback"},
             diff : Trees]
Verifications ==
  [state : {"none", "running", "failed", "interrupted"} \cup Outcomes, diff : Trees,
   done : SUBSET Outcomes, left : 0..Checks, rerun : BOOLEAN, fresh : BOOLEAN]
Reviews == [state : {"none", "running", "failed", "interrupted", "approved", "needs_fix"},
            diff : Trees, fresh : BOOLEAN]
Advices == [why : {"none", "needs_user", "mark_pre_existing"}, baseline : BaselineOutcomes]
Loops == [state : {"none", "running", "completed", "failed", "exhausted", "interrupted"},
          attempts : 0..MaxFix, open : BOOLEAN, ends : 0..1]
Exams == [before : Trees, moved : BOOLEAN,
          outcome : {"none", "not_run", "invalidated"} \cup Outcomes]
Proposals == [kind : {"none", "reviewed", "advisory", "agent"}, diff : Trees,
              outcome : {"none", "not_run", "invalidated", "approved", "needs_fix"} \cup Outcomes]

Scalars ==
  /\ status \in {"CREATED", "RUNNING", "WAITING_USER", "SUCCEEDED", "FAILED", "CANCELLED"}
  /\ call \in {"none", "run", "follow", "agent"}
  /\ pc \in {"idle", "begin", "planned", "worked", "verified", "handoff", "attempt", "advise",
             "examined", "concluded", "reviewed", "giveup", "settle", "unwind", "abort", "feedback",
             "only"} \cup Ports
  /\ site \in {"main", "loop", "only", "agent", "advice"}
  /\ cancel \in BOOLEAN /\ plan \in BOOLEAN /\ dropped \in BOOLEAN
  /\ tree \in Trees /\ seen \in Trees
  /\ exec \in {"none", "running", "completed", "failed", "interrupted"}
  /\ report \in {"none", "no_changes", "needs_user", "failed", "exhausted", "cancelled", "raised"}
  /\ rounds \in 0..MaxFollowUps /\ faults \in 0..MaxFaults

Types == /\ Scalars /\ trigger \in Triggers /\ ver \in Verifications /\ rev \in Reviews
         /\ advice \in Advices /\ loop \in Loops /\ exam \in Exams /\ prop \in Proposals

\* Inside a call the Run is RUNNING, but for a follow-up that has not resumed it
\* yet, or that failed or was cancelled before it did; a proposal is on the table
\* exactly while the Run waits for the user.
Phase ==
  /\ pc \notin {"idle", "feedback", "abort", "unwind"} => status = "RUNNING"
  /\ pc = "feedback" => status = "WAITING_USER" /\ call = "follow"
  /\ pc \in {"abort", "unwind"} =>
       status = "RUNNING" \/ (status = "WAITING_USER" /\ call = "follow")
  /\ prop.kind # "none" <=> status = "WAITING_USER"
  /\ status = "CREATED" => pc = "idle" /\ loop = NoLoop /\ advice = NoAdvice

\* A single-agent call has no fix loop and no advice, and its attempts are its own.
AgentCall ==
  call = "agent" =>
    /\ loop = NoLoop /\ advice = NoAdvice
    /\ pc \in {"idle", "begin", "planned", "work", "worked", "examined", "verify", "verified",
               "concluded", "abort", "unwind"}
    /\ pc \in {"work", "worked", "examined", "verify", "verified", "concluded"} => site = "agent"

\* Where a fix loop is open, and that it has attempts left when the next is due.
LoopShape ==
  /\ loop.state = "running" =>
       /\ loop.ends = 0
       /\ \/ site = "loop" /\ pc \in {"attempt", "work", "worked", "verify", "verified",
                                      "review", "reviewed"}
          \/ pc \in {"abort", "unwind"} /\ status = "RUNNING"
          \/ pc = "idle" /\ status # "WAITING_USER" /\ dropped
  /\ site = "loop" /\ pc \in {"attempt", "work", "worked", "verify", "verified", "review",
                              "reviewed"} => loop.state = "running"
  /\ site \in {"main", "only", "agent"}
       /\ pc \in {"begin", "plan", "planned", "work", "worked", "examined", "verify",
                  "verified", "concluded", "review", "reviewed"} => loop = NoLoop
  /\ pc \in {"begin", "plan", "planned", "handoff", "only"} => loop = NoLoop
  /\ pc = "attempt" => site = "loop" /\ loop.attempts < MaxFix
  /\ loop.open => /\ loop.state = "running"
                  /\ pc \in {"work", "worked", "abort", "unwind", "idle"}
  /\ pc = "settle" => loop.state \in {"none", "completed"}
  /\ pc = "giveup" => loop.state \in {"failed", "exhausted"}
  /\ pc \in {"examined", "concluded"} => site = "agent"
  /\ site = "advice" /\ pc \in {"advise", "review", "reviewed"} => loop.state # "running"
  /\ pc = "advise" => site = "advice"

\* A port attempt is open only while its port is out, unless its end was lost.
PortsClosed ==
  ~dropped => /\ exec = "running" => pc = "work"
              /\ ver.state = "running" => pc = "verify"
              /\ rev.state = "running" => pc = "review"

\* The evidence gathered so far is current at every point where the runner relies on it.
Evidence ==
  /\ pc \in {"worked", "examined"} => exec = "completed"
  /\ pc \in {"verify", "verified"} => exec = "completed" /\ ver.fresh
  /\ pc = "verified" => /\ ver.state \in Outcomes \cup {"failed"}
                        /\ ver.state = "pass" => ver.done = {"pass"}
                        /\ ver.state = "failed" => site = "agent"
  /\ pc \in {"verify", "verified"} => site \in {"main", "loop", "agent"}
  /\ pc \in {"review", "reviewed"} /\ site # "advice" =>
       /\ site \in {"main", "loop"}
       /\ rev.fresh /\ ver.state = "pass" /\ ver.fresh /\ exec = "completed"
  /\ pc = "reviewed" => rev.state \in Verdicts

\* The decision layer's advice is from this loop and about its last verification.
AdviceShape ==
  /\ pc \notin {"idle", "feedback", "advise", "review", "reviewed", "abort", "unwind"} =>
       advice = NoAdvice
  /\ pc \in {"review", "reviewed"} /\ site # "advice" => advice = NoAdvice
  /\ pc = "advise" => ver.state = "fail"
  /\ pc \in {"review", "reviewed"} /\ advice.why = "mark_pre_existing" =>
       ver.state = "fail" /\ rev.fresh

\* Unless the tree moved where no fingerprint can tell, the checks of execute_task
\* start on the tree of its first fingerprint, and a pass it concludes speaks of
\* the tree it will capture.
Examined ==
  /\ pc = "examined" /\ ~exam.moved => tree = exam.before
  /\ pc \in {"verify", "verified"} /\ site = "agent" /\ ~exam.moved => ver.diff = exam.before
  /\ pc = "concluded" /\ exam.outcome = "pass" =>
       /\ ver.fresh /\ ver.done = {"pass"}
       /\ ~exam.moved => Fingerprint[tree] = Fingerprint[ver.diff]

IInv == /\ TypeOK /\ Phase /\ AgentCall /\ LoopShape /\ PortsClosed /\ Evidence /\ AdviceShape
        /\ Examined /\ ReviewedIsCurrent /\ AgentPassIsReal /\ SkipOnBaseline

\* What HonestReport and ImplementsLifecycle say of one step.
HonestAct ==
  pc # "idle" /\ pc' = "idle" =>
    CASE report' = "needs_user" -> status' = "WAITING_USER" /\ prop'.kind # "none"
      [] report' = "no_changes" -> status' = "SUCCEEDED" /\ tree = 0
      [] report' \in {"failed", "exhausted"} -> status' = "FAILED" /\ prop'.kind = "none"
      [] report' = "cancelled" -> \/ status' = "CANCELLED" /\ prop'.kind = "none"
                                  \/ status' = "WAITING_USER" /\ prop' = prop
      [] report' = "raised" -> status' \in {"RUNNING", "FAILED", "WAITING_USER"}

LifeAct == [Lifecycle!LifecycleNext]_status

-----------------------------------------------------------------------------
\* TypeOK is the conjunction of its parts.
LEMMA TypeParts == TypeOK <=> Types
BY DEF TypeOK, Types, Scalars, Triggers, Verifications, Reviews, Advices, Loops, Exams, Proposals

\* The loop is skipped as a pre-existing failure only on a baseline that really
\* failed (_guard_pre_existing), whatever a remote model answers.
LEMMA SkipNeedsFail ==
  ASSUME NEW remote, NEW b, "mark_pre_existing" \in TriageActions(remote, b)
  PROVE  b = "fail"
<1>1. PICK a \in UNION {BackendAnswers(remote, s, b) : s \in Signals} :
        "mark_pre_existing" = GuardPreExisting(TriageAction(a), b)
  BY DEF TriageActions
<1> QED BY <1>1 DEF GuardPreExisting

\* Closing a loop that is open (its trail has no end yet) keeps its type.
LEMMA ClosedType ==
  ASSUME Types, LoopShape, loop.state = "running",
         NEW s \in {"completed", "failed", "exhausted", "interrupted"}, CloseLoop(s)
  PROVE  loop' \in Loops
<1>1. loop \in Loops /\ loop.ends = 0
  BY DEF Types, LoopShape
<1>2. loop' = [loop EXCEPT !.state = s, !.open = FALSE, !.ends = 1]
  BY <1>1 DEF CloseLoop
<1>3. 1 \in 0..1
  OBVIOUS
<1> QED BY <1>1, <1>2, <1>3 DEF Loops

\* Every step keeps the types.
LEMMA TypeStep ==
  ASSUME Types, IInv, [Next]_vars
  PROVE  Types'
<1> USE DEF IInv, Types
<1>1. CASE Begin
  <2>1. Scalars'
    BY <1>1 DEF Begin, Scalars, Ports
  <2> QED BY <1>1, <2>1 DEF Begin
<1>2. CASE BeginAgent
  <2>1. plan' \in BOOLEAN
    BY <1>2 DEF BeginAgent, DetectPlan, Scalars
  <2>2. Scalars'
    BY <1>2, <2>1 DEF BeginAgent, DetectPlan, Scalars, Ports
  <2> QED BY <1>2, <2>1, <2>2 DEF BeginAgent, DetectPlan
<1>3. CASE PlanReturns
  <2>1. plan' \in BOOLEAN
    BY <1>3 DEF PlanReturns, DetectPlan, Scalars
  <2>2. Scalars'
    BY <1>3, <2>1 DEF PlanReturns, DetectPlan, Scalars, Ports
  <2> QED BY <1>3, <2>1, <2>2 DEF PlanReturns, DetectPlan
<1>4. CASE StartWork
  <2>1. ver' \in Verifications
    BY <1>4, PipelineAssumption DEF StartWork, Work, Verifications, Outcomes, Scalars
  <2>2. rev' \in Reviews
    BY <1>4 DEF StartWork, Work, Reviews, Verdicts, NoReview, Trees, Scalars
  <2>3. Scalars'
    BY <1>4 DEF StartWork, Work, Scalars, Ports
  <2> QED BY <1>4, <2>1, <2>2, <2>3 DEF StartWork, Work
<1>5. CASE WorkReturns
  <2>1. Scalars'
    BY <1>5 DEF WorkReturns, Scalars, Ports
  <2> QED BY <1>5, <2>1 DEF WorkReturns
<1>6. CASE NoChanges
  <2>1. Scalars'
    BY <1>6 DEF NoChanges, AttemptMade, Record, Return, Scalars, Ports
  <2> QED BY <1>6, <2>1 DEF NoChanges, AttemptMade, Record, Return
<1>7. CASE StartVerify
  <2>1. ver' \in Verifications
    BY <1>7, PipelineAssumption DEF StartVerify, Verify, Verifications, Scalars
  <2>2. rev' \in Reviews
    BY <1>7 DEF StartVerify, Verify, Reviews
  <2>3. Scalars'
    BY <1>7 DEF StartVerify, AttemptMade, Capture, Verify, Scalars, Ports
  <2> QED BY <1>7, <2>1, <2>2, <2>3 DEF StartVerify, AttemptMade, Capture, Verify
<1>8. CASE StartAdvice
  <2>1. rev' \in Reviews
    BY <1>8 DEF StartAdvice, Capture, Review, Reviews, Verdicts, NoReview, Trees, Scalars
  <2>2. Scalars'
    BY <1>8 DEF StartAdvice, Capture, Review, Scalars, Ports
  <2> QED BY <1>8, <2>1, <2>2 DEF StartAdvice, Capture, Review
<1>9. CASE AgentUnverified
  <2>1. exam' \in Exams
    BY <1>9 DEF AgentUnverified, Exams
  <2>2. Scalars'
    BY <1>9 DEF AgentUnverified, Capture, Scalars, Ports
  <2> QED BY <1>9, <2>1, <2>2 DEF AgentUnverified
<1>10. ASSUME NEW o \in Outcomes, CheckEnds(o) PROVE Types'
  <2> DEFINE done == ver.done \cup {o}
  <2>1. ver' \in Verifications
    <3>1. /\ done \in SUBSET Outcomes /\ Worst(done) \in Outcomes
          /\ Checks \in Nat /\ ver \in Verifications
      BY PipelineAssumption DEF Verifications, Worst, Outcomes
    <3> HIDE DEF done
    <3>2. CASE ver.left > 1
      <4>1. ver' = [ver EXCEPT !.done = done, !.left = ver.left - 1]
        BY <1>10, <3>2 DEF CheckEnds, done
      <4>2. ver.left \in 0..Checks /\ ver.left - 1 \in 0..Checks
        BY <3>1, <3>2 DEF Verifications
      <4> QED BY <3>1, <4>1, <4>2 DEF Verifications
    <3>3. CASE ~(ver.left > 1)
      <4>1. ver' = [ver EXCEPT !.done = done, !.left = 0, !.state = Worst(done)]
        BY <1>10, <3>3 DEF CheckEnds, done
      <4>2. 0 \in 0..Checks
        BY <3>1
      <4> QED BY <3>1, <4>1, <4>2 DEF Verifications
    <3> QED BY <3>2, <3>3
  <2>2. Scalars'
    BY <1>10 DEF CheckEnds, Worst, Scalars, Ports
  <2> QED BY <1>10, <2>1, <2>2 DEF CheckEnds, Worst
<1>11. CASE HandOffFailure
  <2>1. trigger' \in Triggers
    BY <1>11 DEF HandOffFailure, Triggers, Trees, Scalars
  <2>2. Scalars'
    BY <1>11 DEF HandOffFailure, Scalars, Ports
  <2> QED BY <1>11, <2>1, <2>2 DEF HandOffFailure
<1>12. CASE RefuseTrigger
  <2>1. Scalars'
    BY <1>12 DEF RefuseTrigger, Raise, Return, Scalars, Ports
  <2> QED BY <1>12, <2>1 DEF RefuseTrigger, Raise, Return
<1>13. CASE StartReview
  <2>1. rev' \in Reviews
    BY <1>13 DEF StartReview, Capture, Review, Reviews, Verdicts, NoReview, Trees, Scalars
  <2>2. Scalars'
    BY <1>13 DEF StartReview, Capture, Review, Scalars, Ports
  <2> QED BY <1>13, <2>1, <2>2 DEF StartReview, Capture, Review
<1>14. CASE AgentVerified
  <2>1. exam' \in Exams
    <3>1. PICK o : exam' = [exam EXCEPT !.outcome = o]
                   /\ o \in {"error", "invalidated", ver.state}
                   /\ (ver.state = "failed" => o = "error")
      BY <1>14 DEF AgentVerified, Evidence
    <3>2. ver.state # "failed" => ver.state \in Outcomes
      BY <1>14 DEF AgentVerified, Evidence
    <3>3. o \in {"none", "not_run", "invalidated"} \cup Outcomes
      BY <3>1, <3>2 DEF Outcomes
    <3> QED BY <3>1, <3>3 DEF Exams
  <2>2. Scalars'
    BY <1>14 DEF AgentVerified, Scalars, Ports
  <2> QED BY <1>14, <2>1, <2>2 DEF AgentVerified
<1>15. CASE StartLoop
  <2>1. loop' \in Loops
    BY <1>15, PipelineAssumption DEF StartLoop, Loops, NoLoop, LoopShape, Scalars
  <2>2. Scalars'
    BY <1>15 DEF StartLoop, Scalars, Ports
  <2> QED BY <1>15, <2>1, <2>2 DEF StartLoop
<1>16. CASE StaleTrigger
  <2>1. Scalars'
    BY <1>16 DEF StaleTrigger, Raise, Return, Scalars, Ports
  <2> QED BY <1>16, <2>1 DEF StaleTrigger, Raise, Return
<1>17. CASE StartAttempt
  <2>1. loop' \in Loops
    <3>1. loop \in Loops /\ loop.attempts + 1 \in 0..MaxFix
      BY <1>17, PipelineAssumption DEF StartAttempt, LoopShape, Loops
    <3>2. loop' = [loop EXCEPT !.attempts = loop.attempts + 1, !.open = TRUE]
      BY <1>17 DEF StartAttempt
    <3> QED BY <3>1, <3>2 DEF Loops
  <2>2. ver' \in Verifications
    BY <1>17 DEF StartAttempt, Work, Verifications
  <2>3. rev' \in Reviews
    BY <1>17 DEF StartAttempt, Work, Reviews
  <2>4. Scalars'
    BY <1>17 DEF StartAttempt, Capture, Work, Scalars, Ports
  <2> QED BY <1>17, <2>1, <2>2, <2>3, <2>4 DEF StartAttempt, Capture, Work
<1>18. CASE Stalled
  <2>1. loop' \in Loops
    BY <1>18, ClosedType DEF Stalled, LoopGivesUp, LoopShape
  <2>2. Scalars'
    BY <1>18 DEF Stalled, LoopGivesUp, CloseLoop, Record, Return, Scalars, Ports
  <2> QED BY <1>18, <2>1, <2>2 DEF Stalled, LoopGivesUp, CloseLoop, Record, Return
<1>19. CASE StartLoopVerify
  <2>1. loop' \in Loops
    BY <1>19, PipelineAssumption DEF StartLoopVerify, Capture, Verify, Loops, NoLoop, LoopShape,
                                     Scalars
  <2>2. ver' \in Verifications
    BY <1>19, PipelineAssumption DEF StartLoopVerify, Capture, Verify, Verifications, Outcomes,
                                     Scalars
  <2>3. rev' \in Reviews
    BY <1>19 DEF StartLoopVerify, Capture, Verify, Reviews, Verdicts, NoReview, Trees, Scalars
  <2>4. Scalars'
    BY <1>19 DEF StartLoopVerify, Capture, Verify, Scalars, Ports
  <2> QED BY <1>19, <2>1, <2>2, <2>3, <2>4 DEF StartLoopVerify, Capture, Verify
<1>20. CASE LoopVerifyBroken
  <2>1. loop' \in Loops
    BY <1>20, ClosedType DEF LoopVerifyBroken, LoopGivesUp, LoopShape
  <2>2. Scalars'
    BY <1>20 DEF LoopVerifyBroken, LoopGivesUp, CloseLoop, Record, Return, Scalars, Ports
  <2> QED BY <1>20, <2>1, <2>2 DEF LoopVerifyBroken, LoopGivesUp, CloseLoop, Record, Return
<1>21. ASSUME NEW b \in BaselineOutcomes, Triage(b) PROVE Types'
  <2>1. loop' \in Loops
    BY <1>21, ClosedType DEF Triage, NextAttempt, BudgetExhausted, LoopGivesUp, LoopShape
  <2>2. ver' \in Verifications
    <3>1. CASE UNCHANGED ver
      BY <3>1
    <3>2. CASE Verify(TRUE)
      BY <3>2, PipelineAssumption DEF Verify, Verifications, Scalars
    <3> QED BY <1>21, <3>1, <3>2 DEF Triage, NextAttempt, BudgetExhausted, LoopGivesUp
  <2>3. rev' \in Reviews
    BY <1>21 DEF Triage, NextAttempt, BudgetExhausted, LoopGivesUp, Verify, Reviews
  <2>4. advice' \in Advices
    <3>1. CASE UNCHANGED advice
      BY <3>1
    <3>2. CASE \E a \in {"needs_user", "mark_pre_existing"} :
                 advice' = [why |-> a, baseline |-> b]
      BY <3>2 DEF Advices
    <3> QED BY <1>21, <3>1, <3>2 DEF Triage, NextAttempt, BudgetExhausted, LoopGivesUp
  <2>5. Scalars'
    BY <1>21 DEF Triage, NextAttempt, BudgetExhausted, LoopGivesUp, CloseLoop, Record, Return,
                 Verify, Scalars, Ports
  <2> QED BY <1>21, <2>1, <2>2, <2>3, <2>4, <2>5 DEF Triage, NextAttempt, BudgetExhausted,
       LoopGivesUp, CloseLoop, Record, Return, Verify
<1>22. CASE StartDecisionAdvice
  <2>1. rev' \in Reviews
    BY <1>22 DEF StartDecisionAdvice, Capture, Review, Reviews, Verdicts, NoReview, Trees, Scalars
  <2>2. Scalars'
    BY <1>22 DEF StartDecisionAdvice, Capture, Review, Scalars, Ports
  <2> QED BY <1>22, <2>1, <2>2 DEF StartDecisionAdvice, Capture, Review
<1>23. ASSUME NEW v \in Verdicts, ReviewReturns(v) PROVE Types'
  <2>1. rev' \in Reviews
    BY <1>23 DEF ReviewReturns, Reviews, Verdicts, NoReview, Trees, Scalars
  <2>2. Scalars'
    BY <1>23 DEF ReviewReturns, Scalars, Ports
  <2> QED BY <1>23, <2>1, <2>2 DEF ReviewReturns
<1>24. CASE Advised
  <2>1. prop' \in Proposals
    BY <1>24 DEF Advised, Propose, Record, Return, Proposals, NoProposal, Outcomes, Trees, Phase,
                 Evidence, ReviewedIsCurrent, Verdicts, Scalars
  <2>2. Scalars'
    BY <1>24 DEF Advised, Propose, Record, Return, Scalars, Ports
  <2> QED BY <1>24, <2>1, <2>2 DEF Advised, Propose, Record, Return
<1>25. CASE HandOffReview
  <2>1. trigger' \in Triggers
    BY <1>25 DEF HandOffReview, Triggers, Reviews
  <2>2. Scalars'
    BY <1>25 DEF HandOffReview, Scalars, Ports
  <2> QED BY <1>25, <2>1, <2>2 DEF HandOffReview
<1>26. CASE LoopNeedsFix
  <2>1. loop' \in Loops
    BY <1>26, ClosedType DEF LoopNeedsFix, NextAttempt, BudgetExhausted, LoopGivesUp, LoopShape
  <2>2. Scalars'
    BY <1>26 DEF LoopNeedsFix, NextAttempt, BudgetExhausted, LoopGivesUp, CloseLoop, Record,
                 Return, Scalars, Ports
  <2> QED BY <1>26, <2>1, <2>2 DEF LoopNeedsFix, NextAttempt, BudgetExhausted, LoopGivesUp,
                                   CloseLoop, Record, Return
<1>27. CASE ChangedAfterReview
  <2>1. loop' \in Loops
    BY <1>27, ClosedType DEF ChangedAfterReview, LoopGivesUp, LoopShape
  <2>2. Scalars'
    BY <1>27 DEF ChangedAfterReview, LoopGivesUp, Capture, CloseLoop, Record, Return, Scalars, Ports
  <2> QED BY <1>27, <2>1, <2>2 DEF ChangedAfterReview, LoopGivesUp
<1>28. CASE Approved
  <2>1. loop' \in Loops
    BY <1>28, ClosedType DEF Approved, LoopShape
  <2>2. Scalars'
    BY <1>28 DEF Approved, Capture, CloseLoop, Scalars, Ports
  <2> QED BY <1>28, <2>1, <2>2 DEF Approved, Capture, CloseLoop
<1>29. CASE Settle
  <2>1. prop' \in Proposals
    BY <1>29 DEF Settle, Propose, Record, Return, Proposals, NoProposal, Outcomes, Trees, Phase,
                 Evidence, ReviewedIsCurrent, Verdicts, Scalars
  <2>2. Scalars'
    BY <1>29 DEF Settle, Propose, Record, Return, Scalars, Ports
  <2> QED BY <1>29, <2>1, <2>2 DEF Settle, Propose, Record, Return
<1>30. CASE ObserveCancel
  <2>1. ver' \in Verifications
    BY <1>30, PipelineAssumption DEF ObserveCancel, Interrupted, AtCheckpoint, Verifications,
                                     Outcomes, Scalars
  <2>2. rev' \in Reviews
    BY <1>30 DEF ObserveCancel, Interrupted, AtCheckpoint, Reviews, Verdicts, NoReview, Trees,
                 Scalars
  <2>3. Scalars'
    BY <1>30 DEF ObserveCancel, Interrupted, AtCheckpoint, Scalars, Ports
  <2> QED BY <1>30, <2>1, <2>2, <2>3 DEF ObserveCancel, Interrupted, AtCheckpoint
<1>31. CASE Unwind
  <2>1. loop' \in Loops
    BY <1>31, ClosedType DEF Unwind, UnwindLoop
  <2>2. Scalars'
    BY <1>31 DEF Unwind, UnwindLoop, CloseLoop, Record, Return, Scalars, Ports
  <2> QED BY <1>31, <2>1, <2>2 DEF Unwind, UnwindLoop, CloseLoop, Record, Return
<1>32. CASE PortFails
  <2>1. ver' \in Verifications
    BY <1>32, PipelineAssumption DEF PortFails, Interrupted, Verifications, Outcomes, Scalars
  <2>2. rev' \in Reviews
    BY <1>32 DEF PortFails, Interrupted, Reviews, Verdicts, NoReview, Trees, Scalars
  <2>3. Scalars'
    BY <1>32 DEF PortFails, Interrupted, Scalars, Ports
  <2> QED BY <1>32, <2>1, <2>2, <2>3 DEF PortFails, Interrupted
<1>33. CASE CaptureFails
  <2>1. Scalars'
    BY <1>33 DEF CaptureFails, Scalars, Ports
  <2> QED BY <1>33, <2>1 DEF CaptureFails
<1>34. CASE Abort
  <2>1. loop' \in Loops
    BY <1>34, ClosedType DEF Abort
  <2>2. Scalars'
    BY <1>34 DEF Abort, CloseLoop, Record, Return, Scalars, Ports
  <2> QED BY <1>34, <2>1, <2>2 DEF Abort, CloseLoop, Record, Return
<1>35. CASE DropTrail
  <2>1. Scalars'
    BY <1>35, PipelineAssumption DEF DropTrail, Record, Return, Scalars, Ports
  <2> QED BY <1>35, <2>1 DEF DropTrail, Record, Return
<1>36. CASE LedgerFails
  <2>1. Scalars'
    BY <1>36, PipelineAssumption DEF LedgerFails, Raise, Return, Scalars, Ports
  <2> QED BY <1>36, <2>1 DEF LedgerFails, Raise, Return
<1>37. CASE Resume
  <2>1. trigger' \in Triggers
    BY <1>37 DEF Resume, Capture, DetectPlan, Triggers, Trees, Scalars
  <2>2. prop' \in Proposals
    BY <1>37 DEF Resume, Capture, DetectPlan, Proposals, NoProposal, Outcomes, Trees, Phase,
                 Evidence, ReviewedIsCurrent, Verdicts, Scalars
  <2>3. loop' \in Loops
    BY <1>37, PipelineAssumption DEF Resume, Capture, DetectPlan, Loops, NoLoop, LoopShape,
                                     Scalars
  <2>4. rev' \in Reviews
    BY <1>37 DEF Resume, Capture, DetectPlan, Reviews, Verdicts, NoReview, Trees, Scalars
  <2>5. advice' \in Advices
    BY <1>37 DEF Resume, Capture, DetectPlan, Advices, NoAdvice, BaselineOutcomes, Scalars
  <2>6. plan' \in BOOLEAN
    BY <1>37 DEF Resume, Capture, DetectPlan, Scalars
  <2>7. Scalars'
    BY <1>37, <2>6 DEF Resume, Capture, DetectPlan, Scalars, Ports
  <2> QED BY <1>37, <2>1, <2>2, <2>3, <2>4, <2>5, <2>6, <2>7 DEF Resume, Capture, DetectPlan
<1>38. CASE StartFeedbackWork
  <2>1. ver' \in Verifications
    BY <1>38, PipelineAssumption DEF StartFeedbackWork, Work, Verifications, Outcomes, Scalars
  <2>2. rev' \in Reviews
    BY <1>38 DEF StartFeedbackWork, Work, Reviews, Verdicts, NoReview, Trees, Scalars
  <2>3. Scalars'
    BY <1>38 DEF StartFeedbackWork, Work, Scalars, Ports
  <2> QED BY <1>38, <2>1, <2>2, <2>3 DEF StartFeedbackWork, Work
<1>39. ASSUME NEW c \in {"run", "agent"}, Launch(c) PROVE Types'
  <2>1. Scalars'
    BY <1>39 DEF Launch, Scalars, Ports
  <2> QED BY <1>39, <2>1 DEF Launch
<1>40. CASE HostSettles
  <2>1. Scalars'
    BY <1>40 DEF HostSettles, Scalars, Ports
  <2> QED BY <1>40, <2>1 DEF HostSettles
<1>41. CASE Cancel
  <2>1. Scalars'
    BY <1>41 DEF Cancel, Scalars, Ports
  <2> QED BY <1>41, <2>1 DEF Cancel
<1>42. CASE Mutate
  <2>1. exam' \in Exams
    BY <1>42 DEF Mutate, Exams
  <2>2. Scalars'
    BY <1>42 DEF Mutate, Scalars, Ports
  <2> QED BY <1>42, <2>1, <2>2 DEF Mutate
<1>43. CASE UserDecides
  <2>1. prop' \in Proposals
    BY <1>43 DEF UserDecides, Proposals, NoProposal, Outcomes, Trees, Phase, Evidence,
                 ReviewedIsCurrent, Verdicts, Scalars
  <2>2. Scalars'
    BY <1>43 DEF UserDecides, Scalars, Ports
  <2> QED BY <1>43, <2>1, <2>2 DEF UserDecides
<1>44. CASE FollowUp
  <2>1. rounds' \in 0..MaxFollowUps
    BY <1>44, PipelineAssumption DEF FollowUp, Scalars
  <2>2. Scalars'
    BY <1>44, <2>1 DEF FollowUp, Scalars, Ports
  <2> QED BY <1>44, <2>1, <2>2 DEF FollowUp
<1>45. CASE AgentFollowUp
  <2>1. prop' \in Proposals
    BY <1>45 DEF AgentFollowUp, Proposals, NoProposal, Trees
  <2>2. rounds' \in 0..MaxFollowUps
    BY <1>45, PipelineAssumption DEF AgentFollowUp, Scalars
  <2>3. Scalars'
    BY <1>45, <2>2 DEF AgentFollowUp, Scalars, Ports
  <2> QED BY <1>45, <2>1, <2>2, <2>3 DEF AgentFollowUp
<1>46. CASE UNCHANGED vars
  BY <1>46 DEF vars, Scalars
<1>47. CASE AgentExamines
  <2>1. exam' \in Exams
    BY <1>47 DEF AgentExamines, Exams, Scalars
  <2>2. Scalars'
    BY <1>47 DEF AgentExamines, Scalars, Ports
  <2> QED BY <1>47, <2>1, <2>2 DEF AgentExamines
<1>48. CASE AgentProposes
  <2>1. prop' \in Proposals
    BY <1>48 DEF AgentProposes, Propose, Record, Return, Proposals, Exams, Scalars
  <2>2. Scalars'
    BY <1>48 DEF AgentProposes, Capture, Propose, Record, Return, Scalars, Ports
  <2> QED BY <1>48, <2>1, <2>2 DEF AgentProposes, Capture, Propose, Record, Return
<1>49. CASE GiveUp
  <2>1. Scalars'
    BY <1>49 DEF GiveUp, LoopShape, Record, Return, Scalars, Ports
  <2> QED BY <1>49, <2>1 DEF GiveUp, Record, Return
<1> QED BY <1>1, <1>2, <1>3, <1>4, <1>5, <1>6, <1>7, <1>8, <1>9, <1>10, <1>11, <1>12,
          <1>13, <1>14, <1>15, <1>16, <1>17, <1>18, <1>19, <1>20, <1>21, <1>22, <1>23,
          <1>24, <1>25, <1>26, <1>27, <1>28, <1>29, <1>30, <1>31, <1>32, <1>33, <1>34,
          <1>35, <1>36, <1>37, <1>38, <1>39, <1>40, <1>41, <1>42, <1>43, <1>44, <1>45,
          <1>46, <1>47, <1>48, <1>49
       DEF Next, PipelineStep

\* execute_task has no fix loop: no step gives it one.
LEMMA AgentCallStep ==
  ASSUME IInv, [Next]_vars
  PROVE  AgentCall'
<1> USE DEF IInv, TypeOK, Phase, AgentCall, NoLoop, NoAdvice, Ports
<1>1. CASE Begin
  BY <1>1 DEF Begin
<1>2. CASE BeginAgent
  BY <1>2 DEF BeginAgent, DetectPlan
<1>3. CASE PlanReturns
  BY <1>3 DEF PlanReturns, DetectPlan
<1>4. CASE StartWork
  BY <1>4 DEF StartWork, Work
<1>5. CASE WorkReturns
  BY <1>5 DEF WorkReturns
<1>6. CASE NoChanges
  BY <1>6 DEF NoChanges, AttemptMade, Record, Return
<1>7. CASE StartVerify
  BY <1>7 DEF StartVerify, AttemptMade, Capture, Verify
<1>8. CASE StartAdvice
  BY <1>8 DEF StartAdvice, Capture, Review
<1>9. CASE AgentUnverified
  BY <1>9 DEF AgentUnverified, Capture
<1>10. ASSUME NEW o \in Outcomes, CheckEnds(o) PROVE AgentCall'
  BY <1>10 DEF CheckEnds, Worst
<1>11. CASE HandOffFailure
  BY <1>11 DEF HandOffFailure
<1>12. CASE RefuseTrigger
  BY <1>12 DEF RefuseTrigger, Raise, Return
<1>13. CASE StartReview
  BY <1>13 DEF StartReview, Capture, Review
<1>14. CASE AgentVerified
  BY <1>14 DEF AgentVerified, Untouched
<1>15. CASE StartLoop
  BY <1>15 DEF StartLoop
<1>16. CASE StaleTrigger
  BY <1>16 DEF StaleTrigger, Raise, Return
<1>17. CASE StartAttempt
  BY <1>17 DEF StartAttempt, Capture, Work
<1>18. CASE Stalled
  BY <1>18 DEF Stalled, LoopGivesUp, CloseLoop, Record, Return
<1>19. CASE StartLoopVerify
  BY <1>19 DEF StartLoopVerify, Capture, Verify
<1>20. CASE LoopVerifyBroken
  BY <1>20 DEF LoopVerifyBroken, LoopGivesUp, CloseLoop, Record, Return
<1>21. ASSUME NEW b \in BaselineOutcomes, Triage(b) PROVE AgentCall'
  BY <1>21 DEF Triage, NextAttempt, BudgetExhausted, LoopGivesUp, CloseLoop, Record, Return,
               Verify
<1>22. CASE StartDecisionAdvice
  BY <1>22 DEF StartDecisionAdvice, Capture, Review
<1>23. ASSUME NEW v \in Verdicts, ReviewReturns(v) PROVE AgentCall'
  BY <1>23 DEF ReviewReturns
<1>24. CASE Advised
  BY <1>24 DEF Advised, Propose, Record, Return
<1>25. CASE HandOffReview
  BY <1>25 DEF HandOffReview
<1>26. CASE LoopNeedsFix
  BY <1>26 DEF LoopNeedsFix, NextAttempt, BudgetExhausted, LoopGivesUp, CloseLoop, Record, Return
<1>27. CASE ChangedAfterReview
  BY <1>27 DEF ChangedAfterReview, LoopGivesUp, Capture, CloseLoop, Record, Return
<1>28. CASE Approved
  BY <1>28 DEF Approved, Capture, CloseLoop
<1>29. CASE Settle
  BY <1>29 DEF Settle, Propose, Record, Return
<1>30. CASE ObserveCancel
  BY <1>30 DEF ObserveCancel, Interrupted, AtCheckpoint
<1>31. CASE Unwind
  BY <1>31 DEF Unwind, UnwindLoop, CloseLoop, Record, Return
<1>32. CASE PortFails
  BY <1>32 DEF PortFails, Interrupted
<1>33. CASE CaptureFails
  BY <1>33 DEF CaptureFails
<1>34. CASE Abort
  BY <1>34 DEF Abort, CloseLoop, Record, Return
<1>35. CASE DropTrail
  BY <1>35 DEF DropTrail, Record, Return
<1>36. CASE LedgerFails
  BY <1>36 DEF LedgerFails, Raise, Return
<1>37. CASE Resume
  BY <1>37 DEF Resume, Capture, DetectPlan
<1>38. CASE StartFeedbackWork
  BY <1>38 DEF StartFeedbackWork, Work
<1>39. ASSUME NEW c \in {"run", "agent"}, Launch(c) PROVE AgentCall'
  BY <1>39 DEF Launch
<1>40. CASE HostSettles
  BY <1>40 DEF HostSettles
<1>41. CASE Cancel
  BY <1>41 DEF Cancel
<1>42. CASE Mutate
  BY <1>42 DEF Mutate
<1>43. CASE UserDecides
  BY <1>43 DEF UserDecides
<1>44. CASE FollowUp
  BY <1>44 DEF FollowUp
<1>45. CASE AgentFollowUp
  BY <1>45 DEF AgentFollowUp
<1>46. CASE UNCHANGED vars
  BY <1>46 DEF vars
<1>47. CASE AgentExamines
  BY <1>47 DEF AgentExamines
<1>48. CASE AgentProposes
  BY <1>48 DEF AgentProposes, Capture, Propose, Record, Return
<1>49. CASE GiveUp
  BY <1>49 DEF GiveUp, Record, Return
<1> QED BY <1>1, <1>2, <1>3, <1>4, <1>5, <1>6, <1>7, <1>8, <1>9, <1>10, <1>11, <1>12,
          <1>13, <1>14, <1>15, <1>16, <1>17, <1>18, <1>19, <1>20, <1>21, <1>22, <1>23,
          <1>24, <1>25, <1>26, <1>27, <1>28, <1>29, <1>30, <1>31, <1>32, <1>33, <1>34,
          <1>35, <1>36, <1>37, <1>38, <1>39, <1>40, <1>41, <1>42, <1>43, <1>44, <1>45,
          <1>46, <1>47, <1>48, <1>49
       DEF Next, PipelineStep

\* Every step keeps the phase: the Run runs while its call does, and a proposal is
\* on the table exactly while it waits.
LEMMA PhaseStep ==
  ASSUME IInv, [Next]_vars
  PROVE  Phase'
<1> USE DEF IInv, TypeOK, Phase, NoProposal, Ports
<1>1. CASE Begin
  BY <1>1 DEF Begin
<1>2. CASE BeginAgent
  BY <1>2 DEF BeginAgent, DetectPlan
<1>3. CASE PlanReturns
  BY <1>3 DEF PlanReturns, DetectPlan
<1>4. CASE StartWork
  BY <1>4 DEF StartWork, Work
<1>5. CASE WorkReturns
  BY <1>5 DEF WorkReturns
<1>6. CASE NoChanges
  BY <1>6 DEF NoChanges, AttemptMade, Record, Return
<1>7. CASE StartVerify
  BY <1>7 DEF StartVerify, AttemptMade, Capture, Verify
<1>8. CASE StartAdvice
  BY <1>8 DEF StartAdvice, Capture, Review
<1>9. CASE AgentUnverified
  BY <1>9 DEF AgentUnverified, Capture
<1>10. ASSUME NEW o \in Outcomes, CheckEnds(o) PROVE Phase'
  BY <1>10 DEF CheckEnds, Worst
<1>11. CASE HandOffFailure
  BY <1>11 DEF HandOffFailure
<1>12. CASE RefuseTrigger
  BY <1>12 DEF RefuseTrigger, Raise, Return
<1>13. CASE StartReview
  BY <1>13 DEF StartReview, Capture, Review
<1>14. CASE AgentVerified
  BY <1>14 DEF AgentVerified, Untouched
<1>15. CASE StartLoop
  BY <1>15 DEF StartLoop
<1>16. CASE StaleTrigger
  BY <1>16 DEF StaleTrigger, Raise, Return
<1>17. CASE StartAttempt
  BY <1>17 DEF StartAttempt, Capture, Work
<1>18. CASE Stalled
  BY <1>18 DEF Stalled, LoopGivesUp, CloseLoop, Record, Return
<1>19. CASE StartLoopVerify
  BY <1>19 DEF StartLoopVerify, Capture, Verify
<1>20. CASE LoopVerifyBroken
  BY <1>20 DEF LoopVerifyBroken, LoopGivesUp, CloseLoop, Record, Return
<1>21. ASSUME NEW b \in BaselineOutcomes, Triage(b) PROVE Phase'
  BY <1>21 DEF Triage, NextAttempt, BudgetExhausted, LoopGivesUp, CloseLoop, Record, Return,
               Verify
<1>22. CASE StartDecisionAdvice
  BY <1>22 DEF StartDecisionAdvice, Capture, Review
<1>23. ASSUME NEW v \in Verdicts, ReviewReturns(v) PROVE Phase'
  BY <1>23 DEF ReviewReturns
<1>24. CASE Advised
  BY <1>24 DEF Advised, Propose, Record, Return
<1>25. CASE HandOffReview
  BY <1>25 DEF HandOffReview
<1>26. CASE LoopNeedsFix
  BY <1>26 DEF LoopNeedsFix, NextAttempt, BudgetExhausted, LoopGivesUp, CloseLoop, Record, Return
<1>27. CASE ChangedAfterReview
  BY <1>27 DEF ChangedAfterReview, LoopGivesUp, Capture, CloseLoop, Record, Return
<1>28. CASE Approved
  BY <1>28 DEF Approved, Capture, CloseLoop
<1>29. CASE Settle
  BY <1>29 DEF Settle, Propose, Record, Return
<1>30. CASE ObserveCancel
  BY <1>30 DEF ObserveCancel, Interrupted, AtCheckpoint
<1>31. CASE Unwind
  BY <1>31 DEF Unwind, UnwindLoop, CloseLoop, Record, Return
<1>32. CASE PortFails
  BY <1>32 DEF PortFails, Interrupted
<1>33. CASE CaptureFails
  BY <1>33 DEF CaptureFails
<1>34. CASE Abort
  BY <1>34 DEF Abort, CloseLoop, Record, Return
<1>35. CASE DropTrail
  BY <1>35 DEF DropTrail, Record, Return
<1>36. CASE LedgerFails
  BY <1>36 DEF LedgerFails, Raise, Return
<1>37. CASE Resume
  BY <1>37 DEF Resume, Capture, DetectPlan
<1>38. CASE StartFeedbackWork
  BY <1>38 DEF StartFeedbackWork, Work
<1>39. ASSUME NEW c \in {"run", "agent"}, Launch(c) PROVE Phase'
  BY <1>39 DEF Launch
<1>40. CASE HostSettles
  BY <1>40 DEF HostSettles
<1>41. CASE Cancel
  BY <1>41 DEF Cancel
<1>42. CASE Mutate
  BY <1>42 DEF Mutate
<1>43. CASE UserDecides
  BY <1>43 DEF UserDecides
<1>44. CASE FollowUp
  BY <1>44 DEF FollowUp
<1>45. CASE AgentFollowUp
  BY <1>45 DEF AgentFollowUp
<1>46. CASE UNCHANGED vars
  BY <1>46 DEF vars
<1>47. CASE AgentExamines
  BY <1>47 DEF AgentExamines
<1>48. CASE AgentProposes
  BY <1>48 DEF AgentProposes, Capture, Propose, Record, Return
<1>49. CASE GiveUp
  BY <1>49 DEF GiveUp, Record, Return
<1> QED BY <1>1, <1>2, <1>3, <1>4, <1>5, <1>6, <1>7, <1>8, <1>9, <1>10, <1>11, <1>12,
          <1>13, <1>14, <1>15, <1>16, <1>17, <1>18, <1>19, <1>20, <1>21, <1>22, <1>23,
          <1>24, <1>25, <1>26, <1>27, <1>28, <1>29, <1>30, <1>31, <1>32, <1>33, <1>34,
          <1>35, <1>36, <1>37, <1>38, <1>39, <1>40, <1>41, <1>42, <1>43, <1>44, <1>45,
          <1>46, <1>47, <1>48, <1>49
       DEF Next, PipelineStep

\* Every step keeps the fix loop where it can be and its attempts within the budget.
LEMMA LoopStep ==
  ASSUME IInv, [Next]_vars
  PROVE  LoopShape'
<1> USE DEF IInv, TypeOK, Phase, AgentCall, LoopShape, NoLoop, Ports
<1>1. CASE Begin
  BY <1>1 DEF Begin
<1>2. CASE BeginAgent
  BY <1>2 DEF BeginAgent, DetectPlan
<1>3. CASE PlanReturns
  BY <1>3 DEF PlanReturns, DetectPlan
<1>4. CASE StartWork
  BY <1>4 DEF StartWork, Work
<1>5. CASE WorkReturns
  BY <1>5 DEF WorkReturns
<1>6. CASE NoChanges
  BY <1>6 DEF NoChanges, AttemptMade, Record, Return
<1>7. CASE StartVerify
  BY <1>7 DEF StartVerify, AttemptMade, Capture, Verify
<1>8. CASE StartAdvice
  BY <1>8 DEF StartAdvice, Capture, Review
<1>9. CASE AgentUnverified
  BY <1>9 DEF AgentUnverified, Capture
<1>10. ASSUME NEW o \in Outcomes, CheckEnds(o) PROVE LoopShape'
  BY <1>10 DEF CheckEnds, Worst
<1>11. CASE HandOffFailure
  BY <1>11 DEF HandOffFailure
<1>12. CASE RefuseTrigger
  BY <1>12 DEF RefuseTrigger, Raise, Return
<1>13. CASE StartReview
  BY <1>13 DEF StartReview, Capture, Review
<1>14. CASE AgentVerified
  BY <1>14 DEF AgentVerified, Untouched
<1>15. CASE StartLoop
  BY <1>15, PipelineAssumption DEF StartLoop
<1>16. CASE StaleTrigger
  BY <1>16 DEF StaleTrigger, Raise, Return
<1>17. CASE StartAttempt
  BY <1>17 DEF StartAttempt, Capture, Work
<1>18. CASE Stalled
  BY <1>18 DEF Stalled, LoopGivesUp, CloseLoop, Record, Return
<1>19. CASE StartLoopVerify
  BY <1>19 DEF StartLoopVerify, Capture, Verify
<1>20. CASE LoopVerifyBroken
  BY <1>20 DEF LoopVerifyBroken, LoopGivesUp, CloseLoop, Record, Return
<1>21. ASSUME NEW b \in BaselineOutcomes, Triage(b) PROVE LoopShape'
  BY <1>21, ZenonT(80) DEF Triage, NextAttempt, BudgetExhausted, LoopGivesUp, CloseLoop,
               Verify
<1>22. CASE StartDecisionAdvice
  BY <1>22 DEF StartDecisionAdvice, Capture, Review
<1>23. ASSUME NEW v \in Verdicts, ReviewReturns(v) PROVE LoopShape'
  BY <1>23 DEF ReviewReturns
<1>24. CASE Advised
  BY <1>24 DEF Advised, Propose, Record, Return
<1>25. CASE HandOffReview
  BY <1>25 DEF HandOffReview
<1>26. CASE LoopNeedsFix
  BY <1>26, ZenonT(60) DEF LoopNeedsFix, NextAttempt, BudgetExhausted, LoopGivesUp, CloseLoop
<1>27. CASE ChangedAfterReview
  BY <1>27 DEF ChangedAfterReview, LoopGivesUp, Capture, CloseLoop, Record, Return
<1>28. CASE Approved
  <2>1. CASE site = "main"
    BY <1>28, <2>1 DEF Approved
  <2>2. CASE site = "loop"
    <3>1. loop' = [loop EXCEPT !.state = "completed", !.open = FALSE, !.ends = @ + 1]
      BY <1>28, <2>2 DEF Approved, CloseLoop
    <3>2. loop'.state = "completed" /\ ~loop'.open
      BY <3>1
    <3> QED BY <1>28, <2>2, <3>2 DEF Approved
  <2> QED BY <1>28, <2>1, <2>2 DEF Approved
<1>29. CASE Settle
  BY <1>29 DEF Settle, Propose, Record, Return
<1>30. CASE ObserveCancel
  BY <1>30 DEF ObserveCancel, Interrupted, AtCheckpoint
<1>31. CASE Unwind
  BY <1>31, ZenonT(60) DEF Unwind, UnwindLoop, CloseLoop, Record, Return
<1>32. CASE PortFails
  BY <1>32 DEF PortFails, Interrupted
<1>33. CASE CaptureFails
  BY <1>33 DEF CaptureFails
<1>34. CASE Abort
  BY <1>34, ZenonT(40) DEF Abort, CloseLoop, Record, Return
<1>35. CASE DropTrail
  BY <1>35 DEF DropTrail, Record, Return
<1>36. CASE LedgerFails
  BY <1>36 DEF LedgerFails, Raise, Return
<1>37. CASE Resume
  BY <1>37 DEF Resume, Capture, DetectPlan
<1>38. CASE StartFeedbackWork
  BY <1>38 DEF StartFeedbackWork, Work
<1>39. ASSUME NEW c \in {"run", "agent"}, Launch(c) PROVE LoopShape'
  BY <1>39 DEF Launch
<1>40. CASE HostSettles
  BY <1>40 DEF HostSettles
<1>41. CASE Cancel
  BY <1>41 DEF Cancel
<1>42. CASE Mutate
  BY <1>42 DEF Mutate
<1>43. CASE UserDecides
  BY <1>43 DEF UserDecides
<1>44. CASE FollowUp
  BY <1>44 DEF FollowUp
<1>45. CASE AgentFollowUp
  BY <1>45 DEF AgentFollowUp
<1>46. CASE UNCHANGED vars
  BY <1>46 DEF vars
<1>47. CASE AgentExamines
  BY <1>47 DEF AgentExamines
<1>48. CASE AgentProposes
  BY <1>48 DEF AgentProposes, Capture, Propose, Record, Return
<1>49. CASE GiveUp
  BY <1>49 DEF GiveUp, Record, Return
<1> QED BY <1>1, <1>2, <1>3, <1>4, <1>5, <1>6, <1>7, <1>8, <1>9, <1>10, <1>11, <1>12,
          <1>13, <1>14, <1>15, <1>16, <1>17, <1>18, <1>19, <1>20, <1>21, <1>22, <1>23,
          <1>24, <1>25, <1>26, <1>27, <1>28, <1>29, <1>30, <1>31, <1>32, <1>33, <1>34,
          <1>35, <1>36, <1>37, <1>38, <1>39, <1>40, <1>41, <1>42, <1>43, <1>44, <1>45,
          <1>46, <1>47, <1>48, <1>49
       DEF Next, PipelineStep

\* Every step that leaves a port closes the attempt it opened.
LEMMA PortsStep ==
  ASSUME IInv, [Next]_vars
  PROVE  PortsClosed'
<1> USE DEF IInv, TypeOK, Evidence, PortsClosed, NoReview, Ports, Verdicts
<1>1. CASE Begin
  BY <1>1 DEF Begin
<1>2. CASE BeginAgent
  BY <1>2 DEF BeginAgent, DetectPlan
<1>3. CASE PlanReturns
  BY <1>3 DEF PlanReturns, DetectPlan
<1>4. CASE StartWork
  BY <1>4 DEF StartWork, Work
<1>5. CASE WorkReturns
  BY <1>5 DEF WorkReturns
<1>6. CASE NoChanges
  BY <1>6 DEF NoChanges, AttemptMade, Record, Return
<1>7. CASE StartVerify
  BY <1>7 DEF StartVerify, AttemptMade, Capture, Verify
<1>8. CASE StartAdvice
  BY <1>8 DEF StartAdvice, Capture, Review
<1>9. CASE AgentUnverified
  BY <1>9 DEF AgentUnverified, Capture
<1>10. ASSUME NEW o \in Outcomes, CheckEnds(o) PROVE PortsClosed'
  BY <1>10, ZenonT(60) DEF CheckEnds, Worst
<1>11. CASE HandOffFailure
  BY <1>11 DEF HandOffFailure
<1>12. CASE RefuseTrigger
  BY <1>12 DEF RefuseTrigger, Raise, Return
<1>13. CASE StartReview
  BY <1>13 DEF StartReview, Capture, Review
<1>14. CASE AgentVerified
  BY <1>14 DEF AgentVerified, Untouched
<1>15. CASE StartLoop
  BY <1>15 DEF StartLoop
<1>16. CASE StaleTrigger
  BY <1>16 DEF StaleTrigger, Raise, Return
<1>17. CASE StartAttempt
  BY <1>17 DEF StartAttempt, Capture, Work
<1>18. CASE Stalled
  BY <1>18 DEF Stalled, LoopGivesUp, CloseLoop, Record, Return
<1>19. CASE StartLoopVerify
  BY <1>19 DEF StartLoopVerify, Capture, Verify
<1>20. CASE LoopVerifyBroken
  BY <1>20 DEF LoopVerifyBroken, LoopGivesUp, CloseLoop, Record, Return
<1>21. ASSUME NEW b \in BaselineOutcomes, Triage(b) PROVE PortsClosed'
  BY <1>21 DEF Triage, NextAttempt, BudgetExhausted, LoopGivesUp, CloseLoop, Record, Return,
               Verify
<1>22. CASE StartDecisionAdvice
  BY <1>22 DEF StartDecisionAdvice, Capture, Review
<1>23. ASSUME NEW v \in Verdicts, ReviewReturns(v) PROVE PortsClosed'
  BY <1>23 DEF ReviewReturns
<1>24. CASE Advised
  BY <1>24 DEF Advised, Propose, Record, Return
<1>25. CASE HandOffReview
  BY <1>25 DEF HandOffReview
<1>26. CASE LoopNeedsFix
  BY <1>26 DEF LoopNeedsFix, NextAttempt, BudgetExhausted, LoopGivesUp, CloseLoop, Record, Return
<1>27. CASE ChangedAfterReview
  BY <1>27 DEF ChangedAfterReview, LoopGivesUp, Capture, CloseLoop, Record, Return
<1>28. CASE Approved
  BY <1>28 DEF Approved, Capture, CloseLoop
<1>29. CASE Settle
  BY <1>29 DEF Settle, Propose, Record, Return
<1>30. CASE ObserveCancel
  BY <1>30 DEF ObserveCancel, Interrupted, AtCheckpoint
<1>31. CASE Unwind
  BY <1>31 DEF Unwind, UnwindLoop, CloseLoop, Record, Return
<1>32. CASE PortFails
  BY <1>32 DEF PortFails, Interrupted
<1>33. CASE CaptureFails
  BY <1>33 DEF CaptureFails
<1>34. CASE Abort
  BY <1>34 DEF Abort, CloseLoop, Record, Return
<1>35. CASE DropTrail
  BY <1>35 DEF DropTrail, Record, Return
<1>36. CASE LedgerFails
  BY <1>36 DEF LedgerFails, Raise, Return
<1>37. CASE Resume
  BY <1>37 DEF Resume, Capture, DetectPlan
<1>38. CASE StartFeedbackWork
  BY <1>38 DEF StartFeedbackWork, Work
<1>39. ASSUME NEW c \in {"run", "agent"}, Launch(c) PROVE PortsClosed'
  BY <1>39 DEF Launch
<1>40. CASE HostSettles
  BY <1>40 DEF HostSettles
<1>41. CASE Cancel
  BY <1>41 DEF Cancel
<1>42. CASE Mutate
  BY <1>42 DEF Mutate
<1>43. CASE UserDecides
  BY <1>43 DEF UserDecides
<1>44. CASE FollowUp
  BY <1>44 DEF FollowUp
<1>45. CASE AgentFollowUp
  BY <1>45 DEF AgentFollowUp
<1>46. CASE UNCHANGED vars
  BY <1>46 DEF vars
<1>47. CASE AgentExamines
  BY <1>47 DEF AgentExamines
<1>48. CASE AgentProposes
  BY <1>48 DEF AgentProposes, Capture, Propose, Record, Return
<1>49. CASE GiveUp
  BY <1>49 DEF GiveUp, Record, Return
<1> QED BY <1>1, <1>2, <1>3, <1>4, <1>5, <1>6, <1>7, <1>8, <1>9, <1>10, <1>11, <1>12,
          <1>13, <1>14, <1>15, <1>16, <1>17, <1>18, <1>19, <1>20, <1>21, <1>22, <1>23,
          <1>24, <1>25, <1>26, <1>27, <1>28, <1>29, <1>30, <1>31, <1>32, <1>33, <1>34,
          <1>35, <1>36, <1>37, <1>38, <1>39, <1>40, <1>41, <1>42, <1>43, <1>44, <1>45,
          <1>46, <1>47, <1>48, <1>49
       DEF Next, PipelineStep

\* Every step keeps the evidence current where the runner relies on it.
LEMMA EvidenceStep ==
  ASSUME IInv, [Next]_vars
  PROVE  Evidence'
<1> USE DEF IInv, TypeOK, Evidence, LoopShape, AgentCall, Ports, Outcomes, Verdicts
<1>1. CASE Begin
  BY <1>1 DEF Begin
<1>2. CASE BeginAgent
  BY <1>2 DEF BeginAgent, DetectPlan
<1>3. CASE PlanReturns
  BY <1>3 DEF PlanReturns, DetectPlan
<1>4. CASE StartWork
  BY <1>4 DEF StartWork, Work
<1>5. CASE WorkReturns
  BY <1>5 DEF WorkReturns
<1>6. CASE NoChanges
  BY <1>6 DEF NoChanges, AttemptMade, Record, Return
<1>7. CASE StartVerify
  BY <1>7 DEF StartVerify, AttemptMade, Capture, Verify
<1>8. CASE StartAdvice
  BY <1>8 DEF StartAdvice, Capture, Review
<1>9. CASE AgentUnverified
  BY <1>9 DEF AgentUnverified, Capture
<1>10. ASSUME NEW o \in Outcomes, CheckEnds(o) PROVE Evidence'
  <2> DEFINE done == ver.done \cup {o}
  <2>1. done \in SUBSET Outcomes /\ o \in done /\ ver \in Verifications
    BY TypeParts DEF Types, Verifications
  <2>2. Worst(done) \in Outcomes /\ (Worst(done) = "pass" => done = {"pass"})
    BY <2>1 DEF Worst
  <2> HIDE DEF done
  <2>3. CASE ver.left > 1
    BY <1>10, <2>3, ZenonT(40) DEF CheckEnds
  <2>4. CASE ~(ver.left > 1)
    <3>1. ver' = [ver EXCEPT !.done = done, !.left = 0, !.state = Worst(done)] /\ pc' = "verified"
      BY <1>10, <2>4 DEF CheckEnds, done
    <3>2. ver'.done = done /\ ver'.state = Worst(done) /\ ver'.fresh = ver.fresh
      BY <2>1, <3>1 DEF Verifications
    <3> QED BY <1>10, <2>2, <3>1, <3>2 DEF CheckEnds
  <2> QED BY <2>3, <2>4
<1>11. CASE HandOffFailure
  BY <1>11 DEF HandOffFailure
<1>12. CASE RefuseTrigger
  BY <1>12 DEF RefuseTrigger, Raise, Return
<1>13. CASE StartReview
  BY <1>13 DEF StartReview, Capture, Review
<1>14. CASE AgentVerified
  BY <1>14 DEF AgentVerified, Untouched
<1>15. CASE StartLoop
  BY <1>15 DEF StartLoop
<1>16. CASE StaleTrigger
  BY <1>16 DEF StaleTrigger, Raise, Return
<1>17. CASE StartAttempt
  BY <1>17 DEF StartAttempt, Capture, Work
<1>18. CASE Stalled
  BY <1>18 DEF Stalled, LoopGivesUp, CloseLoop, Record, Return
<1>19. CASE StartLoopVerify
  BY <1>19 DEF StartLoopVerify, Capture, Verify
<1>20. CASE LoopVerifyBroken
  BY <1>20 DEF LoopVerifyBroken, LoopGivesUp, CloseLoop, Record, Return
<1>21. ASSUME NEW b \in BaselineOutcomes, Triage(b) PROVE Evidence'
  BY <1>21 DEF Triage, NextAttempt, BudgetExhausted, LoopGivesUp, CloseLoop, Record, Return,
               Verify
<1>22. CASE StartDecisionAdvice
  BY <1>22 DEF StartDecisionAdvice, Capture, Review
<1>23. ASSUME NEW v \in Verdicts, ReviewReturns(v) PROVE Evidence'
  BY <1>23 DEF ReviewReturns
<1>24. CASE Advised
  BY <1>24 DEF Advised, Propose, Record, Return
<1>25. CASE HandOffReview
  BY <1>25 DEF HandOffReview
<1>26. CASE LoopNeedsFix
  BY <1>26 DEF LoopNeedsFix, NextAttempt, BudgetExhausted, LoopGivesUp, CloseLoop, Record, Return
<1>27. CASE ChangedAfterReview
  BY <1>27 DEF ChangedAfterReview, LoopGivesUp, Capture, CloseLoop, Record, Return
<1>28. CASE Approved
  BY <1>28 DEF Approved, Capture, CloseLoop
<1>29. CASE Settle
  BY <1>29 DEF Settle, Propose, Record, Return
<1>30. CASE ObserveCancel
  BY <1>30 DEF ObserveCancel, Interrupted, AtCheckpoint
<1>31. CASE Unwind
  BY <1>31 DEF Unwind, UnwindLoop, CloseLoop, Record, Return
<1>32. CASE PortFails
  BY <1>32 DEF PortFails, Interrupted
<1>33. CASE CaptureFails
  BY <1>33 DEF CaptureFails
<1>34. CASE Abort
  BY <1>34 DEF Abort, CloseLoop, Record, Return
<1>35. CASE DropTrail
  BY <1>35 DEF DropTrail, Record, Return
<1>36. CASE LedgerFails
  BY <1>36 DEF LedgerFails, Raise, Return
<1>37. CASE Resume
  BY <1>37 DEF Resume, Capture, DetectPlan
<1>38. CASE StartFeedbackWork
  BY <1>38 DEF StartFeedbackWork, Work
<1>39. ASSUME NEW c \in {"run", "agent"}, Launch(c) PROVE Evidence'
  BY <1>39 DEF Launch
<1>40. CASE HostSettles
  BY <1>40 DEF HostSettles
<1>41. CASE Cancel
  BY <1>41 DEF Cancel
<1>42. CASE Mutate
  BY <1>42 DEF Mutate
<1>43. CASE UserDecides
  BY <1>43 DEF UserDecides
<1>44. CASE FollowUp
  BY <1>44 DEF FollowUp
<1>45. CASE AgentFollowUp
  BY <1>45 DEF AgentFollowUp
<1>46. CASE UNCHANGED vars
  BY <1>46 DEF vars
<1>47. CASE AgentExamines
  BY <1>47 DEF AgentExamines
<1>48. CASE AgentProposes
  BY <1>48 DEF AgentProposes, Capture, Propose, Record, Return
<1>49. CASE GiveUp
  BY <1>49 DEF GiveUp, Record, Return
<1> QED BY ZenonT(40), <1>1, <1>2, <1>3, <1>4, <1>5, <1>6, <1>7, <1>8, <1>9, <1>10, <1>11, <1>12,
          <1>13, <1>14, <1>15, <1>16, <1>17, <1>18, <1>19, <1>20, <1>21, <1>22, <1>23,
          <1>24, <1>25, <1>26, <1>27, <1>28, <1>29, <1>30, <1>31, <1>32, <1>33, <1>34,
          <1>35, <1>36, <1>37, <1>38, <1>39, <1>40, <1>41, <1>42, <1>43, <1>44, <1>45,
          <1>46, <1>47, <1>48, <1>49
       DEF Next, PipelineStep

\* Every step keeps the advice about the loop's last verification.
LEMMA AdviceStep ==
  ASSUME IInv, [Next]_vars
  PROVE  AdviceShape'
<1> USE DEF IInv, TypeOK, Phase, AgentCall, LoopShape, AdviceShape, NoAdvice, NoReview, Ports
<1>1. CASE Begin
  BY <1>1 DEF Begin
<1>2. CASE BeginAgent
  BY <1>2 DEF BeginAgent, DetectPlan
<1>3. CASE PlanReturns
  BY <1>3 DEF PlanReturns, DetectPlan
<1>4. CASE StartWork
  BY <1>4 DEF StartWork, Work
<1>5. CASE WorkReturns
  BY <1>5 DEF WorkReturns
<1>6. CASE NoChanges
  BY <1>6 DEF NoChanges, AttemptMade, Record, Return
<1>7. CASE StartVerify
  BY <1>7 DEF StartVerify, AttemptMade, Capture, Verify
<1>8. CASE StartAdvice
  BY <1>8 DEF StartAdvice, Capture, Review
<1>9. CASE AgentUnverified
  BY <1>9 DEF AgentUnverified, Capture
<1>10. ASSUME NEW o \in Outcomes, CheckEnds(o) PROVE AdviceShape'
  BY <1>10 DEF CheckEnds, Worst
<1>11. CASE HandOffFailure
  BY <1>11 DEF HandOffFailure
<1>12. CASE RefuseTrigger
  BY <1>12 DEF RefuseTrigger, Raise, Return
<1>13. CASE StartReview
  BY <1>13 DEF StartReview, Capture, Review
<1>14. CASE AgentVerified
  BY <1>14 DEF AgentVerified, Untouched
<1>15. CASE StartLoop
  BY <1>15 DEF StartLoop
<1>16. CASE StaleTrigger
  BY <1>16 DEF StaleTrigger, Raise, Return
<1>17. CASE StartAttempt
  BY <1>17 DEF StartAttempt, Capture, Work
<1>18. CASE Stalled
  BY <1>18 DEF Stalled, LoopGivesUp, CloseLoop, Record, Return
<1>19. CASE StartLoopVerify
  BY <1>19 DEF StartLoopVerify, Capture, Verify
<1>20. CASE LoopVerifyBroken
  BY <1>20 DEF LoopVerifyBroken, LoopGivesUp, CloseLoop, Record, Return
<1>21. ASSUME NEW b \in BaselineOutcomes, Triage(b) PROVE AdviceShape'
  BY <1>21 DEF Triage, NextAttempt, BudgetExhausted, LoopGivesUp, CloseLoop, Record, Return,
               Verify
<1>22. CASE StartDecisionAdvice
  BY <1>22 DEF StartDecisionAdvice, Capture, Review
<1>23. ASSUME NEW v \in Verdicts, ReviewReturns(v) PROVE AdviceShape'
  BY <1>23 DEF ReviewReturns
<1>24. CASE Advised
  BY <1>24 DEF Advised, Propose, Record, Return
<1>25. CASE HandOffReview
  BY <1>25 DEF HandOffReview
<1>26. CASE LoopNeedsFix
  BY <1>26 DEF LoopNeedsFix, NextAttempt, BudgetExhausted, LoopGivesUp, CloseLoop, Record, Return
<1>27. CASE ChangedAfterReview
  BY <1>27 DEF ChangedAfterReview, LoopGivesUp, Capture, CloseLoop, Record, Return
<1>28. CASE Approved
  BY <1>28 DEF Approved, Capture, CloseLoop
<1>29. CASE Settle
  BY <1>29 DEF Settle, Propose, Record, Return
<1>30. CASE ObserveCancel
  BY <1>30 DEF ObserveCancel, Interrupted, AtCheckpoint
<1>31. CASE Unwind
  BY <1>31 DEF Unwind, UnwindLoop, CloseLoop, Record, Return
<1>32. CASE PortFails
  BY <1>32 DEF PortFails, Interrupted
<1>33. CASE CaptureFails
  BY <1>33 DEF CaptureFails
<1>34. CASE Abort
  BY <1>34 DEF Abort, CloseLoop, Record, Return
<1>35. CASE DropTrail
  BY <1>35 DEF DropTrail, Record, Return
<1>36. CASE LedgerFails
  BY <1>36 DEF LedgerFails, Raise, Return
<1>37. CASE Resume
  BY <1>37 DEF Resume, Capture, DetectPlan
<1>38. CASE StartFeedbackWork
  BY <1>38 DEF StartFeedbackWork, Work
<1>39. ASSUME NEW c \in {"run", "agent"}, Launch(c) PROVE AdviceShape'
  BY <1>39 DEF Launch
<1>40. CASE HostSettles
  BY <1>40 DEF HostSettles
<1>41. CASE Cancel
  BY <1>41 DEF Cancel
<1>42. CASE Mutate
  BY <1>42 DEF Mutate
<1>43. CASE UserDecides
  BY <1>43 DEF UserDecides
<1>44. CASE FollowUp
  BY <1>44 DEF FollowUp
<1>45. CASE AgentFollowUp
  BY <1>45 DEF AgentFollowUp
<1>46. CASE UNCHANGED vars
  BY <1>46 DEF vars
<1>47. CASE AgentExamines
  BY <1>47 DEF AgentExamines
<1>48. CASE AgentProposes
  BY <1>48 DEF AgentProposes, Capture, Propose, Record, Return
<1>49. CASE GiveUp
  BY <1>49 DEF GiveUp, Record, Return
<1> QED BY <1>1, <1>2, <1>3, <1>4, <1>5, <1>6, <1>7, <1>8, <1>9, <1>10, <1>11, <1>12,
          <1>13, <1>14, <1>15, <1>16, <1>17, <1>18, <1>19, <1>20, <1>21, <1>22, <1>23,
          <1>24, <1>25, <1>26, <1>27, <1>28, <1>29, <1>30, <1>31, <1>32, <1>33, <1>34,
          <1>35, <1>36, <1>37, <1>38, <1>39, <1>40, <1>41, <1>42, <1>43, <1>44, <1>45,
          <1>46, <1>47, <1>48, <1>49
       DEF Next, PipelineStep

\* No step makes what is offered as reviewed out of date.
LEMMA ReviewedStep ==
  ASSUME IInv, [Next]_vars
  PROVE  ReviewedIsCurrent'
<1> USE DEF IInv, TypeOK, Phase, AgentCall, LoopShape, Evidence, Ports, ReviewedIsCurrent, NoLoop,
            NoProposal
<1>1. CASE Begin
  BY <1>1 DEF Begin
<1>2. CASE BeginAgent
  BY <1>2 DEF BeginAgent, DetectPlan
<1>3. CASE PlanReturns
  BY <1>3 DEF PlanReturns, DetectPlan
<1>4. CASE StartWork
  BY <1>4 DEF StartWork, Work
<1>5. CASE WorkReturns
  BY <1>5 DEF WorkReturns
<1>6. CASE NoChanges
  BY <1>6 DEF NoChanges, AttemptMade, Record, Return
<1>7. CASE StartVerify
  BY <1>7 DEF StartVerify, AttemptMade, Capture, Verify
<1>8. CASE StartAdvice
  BY <1>8 DEF StartAdvice, Capture, Review
<1>9. CASE AgentUnverified
  BY <1>9 DEF AgentUnverified, Capture
<1>10. ASSUME NEW o \in Outcomes, CheckEnds(o) PROVE ReviewedIsCurrent'
  BY <1>10 DEF CheckEnds, Worst
<1>11. CASE HandOffFailure
  BY <1>11 DEF HandOffFailure
<1>12. CASE RefuseTrigger
  BY <1>12 DEF RefuseTrigger, Raise, Return
<1>13. CASE StartReview
  BY <1>13 DEF StartReview, Capture, Review
<1>14. CASE AgentVerified
  BY <1>14 DEF AgentVerified, Untouched
<1>15. CASE StartLoop
  BY <1>15 DEF StartLoop
<1>16. CASE StaleTrigger
  BY <1>16 DEF StaleTrigger, Raise, Return
<1>17. CASE StartAttempt
  BY <1>17 DEF StartAttempt, Capture, Work
<1>18. CASE Stalled
  BY <1>18 DEF Stalled, LoopGivesUp, CloseLoop, Record, Return
<1>19. CASE StartLoopVerify
  BY <1>19 DEF StartLoopVerify, Capture, Verify
<1>20. CASE LoopVerifyBroken
  BY <1>20 DEF LoopVerifyBroken, LoopGivesUp, CloseLoop, Record, Return
<1>21. ASSUME NEW b \in BaselineOutcomes, Triage(b) PROVE ReviewedIsCurrent'
  BY <1>21 DEF Triage, NextAttempt, BudgetExhausted, LoopGivesUp, CloseLoop, Record, Return,
               Verify
<1>22. CASE StartDecisionAdvice
  BY <1>22 DEF StartDecisionAdvice, Capture, Review
<1>23. ASSUME NEW v \in Verdicts, ReviewReturns(v) PROVE ReviewedIsCurrent'
  BY <1>23 DEF ReviewReturns
<1>24. CASE Advised
  BY <1>24 DEF Advised, Propose, Record, Return
<1>25. CASE HandOffReview
  BY <1>25 DEF HandOffReview
<1>26. CASE LoopNeedsFix
  BY <1>26 DEF LoopNeedsFix, NextAttempt, BudgetExhausted, LoopGivesUp, CloseLoop, Record, Return
<1>27. CASE ChangedAfterReview
  BY <1>27 DEF ChangedAfterReview, LoopGivesUp, Capture, CloseLoop, Record, Return
<1>28. CASE Approved
  <2>1. CASE site = "main"
    BY <1>28, <2>1 DEF Approved, Capture
  <2>2. CASE site = "loop"
    <3>1. loop'.state = "completed"
      BY <1>28, <2>2, ZenonT(40) DEF Approved, CloseLoop
    <3>2. prop.kind /= "reviewed"
      BY <1>28 DEF Approved
    <3> QED BY <1>28, <3>1, <3>2 DEF Approved, Capture
  <2> QED BY <1>28, <2>1, <2>2 DEF Approved
<1>29. CASE Settle
  BY <1>29 DEF Settle, Propose, Record, Return
<1>30. CASE ObserveCancel
  BY <1>30 DEF ObserveCancel, Interrupted, AtCheckpoint
<1>31. CASE Unwind
  BY <1>31 DEF Unwind, UnwindLoop, CloseLoop, Record, Return
<1>32. CASE PortFails
  BY <1>32 DEF PortFails, Interrupted
<1>33. CASE CaptureFails
  BY <1>33 DEF CaptureFails
<1>34. CASE Abort
  BY <1>34 DEF Abort, CloseLoop, Record, Return
<1>35. CASE DropTrail
  BY <1>35 DEF DropTrail, Record, Return
<1>36. CASE LedgerFails
  BY <1>36 DEF LedgerFails, Raise, Return
<1>37. CASE Resume
  BY <1>37 DEF Resume, Capture, DetectPlan
<1>38. CASE StartFeedbackWork
  BY <1>38 DEF StartFeedbackWork, Work
<1>39. ASSUME NEW c \in {"run", "agent"}, Launch(c) PROVE ReviewedIsCurrent'
  BY <1>39 DEF Launch
<1>40. CASE HostSettles
  BY <1>40 DEF HostSettles
<1>41. CASE Cancel
  BY <1>41 DEF Cancel
<1>42. CASE Mutate
  BY <1>42 DEF Mutate
<1>43. CASE UserDecides
  BY <1>43 DEF UserDecides
<1>44. CASE FollowUp
  BY <1>44 DEF FollowUp
<1>45. CASE AgentFollowUp
  BY <1>45 DEF AgentFollowUp
<1>46. CASE UNCHANGED vars
  BY <1>46 DEF vars
<1>47. CASE AgentExamines
  BY <1>47 DEF AgentExamines
<1>48. CASE AgentProposes
  BY <1>48 DEF AgentProposes, Capture, Propose, Record, Return
<1>49. CASE GiveUp
  BY <1>49 DEF GiveUp, Record, Return
<1> QED BY <1>1, <1>2, <1>3, <1>4, <1>5, <1>6, <1>7, <1>8, <1>9, <1>10, <1>11, <1>12,
          <1>13, <1>14, <1>15, <1>16, <1>17, <1>18, <1>19, <1>20, <1>21, <1>22, <1>23,
          <1>24, <1>25, <1>26, <1>27, <1>28, <1>29, <1>30, <1>31, <1>32, <1>33, <1>34,
          <1>35, <1>36, <1>37, <1>38, <1>39, <1>40, <1>41, <1>42, <1>43, <1>44, <1>45,
          <1>46, <1>47, <1>48, <1>49
       DEF Next, PipelineStep

\* No step makes a claimed pass out of date.
LEMMA AgentPassStep ==
  ASSUME IInv, [Next]_vars
  PROVE  Examined' /\ AgentPassIsReal'
<1> USE DEF IInv, TypeOK, Phase, AgentCall, LoopShape, Evidence, Ports, AgentPassIsReal,
            Examined, NoProposal
<1>1. CASE Begin
  BY <1>1 DEF Begin
<1>2. CASE BeginAgent
  BY <1>2 DEF BeginAgent, DetectPlan
<1>3. CASE PlanReturns
  BY <1>3 DEF PlanReturns, DetectPlan
<1>4. CASE StartWork
  BY <1>4 DEF StartWork, Work
<1>5. CASE WorkReturns
  BY <1>5 DEF WorkReturns
<1>6. CASE NoChanges
  BY <1>6 DEF NoChanges, AttemptMade, Record, Return
<1>7. CASE StartVerify
  BY <1>7 DEF StartVerify, AttemptMade, Capture, Verify
<1>8. CASE StartAdvice
  BY <1>8 DEF StartAdvice, Capture, Review
<1>9. CASE AgentUnverified
  BY <1>9 DEF AgentUnverified, Capture
<1>10. ASSUME NEW o \in Outcomes, CheckEnds(o) PROVE Examined' /\ AgentPassIsReal'
  <2>1. /\ pc = "verify" /\ pc' \in {"verify", "verified"}
        /\ UNCHANGED <<status, tree, site, exam, prop>>
    BY <1>10 DEF CheckEnds
  <2>2. ver'.diff = ver.diff
    BY <1>10, ZenonT(40) DEF CheckEnds
  <2>3. prop.kind = "none"
    BY <2>1
  <2> QED BY <2>1, <2>2, <2>3
<1>11. CASE HandOffFailure
  BY <1>11 DEF HandOffFailure
<1>12. CASE RefuseTrigger
  BY <1>12 DEF RefuseTrigger, Raise, Return
<1>13. CASE StartReview
  BY <1>13 DEF StartReview, Capture, Review
<1>14. CASE AgentVerified
  BY <1>14 DEF AgentVerified, Untouched
<1>15. CASE StartLoop
  BY <1>15 DEF StartLoop
<1>16. CASE StaleTrigger
  BY <1>16 DEF StaleTrigger, Raise, Return
<1>17. CASE StartAttempt
  BY <1>17 DEF StartAttempt, Capture, Work
<1>18. CASE Stalled
  BY <1>18 DEF Stalled, LoopGivesUp, CloseLoop, Record, Return
<1>19. CASE StartLoopVerify
  BY <1>19 DEF StartLoopVerify, Capture, Verify
<1>20. CASE LoopVerifyBroken
  BY <1>20 DEF LoopVerifyBroken, LoopGivesUp, CloseLoop, Record, Return
<1>21. ASSUME NEW b \in BaselineOutcomes, Triage(b) PROVE Examined' /\ AgentPassIsReal'
  BY <1>21 DEF Triage, NextAttempt, BudgetExhausted, LoopGivesUp, CloseLoop, Record, Return,
               Verify
<1>22. CASE StartDecisionAdvice
  BY <1>22 DEF StartDecisionAdvice, Capture, Review
<1>23. ASSUME NEW v \in Verdicts, ReviewReturns(v) PROVE Examined' /\ AgentPassIsReal'
  BY <1>23 DEF ReviewReturns
<1>24. CASE Advised
  BY <1>24 DEF Advised, Propose, Record, Return
<1>25. CASE HandOffReview
  BY <1>25 DEF HandOffReview
<1>26. CASE LoopNeedsFix
  BY <1>26 DEF LoopNeedsFix, NextAttempt, BudgetExhausted, LoopGivesUp, CloseLoop, Record, Return
<1>27. CASE ChangedAfterReview
  BY <1>27 DEF ChangedAfterReview, LoopGivesUp, Capture, CloseLoop, Record, Return
<1>28. CASE Approved
  BY <1>28 DEF Approved, Capture, CloseLoop
<1>29. CASE Settle
  BY <1>29 DEF Settle, Propose, Record, Return
<1>30. CASE ObserveCancel
  BY <1>30 DEF ObserveCancel, Interrupted, AtCheckpoint
<1>31. CASE Unwind
  BY <1>31 DEF Unwind, UnwindLoop, CloseLoop, Record, Return
<1>32. CASE PortFails
  BY <1>32 DEF PortFails, Interrupted
<1>33. CASE CaptureFails
  BY <1>33 DEF CaptureFails
<1>34. CASE Abort
  BY <1>34 DEF Abort, CloseLoop, Record, Return
<1>35. CASE DropTrail
  BY <1>35 DEF DropTrail, Record, Return
<1>36. CASE LedgerFails
  BY <1>36 DEF LedgerFails, Raise, Return
<1>37. CASE Resume
  BY <1>37 DEF Resume, Capture, DetectPlan
<1>38. CASE StartFeedbackWork
  BY <1>38 DEF StartFeedbackWork, Work
<1>39. ASSUME NEW c \in {"run", "agent"}, Launch(c) PROVE Examined' /\ AgentPassIsReal'
  BY <1>39 DEF Launch
<1>40. CASE HostSettles
  BY <1>40 DEF HostSettles
<1>41. CASE Cancel
  BY <1>41 DEF Cancel
<1>42. CASE Mutate
  BY <1>42 DEF Mutate
<1>43. CASE UserDecides
  BY <1>43 DEF UserDecides
<1>44. CASE FollowUp
  BY <1>44 DEF FollowUp
<1>45. CASE AgentFollowUp
  BY <1>45 DEF AgentFollowUp
<1>46. CASE UNCHANGED vars
  BY <1>46 DEF vars
<1>47. CASE AgentExamines
  BY <1>47 DEF AgentExamines
<1>48. CASE AgentProposes
  BY <1>48 DEF AgentProposes, Capture, Propose, Record, Return
<1>49. CASE GiveUp
  BY <1>49 DEF GiveUp, Record, Return
<1> QED BY <1>1, <1>2, <1>3, <1>4, <1>5, <1>6, <1>7, <1>8, <1>9, <1>10, <1>11, <1>12,
          <1>13, <1>14, <1>15, <1>16, <1>17, <1>18, <1>19, <1>20, <1>21, <1>22, <1>23,
          <1>24, <1>25, <1>26, <1>27, <1>28, <1>29, <1>30, <1>31, <1>32, <1>33, <1>34,
          <1>35, <1>36, <1>37, <1>38, <1>39, <1>40, <1>41, <1>42, <1>43, <1>44, <1>45,
          <1>46, <1>47, <1>48, <1>49
       DEF Next, PipelineStep

\* No step skips the fix loop without a failed baseline.
LEMMA SkipStep ==
  ASSUME IInv, [Next]_vars
  PROVE  SkipOnBaseline'
<1> USE DEF IInv, TypeOK, Phase, AgentCall, LoopShape, Evidence, Ports, AdviceShape,
            SkipOnBaseline, NoProposal, NoAdvice
<1>1. CASE Begin
  BY <1>1 DEF Begin
<1>2. CASE BeginAgent
  BY <1>2 DEF BeginAgent, DetectPlan
<1>3. CASE PlanReturns
  BY <1>3 DEF PlanReturns, DetectPlan
<1>4. CASE StartWork
  BY <1>4 DEF StartWork, Work
<1>5. CASE WorkReturns
  BY <1>5 DEF WorkReturns
<1>6. CASE NoChanges
  BY <1>6 DEF NoChanges, AttemptMade, Record, Return
<1>7. CASE StartVerify
  BY <1>7 DEF StartVerify, AttemptMade, Capture, Verify
<1>8. CASE StartAdvice
  BY <1>8 DEF StartAdvice, Capture, Review
<1>9. CASE AgentUnverified
  BY <1>9 DEF AgentUnverified, Capture
<1>10. ASSUME NEW o \in Outcomes, CheckEnds(o) PROVE SkipOnBaseline'
  BY <1>10 DEF CheckEnds, Worst
<1>11. CASE HandOffFailure
  BY <1>11 DEF HandOffFailure
<1>12. CASE RefuseTrigger
  BY <1>12 DEF RefuseTrigger, Raise, Return
<1>13. CASE StartReview
  BY <1>13 DEF StartReview, Capture, Review
<1>14. CASE AgentVerified
  BY <1>14 DEF AgentVerified, Untouched
<1>15. CASE StartLoop
  BY <1>15 DEF StartLoop
<1>16. CASE StaleTrigger
  BY <1>16 DEF StaleTrigger, Raise, Return
<1>17. CASE StartAttempt
  BY <1>17 DEF StartAttempt, Capture, Work
<1>18. CASE Stalled
  BY <1>18 DEF Stalled, LoopGivesUp, CloseLoop, Record, Return
<1>19. CASE StartLoopVerify
  BY <1>19 DEF StartLoopVerify, Capture, Verify
<1>20. CASE LoopVerifyBroken
  BY <1>20 DEF LoopVerifyBroken, LoopGivesUp, CloseLoop, Record, Return
<1>21. ASSUME NEW b \in BaselineOutcomes, Triage(b) PROVE SkipOnBaseline'
  BY <1>21, SkipNeedsFail DEF Triage, NextAttempt, BudgetExhausted, LoopGivesUp, CloseLoop,
                              Record, Return, Verify
<1>22. CASE StartDecisionAdvice
  BY <1>22 DEF StartDecisionAdvice, Capture, Review
<1>23. ASSUME NEW v \in Verdicts, ReviewReturns(v) PROVE SkipOnBaseline'
  BY <1>23 DEF ReviewReturns
<1>24. CASE Advised
  BY <1>24 DEF Advised, Propose, Record, Return
<1>25. CASE HandOffReview
  BY <1>25 DEF HandOffReview
<1>26. CASE LoopNeedsFix
  BY <1>26 DEF LoopNeedsFix, NextAttempt, BudgetExhausted, LoopGivesUp, CloseLoop, Record, Return
<1>27. CASE ChangedAfterReview
  BY <1>27 DEF ChangedAfterReview, LoopGivesUp, Capture, CloseLoop, Record, Return
<1>28. CASE Approved
  BY <1>28 DEF Approved, Capture, CloseLoop
<1>29. CASE Settle
  BY <1>29 DEF Settle, Propose, Record, Return
<1>30. CASE ObserveCancel
  BY <1>30 DEF ObserveCancel, Interrupted, AtCheckpoint
<1>31. CASE Unwind
  BY <1>31 DEF Unwind, UnwindLoop, CloseLoop, Record, Return
<1>32. CASE PortFails
  BY <1>32 DEF PortFails, Interrupted
<1>33. CASE CaptureFails
  BY <1>33 DEF CaptureFails
<1>34. CASE Abort
  BY <1>34 DEF Abort, CloseLoop, Record, Return
<1>35. CASE DropTrail
  BY <1>35 DEF DropTrail, Record, Return
<1>36. CASE LedgerFails
  BY <1>36 DEF LedgerFails, Raise, Return
<1>37. CASE Resume
  BY <1>37 DEF Resume, Capture, DetectPlan
<1>38. CASE StartFeedbackWork
  BY <1>38 DEF StartFeedbackWork, Work
<1>39. ASSUME NEW c \in {"run", "agent"}, Launch(c) PROVE SkipOnBaseline'
  BY <1>39 DEF Launch
<1>40. CASE HostSettles
  BY <1>40 DEF HostSettles
<1>41. CASE Cancel
  BY <1>41 DEF Cancel
<1>42. CASE Mutate
  BY <1>42 DEF Mutate
<1>43. CASE UserDecides
  BY <1>43 DEF UserDecides
<1>44. CASE FollowUp
  BY <1>44 DEF FollowUp
<1>45. CASE AgentFollowUp
  BY <1>45 DEF AgentFollowUp
<1>46. CASE UNCHANGED vars
  BY <1>46 DEF vars
<1>47. CASE AgentExamines
  BY <1>47 DEF AgentExamines
<1>48. CASE AgentProposes
  BY <1>48 DEF AgentProposes, Capture, Propose, Record, Return
<1>49. CASE GiveUp
  BY <1>49 DEF GiveUp, Record, Return
<1> QED BY <1>1, <1>2, <1>3, <1>4, <1>5, <1>6, <1>7, <1>8, <1>9, <1>10, <1>11, <1>12,
          <1>13, <1>14, <1>15, <1>16, <1>17, <1>18, <1>19, <1>20, <1>21, <1>22, <1>23,
          <1>24, <1>25, <1>26, <1>27, <1>28, <1>29, <1>30, <1>31, <1>32, <1>33, <1>34,
          <1>35, <1>36, <1>37, <1>38, <1>39, <1>40, <1>41, <1>42, <1>43, <1>44, <1>45,
          <1>46, <1>47, <1>48, <1>49
       DEF Next, PipelineStep

\* A step that returns from a call records the status it reports.
LEMMA HonestStep ==
  ASSUME IInv, [Next]_vars
  PROVE  HonestAct
<1> USE DEF IInv, TypeOK, Phase, AgentCall, LoopShape, Evidence, Ports, HonestAct
<1>1. CASE Begin
  BY <1>1 DEF Begin
<1>2. CASE BeginAgent
  BY <1>2 DEF BeginAgent, DetectPlan
<1>3. CASE PlanReturns
  BY <1>3 DEF PlanReturns, DetectPlan
<1>4. CASE StartWork
  BY <1>4 DEF StartWork, Work
<1>5. CASE WorkReturns
  BY <1>5 DEF WorkReturns
<1>6. CASE NoChanges
  BY <1>6 DEF NoChanges, AttemptMade, Record, Return
<1>7. CASE StartVerify
  BY <1>7 DEF StartVerify, AttemptMade, Capture, Verify
<1>8. CASE StartAdvice
  BY <1>8 DEF StartAdvice, Capture, Review
<1>9. CASE AgentUnverified
  BY <1>9 DEF AgentUnverified, Capture
<1>10. ASSUME NEW o \in Outcomes, CheckEnds(o) PROVE HonestAct
  BY <1>10 DEF CheckEnds, Worst
<1>11. CASE HandOffFailure
  BY <1>11 DEF HandOffFailure
<1>12. CASE RefuseTrigger
  BY <1>12 DEF RefuseTrigger, Raise, Return
<1>13. CASE StartReview
  BY <1>13 DEF StartReview, Capture, Review
<1>14. CASE AgentVerified
  BY <1>14 DEF AgentVerified, Untouched
<1>15. CASE StartLoop
  BY <1>15 DEF StartLoop
<1>16. CASE StaleTrigger
  BY <1>16 DEF StaleTrigger, Raise, Return
<1>17. CASE StartAttempt
  BY <1>17 DEF StartAttempt, Capture, Work
<1>18. CASE Stalled
  BY <1>18 DEF Stalled, LoopGivesUp, CloseLoop, Record, Return
<1>19. CASE StartLoopVerify
  BY <1>19 DEF StartLoopVerify, Capture, Verify
<1>20. CASE LoopVerifyBroken
  BY <1>20 DEF LoopVerifyBroken, LoopGivesUp, CloseLoop, Record, Return
<1>21. ASSUME NEW b \in BaselineOutcomes, Triage(b) PROVE HonestAct
  BY <1>21 DEF Triage, NextAttempt, BudgetExhausted, LoopGivesUp, CloseLoop, Record, Return,
               Verify
<1>22. CASE StartDecisionAdvice
  BY <1>22 DEF StartDecisionAdvice, Capture, Review
<1>23. ASSUME NEW v \in Verdicts, ReviewReturns(v) PROVE HonestAct
  BY <1>23 DEF ReviewReturns
<1>24. CASE Advised
  BY <1>24 DEF Advised, Propose, Record, Return
<1>25. CASE HandOffReview
  BY <1>25 DEF HandOffReview
<1>26. CASE LoopNeedsFix
  BY <1>26 DEF LoopNeedsFix, NextAttempt, BudgetExhausted, LoopGivesUp, CloseLoop, Record, Return
<1>27. CASE ChangedAfterReview
  BY <1>27 DEF ChangedAfterReview, LoopGivesUp, Capture, CloseLoop, Record, Return
<1>28. CASE Approved
  BY <1>28 DEF Approved, Capture, CloseLoop
<1>29. CASE Settle
  BY <1>29 DEF Settle, Propose, Record, Return
<1>30. CASE ObserveCancel
  BY <1>30 DEF ObserveCancel, Interrupted, AtCheckpoint
<1>31. CASE Unwind
  BY <1>31 DEF Unwind, UnwindLoop, CloseLoop, Record, Return
<1>32. CASE PortFails
  BY <1>32 DEF PortFails, Interrupted
<1>33. CASE CaptureFails
  BY <1>33 DEF CaptureFails
<1>34. CASE Abort
  BY <1>34 DEF Abort, CloseLoop, Record, Return
<1>35. CASE DropTrail
  BY <1>35 DEF DropTrail, Record, Return
<1>36. CASE LedgerFails
  BY <1>36 DEF LedgerFails, Raise, Return
<1>37. CASE Resume
  BY <1>37 DEF Resume, Capture, DetectPlan
<1>38. CASE StartFeedbackWork
  BY <1>38 DEF StartFeedbackWork, Work
<1>39. ASSUME NEW c \in {"run", "agent"}, Launch(c) PROVE HonestAct
  BY <1>39 DEF Launch
<1>40. CASE HostSettles
  BY <1>40 DEF HostSettles
<1>41. CASE Cancel
  BY <1>41 DEF Cancel
<1>42. CASE Mutate
  BY <1>42 DEF Mutate
<1>43. CASE UserDecides
  BY <1>43 DEF UserDecides
<1>44. CASE FollowUp
  BY <1>44 DEF FollowUp
<1>45. CASE AgentFollowUp
  BY <1>45 DEF AgentFollowUp
<1>46. CASE UNCHANGED vars
  BY <1>46 DEF vars
<1>47. CASE AgentExamines
  BY <1>47 DEF AgentExamines
<1>48. CASE AgentProposes
  BY <1>48 DEF AgentProposes, Capture, Propose, Record, Return
<1>49. CASE GiveUp
  BY <1>49 DEF GiveUp, Record, Return
<1> QED BY <1>1, <1>2, <1>3, <1>4, <1>5, <1>6, <1>7, <1>8, <1>9, <1>10, <1>11, <1>12,
          <1>13, <1>14, <1>15, <1>16, <1>17, <1>18, <1>19, <1>20, <1>21, <1>22, <1>23,
          <1>24, <1>25, <1>26, <1>27, <1>28, <1>29, <1>30, <1>31, <1>32, <1>33, <1>34,
          <1>35, <1>36, <1>37, <1>38, <1>39, <1>40, <1>41, <1>42, <1>43, <1>44, <1>45,
          <1>46, <1>47, <1>48, <1>49
       DEF Next, PipelineStep

\* A step moves the status as RunLifecycle allows.
LEMMA LifecycleStep ==
  ASSUME IInv, [Next]_vars
  PROVE  LifeAct
<1> USE DEF IInv, Phase, LifeAct, Lifecycle!LifecycleNext, Lifecycle!Start, Lifecycle!Stop,
           Lifecycle!Decide, Lifecycle!Terminal
<1>1. CASE Begin
  BY <1>1 DEF Begin
<1>2. CASE BeginAgent
  BY <1>2 DEF BeginAgent, DetectPlan
<1>3. CASE PlanReturns
  BY <1>3 DEF PlanReturns, DetectPlan
<1>4. CASE StartWork
  BY <1>4 DEF StartWork, Work
<1>5. CASE WorkReturns
  BY <1>5 DEF WorkReturns
<1>6. CASE NoChanges
  BY <1>6 DEF NoChanges, AttemptMade, Record, Return
<1>7. CASE StartVerify
  BY <1>7 DEF StartVerify, AttemptMade, Capture, Verify
<1>8. CASE StartAdvice
  BY <1>8 DEF StartAdvice, Capture, Review
<1>9. CASE AgentUnverified
  BY <1>9 DEF AgentUnverified, Capture
<1>10. ASSUME NEW o \in Outcomes, CheckEnds(o) PROVE LifeAct
  BY <1>10 DEF CheckEnds, Worst
<1>11. CASE HandOffFailure
  BY <1>11 DEF HandOffFailure
<1>12. CASE RefuseTrigger
  BY <1>12 DEF RefuseTrigger, Raise, Return
<1>13. CASE StartReview
  BY <1>13 DEF StartReview, Capture, Review
<1>14. CASE AgentVerified
  BY <1>14 DEF AgentVerified, Untouched
<1>15. CASE StartLoop
  BY <1>15 DEF StartLoop
<1>16. CASE StaleTrigger
  BY <1>16 DEF StaleTrigger, Raise, Return
<1>17. CASE StartAttempt
  BY <1>17 DEF StartAttempt, Capture, Work
<1>18. CASE Stalled
  BY <1>18 DEF Stalled, LoopGivesUp, CloseLoop, Record, Return
<1>19. CASE StartLoopVerify
  BY <1>19 DEF StartLoopVerify, Capture, Verify
<1>20. CASE LoopVerifyBroken
  BY <1>20 DEF LoopVerifyBroken, LoopGivesUp, CloseLoop, Record, Return
<1>21. ASSUME NEW b \in BaselineOutcomes, Triage(b) PROVE LifeAct
  BY <1>21 DEF Triage, NextAttempt, BudgetExhausted, LoopGivesUp, CloseLoop, Record, Return,
               Verify
<1>22. CASE StartDecisionAdvice
  BY <1>22 DEF StartDecisionAdvice, Capture, Review
<1>23. ASSUME NEW v \in Verdicts, ReviewReturns(v) PROVE LifeAct
  BY <1>23 DEF ReviewReturns
<1>24. CASE Advised
  BY <1>24 DEF Advised, Propose, Record, Return
<1>25. CASE HandOffReview
  BY <1>25 DEF HandOffReview
<1>26. CASE LoopNeedsFix
  BY <1>26 DEF LoopNeedsFix, NextAttempt, BudgetExhausted, LoopGivesUp, CloseLoop, Record, Return
<1>27. CASE ChangedAfterReview
  BY <1>27 DEF ChangedAfterReview, LoopGivesUp, Capture, CloseLoop, Record, Return
<1>28. CASE Approved
  BY <1>28 DEF Approved, Capture, CloseLoop
<1>29. CASE Settle
  BY <1>29 DEF Settle, Propose, Record, Return
<1>30. CASE ObserveCancel
  BY <1>30 DEF ObserveCancel, Interrupted, AtCheckpoint
<1>31. CASE Unwind
  BY <1>31 DEF Unwind, UnwindLoop, CloseLoop, Record, Return
<1>32. CASE PortFails
  BY <1>32 DEF PortFails, Interrupted
<1>33. CASE CaptureFails
  BY <1>33 DEF CaptureFails
<1>34. CASE Abort
  BY <1>34 DEF Abort, CloseLoop, Record, Return
<1>35. CASE DropTrail
  BY <1>35 DEF DropTrail, Record, Return
<1>36. CASE LedgerFails
  BY <1>36 DEF LedgerFails, Raise, Return
<1>37. CASE Resume
  BY <1>37 DEF Resume, Capture, DetectPlan
<1>38. CASE StartFeedbackWork
  BY <1>38 DEF StartFeedbackWork, Work
<1>39. ASSUME NEW c \in {"run", "agent"}, Launch(c) PROVE LifeAct
  BY <1>39 DEF Launch
<1>40. CASE HostSettles
  BY <1>40 DEF HostSettles
<1>41. CASE Cancel
  BY <1>41 DEF Cancel
<1>42. CASE Mutate
  BY <1>42 DEF Mutate
<1>43. CASE UserDecides
  BY <1>43 DEF UserDecides
<1>44. CASE FollowUp
  BY <1>44 DEF FollowUp
<1>45. CASE AgentFollowUp
  BY <1>45 DEF AgentFollowUp
<1>46. CASE UNCHANGED vars
  BY <1>46 DEF vars
<1>47. CASE AgentExamines
  BY <1>47 DEF AgentExamines
<1>48. CASE AgentProposes
  BY <1>48 DEF AgentProposes, Capture, Propose, Record, Return
<1>49. CASE GiveUp
  BY <1>49 DEF GiveUp, Record, Return
<1> QED BY <1>1, <1>2, <1>3, <1>4, <1>5, <1>6, <1>7, <1>8, <1>9, <1>10, <1>11, <1>12,
          <1>13, <1>14, <1>15, <1>16, <1>17, <1>18, <1>19, <1>20, <1>21, <1>22, <1>23,
          <1>24, <1>25, <1>26, <1>27, <1>28, <1>29, <1>30, <1>31, <1>32, <1>33, <1>34,
          <1>35, <1>36, <1>37, <1>38, <1>39, <1>40, <1>41, <1>42, <1>43, <1>44, <1>45,
          <1>46, <1>47, <1>48, <1>49
       DEF Next, PipelineStep

\* The inductive invariant holds at the start and is kept by every step.
LEMMA InvInit == Init => IInv
<1> SUFFICES ASSUME Init PROVE IInv
  OBVIOUS
<1>1. Scalars
  <2>1. rounds \in 0..MaxFollowUps /\ faults \in 0..MaxFaults
    BY PipelineAssumption DEF Init
  <2> QED BY <2>1 DEF Init, Scalars, Trees
<1>2. trigger \in Triggers /\ rev \in Reviews /\ prop \in Proposals
  BY DEF Init, Triggers, Reviews, Proposals, Trees, NoProposal, NoReview
<1>3. ver \in Verifications
  BY PipelineAssumption DEF Init, Verifications, Trees
<1>4. advice \in Advices
  BY DEF Init, Advices, NoAdvice, BaselineOutcomes
<1>5. loop \in Loops
  BY PipelineAssumption DEF Init, Loops, NoLoop
<1>6. exam \in Exams
  BY DEF Init, Exams, NoExam, Trees
<1>7. TypeOK
  BY <1>1, <1>2, <1>3, <1>4, <1>5, <1>6, TypeParts DEF Types
<1> QED BY <1>7
        DEF Init, IInv, Phase, AgentCall, LoopShape, PortsClosed, Evidence, AdviceShape,
            Examined, ReviewedIsCurrent, AgentPassIsReal, SkipOnBaseline, NoLoop, NoProposal,
            NoReview, NoAdvice, Ports

LEMMA InvStep == IInv /\ [Next]_vars => IInv'
<1> SUFFICES ASSUME IInv, [Next]_vars PROVE IInv'
  OBVIOUS
<1>1. TypeOK'
  <2>1. Types'
    BY TypeParts, TypeStep DEF IInv
  <2> QED BY <2>1, TypeParts DEF TypeOK, Types, Scalars, Triggers, Verifications, Reviews,
                                 Advices, Loops, Exams, Proposals
<1> QED BY <1>1, PhaseStep, AgentCallStep, LoopStep, PortsStep, EvidenceStep, AdviceStep,
           ReviewedStep, AgentPassStep, SkipStep DEF IInv

LEMMA Invariance == Spec => []IInv
BY InvInit, InvStep, PTL DEF Spec

-----------------------------------------------------------------------------
\* PipelineRunner, its fix loop and execute_task keep their types: in particular
\* a fix loop never makes more than max_fix_attempts attempts and its trail is
\* closed at most once.
THEOREM TypeCorrect == Spec => []TypeOK
<1>1. IInv => TypeOK
  BY DEF IInv
<1> QED BY <1>1, Invariance, PTL

\* What is offered as reviewed was verified, then reviewed, and is the change set
\* captured last: RunCompletionGate never has a reason to refuse the runner.
THEOREM ReviewedCurrent == Spec => []ReviewedIsCurrent
<1>1. IInv => ReviewedIsCurrent
  BY DEF IInv
<1> QED BY <1>1, Invariance, PTL

\* execute_task claims a pass only when every check passed and, but for a write in the
\* two gaps its fingerprints leave open, proposes what the checks started on.
THEOREM AgentPassReal == Spec => []AgentPassIsReal
<1>1. IInv => AgentPassIsReal
  BY DEF IInv
<1> QED BY <1>1, Invariance, PTL

\* The decision layer skips the fix loop only on a baseline that failed.
THEOREM SkipJustified == Spec => []SkipOnBaseline
<1>1. IInv => SkipOnBaseline
  BY DEF IInv
<1> QED BY <1>1, Invariance, PTL

\* A call that reports has closed its loop and its attempts, unless a write was lost.
THEOREM ReportsClosed == Spec => []ReportedIsClosed
<1>1. IInv => ReportedIsClosed
  BY DEF IInv, LoopShape, PortsClosed, ReportedIsClosed
<1> QED BY <1>1, Invariance, PTL

\* The report a call returns is the status it leaves the Run in.
THEOREM ReportsHonest == Spec => HonestReport
<1>1. IInv /\ [Next]_vars => [HonestAct]_vars
  BY HonestStep
<1> QED BY <1>1, Invariance, PTL DEF Spec, HonestReport, HonestAct

\* The detailed runner implements RunLifecycle.
THEOREM PipelineImplementsLifecycle == Spec => ImplementsLifecycle
<1>1. Init => Lifecycle!Created
  BY DEF Init, Lifecycle!Created
<1>2. IInv /\ [Next]_vars => [Lifecycle!LifecycleNext]_status
  BY LifecycleStep DEF LifeAct
<1> QED BY <1>1, <1>2, Invariance, PTL DEF Spec, ImplementsLifecycle, Lifecycle!LifecycleSpec

=============================================================================
