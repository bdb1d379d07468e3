------------------------------ MODULE RunCore -------------------------------
(***************************************************************************)
(* One canonical Run of an agent engine and everybody who writes its       *)
(* history: the coordinator that starts it, the recorders of its attempts, *)
(* the triage, the completion gate, the pipeline recorder, the user's      *)
(* decisions and recovery.  All of them run concurrently, in any order, in *)
(* one process or in several; a process that crashes is a writer that      *)
(* takes no more steps.  (The Runs of the classic engine, which            *)
(* handle_legacy_event records without an expectation, are in HostRun.)    *)
(***************************************************************************)
EXTENDS CompletionGate, Recovery

Statuses == {"CREATED", "RUNNING", "WAITING_USER", "SUCCEEDED", "FAILED",
             "CANCELLED", "INTERRUPTED"}

Init ==
  /\ log = <<>>
  /\ status = "CREATED"
  /\ sink = [a \in Attempts |-> NoSink]
  /\ pend = [w \in Writers |-> NothingPending]

-----------------------------------------------------------------------------
(* LegacyRunCoordinator.start: two appends without an expectation, and a   *)
(* best-effort run.failed when one of them did not succeed                 *)

Opening == <<RunEvent("created", "lifecycle"), RunEvent("started", "lifecycle")>>

RecordOpening ==
  /\ Len(log) < 2 /\ log = SubSeq(Opening, 1, Len(log))
  /\ Appended(<<Opening[Len(log) + 1]>>)
  /\ UNCHANGED <<sink, pend>>

StartFails ==
  /\ Len(log) < 2 /\ log = SubSeq(Opening, 1, Len(log))
  /\ Appended(<<RunEvent("failed", "lifecycle")>>)
  /\ UNCHANGED <<sink, pend>>

-----------------------------------------------------------------------------
(* CanonicalPipelineRecorder and the host                                  *)

Proposal == <<Event("proposal", "ready", NoId, "pipeline"), RunEvent("waiting_user", "pipeline")>>

NeedsUser(w) == Decides(w, "RUNNING", Proposal)

\* completed_no_changes, cancelled, failed
PipelineSettles(w) ==
  \E kind \in {"completed", "cancelled", "failed"} :
    Decides(w, "RUNNING", <<RunEvent(kind, "pipeline")>>)

\* finish_failed, finish_cancelled without an open legacy execution: anything
\* but a terminal Run.
HostGivesUp(w) ==
  \E kind \in {"cancelled", "failed"}, s \in {"RUNNING", "WAITING_USER"} :
    Decides(w, s, <<RunEvent(kind, "lifecycle")>>)

\* The host keeps proposals only while the Run waits because of one.
ProposalPending ==
  \E n \in DOMAIN log :
    /\ log[n].fam = "proposal" /\ log[n].kind = "ready"
    /\ \A m \in DOMAIN log : m > n => log[m].fam # "run" \/ m = n + 1

\* record_proposal_applied, record_proposal_rejected
DecideProposal(w) ==
  \E kind \in {"applied", "rejected"} :
    /\ ProposalPending
    /\ Decides(w, "WAITING_USER", <<Event("proposal", kind, NoId, "lifecycle")>>)

\* A follow-up on a pending proposal: resumed()
FollowUp(w) ==
  /\ ProposalPending
  /\ Decides(w, "WAITING_USER", <<RunEvent("resumed", "pipeline")>>)

-----------------------------------------------------------------------------

GateNext(w) ==
  \/ \E v \in Verifications : CompleteVerified(w, v)
  \/ \E v \in Verifications, r \in Reviews, d \in Diffs : CompleteReviewed(w, v, r, d)
  \/ \E x \in Executions : FailExecution(w, x)
  \/ \E v \in Verifications : FailVerification(w, v)
  \/ \E l \in Loops : FailFixLoop(w, l)

RecorderNext(a) ==
  \/ OpenSink(a) \/ Begin(a) \/ CloseItem(a) \/ Ask(a) \/ Answer(a) \/ End(a)
  \/ EmitFails(a) \/ Refresh(a) \/ Activity(a) \/ DecisionMade(a)
  \/ \E i \in Items : OpenItem(a, i) \/ RefuseItem(a, i)

Next ==
  \/ RecordOpening \/ StartFails
  \/ \E a \in Attempts : RecorderNext(a)
  \/ \E w \in Workers : GateNext(w) \/ NeedsUser(w) \/ PipelineSettles(w)
  \/ \E w \in Hosts : HostGivesUp(w) \/ DecideProposal(w) \/ FollowUp(w)
  \/ \E w \in Recoverers : Recover(w)
  \/ \E w \in Writers : Commit(w) \/ Conflict(w)

Spec == Init /\ [][Next]_vars

-----------------------------------------------------------------------------
(* Properties                                                              *)

Events ==
  [fam : {"run", "proposal", "agent", "decision",
          "plan", "execution", "verification", "review", "fix_loop"},
   kind : {"created", "started", "waiting_user", "resumed", "completed", "failed",
           "cancelled", "interrupted", "exhausted", "ready", "applied", "rejected",
           "activity", "made", "item_started", "item_ended",
           "permission_requested", "permission_resolved"},
   id : Attempts \cup {NoId},
   src : {"sink", "activity", "decision", "gate", "pipeline", "lifecycle", "recovery"},
   res : {"none", "pass", "fail", "denied", "APPROVED", "REVISE", "verified", "reviewed",
          "execution", "verification", "fix_loop"},
   ref : Verifications \cup Items \cup {NoId},
   diff : Diffs \cup {NoId}]

\* Type invariant; runs.status is always the projection of the history.
TypeOK ==
  /\ log \in Seq(Events)
  /\ status = StatusAfter("CREATED", log)
  /\ status \in Statuses
  /\ sink \in [Attempts -> [pc : {"none", "open", "live", "asked", "ended", "dead"},
                            item : Items \cup {NoId}, expected : Nat]]
  /\ pend \in [Writers -> [seq : Nat, specs : Seq(Events), from : Statuses]]

\* The status of a Run moves only along its lifecycle (module RunLifecycle),
\* whatever the recorders, the gate, the host and recovery do concurrently:
\* project_run itself accepts any event in any status.
Life == INSTANCE RunLifecycle
LifecycleHolds == Life!LifecycleSpec

\* Every seq of a settlement by the gate: a completed Run or a proposal.
Settlements == {n \in DOMAIN log : log[n].res \in {"verified", "reviewed"}}

\* What makes the settlement at n right, from the history alone: an execution
\* completed, then a verification began and passed, and between the execution
\* and the settlement nothing else was executed or verified.
VerifiedAt(n) ==
  \E e, s, t \in 1..(n - 1) :
    /\ e < s /\ s < t
    /\ log[e].fam = "execution" /\ log[e].kind = "completed" /\ log[e].id = log[n].id
    /\ log[s].fam = "verification" /\ log[s].kind = "started" /\ log[s].id = log[n].ref
    /\ log[t].fam = "verification" /\ log[t].kind = "completed" /\ log[t].id = log[n].ref
    /\ log[t].res = "pass"
    /\ \A m \in (e + 1)..(n - 1) : log[m].fam # "execution"
    /\ \A m \in (s + 1)..(n - 1) : ~(log[m].fam = "verification" /\ log[m].kind = "started")

\* The last review to begin before n approved exactly the diff and the verification
\* that the settlement names, it began after that verification passed, and its
\* approval is its last word.
ReviewedAt(n) ==
  \E t, s, r \in 1..(n - 1) :
    /\ t < s /\ s < r
    /\ log[t].fam = "verification" /\ log[t].res = "pass" /\ log[t].id = log[n].ref
    /\ log[s].fam = "review" /\ log[s].kind = "started"
    /\ log[r].fam = "review" /\ log[r].id = log[s].id /\ log[r].res = "APPROVED"
    /\ log[r].ref = log[n].ref /\ log[r].diff = log[n].diff
    /\ \A m \in (s + 1)..(n - 1) : ~(log[m].fam = "review" /\ log[m].kind = "started")
    /\ \A m \in (r + 1)..(n - 1) :
         ~(/\ log[m].fam = "review" /\ log[m].id = log[s].id
           /\ log[m].kind \in {"completed", "failed", "interrupted"})

\* A Run is completed or proposed by the gate only on evidence that is still
\* the latest at the settlement's own seq, although the gate read the history
\* some time before it appended (RunCompletionGate.complete_verified and
\* complete_reviewed racing recorders, recovery and other gates).
SettledOnEvidence ==
  \A n \in Settlements :
    VerifiedAt(n) /\ (log[n].res = "reviewed" => ReviewedAt(n))

\* Dually, the gate fails a Run only on a failure nothing has overtaken: the
\* last execution event is that failure, or the latest verification failed
\* after the last execution event, or no execution followed the loop's end.
FailedOnEvidence ==
  \A n \in DOMAIN log : log[n].src = "gate" /\ log[n].kind = "failed" =>
    \E t \in 1..(n - 1) :
      /\ log[t].id = log[n].id /\ log[t].fam = log[n].res
      /\ log[t].kind \in {"failed", "exhausted"} \/ log[t].res = "fail"
      /\ \A m \in (t + 1)..(n - 1) : ~(/\ log[m].fam = "execution"
                                        /\ log[m].kind \in {"started", "completed", "failed"})
      /\ log[n].res # "execution" =>
           \A m \in (t + 1)..(n - 1) : ~(log[m].fam = log[n].res /\ log[m].kind = "started")

\* The attempts whose recorder is fenced by the seq on every append.
Fenced == Attempts \ AcpSessions

\* No event lands between two events of a fenced attempt's recorder unless it
\* is the attempt's own or comes with it (its run.waiting_user/resumed): a
\* settlement, a recovery or another attempt that gets in ends the attempt.
\* The fix loop is the exception by design, its worker, verification and
\* review run inside it.
AttemptUninterleaved ==
  \A i, j \in DOMAIN log :
    (i < j /\ log[i].id = log[j].id /\ log[i].src = "sink" /\ log[j].src = "sink"
       /\ log[i].id \in Fenced \ Loops)
      => \A m \in i..j : log[m].id = log[i].id \/ (log[m].src = "sink" /\ log[m].fam = "run")

\* The two writers that append without an expectation: what an ACP session
\* reports and what the triage of a failed verification decided.
UnfencedOnly ==
  \A n \in (Len(log) + 1)..Len(log') :
    log'[n].id \in AcpSessions \/ log'[n].fam = "decision"

\* Once a Run is terminal its history is sealed: of a worker that still runs
\* elsewhere only what an ACP session reports and a decision.made get in.
SealedWhenTerminal == [][(status \in Life!Terminal) => UnfencedOnly]_vars

AttemptTerminal(n) ==
  log[n].fam \in {"plan", "execution", "verification", "review", "fix_loop"}
    /\ log[n].kind \in {"completed", "exhausted", "failed", "interrupted"}

\* An attempt starts once and ends at most once, whoever ends it: its own
\* recorder or a recovery that took it for dead.
EndsOnce ==
  \A i, j \in DOMAIN log :
    (log[i].id = log[j].id /\ log[i].id \in Fenced /\ log[i].fam = log[j].fam)
      => \/ i = j
         \/ ~(log[i].kind = "started" /\ log[j].kind = "started")
            /\ ~(AttemptTerminal(i) /\ AttemptTerminal(j))

\* An event that starts something (an attempt, or an item within one) and one
\* that ends what i started.
Ends(i, j) ==
  /\ j > i /\ log[j].fam = log[i].fam /\ log[j].id = log[i].id
  /\ IF log[i].kind = "started" THEN AttemptTerminal(j)
     ELSE log[j].kind = "item_ended" /\ log[j].ref = log[i].ref

\* A tool of a native planner, worker or reviewer session whose item_id, which
\* follows the call id the model chose, has no tool.failed of an earlier call that
\* Dispatcher.prepare refused.
FreshTool(i) ==
  ToolStart(i) /\ ~\E j \in 1..(i - 1) : /\ log[j].kind = "item_ended"
                                        /\ log[j].id = log[i].id /\ log[j].ref = log[i].ref

\* Nothing is left open by a recovery: when run.interrupted is recorded every
\* plan, verification, review and fix loop that ever started has a terminal
\* event, and so has every check and every fix attempt, also when its id was
\* used before, and every tool whose call id was not refused before.  (Executions
\* have no interrupted event; the tool.failed of a refused call makes recovery take
\* a later tool of the same call id for finished.)
RecoveredIsClosed ==
  \A n \in DOMAIN log : log[n].fam = "run" /\ log[n].kind = "interrupted" =>
    \A i \in 1..(n - 1) :
      (\/ log[i].kind = "started" /\ log[i].fam \in {"plan", "verification", "review", "fix_loop"}
       \/ log[i].kind = "item_started" /\ log[i].fam \in {"verification", "fix_loop"}
       \/ FreshTool(i))
        => \E j \in (i + 1)..(n - 1) : Ends(i, j)
=============================================================================
