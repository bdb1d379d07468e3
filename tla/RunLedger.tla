----------------------------- MODULE RunLedger -----------------------------
(***************************************************************************)
(* The durable ledger of one Run (RunStore.append_event(s) and the         *)
(* projector) and the recorders that write attempts into it: planner,      *)
(* agent and ACP execution, verification, reviewer and fix loop.  Every    *)
(* recorder keeps the seq it believes to be the last one and appends under *)
(* that expectation (expected_last_event_seq).                             *)
(*                                                                         *)
(* An event is a record: fam and kind name its type (fam "verification",   *)
(* kind "started" is verification.started; kinds "item_started" and        *)
(* "item_ended" are the tool, check and fix-attempt events of the family), *)
(* id is the attempt it belongs to, ref what it refers to (an item, or the *)
(* verification a review or settlement is about), src its source column.   *)
(***************************************************************************)
EXTENDS Naturals, Sequences

CONSTANTS Plans, Executions, Verifications, Reviews, Loops,  \* attempt ids
          AcpSessions, \* plans and reviews driven over ACP: they interleave agent.activity
          Items,       \* ids of tools, checks and fix attempts within an attempt
          Diffs,       \* SHA-256 of a workspace change set
          NoId,        \* an absent id
          Workers,     \* pipeline worker threads: they own the gate and the pipeline recorder
          Hosts,       \* host handlers: the user's decisions and giving up
          Recoverers,  \* processes that run recovery
          MaxLog       \* bound: length of the log

Writers == Workers \cup Hosts \cup Recoverers  \* all who read, decide and append

Attempts == Plans \cup Executions \cup Verifications \cup Reviews \cup Loops

ASSUME LedgerAssumption ==
  /\ NoId \notin Attempts \cup Items \cup Diffs
  /\ AcpSessions \subseteq Plans \cup Reviews
  /\ MaxLog \in Nat
  /\ Plans \cap (Executions \cup Verifications \cup Reviews \cup Loops) = {}
  /\ Executions \cap (Verifications \cup Reviews \cup Loops) = {}
  /\ Verifications \cap (Reviews \cup Loops) = {}
  /\ Reviews \cap Loops = {}

VARIABLES
  log,      \* run_events in seq order: log[n] has seq n
  status,   \* runs.status, the projection of the log
  sink,     \* sink[a]: the recorder of attempt a (pc, expected seq, open item)
  pend      \* pend[w]: what w read and is about to append (seq, specs)

ledger == <<log, status>>
vars == <<log, status, sink, pend>>

-----------------------------------------------------------------------------
(* Events and the projector                                                *)

Event(fam, kind, id, src) ==
  [fam |-> fam, kind |-> kind, id |-> id, src |-> src,
   res |-> "none", ref |-> NoId, diff |-> NoId]

RunEvent(kind, src) == Event("run", kind, NoId, src)

\* The status an event projects, "same" for one project_run ignores.
StatusOf(e) ==
  CASE e.fam = "run" /\ e.kind = "created"      -> "CREATED"
    [] e.fam = "run" /\ e.kind = "started"      -> "RUNNING"
    [] e.fam = "run" /\ e.kind = "waiting_user" -> "WAITING_USER"
    [] e.fam = "run" /\ e.kind = "resumed"      -> "RUNNING"
    [] e.fam = "run" /\ e.kind = "completed"    -> "SUCCEEDED"
    [] e.fam = "run" /\ e.kind = "failed"       -> "FAILED"
    [] e.fam = "run" /\ e.kind = "cancelled"    -> "CANCELLED"
    [] e.fam = "run" /\ e.kind = "interrupted"  -> "INTERRUPTED"
    [] e.fam = "proposal" /\ e.kind \in {"applied", "rejected"} -> "SUCCEEDED"
    [] e.fam = "checkpoint" /\ e.kind = "restored" -> "SUCCEEDED"  \* nobody writes it yet
    [] OTHER -> "same"

\* A batch projects its events in order: the last one with an effect wins.
StatusAfter(s, specs) ==
  LET hits == {k \in 1..Len(specs) : StatusOf(specs[k]) # "same"} IN
  IF hits = {} THEN s
  ELSE StatusOf(specs[CHOOSE k \in hits : \A j \in hits : j <= k])

\* run.resumed raises RunProjectionError unless the Run is waiting, and the
\* whole transaction rolls back.
Projectable(s, specs) ==
  \A k \in 1..Len(specs) :
    specs[k].fam = "run" /\ specs[k].kind = "resumed"
      => StatusAfter(s, SubSeq(specs, 1, k - 1)) = "WAITING_USER"

-----------------------------------------------------------------------------
(* RunStore.append_event / append_events: one transaction                  *)

\* Mutation: only the first event of a batch is projected.
AppendedProjectsFirst(specs) ==
  /\ Len(log) + Len(specs) <= MaxLog
  /\ Projectable(status, specs)
  /\ log' = log \o specs
  /\ status' = StatusAfter(status, SubSeq(specs, 1, 1))

Appended(specs) ==
  /\ Len(log) + Len(specs) <= MaxLog
  /\ Projectable(status, specs)
  /\ log' = log \o specs
  /\ status' = StatusAfter(status, specs)

-----------------------------------------------------------------------------
(* The recorders                                                           *)

Fam(a) == CASE a \in Plans -> "plan"
            [] a \in Executions -> "execution"
            [] a \in Verifications -> "verification"
            [] a \in Reviews -> "review"
            [] a \in Loops -> "fix_loop"

NoSink == [pc |-> "none", expected |-> 0, item |-> NoId]

\* Mutation: an append ignores expected_last_event_seq.
EmitUnfenced(a, specs, pc, item) ==
  /\ Appended(specs)
  /\ sink' = [sink EXCEPT ![a] = [pc |-> pc, item |-> item,
                                  expected |-> Len(log) + Len(specs)]]
  /\ UNCHANGED pend

\* record_many(expected_last_event_seq = the recorder's own), then the
\* recorder moves on to the last committed seq.
Emit(a, specs, pc, item) ==
  /\ sink[a].expected = Len(log)
  /\ Appended(specs)
  /\ sink' = [sink EXCEPT ![a] = [pc |-> pc, item |-> item,
                                  expected |-> Len(log) + Len(specs)]]
  /\ UNCHANGED pend

AttemptEvent(a, kind) == Event(Fam(a), kind, a, "sink")

\* The constructor requires a RUNNING Run and remembers its last seq.  A
\* second recorder may be constructed for an id that was used before.
OpenSink(a) ==
  /\ sink[a].pc = "none" \/ (sink[a].pc = "dead" /\ a \notin Executions)
  /\ status = "RUNNING"
  /\ sink' = [sink EXCEPT ![a] = [pc |-> "open", item |-> NoId, expected |-> Len(log)]]
  /\ UNCHANGED <<ledger, pend>>

\* _reject_reused_*_id scans the history for a start of the same attempt.
Reused(a) == \E n \in 1..Len(log) :
               log[n].fam = Fam(a) /\ log[n].kind = "started" /\ log[n].id = a

\* Mutation: an attempt id may be started again.
BeginAgain(a) ==
  /\ sink[a].pc = "open"
  /\ Emit(a, <<AttemptEvent(a, "started")>>, "live", NoId)

\* *.started: rejected for an id the history knows, except for executions.
Begin(a) ==
  /\ sink[a].pc = "open"
  /\ a \in Executions \/ ~Reused(a)
  /\ Emit(a, <<AttemptEvent(a, "started")>>, "live", NoId)

Sessions == (Plans \cup Executions \cup Reviews) \ AcpSessions  \* native agent sessions

\* Dispatcher.prepare keeps a record of every call it prepared: of those that
\* were started and of those that were denied by the policy or the user.
Prepared(a, i) ==
  \E n \in 1..Len(log) : /\ log[n].id = a /\ log[n].ref = i
                         /\ log[n].kind = "item_started" \/ log[n].res = "denied"

\* A tool, a check or a fix attempt starts; they run one at a time.  A tool's id
\* follows the call id the model chose, and prepare refuses one it has prepared
\* before in the session.  An ACP planner or reviewer reports its tools as
\* activity only.
OpenItem(a, i) ==
  /\ a \notin AcpSessions
  /\ sink[a].pc = "live" /\ sink[a].item = NoId
  /\ a \in Sessions => ~Prepared(a, i)
  /\ Emit(a, <<[AttemptEvent(a, "item_started") EXCEPT !.ref = i]>>, "live", i)

\* It ends: completed, failed, or interrupted by its own recorder.
CloseItem(a) ==
  /\ sink[a].pc = "live" /\ sink[a].item # NoId
  /\ Emit(a, <<[AttemptEvent(a, "item_ended") EXCEPT !.ref = sink[a].item]>>, "live", NoId)

\* tool.failed without a start: prepare refused the call (an unknown tool, bad
\* arguments, an id it knows), or the prepared call was denied.
RefuseItem(a, i) ==
  /\ a \in Sessions
  /\ sink[a].pc = "live" /\ sink[a].item = NoId
  /\ \E r \in {"none", "denied"} :
       /\ r = "denied" => ~Prepared(a, i)
       /\ Emit(a, <<[AttemptEvent(a, "item_ended") EXCEPT !.ref = i, !.res = r]>>, "live", NoId)

\* A tool call asks for approval: permission.requested and run.waiting_user
\* in one batch.
Ask(a) ==
  /\ a \in Executions
  /\ sink[a].pc = "live" /\ sink[a].item = NoId
  /\ Emit(a, <<AttemptEvent(a, "permission_requested"), RunEvent("waiting_user", "sink")>>,
          "asked", NoId)

Answer(a) ==
  /\ sink[a].pc = "asked"
  /\ Emit(a, <<AttemptEvent(a, "permission_resolved"), RunEvent("resumed", "sink")>>,
          "live", NoId)

\* The terminal events each recorder can write: plans and executions complete
\* or fail; a verification completes with its verdict or is cancelled; a review
\* completes with a verdict on one verification and one diff, or fails.
SessionOutcomes(a) == {AttemptEvent(a, "completed"), AttemptEvent(a, "failed")}

VerificationOutcomes(a) ==
  {[AttemptEvent(a, "completed") EXCEPT !.res = r] : r \in {"pass", "fail"}}
    \cup {AttemptEvent(a, "interrupted")}

Verdict(a, r, v, d) == [AttemptEvent(a, "completed") EXCEPT !.res = r, !.ref = v, !.diff = d]

ReviewOutcomes(a) ==
  {Verdict(a, r, v, d) : r \in {"APPROVED", "REVISE"}, v \in Verifications, d \in Diffs}
    \cup {AttemptEvent(a, "failed")}

LoopOutcomes(a) ==
  {AttemptEvent(a, k) : k \in {"completed", "exhausted", "failed", "interrupted"}}

Outcomes(a) == CASE a \in Plans \cup Executions -> SessionOutcomes(a)
                 [] a \in Verifications -> VerificationOutcomes(a)
                 [] a \in Reviews -> ReviewOutcomes(a)
                 [] a \in Loops -> LoopOutcomes(a)

\* A verification that is cancelled leaves its running check open; a fix loop
\* refuses to end with an active attempt.  A session that is resumed after its
\* Run was cancelled fails before it looks at the answer.
End(a) ==
  \E e \in Outcomes(a) :
    /\ sink[a].pc = "live" \/ (sink[a].pc = "asked" /\ e.kind = "failed")
    /\ sink[a].item = NoId \/ (a \in Verifications /\ e.kind = "interrupted")
    /\ Emit(a, <<e>>, "ended", NoId)

\* An append under a stale expectation raises: the attempt is over for this
\* process.  A start with a used id raises too.
EmitFails(a) ==
  /\ sink[a].pc \in {"open", "live", "asked"}
  /\ \/ sink[a].expected # Len(log)
     \/ sink[a].pc = "open" /\ a \notin Executions /\ Reused(a)
  /\ sink' = [sink EXCEPT ![a].pc = "dead"]
  /\ UNCHANGED <<ledger, pend>>

\* CanonicalFixLoopRecorder._current_expected_seq reads the seq afresh before
\* each append and refuses a Run that is not RUNNING.
Refresh(a) ==
  /\ a \in Loops
  /\ sink[a].pc \in {"open", "live"}
  /\ sink[a].expected # Len(log)
  /\ status = "RUNNING"
  /\ sink' = [sink EXCEPT ![a].expected = Len(log)]
  /\ UNCHANGED <<ledger, pend>>

\* record_agent_activity appends without an expectation, then tells the sink
\* of the running ACP session (note_external_append).
Activity(a) ==
  /\ a \in AcpSessions
  /\ sink[a].pc = "live"
  /\ Appended(<<Event("agent", "activity", a, "activity")>>)
  /\ sink' = [sink EXCEPT ![a].expected = Len(log) + 1]
  /\ UNCHANGED pend

\* CanonicalDecisionRecorder.record: the fix loop has a failed verification
\* triaged.  decision.made is appended without an expectation, whatever became of
\* the Run meanwhile; the loop reads its own seq afresh (Refresh).
DecisionMade(a) ==
  /\ a \in Loops
  /\ sink[a].pc = "live" /\ sink[a].item = NoId
  /\ \E n \in 1..Len(log) :
       /\ log[n].fam = "verification" /\ log[n].res = "fail"
       /\ \A m \in n..Len(log) : log[m].fam # "decision"
  /\ Appended(<<Event("decision", "made", NoId, "decision")>>)
  /\ UNCHANGED <<sink, pend>>

-----------------------------------------------------------------------------
(* Read, decide, append: the shape of every other writer                   *)

NothingPending == [seq |-> 0, specs |-> <<>>, from |-> "CREATED"]

\* w has read the Run (status and last seq) and decided to append specs.
Decides(w, read, specs) ==
  /\ pend[w] = NothingPending
  /\ status = read
  /\ pend' = [pend EXCEPT ![w] = [seq |-> Len(log), specs |-> specs, from |-> status]]
  /\ UNCHANGED <<ledger, sink>>

\* Mutation: the append does not compare last_event_seq with the expectation.
CommitUnchecked(w) ==
  /\ pend[w].specs # <<>>
  /\ Appended(pend[w].specs)
  /\ pend' = [pend EXCEPT ![w] = NothingPending]
  /\ UNCHANGED sink

\* The append succeeds only if nothing was appended since the read ...
Commit(w) ==
  /\ pend[w].specs # <<>>
  /\ Len(log) = pend[w].seq
  /\ Appended(pend[w].specs)
  /\ pend' = [pend EXCEPT ![w] = NothingPending]
  /\ UNCHANGED sink

\* ... and raises EventSequenceError otherwise.
Conflict(w) ==
  /\ pend[w].specs # <<>>
  /\ Len(log) # pend[w].seq
  /\ pend' = [pend EXCEPT ![w] = NothingPending]
  /\ UNCHANGED <<ledger, sink>>
=============================================================================
