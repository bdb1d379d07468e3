------------------------------ MODULE HostRun ------------------------------
(***************************************************************************)
(* The desktop host (webhost/api/run.py): one active Run at a time, its    *)
(* worker thread, the worktree it edits, the collaboration session it is   *)
(* bound to, the proposals the user decides on, and the delivery threads   *)
(* that borrow worktree and session.                                       *)
(*                                                                         *)
(* Handlers and slots run one at a time on the Qt main thread; workers and *)
(* deliveries are threads of their own.  A worker's signals are posted to  *)
(* the main thread's queue, so a handler may run while they are waiting.   *)
(* The three engines share everything but their wiring.  A Run is known    *)
(* here by its status alone (module RunCore has its history).              *)
(***************************************************************************)
EXTENDS Naturals, Sequences

CONSTANTS
  Engines,     \* subset of {"legacy", "pipeline", "agent"}
  Sessions,    \* may a pipeline Run be bound to a collaboration session? a set of BOOLEANs
  Paths,       \* files a Run proposes
  Deliveries,  \* delivery-request threads
  MaxRuns, MaxWorkers,  \* bounds: Runs, worker threads (a follow-up is one of its own)
  MaxEdits,    \* bound: edits of the user
  MaxFaults    \* bound: failures of the store, the file system or git

ASSUME HostAssumption ==
  /\ Engines \subseteq {"legacy", "pipeline", "agent"}
  /\ Sessions \subseteq BOOLEAN
  /\ MaxRuns \in Nat /\ MaxWorkers \in Nat /\ MaxEdits \in Nat /\ MaxFaults \in Nat

RunIds == 1..MaxRuns
WorkerIds == 1..MaxWorkers
Terminal == {"SUCCEEDED", "FAILED", "CANCELLED"}

VARIABLES
  active,   \* _active: run, engine, worker, ws, sess, coord (ids, 0 is None), props
  status,   \* status[r]: the canonical status of Run r, "none" before its start
  exe,      \* exe[r]: a legacy Run's executions open in the ledger, and whether its
            \* adapter thinks one is (the other engines record theirs elsewhere)
  worker,   \* worker[w]: its Run, engine, pc, cancel flag, is it a follow-up, how far a classic
            \* one is; history: had its Run been given up to the drain when it started
  queue,    \* posted signals of workers
  ui,       \* ui[w]: what run.finished said ("none" while ended["flag"] is false)
  tree,     \* tree[r]: its worktree; "torn": dispose() failed on it, all of it or a part is left
  sess,     \* sess[r]: its collaboration session
  drain,    \* _draining_workers: a Run whose session and worktree wait to be released,
            \* with the worker that still may use them (0: none)
  delivery, \* delivery[d]: pc and the Run it borrows from
  closing,  \* _delivery_closing
  main,     \* what the main thread is in the middle of
  file,     \* file[p]: content of the project's file (see Contents)
  snap,     \* snap[r]: the project's files as Run r took them to work on
  hashed,   \* hashed[r]: the project's files as a classic Run r hashed them for its proposals
  base,     \* base[p]: baseHash of the proposal for p
  origin,   \* history: origin[p]: the content the proposal for p was computed from
  ckpt,     \* ckpt[r]: the checkpoint taken by an apply of Run r, pairs of a path and its content
  applied,  \* Runs settled by proposal.applied
  edits, faults,   \* budgets spent: edits of the user, failures
  early,    \* history: edits that a baseHash vouches for and the proposal does not know
  late,     \* history: edits made while an apply was under way
  lost,     \* history: edits an apply or its rollback overwrote without knowing them
  broken,   \* an apply answered *_rollback_failed: the files are known to be mixed
  strayed   \* history: a start or a follow-up was answered as failed though its thread runs

vars == <<active, status, exe, worker, queue, ui, tree, sess, drain, delivery, closing,
          main, file, snap, hashed, base, origin, ckpt, applied, edits, faults, early,
          late, lost, broken, strayed>>
published == <<base, origin, early>>
project == <<exe, file, snap, hashed, published, ckpt, applied, edits, late, lost, broken>>
collab == <<drain, delivery, closing>>

\* What a file can hold: 0 at first, r as Run r proposes it, MaxRuns + k after
\* the k-th edit.  Equal contents have equal hashes and no others.
Contents == 0..(MaxRuns + MaxEdits)

Idle == [pc |-> "idle", run |-> 0, todo |-> {}, wanted |-> {}, errors |-> FALSE]
NoWorker == [run |-> 0, eng |-> "legacy", pc |-> "none", cancel |-> FALSE,
             follow |-> FALSE, dispose |-> FALSE, retired |-> FALSE, at |-> "plan"]

Init ==
  /\ active = [run |-> 0, engine |-> "legacy", worker |-> 0, ws |-> 0, sess |-> 0,
               coord |-> 0, props |-> {}]
  /\ status = [r \in RunIds |-> "none"]
  /\ exe = [r \in RunIds |-> [open |-> 0, cur |-> FALSE]]
  /\ worker = [w \in WorkerIds |-> NoWorker]
  /\ queue = <<>>
  /\ ui = [w \in WorkerIds |-> "none"]
  /\ tree = [r \in RunIds |-> "none"]
  /\ sess = [r \in RunIds |-> "none"]
  /\ drain = {} /\ closing = {}
  /\ delivery = [d \in Deliveries |-> [pc |-> "idle", run |-> 0]]
  /\ main = Idle
  /\ file = [p \in Paths |-> 0] /\ base = file /\ origin = file
  /\ snap = [r \in RunIds |-> file] /\ hashed = snap
  /\ ckpt = [r \in RunIds |-> {}]
  /\ applied = {} /\ early = {} /\ late = {} /\ lost = {} /\ broken = FALSE
  /\ edits = 0 /\ faults = 0 /\ strayed = FALSE

-----------------------------------------------------------------------------
(* Helpers                                                                 *)

Fault == faults < MaxFaults /\ faults' = faults + 1
NoFault == UNCHANGED faults

Alive(w) == w # 0 /\ worker[w].pc \in {"running", "settled"}
Leased(r) == \E d \in Deliveries : delivery[d].pc \in {"leased", "using"} /\ delivery[d].run = r
Busy(r) == r # 0 /\ (Leased(r) \/ r \in closing)
BusyAtAll == \E r \in RunIds : Busy(r)

\* _retain_collaboration, _retire_collaboration_after_worker: an entry is kept as it is.
Draining(r) == \E e \in drain : e[1] = r
Retain(r, w) == IF Draining(r) THEN drain ELSE drain \cup {<<r, w>>}

\* The worktrees after dispose() of the one of r (0: there is none).  What is left when
\* it fails is out of reach where the error is swallowed (_dispose_workspace: the next
\* program start prunes it); where it is not, the worktree is Torn and kept.
Disposed(r) == IF r = 0 THEN tree ELSE [tree EXCEPT ![r] = "disposed"]
Torn(r) == [tree EXCEPT ![r] = "torn"]
Remains(r) == r # 0 /\ tree[r] \in {"live", "torn"}

\* _dispose_agent_workspace: _active refers to the worktree until it is gone.
DisposeAgent(r) ==
  \/ /\ tree' = Disposed(r) /\ active' = [active EXCEPT !.ws = IF @ = r THEN 0 ELSE @] /\ NoFault
  \/ Remains(r) /\ tree' = Torn(r) /\ UNCHANGED active /\ Fault

\* The first posted signal is one of this kind, from worker Src.
Posted(kind) == main = Idle /\ queue # <<>> /\ Head(queue).kind = kind
Src == Head(queue).worker
Take == queue' = Tail(queue)

\* finish(): the first call per worker tells the UI, later ones do nothing.
Finish(w, said) == ui' = [ui EXCEPT ![w] = IF @ = "none" THEN said ELSE @]

\* coordinator.finish_failed, finish_cancelled: no-ops on a terminal Run.
Ended(r, as) == [status EXCEPT ![r] = IF @ \in Terminal THEN @ ELSE as]

\* execution.failed for the execution the adapter knows to be open.
CloseExecution(r) ==
  exe' = [exe EXCEPT ![r] = IF @.cur THEN [open |-> @.open - 1, cur |-> FALSE] ELSE @]

\* settle_canonical_failure: finish_failed, first the execution, then the Run; its own
\* failure, before or between the two, is swallowed.
SettleFailed(r) ==
  \/ UNCHANGED <<status, exe>>
  \/ /\ status[r] \notin Terminal
     /\ CloseExecution(r)
     /\ status' \in {Ended(r, "FAILED"), status}

-----------------------------------------------------------------------------
(* run.start                                                               *)

\* A new run id; a thread that was not started yet.
FreeRun == CHOOSE r \in RunIds : status[r] = "none"
FreeWorker == CHOOSE w \in WorkerIds : worker[w].pc = "none"

\* The web UI asks for a Run or a follow-up only after run.finished of the last one.
UiQuiet == active.worker # 0 => ui[active.worker] # "none"

\* Everything run.start checks before it creates a Run.  Entries in drain make
\* it fail after a retry of the drain (DrainBegin); an unreadable Run fails
\* closed, with no effect.
StartAdmitted ==
  /\ main = Idle /\ UiQuiet
  /\ drain = {} /\ ~Alive(active.worker) /\ ~BusyAtAll
  /\ active.props = {}
  /\ active.coord # 0 => status[active.coord] \in Terminal
  /\ \E r \in RunIds : status[r] = "none"

\* GitWorktreeWorkspace.create, from a snapshot of the project; the classic engine
\* works in the project itself.
NewTree(e) == IF e = "legacy" THEN "none" ELSE "live"

\* An agent's worktree that is still there is disposed first, or run.start is refused.
OldTreeKept ==
  /\ StartAdmitted /\ active.engine = "agent" /\ Remains(active.ws)
  /\ Fault /\ tree' = Torn(active.ws)
  /\ UNCHANGED <<active, status, worker, queue, ui, sess, collab, main, project>>

OldTreeGone == IF active.engine = "agent" THEN Disposed(active.ws) ELSE tree

Start(e, s) ==
  /\ StartAdmitted
  /\ \E w \in WorkerIds : worker[w].pc = "none"
  /\ s => e = "pipeline"
  /\ LET r == FreeRun  w == FreeWorker IN
     /\ status' = [status EXCEPT ![r] = "RUNNING"]
     /\ worker' = [worker EXCEPT ![w] = [NoWorker EXCEPT !.run = r, !.eng = e, !.pc = "running"]]
     /\ tree' = [OldTreeGone EXCEPT ![r] = NewTree(e)]
     /\ sess' = [sess EXCEPT ![r] = IF s THEN "open" ELSE "none"]
     /\ active' = [run |-> r, engine |-> e, worker |-> w, ws |-> IF e = "legacy" THEN 0 ELSE r,
                   sess |-> IF s THEN r ELSE 0, coord |-> r, props |-> {}]
     /\ snap' = [snap EXCEPT ![r] = file]
  /\ NoFault
  /\ UNCHANGED <<queue, ui, collab, main, exe, file, hashed, published, ckpt, applied, edits,
                 late, lost, broken>>

\* The session of a Run whose start failed: closed, or retained for a later drain.
SessionAfter(r, s, closed) ==
  /\ ~s => closed
  /\ sess' = [sess EXCEPT ![r] = CASE ~s -> "none" [] s /\ closed -> "closed" [] OTHER -> "open"]
  /\ drain' = IF closed THEN drain ELSE Retain(r, 0)

\* _active after a failed start.
Cleared(e, r, closed) ==
  [run |-> 0, engine |-> e, worker |-> 0, ws |-> 0,
   sess |-> IF closed THEN 0 ELSE r, coord |-> 0, props |-> {}]

\* The Run was created, then its worktree, ports, session or thread failed: best effort
\* run.failed and dispose().  Either nothing of the Run is active afterwards; or (an
\* agent's worktree or ports) it never was; or (an agent's worktree that is not
\* disposed) it stays, with a thread that never ran.  A pipeline without a session whose
\* worktree or ports fail falls back to the classic engine, which is Start("legacy").
StartFails(e, s) ==
  /\ StartAdmitted /\ (s => e = "pipeline")
  /\ Fault
  /\ LET r == FreeRun IN
     \E closed \in BOOLEAN, settled \in {"FAILED", "RUNNING"}, left \in {"none", "torn"} :
       /\ left = "torn" => e # "legacy"
       /\ status' = [status EXCEPT ![r] = settled]
       /\ tree' = [OldTreeGone EXCEPT ![r] = left]
       /\ SessionAfter(r, s, closed)
       /\ \/ /\ e = "agent" => left = "none"
             /\ active' = Cleared(IF e = "agent" THEN "legacy" ELSE e, r, closed)
          \/ /\ e = "agent"
             /\ active' = [active EXCEPT !.ws = IF active.engine = "agent" THEN 0 ELSE @]
          \/ /\ e = "agent" /\ left = "torn"
             /\ active' = [Cleared(e, r, TRUE) EXCEPT !.run = r, !.ws = r, !.coord = r]
  /\ UNCHANGED <<worker, queue, ui, delivery, closing, main, project>>

\* The thread of a pipeline was started, then its activity streamer failed.  run.start
\* is answered as failed all the same: run.failed, dispose() and close(), while the
\* thread runs and _active does not know it.
StartStrays(s) ==
  /\ StartAdmitted /\ "pipeline" \in Engines
  /\ \E w \in WorkerIds : worker[w].pc = "none"
  /\ Fault
  /\ LET r == FreeRun  w == FreeWorker IN
     \E closed \in BOOLEAN, settled \in {"FAILED", "RUNNING"}, left \in {"disposed", "torn"} :
       /\ status' = [status EXCEPT ![r] = settled]
       /\ worker' = [worker EXCEPT ![w] = [NoWorker EXCEPT !.run = r, !.eng = "pipeline", !.pc = "running"]]
       /\ tree' = [OldTreeGone EXCEPT ![r] = left]
       /\ SessionAfter(r, s, closed)
       /\ active' = Cleared("pipeline", r, closed)
       /\ snap' = [snap EXCEPT ![r] = file]
  /\ UNCHANGED <<queue, ui, delivery, closing, main, exe, file, hashed, published, ckpt, applied,
                 edits, late, lost, broken>>

-----------------------------------------------------------------------------
(* The worker threads                                                      *)

Post(w, kind, what) == queue' = Append(queue, [worker |-> w, kind |-> kind, what |-> what])

WorkerOnly == UNCHANGED <<active, ui, tree, sess, collab, main, project>>

\* A pipeline's follow-up resumes the Run itself, before any side effect.
Resume(w) ==
  /\ worker[w].pc = "running" /\ worker[w].follow
  /\ status[worker[w].run] = "WAITING_USER"
  /\ status' = [status EXCEPT ![worker[w].run] = "RUNNING"]
  /\ worker' = [worker EXCEPT ![w].follow = FALSE]
  /\ UNCHANGED queue /\ NoFault /\ WorkerOnly

\* What an attempt of PipelineRunner or execute_task that reports o leaves of
\* the Run: the recorder's writes are no-ops unless the Run is RUNNING.
Reported(r, o) ==
  IF status[r] # "RUNNING" THEN status[r]
  ELSE CASE o = "needs_user" -> "WAITING_USER"
         [] o = "no_changes" -> "SUCCEEDED"
         [] o = "cancelled"  -> "CANCELLED"
         [] o \in {"failed", "failed_with_changes"} -> "FAILED"

\* The end of an attempt: what it recorded, and finished_ok with its report.
\* "failed_with_changes" is an exhausted fix loop or a worktree that changed
\* after the review: the report carries the change set.
Report(w, o) ==
  /\ worker[w].pc = "running" /\ worker[w].eng # "legacy"
  /\ o = "cancelled" => worker[w].cancel
  /\ worker[w].follow => o = "cancelled"
  /\ o = "failed_with_changes" => worker[w].eng = "pipeline"
  /\ status' = [status EXCEPT ![worker[w].run] = Reported(worker[w].run, o)]
  /\ worker' = [worker EXCEPT ![w].pc = "settled"]
  /\ Post(w, "finished_ok", o) /\ NoFault /\ WorkerOnly

\* An exception of the engine, or a session that could not be deactivated:
\* nothing is recorded, failed(message).
Raise(w) ==
  /\ worker[w].pc = "running" /\ Fault
  /\ worker' = [worker EXCEPT ![w].pc = "settled"]
  /\ Post(w, "failed", "none") /\ UNCHANGED status /\ WorkerOnly

\* run_project_task: the coder is given the files as they are read after the plan; the
\* hashes are taken when its answer is diffed, before the review.
LegacyRead(w) ==
  /\ worker[w].pc = "running" /\ worker[w].eng = "legacy" /\ worker[w].at = "plan"
  /\ worker' = [worker EXCEPT ![w].at = "code"]
  /\ snap' = [snap EXCEPT ![worker[w].run] = file]
  /\ UNCHANGED <<active, status, queue, ui, tree, sess, collab, main, exe, file, hashed, published,
                 ckpt, applied, edits, late, lost, broken>> /\ NoFault

LegacyHash(w) ==
  /\ worker[w].pc = "running" /\ worker[w].eng = "legacy" /\ worker[w].at = "code"
  /\ worker' = [worker EXCEPT ![w].at = "review"]
  /\ hashed' = [hashed EXCEPT ![worker[w].run] = file]
  /\ UNCHANGED <<active, status, queue, ui, tree, sess, collab, main, exe, file, snap, published,
                 ckpt, applied, edits, late, lost, broken>> /\ NoFault

\* _Worker.run: the legacy generator posts events and records nothing; the
\* last one is its proposal, possibly of no files.  The cancel flag is looked
\* at before each.
LegacyEmit(w, what) ==
  /\ worker[w].pc = "running" /\ worker[w].eng = "legacy" /\ ~worker[w].cancel
  /\ IF what = "stage" THEN queue = <<>> ELSE worker[w].at = "review"
  /\ Post(w, "event", what)
  /\ worker' = [worker EXCEPT ![w].pc = IF what = "stage" THEN "running" ELSE "settled"]
  /\ UNCHANGED status /\ NoFault /\ WorkerOnly

LegacyCancelled(w) ==
  /\ worker[w].pc = "running" /\ worker[w].eng = "legacy" /\ worker[w].cancel
  /\ Post(w, "cancelled", "none")
  /\ worker' = [worker EXCEPT ![w].pc = "settled"]
  /\ UNCHANGED status /\ NoFault /\ WorkerOnly

\* QThread.finished
Exit(w) ==
  /\ worker[w].pc = "settled"
  /\ worker' = [worker EXCEPT ![w].pc = "exited"]
  /\ Post(w, "finished", "none")
  /\ UNCHANGED status /\ NoFault /\ WorkerOnly

-----------------------------------------------------------------------------
(* Slots of a legacy worker                                                *)

\* LegacyEventAdapter.translate, the number of canonical events: execution.completed if
\* an execution is open; then run.phase_changed and execution.started of a stage, or
\* proposal.ready and, unless the proposal has no files, run.waiting_user.
Translate(cur, what) == (IF cur THEN 1 ELSE 0) + (IF what = "empty" THEN 1 ELSE 2)

\* handle_legacy_event: the Run and its executions after the first k of them, with
\* commit_recorded after each.
Handled(r, what, k) ==
  LET x == exe[r]
      all == (k = Translate(x.cur, what))
      left == IF x.cur /\ k > 0 THEN [open |-> x.open - 1, cur |-> FALSE] ELSE x
  IN [status |-> IF what = "proposal" /\ all THEN "WAITING_USER" ELSE status[r],
      exe |-> IF what = "stage" /\ all THEN [open |-> left.open + 1, cur |-> TRUE] ELSE left]

\* finish_failed after a broken event: it sees what was recorded.
FailedAfter(r, x) ==
  \E st \in {x.status, IF x.status \in Terminal THEN x.status ELSE "FAILED"}, closes \in BOOLEAN :
    /\ closes => x.status \notin Terminal
    /\ st # x.status => closes
    /\ status' = [status EXCEPT ![r] = st]
    /\ exe' = [exe EXCEPT ![r] = IF closes /\ x.exe.cur THEN [open |-> x.exe.open - 1, cur |-> FALSE] ELSE x.exe]

\* Proposals computed from the files snap[r] are published with the hashes b.  The
\* hashes vouch for edits made in between, which the proposals do not know.
Publish(r, b) ==
  /\ base' = b /\ origin' = snap[r]
  /\ early' = early \cup {b[p] : p \in {q \in Paths : b[q] > MaxRuns /\ b[q] # snap[r][q]}}

\* on_event: recorded first, forwarded only then.  The record does not ask
\* whether the worker has been reported as finished.
OnEvent ==
  /\ Posted("event") /\ Take
  /\ LET w == Src  r == worker[Src].run  what == Head(queue).what
         n == Translate(exe[r].cur, what) IN
     \/ /\ NoFault
        /\ status' = [status EXCEPT ![r] = Handled(r, what, n).status]
        /\ exe' = [exe EXCEPT ![r] = Handled(r, what, n).exe]
        /\ active' = [active EXCEPT !.props = CASE what = "proposal" -> Paths
                                                [] what = "empty" -> {} [] OTHER -> @]
        /\ IF what = "proposal" THEN Publish(r, hashed[r]) ELSE UNCHANGED published
        /\ UNCHANGED <<worker, ui>>
     \/ /\ Fault
        /\ \E k \in 0..(n - 1) :
             IF ui[w] = "none"
             THEN /\ FailedAfter(r, Handled(r, what, k)) /\ Finish(w, "failed")
                  /\ worker' = [worker EXCEPT ![w].cancel = TRUE]
             ELSE /\ status' = [status EXCEPT ![r] = Handled(r, what, k).status]
                  /\ exe' = [exe EXCEPT ![r] = Handled(r, what, k).exe]
                  /\ UNCHANGED <<ui, worker>>
        /\ UNCHANGED <<active, published>>
  /\ UNCHANGED <<tree, sess, collab, main, file, snap, hashed, ckpt, applied, edits, late, lost, broken>>

\* finish_normal completes a Run that still runs, and leaves its execution as it is;
\* finish_cancelled closes the execution, then the Run, unless the Run has ended.
Settled(r, as) ==
  /\ status' = IF as = "SUCCEEDED" /\ status[r] # "RUNNING" THEN status ELSE Ended(r, as)
  /\ IF as = "CANCELLED" /\ status[r] \notin Terminal THEN CloseExecution(r) ELSE UNCHANGED exe

\* Mutation: the UI hears the hoped-for end although nothing was recorded.
SettleOrSayDone(w, r, as, said) ==
  \/ Settled(r, as) /\ Finish(w, said) /\ NoFault
  \/ Fault /\ SettleFailed(r) /\ Finish(w, said)

\* A settlement r would like to reach, and the fallback when it cannot be
\* written: never "done" or "cancelled" without it.
SettleOrFail(w, r, as, said) ==
  \/ Settled(r, as) /\ Finish(w, said) /\ NoFault
  \/ Fault /\ SettleFailed(r) /\ Finish(w, "failed")

\* on_worker_failed, on_worker_cancelled, on_worker_finished
OnLegacyEnd ==
  /\ \E kind \in {"failed", "cancelled", "finished"} : Posted(kind) /\ worker[Src].eng = "legacy"
  /\ Take
  /\ LET w == Src  r == worker[Src].run  kind == Head(queue).kind IN
     IF ui[w] # "none" THEN UNCHANGED <<status, exe, ui, faults>>
     ELSE CASE kind = "failed" -> SettleFailed(r) /\ Finish(w, "failed") /\ NoFault
            [] kind = "cancelled" -> SettleOrFail(w, r, "CANCELLED", "cancelled")
            [] kind = "finished" -> SettleOrFail(w, r, "SUCCEEDED", "done")
  /\ UNCHANGED <<active, worker, tree, sess, collab, main, file, snap, hashed, published, ckpt, applied,
                 edits, late, lost, broken>>

-----------------------------------------------------------------------------
(* Slots of a pipeline worker                                              *)

Bound(r) == sess[r] # "none"    \* worker_session is not None

\* What the end of a Run gives up: a bound session goes to the drain with its
\* worktree, otherwise _dispose_workspace disposes what _active (now a) refers to.
GiveUp(r, w, a) ==
  IF Bound(r) THEN drain' = Retain(r, w) /\ active' = a /\ UNCHANGED tree
  ELSE /\ tree' = Disposed(active.ws)
       /\ active' = [a EXCEPT !.ws = 0]
       /\ UNCHANGED drain

\* _active with the proposals of a report shown, or as it is.
Shown(shown) == [active EXCEPT !.props = IF shown THEN Paths ELSE @]

\* The signal of a Run that is no longer the active one: only its resources.
Overtaken(r) == Bound(r) /\ active.run # r

PipelineSlotFrame == UNCHANGED <<worker, sess, delivery, closing, main, file, snap, hashed, ckpt, applied,
                                 edits, late, lost, broken>>

OnPipelineFailed ==
  /\ Posted("failed") /\ worker[Src].eng = "pipeline" /\ Take
  /\ LET w == Src  r == worker[Src].run IN
     /\ GiveUp(r, w, active)
     /\ IF Overtaken(r) THEN UNCHANGED <<status, exe, ui>>
        ELSE SettleFailed(r) /\ Finish(w, "failed")
  /\ NoFault /\ UNCHANGED published /\ PipelineSlotFrame

\* A Run that is told to the user ends as its report says.
FinishReport(w, r, o) ==
  CASE o = "cancelled" -> SettleOrFail(w, r, "CANCELLED", "cancelled")
    [] o \in {"failed", "failed_with_changes"} -> Finish(w, "failed") /\ UNCHANGED <<status, exe>> /\ NoFault
    [] o \in {"needs_user", "no_changes"} -> Finish(w, "done") /\ UNCHANGED <<status, exe>> /\ NoFault

\* The Run cannot be read just now: it counts as not waiting, whatever it does.
Misread(w, r, o) ==
  /\ status[r] = "WAITING_USER" /\ Fault
  /\ IF o = "cancelled" THEN Settled(r, "CANCELLED") /\ Finish(w, "cancelled")
     ELSE Finish(w, "done") /\ UNCHANGED <<status, exe>>

\* on_pipeline_finished: publish the proposals of the report, keep the
\* worktree while the Run waits for the user, tell the UI.
Carries(o) == o \in {"needs_user", "failed_with_changes"}

Published(w, r, o) ==
  /\ IF Carries(o) THEN Publish(r, file) ELSE UNCHANGED published
  /\ \/ /\ status[r] = "WAITING_USER" /\ FinishReport(w, r, o)
        /\ active' = Shown(Carries(o)) /\ UNCHANGED <<tree, drain>>
     \/ /\ (status[r] # "WAITING_USER" /\ FinishReport(w, r, o)) \/ Misread(w, r, o)
        /\ GiveUp(r, w, Shown(Carries(o)))

\* The report could not be turned into proposals, or these not be shown: the Run is
\* given up.
ReportLost(w, r, o) ==
  /\ Fault /\ SettleFailed(r) /\ Finish(w, "failed")
  /\ \E shown \in BOOLEAN :
       /\ shown => Carries(o)
       /\ IF shown THEN Publish(r, file) ELSE UNCHANGED published
       /\ GiveUp(r, w, Shown(shown))

OnPipelineFinished ==
  /\ Posted("finished_ok") /\ worker[Src].eng = "pipeline" /\ Take
  /\ LET w == Src  r == worker[Src].run  o == Head(queue).what IN
     IF Overtaken(r)
     THEN drain' = Retain(r, w) /\ UNCHANGED <<tree, active, status, exe, ui, published, faults>>
     ELSE Published(w, r, o) \/ ReportLost(w, r, o)
  /\ PipelineSlotFrame

-----------------------------------------------------------------------------
(* Slots of an agent worker                                                *)

\* dispose_after_quiescent: now if the thread has ended, else when it does.
DisposeWhenQuiet(w) ==
  IF Alive(w)
  THEN worker' = [worker EXCEPT ![w].dispose = TRUE] /\ UNCHANGED <<tree, active>> /\ NoFault
  ELSE DisposeAgent(worker[w].run) /\ UNCHANGED worker

AgentSlotFrame == UNCHANGED <<exe, sess, collab, main, file, snap, hashed, ckpt, applied, edits, late,
                              lost, broken>>

\* failed: a Run that cannot be read or settled makes the slot raise before it has done
\* anything else.
OnAgentFailed ==
  /\ Posted("failed") /\ worker[Src].eng = "agent" /\ Take
  /\ \/ /\ status' = [status EXCEPT ![worker[Src].run] = IF @ = "RUNNING" THEN "FAILED" ELSE @]
        /\ DisposeWhenQuiet(Src) /\ Finish(Src, "failed")
     \/ Fault /\ UNCHANGED <<active, status, worker, ui, tree>>
  /\ UNCHANGED published /\ AgentSlotFrame

\* agent_result_processing_failed, before the proposals were published or after: the
\* Run is failed and the worktree given up, or (finish_failed) the slot raises.
AgentReportLost(w, r) ==
  /\ Fault
  /\ \E shown \in BOOLEAN :
       /\ IF shown THEN Publish(r, file) ELSE UNCHANGED published
       /\ \/ active' = Shown(shown) /\ UNCHANGED <<status, worker, ui, tree>>
          \/ /\ status' = Ended(r, "FAILED") /\ Finish(w, "failed")
             /\ \/ /\ Alive(w) /\ worker' = [worker EXCEPT ![w].dispose = TRUE]
                   /\ active' = Shown(shown) /\ UNCHANGED tree
                \/ /\ ~Alive(w) /\ tree' = Disposed(r) /\ UNCHANGED worker
                   /\ active' = [Shown(shown) EXCEPT !.ws = IF @ = r THEN 0 ELSE @]
                \/ /\ ~Alive(w) /\ tree' = Torn(r) /\ UNCHANGED worker
                   /\ active' = Shown(shown)

\* complete: a proposal keeps the worktree, every other end gives it up.
OnAgentComplete ==
  /\ Posted("finished_ok") /\ worker[Src].eng = "agent" /\ Take
  /\ LET w == Src  r == worker[Src].run  o == Head(queue).what IN
     \/ /\ o = "needs_user" /\ NoFault
        /\ active' = Shown(TRUE) /\ Publish(r, file)
        /\ Finish(w, "done")
        /\ UNCHANGED <<status, worker, tree>>
     \/ o = "needs_user" /\ AgentReportLost(w, r)
     \/ /\ o # "needs_user"
        /\ DisposeWhenQuiet(w)
        /\ Finish(w, CASE o = "no_changes" -> "done" [] o = "cancelled" -> "cancelled" [] OTHER -> "failed")
        /\ UNCHANGED <<status, published>>
  /\ AgentSlotFrame

\* QThread.finished reaches the slots that were waiting for it; the drain it
\* triggers for a retired session is DrainBegin.
OnThreadFinished ==
  /\ Posted("finished") /\ worker[Src].eng # "legacy" /\ Take
  /\ IF worker[Src].dispose THEN DisposeAgent(worker[Src].run) ELSE UNCHANGED <<tree, active>> /\ NoFault
  /\ UNCHANGED <<status, worker, ui, sess, collab, main, project>>

-----------------------------------------------------------------------------
(* run.followUp, run.cancel                                                *)

\* The checks of a follow-up.  No delivery may be busy now; one that borrows
\* after this line is not noticed.
FollowUpCheck ==
  /\ main = Idle /\ UiQuiet /\ active.engine \in {"pipeline", "agent"}
  /\ ~BusyAtAll /\ ~Alive(active.worker)
  /\ active.coord # 0 /\ active.ws # 0
  /\ status[active.coord] = "WAITING_USER"
  /\ \E w \in WorkerIds : worker[w].pc = "none"
  /\ main' = [Idle EXCEPT !.pc = "follow"]
  /\ UNCHANGED <<active, status, worker, queue, ui, tree, sess, collab, project, faults>>

\* The proposals are void from here on.  An agent's Run is resumed by the
\* handler, a pipeline's by its worker.  A resume that is refused, or a pipeline's
\* thread that does not start, leaves everything as it was; an agent's thread
\* that does not start fails the Run, if it can, and disposes of the worktree.
FollowUpThread(r, e) ==
  [NoWorker EXCEPT !.run = r, !.eng = e, !.pc = "running", !.follow = (e = "pipeline"),
                   !.retired = Draining(r) \/ sess[r] = "closed"]

FollowUpStart ==
  /\ main.pc = "follow" /\ main' = Idle
  /\ LET w == FreeWorker  r == active.coord  e == active.engine IN
     \/ /\ worker' = [worker EXCEPT ![w] = FollowUpThread(r, e)]
        /\ status' = [status EXCEPT ![r] = IF e = "agent" THEN "RUNNING" ELSE @]
        /\ active' = [active EXCEPT !.worker = w, !.props = {}]
        /\ NoFault /\ UNCHANGED tree
     \/ Fault /\ UNCHANGED <<worker, status, active, tree>>
     \/ /\ e = "agent" /\ Fault /\ UNCHANGED worker
        /\ \E st \in {"FAILED", "RUNNING"} : status' = [status EXCEPT ![r] = st]
        /\ \/ tree' = Disposed(active.ws) /\ active' = [active EXCEPT !.worker = 0, !.ws = 0, !.props = {}]
           \/ tree' = Torn(active.ws) /\ active' = [active EXCEPT !.worker = 0, !.props = {}]
  /\ UNCHANGED <<queue, ui, sess, collab, project>>

\* A pipeline's thread was started, then its activity streamer failed: the follow-up is
\* answered as failed and _active keeps the thread before it; the proposals come back
\* only if the new thread has ended by then.
FollowUpStrays ==
  /\ main.pc = "follow" /\ main' = Idle /\ active.engine = "pipeline" /\ Fault
  /\ worker' = [worker EXCEPT ![FreeWorker] = FollowUpThread(active.coord, "pipeline")]
  /\ active' \in {active, [active EXCEPT !.props = {}]}
  /\ UNCHANGED <<status, queue, ui, tree, sess, collab, project>>

Cancel ==
  /\ main = Idle /\ Alive(active.worker)
  /\ worker' = [worker EXCEPT ![active.worker].cancel = TRUE]
  /\ NoFault /\ UNCHANGED <<active, status, queue, ui, tree, sess, collab, main, project>>

-----------------------------------------------------------------------------
(* run.applyProposals: checks, checkpoint, one write per file, settlement, *)
(* and the way back.  The user's editor may write at any time.             *)

Deciding == main = Idle /\ active.props # {} /\ active.coord # 0
            /\ ~Busy(active.sess) /\ (active.sess # 0 => ~Alive(active.worker))

\* Mutation: files that changed since the proposal are not looked for.
ApplyUnchecked(wanted) ==
  /\ Deciding /\ wanted # {} /\ wanted \subseteq active.props
  /\ main' = [pc |-> "checked", run |-> active.coord, todo |-> wanted, wanted |-> wanted, errors |-> FALSE]
  /\ NoFault
  /\ UNCHANGED <<active, status, worker, queue, ui, tree, sess, collab, project>>

\* _stale_apply_conflicts; conflicts end the request without an effect.
ApplyCheck(wanted) ==
  /\ Deciding /\ wanted # {} /\ wanted \subseteq active.props
  /\ \A p \in wanted : file[p] = base[p]
  /\ main' = [pc |-> "checked", run |-> active.coord, todo |-> wanted, wanted |-> wanted, errors |-> FALSE]
  /\ NoFault
  /\ UNCHANGED <<active, status, worker, queue, ui, tree, sess, collab, project>>

\* CheckpointStore.create: complete, or no file and a failed request.
Checkpoint ==
  /\ main.pc = "checked"
  /\ \/ /\ ckpt' = [ckpt EXCEPT ![main.run] = {<<p, file[p]>> : p \in main.wanted}]
        /\ main' = [main EXCEPT !.pc = "write"] /\ NoFault
     \/ main' = Idle /\ Fault /\ UNCHANGED ckpt
  /\ UNCHANGED <<active, status, exe, worker, queue, ui, tree, sess, collab,
                 file, snap, hashed, published, applied, edits, late, lost, broken>>

\* Edits among the contents of F's files that overwriting the files destroys:
\* those the proposal (first writes) or the checkpoint (rollback) does not know.
Gone(F, known) == {file[p] : p \in {q \in F : file[q] > MaxRuns /\ <<q, file[q]>> \notin known}}
Known == {<<p, origin[p]>> : p \in Paths}

ApplyFrame == UNCHANGED <<exe, worker, queue, ui, sess, delivery, closing, snap, hashed, published,
                          edits, late>>

Write(p) ==
  /\ main.pc = "write" /\ p \in main.todo
  /\ \/ /\ file' = [file EXCEPT ![p] = main.run] /\ lost' = lost \cup Gone({p}, Known)
        /\ main' = [main EXCEPT !.todo = @ \ {p}] /\ NoFault
     \/ /\ main' = [main EXCEPT !.todo = @ \ {p}, !.errors = TRUE] /\ Fault
        /\ UNCHANGED <<file, lost>>
  /\ UNCHANGED <<active, status, tree, drain, ckpt, applied, broken>> /\ ApplyFrame

\* What a decision releases: _cleanup_after_collaboration_decision.  A busy
\* delivery keeps session and worktree for the drain, as does a failed close, or a
\* failed disposal of the worktree after the session was closed.
Release ==
  LET r == active.sess  decided == [active EXCEPT !.props = {}] IN
  \/ /\ r = 0 /\ tree' = (IF active.engine = "legacy" THEN tree ELSE Disposed(active.ws))
     /\ active' = [decided EXCEPT !.ws = IF active.engine = "legacy" THEN @ ELSE 0]
     /\ UNCHANGED <<sess, drain, faults>>
  \/ /\ r = 0 /\ active.engine = "agent" /\ Remains(active.ws) /\ Fault
     /\ tree' = Torn(active.ws) /\ active' = decided /\ UNCHANGED <<sess, drain>>
  \/ /\ r # 0 /\ IF Busy(r) THEN NoFault ELSE Fault
     /\ drain' = Retain(r, 0) /\ active' = decided /\ UNCHANGED <<tree, sess>>
  \/ /\ r # 0 /\ ~Busy(r) /\ Remains(active.ws) /\ Fault
     /\ sess' = [sess EXCEPT ![r] = "closed"] /\ tree' = Torn(active.ws)
     /\ drain' = Retain(r, 0) /\ active' = decided
  \/ /\ r # 0 /\ ~Busy(r) /\ NoFault /\ UNCHANGED drain
     /\ sess' = [sess EXCEPT ![r] = "closed"] /\ tree' = Disposed(active.ws)
     /\ active' = [decided EXCEPT !.sess = 0, !.ws = 0]

\* record_proposal_applied makes the written files count; it is refused when
\* the Run does not wait any more, and it may fail.
ApplySettle ==
  /\ main.pc = "write" /\ main.todo = {} /\ ~main.errors
  /\ \/ /\ status[main.run] = "WAITING_USER"
        /\ status' = [status EXCEPT ![main.run] = "SUCCEEDED"]
        /\ applied' = applied \cup {main.run}
        /\ main' = [main EXCEPT !.pc = "release"] /\ NoFault
     \/ /\ status[main.run] # "WAITING_USER"
        /\ main' = [main EXCEPT !.errors = TRUE] /\ NoFault /\ UNCHANGED <<status, applied>>
     \/ /\ Fault
        /\ main' = [main EXCEPT !.errors = TRUE] /\ UNCHANGED <<status, applied>>
  /\ UNCHANGED <<active, tree, drain, file, ckpt, lost, broken>> /\ ApplyFrame

\* The end of an apply or a rejection that was recorded.
DecisionRelease ==
  /\ main.pc = "release" /\ Release /\ main' = Idle
  /\ UNCHANGED <<status, worker, queue, ui, delivery, closing, project>>

\* The files after CheckpointStore.restore of a checkpoint.
Restored(k) ==
  [p \in Paths |-> IF \E c \in Contents : <<p, c>> \in k
                   THEN CHOOSE c \in Contents : <<p, c>> \in k ELSE file[p]]

\* Mutation: the checkpoint is dropped without writing the files back.
RestoreNothing ==
  /\ main.pc = "write" /\ main.todo = {} /\ main.errors /\ main' = Idle
  /\ ckpt' = [ckpt EXCEPT ![main.run] = {}] /\ NoFault
  /\ UNCHANGED <<file, lost, broken, active, status, tree, drain, applied>> /\ ApplyFrame

\* _safe_restore_checkpoint: every file back and the checkpoint dropped, or
\* (CheckpointStore.restore rewinds itself) no file back, the checkpoint kept
\* and the failure reported.
Restore ==
  /\ main.pc = "write" /\ main.todo = {} /\ main.errors /\ main' = Idle
  /\ \/ /\ file' = Restored(ckpt[main.run])
        /\ lost' = lost \cup Gone(main.wanted, ckpt[main.run])
        /\ ckpt' = [ckpt EXCEPT ![main.run] = {}]
        /\ NoFault /\ UNCHANGED broken
     \/ /\ Fault /\ broken' = TRUE /\ UNCHANGED <<file, lost, ckpt>>
  /\ UNCHANGED <<active, status, tree, drain, applied>> /\ ApplyFrame

\* run.rejectProposals: the checks, then the record, then what an apply releases too.
Reject ==
  /\ Deciding
  /\ main' = [Idle EXCEPT !.pc = "reject", !.run = active.coord]
  /\ NoFault
  /\ UNCHANGED <<active, status, worker, queue, ui, tree, sess, collab, project>>

\* Mutation: the rejection does not ask whether the Run still waits.
RejectAnyway ==
  /\ main.pc = "reject"
  /\ status' = [status EXCEPT ![main.run] = "SUCCEEDED"]
  /\ main' = [main EXCEPT !.pc = "release"] /\ NoFault
  /\ UNCHANGED <<active, worker, queue, ui, tree, sess, collab, project>>

\* record_proposal_rejected is refused when the Run does not wait any more, and it may fail.
RejectSettle ==
  /\ main.pc = "reject"
  /\ \/ /\ status[main.run] = "WAITING_USER"
        /\ status' = [status EXCEPT ![main.run] = "SUCCEEDED"]
        /\ main' = [main EXCEPT !.pc = "release"] /\ NoFault
     \/ /\ status[main.run] # "WAITING_USER"
        /\ main' = Idle /\ NoFault /\ UNCHANGED status
     \/ Fault /\ main' = Idle /\ UNCHANGED status
  /\ UNCHANGED <<active, worker, queue, ui, tree, sess, collab, project>>

\* checkpoint.restore: the user's Undo of an apply.
Undo(r) ==
  /\ main = Idle /\ r \in applied /\ ckpt[r] # {}
  /\ file' = Restored(ckpt[r])
  /\ NoFault
  /\ UNCHANGED <<active, status, exe, worker, queue, ui, tree, sess, collab, main,
                 snap, hashed, published, ckpt, applied, edits, late, lost, broken>>

\* The user, or another program, writes a file of the project.
Edit(p) ==
  /\ edits < MaxEdits /\ edits' = edits + 1
  /\ file' = [file EXCEPT ![p] = MaxRuns + edits + 1]
  /\ late' = IF main.pc \in {"checked", "write"} THEN late \cup {MaxRuns + edits + 1} ELSE late
  /\ NoFault
  /\ UNCHANGED <<active, status, exe, worker, queue, ui, tree, sess, collab, main,
                 snap, hashed, published, ckpt, applied, lost, broken>>

-----------------------------------------------------------------------------
(* Deliveries: threads that borrow the session and worktree of a Run that  *)
(* waits for the user                                                      *)

\* The conditions of _capture_delivery_context and _validate_delivery_context: a session
\* knows its accepted binding after close(), and a torn worktree may still have its root.
Borrowable(r) ==
  /\ r # 0 /\ active.run = r /\ active.engine = "pipeline"
  /\ active.sess = r /\ active.ws = r /\ Remains(r)
  /\ ~Alive(active.worker) /\ status[r] = "WAITING_USER"

DeliveryStep(d, from, to) ==
  /\ delivery[d].pc = from
  /\ delivery' = [delivery EXCEPT ![d].pc = to]
  /\ NoFault
  /\ UNCHANGED <<active, status, worker, queue, ui, tree, sess, drain, closing, main, project>>

Capture(d) ==
  /\ delivery[d].pc = "idle" /\ Borrowable(active.run)
  /\ delivery' = [delivery EXCEPT ![d] = [pc |-> "captured", run |-> active.run]]
  /\ NoFault
  /\ UNCHANGED <<active, status, worker, queue, ui, tree, sess, drain, closing, main, project>>

\* Registering the lease is refused while the resources are being released.
\* Mutation: it is not.
LeaseAlways(d) == DeliveryStep(d, "captured", "leased")
Lease(d) ==
  \/ delivery[d].run \notin closing /\ DeliveryStep(d, "captured", "leased")
  \/ delivery[d].run \in closing /\ DeliveryStep(d, "captured", "idle")

\* The second look, now that a drain would see the lease.
Validate(d) ==
  \/ Borrowable(delivery[d].run) /\ DeliveryStep(d, "leased", "using")
  \/ /\ DeliveryStep(d, "leased", "idle")
     /\ ~Borrowable(delivery[d].run) \/ tree[delivery[d].run] = "torn"

\* The end of the borrowed block; it drains what waited for it (DrainBegin).
Return(d) == DeliveryStep(d, "using", "idle")

\* Mutation: the Run's thread may still be at work.
DrainBeginEarly(r) ==
  /\ Draining(r) /\ closing = {} /\ ~Leased(r)
  /\ closing' = {r}
  /\ NoFault
  /\ UNCHANGED <<active, status, worker, queue, ui, tree, sess, drain, delivery, main, project>>

\* _drain_collaboration_resources, in whichever thread ended a lease, a worker
\* or a start: one entry at a time under the cleanup lock, taken up only when
\* its worker has ended and no delivery holds it.  A later worker of the Run is not
\* looked for.
DrainBegin(r) ==
  /\ \E e \in drain : e[1] = r /\ ~Alive(e[2])
  /\ closing = {} /\ ~Leased(r)
  /\ closing' = {r}
  /\ NoFault
  /\ UNCHANGED <<active, status, worker, queue, ui, tree, sess, drain, delivery, main, project>>

\* close(), then dispose(); when either fails the entry stays for the next attempt.
DrainEnd(r) ==
  /\ r \in closing /\ closing' = {}
  /\ \/ /\ sess' = [sess EXCEPT ![r] = "closed"]
        /\ tree' = IF Remains(r) THEN Disposed(r) ELSE tree
        /\ drain' = {e \in drain : e[1] # r}
        /\ active' = IF active.run = r /\ active.sess = r
                     THEN [active EXCEPT !.sess = 0, !.ws = IF @ = r THEN 0 ELSE @] ELSE active
        /\ NoFault
     \/ Fault /\ UNCHANGED <<sess, tree, drain, active>>
     \/ /\ Remains(r) /\ Fault
        /\ sess' = [sess EXCEPT ![r] = "closed"] /\ tree' = Torn(r)
        /\ UNCHANGED <<drain, active>>
  /\ UNCHANGED <<status, worker, queue, ui, delivery, main, project>>

-----------------------------------------------------------------------------
(* shutdown                                                                *)

\* Ask the worker to stop and wait for it a while.
ShutdownAsk ==
  /\ main = Idle /\ main' = [Idle EXCEPT !.pc = "stopping"]
  /\ worker' = [w \in WorkerIds |-> IF w = active.worker /\ Alive(w)
                                    THEN [worker[w] EXCEPT !.cancel = TRUE] ELSE worker[w]]
  /\ NoFault /\ UNCHANGED <<active, status, queue, ui, tree, sess, collab, project>>

\* Then release what is left: a session through the drain, an agent's worktree
\* only when its thread has ended, a pipeline's in any case.
ShutdownRelease ==
  /\ main.pc = "stopping" /\ main' = [Idle EXCEPT !.pc = "down"]
  /\ IF active.sess # 0
     THEN drain' = Retain(active.sess, active.worker) /\ UNCHANGED <<tree, active>> /\ NoFault
     ELSE /\ UNCHANGED drain
          /\ CASE active.engine # "agent" ->
                    tree' = Disposed(active.ws) /\ active' = [active EXCEPT !.ws = 0] /\ NoFault
               [] active.engine = "agent" /\ Alive(active.worker) -> UNCHANGED <<tree, active>> /\ NoFault
               [] OTHER -> DisposeAgent(active.ws)
  /\ UNCHANGED <<status, worker, queue, ui, sess, delivery, closing, project>>

-----------------------------------------------------------------------------

WorkerNext(w) ==
  \/ Resume(w) \/ Raise(w) \/ LegacyRead(w) \/ LegacyHash(w) \/ LegacyCancelled(w) \/ Exit(w)
  \/ \E o \in {"needs_user", "no_changes", "cancelled", "failed", "failed_with_changes"} : Report(w, o)
  \/ \E what \in {"stage", "proposal", "empty"} : LegacyEmit(w, what)

SlotNext ==
  \/ OnEvent \/ OnLegacyEnd
  \/ OnPipelineFailed \/ OnPipelineFinished
  \/ OnAgentFailed \/ OnAgentComplete \/ OnThreadFinished

ApplyNext == Checkpoint \/ (\E p \in Paths : Write(p)) \/ ApplySettle \/ Restore
             \/ RejectSettle \/ DecisionRelease

UserNext ==
  \/ \E e \in Engines, s \in Sessions : Start(e, s) \/ StartFails(e, s)
  \/ OldTreeKept \/ FollowUpCheck \/ Cancel \/ Reject \/ ShutdownAsk
  \/ \E wanted \in SUBSET Paths : ApplyCheck(wanted)
  \/ \E r \in RunIds : Undo(r)
  \/ \E p \in Paths : Edit(p)

DeliveryNext(d) == Capture(d) \/ Lease(d) \/ Validate(d) \/ Return(d)

Orderly ==
  \/ UserNext \/ SlotNext \/ ApplyNext \/ FollowUpStart \/ ShutdownRelease
  \/ \E w \in WorkerIds : WorkerNext(w)
  \/ \E d \in Deliveries : DeliveryNext(d)
  \/ \E r \in RunIds : DrainBegin(r) \/ DrainEnd(r)

\* The two steps that leave a thread _active does not know.
Straying == (\E s \in Sessions : StartStrays(s)) \/ FollowUpStrays

Next ==
  \/ Orderly /\ UNCHANGED strayed
  \/ Straying /\ strayed' = TRUE

Spec == Init /\ [][Next]_vars

-----------------------------------------------------------------------------
(* Properties                                                              *)

EngineKinds == {"legacy", "pipeline", "agent"}
Statuses == Terminal \cup {"none", "RUNNING", "WAITING_USER"}
ActiveStates == [run : 0..MaxRuns, engine : EngineKinds, worker : 0..MaxWorkers,
                 ws : 0..MaxRuns, sess : 0..MaxRuns, coord : 0..MaxRuns, props : SUBSET Paths]
Executions == [open : 0..1, cur : BOOLEAN]
Threads == [run : 0..MaxRuns, eng : EngineKinds, pc : {"none", "running", "settled", "exited"},
            cancel : BOOLEAN, follow : BOOLEAN, dispose : BOOLEAN, retired : BOOLEAN,
            at : {"plan", "code", "review"}]
Posts == [worker : WorkerIds, kind : {"event", "failed", "cancelled", "finished", "finished_ok"},
          what : {"none", "stage", "proposal", "empty", "needs_user", "no_changes",
                  "cancelled", "failed", "failed_with_changes"}]
Borrowers == [pc : {"idle", "captured", "leased", "using"}, run : 0..MaxRuns]
Requests == [pc : {"idle", "follow", "checked", "write", "reject", "release", "stopping", "down"},
             run : 0..MaxRuns, todo : SUBSET Paths, wanted : SUBSET Paths, errors : BOOLEAN]

\* Every variable has its type.
TypeOK ==
  /\ active \in ActiveStates /\ main \in Requests
  /\ status \in [RunIds -> Statuses] /\ exe \in [RunIds -> Executions]
  /\ worker \in [WorkerIds -> Threads] /\ queue \in Seq(Posts)
  /\ ui \in [WorkerIds -> {"none", "done", "failed", "cancelled"}]
  /\ tree \in [RunIds -> {"none", "live", "torn", "disposed"}]
  /\ sess \in [RunIds -> {"none", "open", "closed"}]
  /\ drain \subseteq RunIds \X (0..MaxWorkers) /\ closing \subseteq RunIds
  /\ delivery \in [Deliveries -> Borrowers]
  /\ file \in [Paths -> Contents] /\ base \in [Paths -> Contents] /\ origin \in [Paths -> Contents]
  /\ snap \in [RunIds -> [Paths -> Contents]] /\ hashed \in [RunIds -> [Paths -> Contents]]
  /\ ckpt \in [RunIds -> SUBSET (Paths \X Contents)] /\ applied \subseteq RunIds
  /\ early \subseteq Contents /\ late \subseteq Contents /\ lost \subseteq Contents
  /\ broken \in BOOLEAN /\ strayed \in BOOLEAN
  /\ faults \in 0..MaxFaults /\ edits \in 0..MaxEdits

\* The properties below hold as long as no thread runs that _active does not know
\* (Straying): when such a thread reports, on_pipeline_finished publishes its proposals
\* and disposes of the worktree of whatever Run is active by then.

\* run.finished never claims more than the store knows: "done" is said of a
\* Run that no longer runs, "cancelled" of one recorded as cancelled, even when
\* settlements fail.  And a Run that is then recorded as failed, cancelled or waiting
\* has no execution left open, however much of a translated event was written: the
\* adapter's idea of the open execution is the ledger's.
HonestFinish ==
  [][\A w \in WorkerIds :
       ~strayed /\ ui'[w] # ui[w] =>
         /\ ui'[w] = "done" => status'[worker[w].run] # "RUNNING"
         /\ ui'[w] = "cancelled" => status'[worker[w].run] = "CANCELLED"
         /\ status'[worker[w].run] \in {"FAILED", "CANCELLED", "WAITING_USER"} => exe'[worker[w].run].open = 0]_vars

\* A Run that ended stays as it ended, whatever order slots, decisions and
\* workers come in.  The one exception is the legacy engine after a failed
\* write: events posted before on_event settled the Run are still recorded.
SettledStays ==
  [][\A r \in RunIds :
       ~strayed /\ status[r] \in Terminal =>
         \/ status'[r] = status[r]
         \/ faults > 0 /\ \E w \in WorkerIds : worker[w].run = r /\ worker[w].eng = "legacy"]_vars

\* From the registration of its lease until it returns it, nobody closes the session or
\* disposes of the worktree of a delivery (borrow_delivery_context against every path
\* that drains, decides or shuts down); and what it is given to use is open and live,
\* unless a disposal had failed on it before: then the session may be closed already.
LeaseProtects ==
  [][\A d \in Deliveries :
       LET r == delivery[d].run IN
       /\ ~strayed /\ delivery[d].pc \in {"leased", "using"} /\ delivery'[d].pc # "idle"
            => tree'[r] = tree[r] /\ sess'[r] = sess[r]
       /\ ~strayed /\ delivery[d].pc = "leased" /\ delivery'[d].pc = "using"
            => (tree[r] = "live" /\ sess[r] = "open") \/ tree[r] = "torn"]_vars

\* No engine loses its worktree while it works in it, with two exceptions: the
\* shutdown of a pipeline without a session, which disposes after a bounded wait, and a
\* follow-up accepted after its Run had been given up to the drain: the entry knows
\* only the worker before it.
KeptWhileUsed ==
  ~strayed =>
    \A w \in WorkerIds :
      worker[w].pc = "running" /\ worker[w].eng # "legacy"
        => \/ tree[worker[w].run] = "live" \/ worker[w].retired
           \/ main.pc = "down" /\ worker[w].eng = "pipeline" /\ ~Bound(worker[w].run)

\* Between requests the project holds proposed content only of Runs whose apply
\* was recorded, unless an apply answered that its rollback failed.
AllOrNothing ==
  ~strayed /\ main.pc = "idle" /\ ~broken =>
    \A p \in Paths : file[p] \in RunIds => file[p] \in applied

\* An apply overwrites an edit its proposal was not computed from only if the edit was
\* made while that apply was already under way, or while the Run was still at work: the
\* check of an apply protects what is saved after the hashes were taken, and before it.
EditSafe == ~strayed => lost \subseteq late \cup early

\* An apply overwrites no edit made while the Run was at work.  (As the docstring of
\* _stale_apply_conflicts has it.)
EditsKept == lost \subseteq late

\* Only a Run that has not ended keeps a new one from starting: proposals of an
\* ended Run would block run.start, and neither apply nor reject accepts them.
\* (As the docstring of _active_canonical_run_blocks_start has it.)
EndedRunReleases ==
  main.pc = "idle" /\ active.coord # 0 /\ status[active.coord] \in Terminal => active.props = {}

=============================================================================
