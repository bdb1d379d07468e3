# imece-ide: TLA+ models

imece-ide drives coding agents over a project: it plans, lets an agent edit an isolated worktree,
verifies and reviews the result, tries to fix it, and asks the user to apply it; several people may
work on one session through a shared Git hub. What happens to such a *Run* is an event in a SQLite
log (`run_runtime/`), and many threads, and sometimes several processes, write it without locks
across them. These modules model the log and its readers and writers, the runners that produce it,
the attempts they make, the desktop host around them, and the collaboration between members.

## 1. Inventory

| component | state | operations | hard behaviour |
|---|---|---|---|
| Live tail: `run_runtime/bus.py`, `service.py`, `webhost/api/activity.py` | subscribers, dirty/closed flags, cursors, throttling buffer | record, publish, subscribe, next_page, wait, close, request_stop | commit and notify are two steps; notify runs outside the bus lock; close and stop from another thread; commits of another process are never announced |
| Ledger: `store.py`, `projector.py`, `events.py` | `run_events`, `runs.status`, `last_event_seq` | append_event(s) under an optional expectation | a batch is one transaction; the projector accepts nearly every event in every status |
| Recorders: `planner.py`, `native_agent.py`, `acp.py`, `verification.py`, `reviewer.py`, `fix_loop.py`, `agent_activity.py` | expected seq, open item | start, item events, approval, terminals | an expectation goes stale at any time; ACP activity is appended without one |
| Completion gate, recovery: `completion.py`, `recovery.py` | none | complete_*, fail_*, recover_running_runs | evidence is read first and used later; no lease, the "dead" writer may be alive |
| Runners: `pipeline_runtime`, `fix_runtime`, `agent_execution_runtime`, `verification_runtime`, `decision_runtime` | position in the pipeline, attempts left, captured change sets | run, continue_with_feedback, execute_task | bounded retries; cancellation and failure at every stage; the worktree changes while checks and reviews run |
| Attempts: `agent_runtime/session.py`, `tool_runtime`, `acp_runtime`, `process_runtime`, `executor_runtime` | turns, limits, prepared calls; pending prompt, fatal signal; process tree, pipes | start, resume, prompt, teardown, run | late or missing approval; prompt, fatal signal, token and timeout at once; descendants that outlive their root |
| Run host: `webhost/api/run.py`, `run_runtime/legacy.py` | `_active`, drain list, leases, queued signals | start, follow-up, cancel, apply, reject, shutdown; deliveries | slots of a worker that is finished or overtaken; deliveries borrow what a decision releases; failing settlements |
| Apply and checkpoints: `_apply`, `checkpoints.py` | project files, checkpoint files | check, checkpoint, write, settle, restore | edits between check and write; failure of one file, of the settlement, of the restore |
| Collaboration: `collab_runtime` | session branch, proposal refs, mirror; ticket, command; inbox, cursor file; candidate directory | publish, confirm, deliver; stream, acknowledge, reset; capture, assemble, verify | two publishers on one revision; a push whose outcome is unknown; reconnection and crash around an acknowledgement; merges and checks that write |
| Editor services, providers, settings, UI, packaging | | | I/O or presentation, not modelled |

What makes each correct is in the properties below; `PROJECT.json` lists the hazards, each with the
line where it bites and the properties that would catch it.

## 2. Modules

    EventStream  <- implemented by - EventTail <- EventTailProofs, MCEventTail
    RunLifecycle <- implemented by - RunCore   <- RunCoreProofs, MCScenarios
                                       | extends CompletionGate, Recovery
                                       | which extend RunLedger
                 <- implemented by - Pipeline  <- PipelineProofs, MCPipeline
                                       | extends DecisionTriage
    WorkerAttempt = AgentSession + AcpAttempt (extends ProcessTree); all extend Attempt
                   <- AttemptProofs, MCAttempt
    HostRun        <- HostRunProofs, MCHostRun
    CollabCommands (extends CollabHub) <- CollabProofs, MCCollab
    RevisionInbox  <- InboxProofs, MCInbox
    Candidate      <- CandidateProofs, MCCandidate

The `...Proofs` modules hold theorems and no part of the model.

**EventStream** says what a reader of one Run's log is promised: the log grows, and each reader gets
what follows its start, in order, each event once.

**EventTail** is how the code does it. `Commit` is the store's part of `RunRuntime.record`;
`Snapshot` and `Notify` are `EventBus.publish`, one step for the copy under the lock and one per
notified subscription. `Subscribe`, `VerifyRun`, `VerifyFails` are `open_event_tail`; `CheckClosed`,
`QueryHit`, `QueryMiss`, `QueryFails`, `Wake`, `WaitTimeout` are one iteration of
`DurableEventTail.next_page`, cut wherever another thread can get in between. `LoopTop`, `Tick`,
`FlushAndClose`, `RequestStop` are `ActivityStreamer`; the `Close...` actions are `tail.close()` by
another thread, `ForeignCommit` another process on the same database. Timers are nondeterministic.

**RunLedger** is the log of one Run with `append_event(s)`, the projector and the recorders. An
event keeps its family, kind, attempt, what it refers to and who wrote it. All recorders share one
shape (expected seq, at most one open item), so they are one set of actions with the differences in
the guards: who can ask for approval, which reject used ids, how they end, which re-read the seq
(`Refresh`: the fix loop), which are moved past the appends of others (`Activity`: ACP planners and
reviewers). A call id is prepared at most once per session (`Prepared`); a call that is refused or
denied records `tool.failed` without a start (`RefuseItem`). `DecisionMade` is the one unfenced
append of the decision layer; the classic engine's are in HostRun. Every other writer reads,
decides, and appends later under the seq it read: `Decides`, then `Commit` or `Conflict`.
**CompletionGate** and **Recovery** are operators on the history and one `Decides` each; what
recovery owes a history is a set of closings (`Owed`), and its batch is that set in the order of the
code, items before loops before attempts (`Rank`, `Precedes`); **RunCore** composes them with the
start of the Run, the pipeline recorder and the user's decisions. **RunLifecycle** is the status
machine the rest of the application relies on; nothing in the projector enforces it.

**Pipeline** is `PipelineRunner`, `FixLoopRunner` and `execute_task` for one Run. A port call
(planner, worker, checks, reviewer) is its start and its return; between any two steps the Run may
be cancelled (`Cancel`) and the worktree may change (`Mutate`). The single agent's examination of
the tree is cut the same way: capture and first fingerprint (`AgentExamines`), the second
fingerprint after the checks (`AgentVerified`), the change set that is proposed (`AgentProposes`);
`exam.moved` remembers a write that fell into a gap between two of them. The constant `Fingerprint`
says which diffs the code's fingerprint cannot tell apart (new caches, `.git`). A loop that gives up
writes its own end first (`LoopGivesUp`) and the Run's after (`GiveUp`). A worktree is its
cumulative diff, a number; `seen` is the change set captured last, so that "the diff that was
reviewed" and "the diff that is there" can differ. Of each kind of attempt the latest is kept, with
whether it still speaks of the latest one before it (`fresh`), which is what the completion gate
asks. `Unwind`, `UnwindLoop`, `Abort`, `PortFails`, `LedgerFails`, `DropTrail` are the failure and
cancellation paths in the order the code takes them. **DecisionTriage** is `decision_runtime` as
operators: the rule backend, an arbitrary remote answer, the policy, the guard on "pre-existing".

**Attempt** is what every attempt shares: token, terminal events, how the port call came back.
**AgentSession** is the native loop with its dispatcher, **ProcessTree** a supervised process with
one descendant, **AcpAttempt** the ACP client and the adapters that record it, a planner's or
reviewer's in two steps, the look at the workspace (`CheckWorkspace`) and the recording
(`RecordReading`); **WorkerAttempt** is their union with `kind` telling which one an attempt is.

**HostRun** is `webhost/api/run.py` with the legacy coordinator. Handlers and slots run one at a
time on the Qt thread (`main`), workers and deliveries are threads, and a worker's signals wait in
`queue`. An apply is several steps of the main thread (`ApplyCheck`, `Checkpoint`, `Write`,
`ApplySettle` or `Restore`, `DecisionRelease`) because the user's editor writes concurrently, and a
reject three (`Reject`, `RejectSettle`, `DecisionRelease`) because a delivery may borrow in between.
A proposal for a file has the content it was computed from (`origin`, out of `snap`, what the Run
took at its start) and the hash the apply compares with (`base`), which a pipeline or an agent Run
reads when its report arrives and a classic one in a step of its thread (`LegacyRead`,
`LegacyHash`). A disposal may fail after the session is closed: the worktree is then `Torn`, kept,
and may be borrowed again. A start or follow-up whose streamer fails after the thread was started is
answered as failed while the thread runs (`StartStrays`, `FollowUpStrays`, the history variable
`strayed`). The legacy engine's events are translated and recorded one by one (`Translate`,
`Handled`), and a write may fail between two of them. A Run is its status and, for the legacy
engine, its open execution. An entry of the drain is a Run with the worker that may still use it, as
in `_draining_workers`; `retired` is history: the Run had been given up when this worker started.

**CollabHub** is the bare repository whose branch moves only by fast-forward, and what a publisher
does: read, decide, read again, commit, push, with a push that may fail before or after it took
effect. **CollabCommands** adds what members do: owner and CLI writes, one status command with its
reviewed ticket, one delivery. **RevisionInbox** is a member's run: stream, consumer, bounded inbox,
safe points, durable cursor, crash; an acknowledgement consumes the inbox up to a revision
(`Consume`). **Candidate** is `capture_proposal` and `assemble_candidate`: a file is a mode and a
version of each of its hunks, so that a three-way merge is defined hunk by hunk. `MergeLoop` is the
loop of `_merge_path_changes` over the selected proposals in the order of their ids, as a recursive
function of how many were merged; it starts from the base and skips no repeated edit, where the code
starts from the first edit and skips them, which `FirstAndRepeatedEdits` shows to be the same.

Choices a reader should know:

- A crash is a writer that takes no further step. RunCore has no fairness, so every prefix of every
  behaviour includes a crash of anyone. RevisionInbox has a `Crash` action because what survives it
  matters there.
- Reading the Run and reading its history are one step. If an event comes in between, the code's
  append fails on the seq, which is what `Conflict` does.
- Any recorder may be opened on a RUNNING Run in RunCore, several at once and in any order. Pipeline
  is more orderly; the gate must not rely on it.
- Execution ids are always fresh; a tool's item id follows the model's call id.
- Recovery closes no executions: there is no `execution.interrupted`.
- The `git` commands that build one change set are one step, in Pipeline and in Candidate.
- The properties of HostRun are claimed as long as no thread strays: afterwards the host has no
  handle on it and nearly none of them holds (section 4). A stray ends an instance of MCHostRun.
- `MaxFaults` counts failures of the store, the file system, git or the transport. Every operation
  that can fail has its failing disjunct.
- In HostRun the UI asks for a Run or a follow-up only after `run.finished` of the last one, as the
  front end does.

## 3. Runs

All configurations set `CHECK_DEADLOCK FALSE`: a finished Run, a full log, a host that is shut down
or readers that have left are proper ends of the system.

| run | instance | shows |
|---|---|---|
| tail | 2 producers, a streamer or a blocking reader, 2 items, page 1, batches up to 2, 2 events | implements EventStream; no lost wakeup, no item dropped at a stop, eventual delivery, closed readers leave |
| evidence | four scenarios: an execution and a verification, and one of either again (8 events); a review of 2 diffs (10); a fix loop (8) | completed or failed only on evidence that is still the latest at the append |
| history | three scenarios: worker, host, user and recovery (9 events); verification and fix loop with items (11); native and ACP planner with tools (9) | implements RunLifecycle; terminal history sealed; attempts not interleaved; recovery leaves nothing open; nothing ends twice |
| host | four scenarios: 2 Runs and 1 file, with 1 failure or 1 edit; 1 Run and 2 files, with 2 failures or 1 failure and 1 edit; three engines, with and without a session, 2 workers, 1 delivery | see below |
| pipeline | 2 fix attempts, 2 checks, 2 diffs that differ in a new cache only, 1 follow-up, 1 failed ledger write | see below |
| attempt | 3 turns, 3 calls, batches of 2, 1 tolerated tool error, 2 updates, 2 failed writes | see below |
| hub | owner and member, server and CLI process, 2 contexts, 3 revisions, 1 fault | see below |
| inbox | inbox of 2, replay window 3, 5 revisions, 2 faults | see below |
| candidate | 2 members, 2 paths (one a cache), 2 hunks, 3 versions, 2 proposals, 3 edits, 1 fault | see below |
| stuck, stale, handoff | smaller instances | **violated**, section 4 |

*host.* `LeaseProtects`: from the moment a lease is registered, worktree and session of the delivery
stay as they are until it is returned, and a delivery that passes its second look finds them live
and open, or a worktree whose disposal had failed before. `KeptWhileUsed`: no engine at work loses
its worktree (two exceptions in section 4). `AllOrNothing`: between requests the project holds
proposed content only of applied Runs, unless a rollback failure was reported. `EditSafe`: an apply
overwrites an edit its proposal was not computed from only if it was made while that apply ran, or
while the Run was still at work (which is finding `stale`). `HonestFinish`: `run.finished` claims no
more than the store knows, and no execution is left open in a Run that is then failed, cancelled or
waiting. `SettledStays`: an ended Run stays as it ended.

*pipeline.* `ReviewedIsCurrent`: a reviewed proposal is the captured change set, approved by the
latest review, which cites a pass that follows the latest execution. `AgentPassIsReal`: a claimed
pass comes of checks that all passed after the latest execution, and no fingerprint can tell the
proposed tree from the one they started on, unless something wrote in a gap between fingerprint and
capture: what the checks write revokes the claim. `SkipOnBaseline`: the loop is skipped as
"pre-existing" only on a failing baseline. `ReportedIsClosed`, `HonestReport`: a returned report
leaves nothing open and says what the Run's status is. `CallsReturn`: every call returns if the
ports it calls do. `ImplementsLifecycle`: the refinement of RunLifecycle.

*attempt.* `OneOutcome`: ledger and pipeline hear the same single end. `ApprovedOnce`: a tool runs
at most once per call id and never without the approval it needed. `NoSilentSurvivor`: no process
within reach at the cleanup survives without an error. `ReaderChangedNothing`: a planner or reviewer
is believed only if the workspace was unchanged when its session was over; after that look only a
process that escaped the cleanup can have written. `CallComesBack`: nothing holds a call for ever
once the loop, process or prompt runs.

*hub, inbox, candidate.* `NoLostUpdate`: the history is linear and every revision follows from the
state its author saw. `ProposalIsCurrent`: a proposal lands for the context it was made for, with
its session commit. `CertainOutcome`: "done" is on the hub, "refused" is not and will not be.
`NoSkippedRevision`: the inbox is exactly what lies between cursor and received revision, and the
cursor moves only to what a worker was given or the user approved. `CatchesUp`: a running consumer
reaches the hub's tip or a state that needs somebody. `CandidateFaithful`: every selected change and
nothing else, or nothing at all but what a failed removal left. `VerifiedAsAssembled`: a passing
candidate is the assembled one.

Bounds. Two events with page size 1 give a page behind and a notice for a later one, two producers
notices out of order. In RunCore the log bound lets the longest story of each scenario happen:
created, started, an execution, a verification, the settlement and one event to spoil it; the review
adds two; recovery reaches a check that is closed, started again with the same id, and recovered
with its loop. Two fix attempts give one that is retried and one that is the last; two diffs one
that was reviewed and one that is there; two checks an order among outcomes. Two workers are a Run
and its follow-up, or two Runs. Three revisions and two publishers give a publisher that is
overtaken twice. An inbox of 2 with 5 revisions fills, drains and falls out of a window of 3.
Scenarios (`MCScenarios`, `MCHostRun`) check the union of several instances where the product would
be too large. Symmetry is used only in runs that check invariants, over interchangeable ids,
contexts, members and hunks.

Fairness. EventTail: a publisher that committed goes on to publish, a reader takes its next step, a
deadline passes, a `close()` that began ends. Pipeline: the runner's thread keeps going and ports
return; `CallComesBack` shows it of attempts but for the handshake with an ACP agent, which has no
bound in the code, so that for ACP ports it is an assumption; the host settles what raised.
WorkerAttempt: the threads of an attempt run and a model provider answers or times out; nothing is
assumed of the user, the ACP agent or the processes. RevisionInbox: the consumer thread and the
server's stream run; nothing of the network, the publishers or the user. These are threads of one
live process whose blocking calls are modelled. A bounded log hides one thing: a streamer told to
stop could be kept in its catch-up loop by a writer that never pauses.

## 4. Findings

1. **stale** (`webhost/api/run.py:812`). `_stale_apply_conflicts` says (2096-2099, 2143-2149) that
   an apply does not overwrite what was edited since the proposal was made. Its `baseHash` is read
   when the report arrives, the proposal is computed from the snapshot taken at the start
   (`worktree.py:456-459`). A file saved while the Run works has the hash of the save, and the apply
   overwrites it without a conflict.
2. **stuck** (`webhost/api/run.py:1073`). A failed or exhausted pipeline report carries the change
   set, which fills `_active["proposals"]` of a Run that has ended: `run.start` refuses because of
   the proposals, apply and reject refuse because the Run does not wait. Only a restart helps.
3. **handoff** (`pipeline_runtime/runner.py:470`). The docstring hands FAIL, TIMEOUT and ERROR of
   the initial verification to the fix loop; `FixTrigger` accepts only FAIL, so the others raise and
   the Run fails without a fix attempt.

Observations made while modelling, without a run of their own:

- `note_external_append` (`planner.py:139`) calls its sink the only writer of `plan.*`; recovery is
  another one, and a live ACP sink is moved past its events: a plan can be completed in an
  INTERRUPTED Run. The status is not affected (`SealedWhenTerminal`).
- A call that is refused before it is prepared records `tool.failed` under its call id
  (`session.py:430-431, 492-507`), and the id may be used again. Recovery treats a tool as finished
  if its item id ever ended (`recovery.py:91-108`), so that second call is left open. Checks and fix
  attempts are compared by seq and are right (`RecoveredIsClosed`, which states the exception).
  `recover_running_runs` is not called by the application yet. `decision.made` is appended without
  an expectation, also beside a running attempt.
- If the streamer cannot be set up after the thread was started (`webhost/api/run.py:1863-1887`),
  `_start` answers that it failed and disposes the worktree the thread works in (1378-1412); a
  follow-up (2048-2056) leaves its thread running and unknown to `_active`. Both are modelled, and
  every property of HostRun excludes what follows.
- If a session is closed and the disposal of the worktree then fails (351-361, 387-399), the entry
  stays and its closing mark is dropped: a delivery can borrow a closed session with a worktree in
  pieces (the exception in `LeaseProtects`).
- Shutdown of a pipeline without a session disposes the worktree after a bounded wait, also when its
  thread still works (an exception in `KeptWhileUsed`).
- `webhost/api/run.py:340` says that "active workers keep ownership" of what is drained. An entry
  knows the worker it was made for. If a report cannot be read the Run is given to the drain while
  it waits for the user; a follow-up accepted before the drain ends works in a worktree that the
  drain then disposes (the other exception in `KeptWhileUsed`). The proof of `KeptWhileUsed` failed
  on it: the property had been checked with a drain of Runs only.
- `run.followUp` asks for busy deliveries once; one that borrows after that is not noticed. A
  follow-up cancelled before it resumed leaves the Run waiting as far as the runner is concerned;
  the host then records CANCELLED (1844-1853), and if that write fails the Run waits with no
  proposals in memory. `finish_normal` of a legacy Run without a proposal leaves its last execution
  open. Legacy events queued behind a failed write are still recorded (the exception in
  `SettledStays`).
- The pipeline compares the reviewed diff with the current one, not with the tree the checks ran on;
  only `execute_task` takes fingerprints. A reviewed proposal may therefore differ from what was
  verified if the checks wrote files. `execute_task` captures again after its second fingerprint
  (`execution.py:364-373`) and an ACP reader is recorded after its own (`acp_semantic.py:308`): a
  process left behind by a check or by the agent can write in between. An advisory proposal's diff
  is captured before its review.
- On a normal exit `ProcessRunner` does not look for descendants.
- A model turn does not check that its call ids differ; the dispatcher refuses the second and the
  session fails. ACP `initialize` and `new_session` have no timeout and do not see the token. A late
  update whose append fails after the prompt's result was taken is ignored, and
  `CanonicalAcpEventSink.complete` (`run_runtime/acp.py:208`) does not look at the earlier failure.
- The owner's session and `delivery.confirm` report a transport failure as rejected or stale
  although the push may have landed; the member's command distinguishes the two (`CertainOutcome`).
  A transient git error is retried before the stream's headers and terminal after them. With more
  unseen revisions than the inbox holds no safe point is accepted until a reset.
- A crash while a candidate is written leaves a partial directory, and so does a refusal whose
  `rmtree(ignore_errors=True)` (`candidates.py:580-582`) fails, without a word.
  `content_fingerprint` and `fingerprint_before` of a receipt are not compared.

## 5. Proofs

Each theorem is about the `Spec` of its module, for every value of the constants that the module's
named assumption allows: any number of threads, Runs, attempts, members, files, revisions and
faults, any bound. The assumptions say only that bounds are numbers and sets of ids are disjoint
(`TailAssumption`, `LedgerAssumption`, `PipelineAssumption` and so on); RunCore also takes
`SettlementAssumption`, that the gates settle by `complete` or `await_user`. The runs of section 3
check the same definitions on small instances; where a run starts from a subset of the behaviours
(`OneReaderInit`, the scenarios) the theorem does not.

Every proof has the same plan: `Init => IInv`, `IInv /\ [Next]_vars => IInv'` with a step per
action, and the property from `IInv`. The inductive invariants were first checked by TLC. What they
add to the properties is the content of the argument:

| module | theorems | what the invariant adds, and why it is needed |
|---|---|---|
| EventTailProofs | `TypeOK`, `NoLostWakeup`, `StreamerComplete`; refinement of EventStream | what a reader that has queried but not yet blocked may rely on; that who can block is on the bus (`Registered`) and who closes has set the flag first (`CloserFlagged`); the cursor is the start plus what was delivered (`CursorCounts`). For the streamer: all that was handed out is emitted or buffered (`Covered`), and the catch-up loop is entered only after a stop or a failure and left at the mark of the stop (`Ending`) |
| RunCoreProofs | `TypeOK`, `SettledOnEvidence`, `FailedOnEvidence`, `AttemptUninterleaved`, `EndsOnce`, `RecoveredIsClosed`, `SealedWhenTerminal`; refinement of RunLifecycle | a seq that has not moved since it was read means that what was read still holds: `Recorder(a)` says what a recorder with a current expectation knows, `Decided(w)` what a writer that has read and not yet appended knows. Each append makes all other expectations stale, so only its author has to re-establish anything. `Belongs` and `ToolsInside` tie events to attempts, which the projector does not do |
| PipelineProofs | `TypeOK`, `ReviewedIsCurrent`, `AgentPassIsReal`, `SkipOnBaseline`, `ReportedIsClosed`, `HonestReport`; refinement of RunLifecycle | which attempts may be open at each position (`Phase`, `LoopShape`, `PortsClosed`), and what the captured diffs, the verdicts and the advice say of each other there (`Evidence`, `AdviceShape`, `AgentCall`) |
| HostRunProofs | `TypeOK`, `LeaseProtects`, `KeptWhileUsed`, `AllOrNothing`, `EditSafe`, `SettledStays`, `HonestFinish`, all up to a stray thread: `Spec => [](strayed \/ IInv)` | `_active` is about one Run (`OneRun`); who is alive or unheard of is its worker (`OneWorker`, `Following`); a thread reports once and nothing of it is behind its report (`Signals`); what the ledger says of a Run at work (`Recorded`); whose a worktree is (`Owned`), and that a torn one is not worked in again (`TornIsLeft`); what is bound to a session (`Bindings`); a drain entry names the thread at work or that thread came later (`Guarded`); what is being released is not on loan (`Closing`, `Loans`); what a hash vouches for and the proposal does not know was edited early (`Vouched`, `Unwritten`); the checkpoint covers what an apply wrote (`Covered`, `Accounted`). How Runs end needs a second invariant on top (`EndInv`): before a thread's last word the queue has only its stages, after it only its end (`InTurn`); a classic Run has one thread (`OneThread`), and while that one is unfinished the Run is running, unless a write failed and the user was told (`Timely`); the adapter's idea of the open execution is the ledger's (`Adapter`); an unheard report says what the ledger says (`Truthful`); while a follow-up that has not resumed is unheard of, its Run waits, without proposals and with no decision under way (`Undecided`) |
| AttemptProofs | `OneOutcome`, `ApprovedOnce`, `NoSilentSurvivor`, `ReaderChangedNothing` | the mechanisms share variables but no steps (`Apart`); where an attempt that came back stands, so that no later step can touch its outcome (`Ended`); the way of a call (`Once`) and of the processes (`Reaped`), which also says who can still write after the look at the workspace |
| CollabProofs | `NoLostUpdate`, `ProposalIsCurrent`, `CertainOutcome` | what each publisher knows of the revision it acts on (`Job`): base and parent are one revision once it may push, so a push that lands finds base, parent and tip equal. `Command` ties a command to one job and one revision |
| InboxProofs | `NoSkippedRevision` | the inbox is the run of revisions from cursor to received (`Chain`); a checkpoint is never ahead of the hub (`Cursors`) |
| CandidateProofs | `CandidateFaithful`, `VerifiedAsAssembled`; `MergedPathIsFaithful`, `MergeStepIsFaithful`, `AllOrNothingWritten` | what is at the path at each step (`Directory`): some of the files while it is written, none or some after a refusal, all of them otherwise, which is what the first fingerprint is taken of. Each path of the result has every selected change and no other, or no file could (`Merge`), which later proposals do not change, for they are only added. `Merge` is established in one step, by `MergedPathIsFaithful`: after k proposals the loop has all they change and nothing else (`Gathers`), or they are `Incompatible`; a file that has all their changes has those of the result so far, so that a conflict with the result is one between proposals |

What failed proofs changed in the model:

- `KeptWhileUsed` (section 4): the drain's entries now name their worker.
- `ReviewedAt`, which `SettledOnEvidence` uses, took the last event of a review for the end of the
  last review. A native review has tool items, and a review that began later may end earlier. It is
  now the review that began last, and the approval must be its last word. The code was right.
- Batches of events and of tool calls, the recovery batch and the inbox are stated so that their
  elements can be reasoned about (sets and functions instead of folds), and so is the merge of a
  candidate.

Only model-checked:

- liveness (`EventuallyDelivered`, `ClosedReaderLeaves`, `CallsReturn`, `CallComesBack`,
  `CatchesUp`): outside this prover;
- the three violated runs, which have counterexamples and no proofs.

Every other property of a passing run, each invariant, action property and refinement, is also a
theorem; the type invariants of EventTail, HostRun and WorkerAttempt are theorems only. Induction
over the length of the merge loop is done without the library's induction theorems, whose operator
parameter no prover here can instantiate: `LeastElement` says that a non-empty set of numbers has a
least element (from `WFMin`), `Induction` follows for sets, and `LoopExists` and `LoopSteps` show
from it that the recursive definition has a solution and what its steps are.

## 6. Not modelled

Model providers, prompts, parsing grammars and context ranking (no state; a port is a call that
answers or fails); the tools' own effects on files; discovery of checks; JSON, SQL and git
encodings; phase, usage and timestamps of a Run; receipts and history views; the owner server's own
lifecycle (open, close, persisted configuration); invitations, authentication and HTTP framing;
editor services (terminal, debugger, language server, search, source control); settings and secrets;
the web UI; packaging; evaluation scripts. `PROJECT.json` says so per component.

## 7. Plan

1. The liveness properties as theorems, once a prover for fairness and `ENABLED` is at hand.
2. Smaller steps where a proof step names many facts.
3. The hazard without a property (`PROJECT.json`): a crash during a tool approval.
