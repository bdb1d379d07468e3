--------------------------- MODULE HostRunProofs ---------------------------
(***************************************************************************)
(* Proofs about the desktop host (module HostRun): a delivery keeps what   *)
(* it borrowed, an engine keeps the worktree it works in, an apply leaves  *)
(* all of a proposal or nothing, and only destroys edits made while it was *)
(* under way or while the Run was at work; a Run that ended stays as it    *)
(* ended, and the user is told what the ledger says.  All of it as long as *)
(* no thread runs that _active does not know (strayed).                    *)
(*                                                                         *)
(* The slots are first brought into one shape per engine (Slot).  For each *)
(* action a "Keeps" lemma says what it does to every part of the state.    *)
(* Then each conjunct of the inductive invariant IInv has its own step     *)
(* lemma, with one step per action that can disturb it.                    *)
(*                                                                         *)
(* The second invariant, EndInv, is about how Runs end.  It is shown on    *)
(* top of IInv, and there a step is one of three kinds: quiet, a thread    *)
(* that posts a signal, or a slot.                                         *)
(***************************************************************************)
EXTENDS HostRun, SequenceTheorems, TLAPS

\* The types IInv needs: the executions and the failures play no part in it.
Typed ==
  /\ active \in ActiveStates /\ main \in Requests
  /\ status \in [RunIds -> Statuses]
  /\ worker \in [WorkerIds -> Threads] /\ queue \in Seq(Posts)
  /\ ui \in [WorkerIds -> {"none", "done", "failed", "cancelled"}]
  /\ tree \in [RunIds -> {"none", "live", "torn", "disposed"}]
  /\ sess \in [RunIds -> {"none", "open", "closed"}]
  /\ drain \subseteq RunIds \X (0..MaxWorkers) /\ closing \subseteq RunIds
  /\ delivery \in [Deliveries -> Borrowers]
  /\ file \in [Paths -> Contents] /\ base \in [Paths -> Contents] /\ origin \in [Paths -> Contents]
  /\ snap \in [RunIds -> [Paths -> Contents]] /\ hashed \in [RunIds -> [Paths -> Contents]]
  /\ ckpt \in [RunIds -> SUBSET (Paths \X Contents)] /\ applied \subseteq RunIds
  /\ early \subseteq Contents /\ late \subseteq Contents /\ edits \in 0..MaxEdits

\* A thread that is in its engine, and that the engine works in a worktree.
Working(w) == worker[w].pc = "running" /\ worker[w].eng # "legacy"

\* A posted signal that ends the attempt of a pipeline or an agent.
Reports(e) == e.kind \in {"failed", "finished_ok"} /\ worker[e.worker].eng # "legacy"

Reportable == {"needs_user", "no_changes", "cancelled", "failed", "failed_with_changes"}
Emitted == {"stage", "proposal", "empty"}

\* What _active holds belongs to one Run.  Without a thread it keeps at most the
\* worktree of an agent.
OneRun ==
  /\ active.coord = active.run
  /\ active.ws \in {0, active.run}
  /\ active.run # 0 => status[active.run] # "none" /\ active.sess \in {0, active.run}
  /\ active.ws # 0 => active.engine # "legacy"
  /\ active.ws # 0 /\ active.worker = 0 =>
       active.engine = "agent" /\ status[active.run] # "WAITING_USER"
  /\ active.worker # 0 => /\ worker[active.worker].pc # "none"
                          /\ worker[active.worker].run = active.run
                          /\ worker[active.worker].eng = active.engine
  /\ main.pc \in {"checked", "write", "reject", "release"} => main.run = active.run /\ active.run # 0

\* Every thread that is alive, or of which the UI has not heard the end, is the
\* active one; the threads of a Run are of one engine.
OneWorker ==
  \A w \in WorkerIds :
    /\ worker[w].pc = "none" => ui[w] = "none" /\ worker[w] = NoWorker
    /\ worker[w].pc # "none" =>
         /\ worker[w].run # 0 /\ status[worker[w].run] # "none"
         /\ worker[w].run = active.run => worker[w].eng = active.engine
         /\ (worker[w].pc \in {"running", "settled"} \/ ui[w] = "none") => w = active.worker
         /\ \A v \in WorkerIds : worker[v].pc # "none" /\ worker[v].run = worker[w].run
              => worker[v].eng = worker[w].eng

\* While a follow-up is being started nothing else runs.
Following ==
  main.pc = "follow" =>
    /\ active.run # 0 /\ active.worker # 0 /\ active.engine # "legacy"
    /\ status[active.run] = "WAITING_USER"
    /\ ui[active.worker] # "none" /\ worker[active.worker].pc = "exited"
    /\ \E w \in WorkerIds : worker[w].pc = "none"
    /\ active.ws # 0 \/ sess[active.run] = "closed"

\* A posted signal: events come from the classic engine, reports from the two others,
\* when the attempt has ended and the UI has not heard of it.
SignalOK(m) ==
  /\ worker[m.worker].pc # "none"
  /\ m.kind = "event" => worker[m.worker].eng = "legacy" /\ m.what \in Emitted
  /\ m.kind = "finished_ok" => worker[m.worker].eng # "legacy" /\ m.what \in Reportable
  /\ Reports(m) => ui[m.worker] = "none" /\ worker[m.worker].pc \in {"settled", "exited"}

\* The queue: a thread reports once, and no event is behind a report.
ReportsOnce ==
  \A i, j \in 1..Len(queue) :
    Reports(queue[i]) =>
      /\ j # i /\ Reports(queue[j]) => queue[j].worker # queue[i].worker
      /\ j > i => queue[j].kind # "event"

\* No event is left of an earlier Run when a pipeline or an agent has been heard of, or
\* when a follow-up runs.
NoEventLeft ==
  (\/ active.worker # 0 /\ active.engine # "legacy" /\ ui[active.worker] # "none"
   \/ \E w \in WorkerIds : worker[w].pc = "running" /\ worker[w].follow)
  => \A i \in 1..Len(queue) : queue[i].kind # "event"

Signals ==
  /\ \A i \in 1..Len(queue) : SignalOK(queue[i])
  /\ ReportsOnce
  /\ NoEventLeft
  /\ \A w \in WorkerIds : Working(w) => ui[w] = "none"

\* What the ledger says of a Run whose engine is at work, and of the Run of a thread
\* whose worktree waits for its end.
Recorded ==
  /\ \A w \in WorkerIds :
       /\ Working(w) /\ ~worker[w].follow => status[worker[w].run] = "RUNNING"
       /\ worker[w].pc = "running" /\ worker[w].follow =>
            /\ active.props = {} /\ main.pc \notin {"checked", "write", "reject", "release"}
            /\ worker[w].eng = "pipeline"
       /\ worker[w].dispose => worker[w].eng = "agent" /\ status[worker[w].run] \in Terminal
       /\ main.pc = "release" => ~Working(w)
  /\ \A i \in 1..Len(queue) :
       worker[queue[i].worker].eng = "agent" =>
         /\ queue[i].kind = "failed" => status[worker[queue[i].worker].run] = "RUNNING"
         /\ queue[i].kind = "finished_ok" /\ queue[i].what # "needs_user" =>
              status[worker[queue[i].worker].run] \in Terminal

\* What _active refers to: an open session and a live worktree, or what a disposal that
\* failed left of them; an agent's Run has no session.
Owned ==
  /\ active.run # 0 /\ sess[active.run] = "open" => active.sess = active.run
  /\ active.run # 0 /\ active.sess # 0 /\ sess[active.run] = "closed" => tree[active.run] = "torn"
  /\ active.sess # 0 => Bound(active.sess)
  /\ active.run # 0 /\ active.engine = "agent" => ~Bound(active.run)
  /\ active.ws # 0 => Remains(active.ws) /\ (Bound(active.ws) => active.sess = active.ws)

\* A torn worktree is not worked in again, except by a follow-up that the drain does not
\* know.
TornIsLeft ==
  /\ active.ws # 0 /\ tree[active.ws] = "torn" =>
       \/ active.engine = "agent" /\ (active.worker = 0 \/ status[active.run] \in Terminal)
       \/ Draining(active.ws) \/ main.pc = "down"
  /\ main.pc = "release" => status[active.run] = "SUCCEEDED"

\* Only started Runs are bound to a session, and only bound ones wait in the drain.
Bindings ==
  /\ \A w \in WorkerIds :
       worker[w].pc # "none" /\ worker[w].eng = "agent" => ~Bound(worker[w].run)
  /\ \A r \in RunIds : Bound(r) => status[r] # "none"
  /\ \A e \in drain : Bound(e[1])

\* What is being released waits in the drain and is not on loan.
Closing == \A r \in closing : Draining(r) /\ ~Leased(r)

\* The drain entry of a Run whose engine is at work names that thread, unless the
\* thread was started after the entry was made.
Guarded ==
  \A w \in WorkerIds :
    Working(w) =>
      /\ \A e \in drain : e[1] = worker[w].run => worker[w].retired \/ e[2] = w
      /\ (worker[w].run \in closing \/ sess[worker[w].run] = "closed") => worker[w].retired

\* A delivery beyond its first look has a Run that is bound to a session.
Loans ==
  \A d \in Deliveries :
    delivery[d].pc # "idle" => delivery[d].run \in RunIds /\ Bound(delivery[d].run)

\* The hashes of the proposals vouch for what the proposals were computed from, or for
\* edits made since.
Vouched == \A p \in Paths : base[p] > MaxRuns => base[p] = origin[p] \/ base[p] \in early

\* A file still to be written has the hash of its proposal, or it is a late edit.
Unwritten ==
  main.pc \in {"checked", "write"} =>
    /\ main.todo \subseteq main.wanted
    /\ \A p \in main.todo : file[p] = base[p] \/ file[p] \in late

\* The checkpoint of an apply has every file of it, as it was or as a late edit made it.
Covered ==
  main.pc = "write" =>
    \A p \in main.wanted :
      /\ file[p] = main.run \/ file[p] \in late \/ <<p, file[p]>> \in ckpt[main.run]
      /\ \E c \in Contents : <<p, c>> \in ckpt[main.run]

\* Proposed content is that of an applied Run, or of the apply that is under way.
Accounted ==
  ~broken =>
    /\ \A r \in RunIds : \A x \in ckpt[r] : x[2] \in RunIds => x[2] \in applied
    /\ \A p \in Paths : file[p] \in RunIds =>
         \/ file[p] \in applied
         \/ main.pc = "write" /\ file[p] = main.run /\ p \in main.wanted

\* KeptWhileUsed and EditSafe, as long as no thread strays.
InPlace ==
  \A w \in WorkerIds :
    worker[w].pc = "running" /\ worker[w].eng # "legacy"
      => \/ tree[worker[w].run] = "live" \/ worker[w].retired
         \/ main.pc = "down" /\ worker[w].eng = "pipeline" /\ ~Bound(worker[w].run)

Safe == lost \subseteq late \cup early

-----------------------------------------------------------------------------
\* The signal a slot takes, and what is left of the queue.
LEMMA HeadOfQueue ==
  ASSUME queue \in Seq(Posts), queue # <<>>
  PROVE  /\ Head(queue) \in Posts /\ Tail(queue) \in Seq(Posts) /\ Src \in WorkerIds
         /\ Len(Tail(queue)) = Len(queue) - 1 /\ Head(queue) = queue[1] /\ 1 \in 1..Len(queue)
         /\ \A i \in 1..Len(Tail(queue)) : i + 1 \in 1..Len(queue)
              /\ Tail(queue)[i] = queue[i + 1]
<1>1. Head(queue) \in Posts /\ Tail(queue) \in Seq(Posts)
  OBVIOUS
<1>2. Src \in WorkerIds
  BY <1>1 DEF Posts, Src
<1>3. Len(Tail(queue)) = Len(queue) - 1 /\ Head(queue) = queue[1] /\ Len(queue) \in Nat \ {0}
  BY EmptySeq
<1>4. \A i \in 1..Len(Tail(queue)) : i + 1 \in 1..Len(queue) /\ Tail(queue)[i] = queue[i + 1]
  BY <1>3
<1> QED BY <1>1, <1>2, <1>3, <1>4

\* run.start takes an id no Run has.
LEMMA FreeRunIsFree ==
  ASSUME \E r \in RunIds : status[r] = "none"
  PROVE  FreeRun \in RunIds /\ status[FreeRun] = "none"
BY DEF FreeRun

\* A new thread is one that was not started.
LEMMA FreeWorkerIsFree ==
  ASSUME \E w \in WorkerIds : worker[w].pc = "none"
  PROVE  FreeWorker \in WorkerIds /\ worker[FreeWorker].pc = "none"
BY DEF FreeWorker

(* What an update of a record leaves of its type                           *)

\* The ids, and 0 for none.
LEMMA Bounds ==
  /\ 0 \in 0..MaxRuns /\ 0 \in 0..MaxWorkers /\ 0 \in 0..MaxEdits /\ 0 \in 0..MaxFaults
  /\ RunIds \subseteq 0..MaxRuns /\ WorkerIds \subseteq 0..MaxWorkers
  /\ \A r \in 0..MaxRuns : r # 0 => r \in RunIds
  /\ \A w \in 0..MaxWorkers : w # 0 => w \in WorkerIds
  /\ 0 \notin RunIds /\ 0 \notin WorkerIds
  /\ 0..MaxRuns \subseteq Contents /\ RunIds \subseteq Contents
BY HostAssumption DEF RunIds, WorkerIds, Contents

\* The content of a new edit is none of a Run's.
LEMMA EditBound ==
  ASSUME edits \in 0..MaxEdits, edits < MaxEdits
  PROVE  edits + 1 \in 0..MaxEdits /\ MaxRuns + edits + 1 \in Contents
         /\ MaxRuns + edits + 1 \notin RunIds
BY HostAssumption DEF Contents, RunIds

\* Updates of a thread keep its type.
LEMMA ThreadUpdates ==
  ASSUME NEW t \in Threads
  PROVE  /\ [t EXCEPT !.cancel = TRUE] \in Threads
         /\ [t EXCEPT !.dispose = TRUE] \in Threads
         /\ [t EXCEPT !.follow = FALSE] \in Threads
         /\ [t EXCEPT !.pc = "running"] \in Threads
         /\ [t EXCEPT !.pc = "settled"] \in Threads
         /\ [t EXCEPT !.pc = "exited"] \in Threads
         /\ [t EXCEPT !.at = "code"] \in Threads
         /\ [t EXCEPT !.at = "review"] \in Threads
BY DEF Threads

\* A thread that run.start or run.followUp makes has the type.
LEMMA NewThread ==
  ASSUME NEW r \in RunIds, NEW e \in EngineKinds, NEW f \in BOOLEAN, NEW g \in BOOLEAN
  PROVE  /\ [NoWorker EXCEPT !.run = r, !.eng = e, !.pc = "running"] \in Threads
         /\ [NoWorker EXCEPT !.run = r, !.eng = e, !.pc = "running", !.follow = f, !.retired = g] \in Threads
BY Bounds DEF Threads, NoWorker

\* Updates of _active keep its type.
LEMMA ActiveUpdates ==
  ASSUME NEW a \in ActiveStates, NEW ps \in SUBSET Paths, NEW w \in 0..MaxWorkers,
         NEW x \in 0..MaxRuns
  PROVE  /\ [a EXCEPT !.ws = x] \in ActiveStates
         /\ [a EXCEPT !.props = ps] \in ActiveStates
         /\ [a EXCEPT !.props = ps, !.ws = x] \in ActiveStates
         /\ [a EXCEPT !.props = ps, !.sess = 0, !.ws = x] \in ActiveStates
         /\ [a EXCEPT !.sess = 0, !.ws = x] \in ActiveStates
         /\ [a EXCEPT !.sess = 0] \in ActiveStates
         /\ [a EXCEPT !.worker = w, !.props = ps] \in ActiveStates
         /\ [a EXCEPT !.worker = w, !.ws = x, !.props = ps] \in ActiveStates
         /\ [a EXCEPT !.worker = 0, !.ws = 0, !.props = {}] \in ActiveStates
         /\ [a EXCEPT !.worker = 0, !.props = {}] \in ActiveStates
         /\ a.run \in 0..MaxRuns /\ a.ws \in 0..MaxRuns /\ a.sess \in 0..MaxRuns
              /\ a.coord \in 0..MaxRuns
         /\ a.worker \in 0..MaxWorkers /\ a.engine \in EngineKinds /\ a.props \in SUBSET Paths
BY Bounds DEF ActiveStates

\* Updates of the main thread's request keep its type.
LEMMA RequestUpdates ==
  ASSUME NEW m \in Requests, NEW p
  PROVE  /\ [m EXCEPT !.pc = "write"] \in Requests
         /\ [m EXCEPT !.pc = "release"] \in Requests
         /\ [m EXCEPT !.errors = TRUE] \in Requests
         /\ [m EXCEPT !.todo = @ \ {p}] \in Requests
         /\ [m EXCEPT !.todo = @ \ {p}, !.errors = TRUE] \in Requests
         /\ Idle \in Requests /\ [Idle EXCEPT !.pc = "follow"] \in Requests
         /\ [Idle EXCEPT !.pc = "stopping"] \in Requests
              /\ [Idle EXCEPT !.pc = "down"] \in Requests
         /\ m.run \in 0..MaxRuns /\ m.wanted \subseteq Paths /\ m.todo \subseteq Paths
BY Bounds DEF Requests, Idle

\* A rejection is a request.
LEMMA RejectRequest ==
  ASSUME NEW r \in 0..MaxRuns
  PROVE  [Idle EXCEPT !.pc = "reject", !.run = r] \in Requests
BY DEF Requests, Idle

\* Updates of a delivery keep its type.
LEMMA BorrowerUpdates ==
  ASSUME NEW b \in Borrowers
  PROVE  /\ [b EXCEPT !.pc = "idle"] \in Borrowers
         /\ [b EXCEPT !.pc = "leased"] \in Borrowers
         /\ [b EXCEPT !.pc = "using"] \in Borrowers
BY DEF Borrowers

\* What a restore of a checkpoint puts back was in it.
LEMMA RestoredFiles ==
  ASSUME NEW k, file \in [Paths -> Contents]
  PROVE  /\ Restored(k) \in [Paths -> Contents]
         /\ \A p \in Paths : <<p, Restored(k)[p]>> \in k \/ (Restored(k)[p] = file[p] /\ ~\E c \in Contents : <<p, c>> \in k)
<1>1. \A p \in Paths : (\E c \in Contents : <<p, c>> \in k)
        => /\ (CHOOSE c \in Contents : <<p, c>> \in k) \in Contents
           /\ <<p, CHOOSE c \in Contents : <<p, c>> \in k>> \in k
  OBVIOUS
<1> QED BY <1>1 DEF Restored

\* The Run of a thread that has been started is one of the Runs.
LEMMA RunOfThread ==
  ASSUME Typed, OneWorker, NEW w \in WorkerIds, worker[w].pc # "none"
  PROVE  worker[w].run \in RunIds
<1>1. worker[w].run \in 0..MaxRuns
  BY DEF Typed, Threads
<1> QED BY <1>1, Bounds DEF OneWorker

\* A signal comes from a thread that was started, for a Run.
LEMMA RunOfSrc ==
  ASSUME Typed, OneWorker, Signals, queue # <<>>
  PROVE  Src \in WorkerIds /\ worker[Src].run \in RunIds /\ worker[Src].pc # "none"
<1>1. Src \in WorkerIds /\ 1 \in 1..Len(queue) /\ Src = queue[1].worker
  BY HeadOfQueue DEF Typed, Src
<1>2. worker[Src].pc # "none"
  BY <1>1 DEF Signals, SignalOK
<1> QED BY <1>1, <1>2, RunOfThread

\* An entry of the drain is a Run and a thread or 0.
LEMMA RetainTyped ==
  ASSUME drain \subseteq RunIds \X (0..MaxWorkers), NEW r \in RunIds, NEW w \in 0..MaxWorkers
  PROVE  Retain(r, w) \subseteq RunIds \X (0..MaxWorkers)
BY DEF Retain

\* _retain_collaboration adds the entry if the Run has none.
LEMMA RetainEntries ==
  ASSUME NEW r, NEW w
  PROVE  /\ \A e \in Retain(r, w) : e \in drain \/ (e = <<r, w>> /\ ~Draining(r))
         /\ drain \subseteq Retain(r, w)
BY DEF Retain

-----------------------------------------------------------------------------
(* What the slots can do                                                   *)

\* The Run of a slot's worker may be settled, the UI may be told.
RunMoves(r) == \E x \in Statuses \ {"none"} : status' = [status EXCEPT ![r] = x]
RunSettles(r) == RunMoves(r) /\ (status[r] \in Terminal => UNCHANGED status)
Heard(w) == \E x \in {"done", "failed", "cancelled"} : ui' = [ui EXCEPT ![w] = x]

SlotFrame == UNCHANGED <<sess, delivery, closing, main, file, snap, hashed, ckpt, applied, edits, late,
                         lost, broken>>

\* Proposals may be published, with the hashes of the files as they are or were.
Publishes(r) == UNCHANGED published \/ Publish(r, file) \/ Publish(r, hashed[r])

\* An agent's worktree is disposed of and _active forgets it, or it is torn and kept.
Gives(r, ps) ==
  \/ tree' = Disposed(r) /\ active' = [active EXCEPT !.props = ps, !.ws = IF @ = r THEN 0 ELSE @]
  \/ tree' = Torn(r) /\ active' = [active EXCEPT !.props = ps]

\* A legacy worker's slot: its event may publish or withdraw proposals.
LegacySlot(w) ==
  /\ worker[w].eng = "legacy"
  /\ RunMoves(worker[w].run) /\ (UNCHANGED ui \/ Heard(w))
  /\ \/ UNCHANGED <<active, published, worker>>
     \/ /\ Head(queue).kind = "event"
        /\ \E ps \in SUBSET Paths : active' = [active EXCEPT !.props = ps]
        /\ Publishes(worker[w].run)
        /\ UNCHANGED worker \/ worker' = [worker EXCEPT ![w].cancel = TRUE]
  /\ UNCHANGED <<tree, drain>>

\* A pipeline worker's slot: proposals may be published; session and worktree are kept,
\* or given to the drain, or (without a session) the worktree is disposed.
PipelineSlot(w) ==
  /\ Reports(Head(queue)) /\ worker[w].eng = "pipeline"
  /\ RunSettles(worker[w].run)
  /\ UNCHANGED ui \/ Heard(w)
  /\ Publishes(worker[w].run) /\ UNCHANGED worker
  /\ \E ps \in SUBSET Paths :
       \/ /\ active' = [active EXCEPT !.props = ps] /\ UNCHANGED tree
          /\ \/ UNCHANGED drain
             \/ Bound(worker[w].run) /\ drain' = Retain(worker[w].run, w)
       \/ /\ active' = [active EXCEPT !.props = ps, !.ws = 0] /\ ~Bound(worker[w].run)
          /\ tree' = Disposed(active.ws) /\ UNCHANGED drain

\* An agent worker's slot: a proposal keeps the worktree, as does a slot that raises, else
\* it goes now or with the thread.
AgentSlot(w) ==
  /\ Reports(Head(queue)) /\ worker[w].eng = "agent"
  /\ RunSettles(worker[w].run)
  /\ UNCHANGED ui \/ Heard(w)
  /\ Publishes(worker[w].run) /\ UNCHANGED drain
  /\ \E ps \in SUBSET Paths :
       \/ active' = [active EXCEPT !.props = ps] /\ UNCHANGED <<worker, tree>>
       \/ /\ status'[worker[w].run] \in Terminal
          /\ \/ /\ Alive(w) /\ worker' = [worker EXCEPT ![w].dispose = TRUE]
                /\ active' = [active EXCEPT !.props = ps] /\ UNCHANGED tree
             \/ ~Alive(w) /\ UNCHANGED worker /\ Gives(worker[w].run, ps)

\* The end of a thread: the worktree that waited for it goes.
ThreadSlot(w) ==
  /\ Posted("finished") /\ worker[w].eng # "legacy"
  /\ \/ UNCHANGED <<tree, active>>
     \/ worker[w].dispose /\ Gives(worker[w].run, active.props)
  /\ UNCHANGED <<status, worker, ui, drain, published>>

Slot(w) ==
  /\ main = Idle /\ queue # <<>> /\ w = Src /\ queue' = Tail(queue) /\ SlotFrame
  /\ LegacySlot(w) \/ PipelineSlot(w) \/ AgentSlot(w) \/ ThreadSlot(w)

\* finish() tells the UI once.
LEMMA FinishHeard ==
  ASSUME Typed, NEW w \in WorkerIds, NEW said \in {"done", "failed", "cancelled"}, Finish(w, said)
  PROVE  /\ UNCHANGED ui \/ Heard(w)
         /\ ui[w] = "none" => Heard(w)
<1>1. CASE ui[w] = "none"
  BY <1>1 DEF Finish, Heard
<1>2. CASE ui[w] # "none"
  BY <1>2 DEF Finish, Typed
<1> QED BY <1>1, <1>2

\* A Run left alone is settled the same.
LEMMA StatusSame ==
  ASSUME Typed, NEW r \in RunIds, status[r] # "none", UNCHANGED status
  PROVE  RunSettles(r)
BY DEF RunSettles, RunMoves, Typed

\* settle_canonical_failure leaves a Run that has ended as it is.
LEMMA SettleFailedMoves ==
  ASSUME Typed, NEW r \in RunIds, status[r] # "none", SettleFailed(r)
  PROVE  RunSettles(r)
<1>1. CASE status' = Ended(r, "FAILED") /\ status[r] \notin Terminal
  BY <1>1 DEF Ended, RunSettles, RunMoves, Statuses, Terminal
<1>2. CASE UNCHANGED status
  BY <1>2, StatusSame
<1> QED BY <1>1, <1>2 DEF SettleFailed

\* finish_normal and finish_cancelled leave a Run that has ended as it is.
LEMMA SettledMoves ==
  ASSUME Typed, NEW r \in RunIds, status[r] # "none", NEW as \in {"SUCCEEDED", "CANCELLED"},
           Settled(r, as)
  PROVE  RunSettles(r)
<1>1. CASE status' = Ended(r, as) /\ status[r] \notin Terminal
  BY <1>1 DEF Ended, RunSettles, RunMoves, Statuses, Terminal
<1>2. CASE status' = Ended(r, as) /\ status[r] \in Terminal
  <2>1. UNCHANGED status
    BY <1>2 DEF Ended, Typed
  <2> QED BY <2>1, StatusSame
<1>3. CASE UNCHANGED status
  BY <1>3, StatusSame
<1> QED BY <1>1, <1>2, <1>3 DEF Settled

\* A settlement with its fallback tells the UI at most once, and keeps an ended Run.
LEMMA SettleOrFailMoves ==
  ASSUME Typed, NEW r \in RunIds, status[r] # "none", NEW as \in {"SUCCEEDED", "CANCELLED"},
         NEW w \in WorkerIds, NEW said \in {"done", "cancelled"}, SettleOrFail(w, r, as, said)
  PROVE  RunSettles(r) /\ (UNCHANGED ui \/ Heard(w))
BY SettledMoves, SettleFailedMoves, FinishHeard DEF SettleOrFail

\* The thread whose signal is taken.
LEMMA SrcFacts ==
  ASSUME Typed, OneWorker, Signals, queue # <<>>
  PROVE  /\ Src \in WorkerIds /\ worker[Src].run \in RunIds /\ worker[Src].pc # "none"
         /\ status[worker[Src].run] # "none" /\ Tail(queue) \in Seq(Posts)
         /\ Head(queue).worker = Src
BY RunOfSrc, HeadOfQueue DEF OneWorker, Src, Typed

\* on_worker_failed, on_worker_cancelled and on_worker_finished have the shape of a slot.
LEMMA LegacyEndShape ==
  ASSUME Typed, OneWorker, Signals, OnLegacyEnd
  PROVE  Slot(Src)
<1> DEFINE w == Src
           r == worker[Src].run
<1>1. /\ queue # <<>> /\ main = Idle /\ worker[w].eng = "legacy" /\ queue' = Tail(queue)
           /\ SlotFrame
      /\ UNCHANGED <<active, published, worker, tree, drain>>
  BY DEF OnLegacyEnd, Posted, Take, SlotFrame, collab
<1>2. w \in WorkerIds /\ r \in RunIds /\ status[r] # "none"
  BY <1>1, SrcFacts
<1>3. RunMoves(r) /\ (UNCHANGED ui \/ Heard(w))
  <2>1. CASE ui[w] # "none"
    BY <1>2, <2>1, StatusSame DEF OnLegacyEnd, RunSettles
  <2>2. CASE SettleFailed(r) /\ Finish(w, "failed")
    BY <1>2, <2>2, SettleFailedMoves, FinishHeard DEF RunSettles
  <2>3. CASE SettleOrFail(w, r, "CANCELLED", "cancelled") \/ SettleOrFail(w, r, "SUCCEEDED", "done")
    BY <1>2, <2>3, SettleOrFailMoves DEF RunSettles
  <2>4. Head(queue).kind \in {"failed", "cancelled", "finished"}
    BY DEF OnLegacyEnd, Posted
  <2> QED BY <2>1, <2>2, <2>3, <2>4 DEF OnLegacyEnd
<1> QED BY <1>1, <1>3 DEF Slot, LegacySlot

\* Updates of _active that say the same.
LEMMA ActiveSame ==
  ASSUME active \in ActiveStates
  PROVE  /\ active.props \in SUBSET Paths
         /\ active = [active EXCEPT !.props = active.props]
         /\ [active EXCEPT !.ws = 0] = [active EXCEPT !.props = active.props, !.ws = 0]
         /\ \A ps : [[active EXCEPT !.props = ps] EXCEPT !.ws = 0] = [active EXCEPT !.props = ps, !.ws = 0]
         /\ \A x : [active EXCEPT !.ws = x] = [active EXCEPT !.props = active.props, !.ws = x]
         /\ \A ps, x : [[active EXCEPT !.props = ps] EXCEPT !.ws = x] = [active EXCEPT !.props = ps, !.ws = x]
BY DEF ActiveStates

\* _active with the proposals of a report, or as it is.
LEMMA ShownShape ==
  ASSUME active \in ActiveStates, NEW shown
  PROVE  /\ \E ps \in SUBSET Paths : Shown(shown) = [active EXCEPT !.props = ps]
         /\ \E ps \in SUBSET Paths :
              /\ Shown(shown) = [active EXCEPT !.props = ps]
              /\ [Shown(shown) EXCEPT !.ws = 0] = [active EXCEPT !.props = ps, !.ws = 0]
              /\ \A r : [Shown(shown) EXCEPT !.ws = IF @ = r THEN 0 ELSE @]
                        = [active EXCEPT !.props = ps, !.ws = IF @ = r THEN 0 ELSE @]
<1> DEFINE ps == IF shown THEN Paths ELSE active.props
<1>1. ps \in SUBSET Paths /\ Shown(shown) = [active EXCEPT !.props = ps]
  BY DEF Shown, ActiveStates
<1>2. /\ [Shown(shown) EXCEPT !.ws = 0] = [active EXCEPT !.props = ps, !.ws = 0]
      /\ \A r : [Shown(shown) EXCEPT !.ws = IF @ = r THEN 0 ELSE @]
                = [active EXCEPT !.props = ps, !.ws = IF @ = r THEN 0 ELSE @]
  <2> HIDE DEF ps
  <2> QED BY <1>1 DEF ActiveStates
<1> QED BY <1>1, <1>2

\* _dispose_agent_workspace, and with what the slots make of it.
LEMMA DisposeAgentShape ==
  ASSUME active \in ActiveStates, NEW r, DisposeAgent(r)
  PROVE  Gives(r, active.props)
BY ActiveSame DEF DisposeAgent, Gives

\* on_event has the shape of a slot.
LEMMA EventShape ==
  ASSUME Typed, OneWorker, Signals, OnEvent
  PROVE  Slot(Src)
<1> DEFINE w == Src
           r == worker[Src].run
           what == Head(queue).what
           n == Translate(exe[r].cur, what)
<1>1. /\ queue # <<>> /\ main = Idle /\ queue' = Tail(queue) /\ SlotFrame
           /\ UNCHANGED <<tree, drain>>
      /\ Head(queue).kind = "event"
  BY DEF OnEvent, Posted, Take, SlotFrame, collab
<1>2. w \in WorkerIds /\ r \in RunIds /\ status[r] # "none"
  BY <1>1, SrcFacts
<1>3. worker[w].eng = "legacy"
  BY <1>1, HeadOfQueue DEF Signals, SignalOK, Src, Typed
<1>4. \A k : Handled(r, what, k).status \in Statuses \ {"none"}
  BY <1>2 DEF Handled, Typed, Statuses
<1>5. CASE /\ status' = [status EXCEPT ![r] = Handled(r, what, n).status]
           /\ active' = [active EXCEPT !.props = CASE what = "proposal" -> Paths
                                                   [] what = "empty" -> {} [] OTHER -> @]
           /\ IF what = "proposal" THEN Publish(r, hashed[r]) ELSE UNCHANGED published
           /\ UNCHANGED <<worker, ui>>
  <2>1. RunMoves(r)
    BY <1>4, <1>5 DEF RunMoves
  <2>2. \E ps \in SUBSET Paths : active' = [active EXCEPT !.props = ps]
    BY <1>5, ActiveSame DEF Typed
  <2>3. Publishes(r)
    BY <1>5 DEF Publishes
  <2> QED BY <1>1, <1>3, <1>5, <2>1, <2>2, <2>3 DEF Slot, LegacySlot
<1>6. CASE /\ \E k \in 0..(n - 1) :
                IF ui[w] = "none"
                THEN /\ FailedAfter(r, Handled(r, what, k)) /\ Finish(w, "failed")
                     /\ worker' = [worker EXCEPT ![w].cancel = TRUE]
                ELSE /\ status' = [status EXCEPT ![r] = Handled(r, what, k).status]
                     /\ exe' = [exe EXCEPT ![r] = Handled(r, what, k).exe]
                     /\ UNCHANGED <<ui, worker>>
           /\ UNCHANGED <<active, published>>
  <2>1. PICK k \in 0..(n - 1) :
                IF ui[w] = "none"
                THEN /\ FailedAfter(r, Handled(r, what, k)) /\ Finish(w, "failed")
                     /\ worker' = [worker EXCEPT ![w].cancel = TRUE]
                ELSE /\ status' = [status EXCEPT ![r] = Handled(r, what, k).status]
                     /\ exe' = [exe EXCEPT ![r] = Handled(r, what, k).exe]
                     /\ UNCHANGED <<ui, worker>>
    BY <1>6
  <2>2. FailedAfter(r, Handled(r, what, k)) => RunMoves(r)
    BY <1>4 DEF FailedAfter, RunMoves, Statuses, Terminal
  <2>3. RunMoves(r)
    BY <1>4, <2>1, <2>2 DEF RunMoves
  <2>4. UNCHANGED ui \/ Heard(w)
    BY <1>2, <2>1, FinishHeard
  <2>5. UNCHANGED worker \/ worker' = [worker EXCEPT ![w].cancel = TRUE]
    BY <2>1
  <2>6. \E ps \in SUBSET Paths : active' = [active EXCEPT !.props = ps]
    BY <1>6, ActiveSame DEF Typed
  <2> QED BY <1>1, <1>3, <1>6, <2>3, <2>4, <2>5, <2>6 DEF Slot, LegacySlot, Publishes
<1> QED BY <1>5, <1>6 DEF OnEvent

\* Giving a Run up: to the drain, or its worktree is disposed.
LEMMA GiveUpShape ==
  ASSUME Typed, NEW r, NEW w, NEW shown, GiveUp(r, w, Shown(shown)) \/ GiveUp(r, w, active)
  PROVE  \E ps \in SUBSET Paths :
           \/ /\ active' = [active EXCEPT !.props = ps] /\ UNCHANGED tree
              /\ Bound(r) /\ drain' = Retain(r, w)
           \/ /\ active' = [active EXCEPT !.props = ps, !.ws = 0] /\ ~Bound(r)
              /\ tree' = Disposed(active.ws) /\ UNCHANGED drain
<1>1. active \in ActiveStates
  BY DEF Typed
<1>2. PICK ps \in SUBSET Paths :
        /\ Shown(shown) = [active EXCEPT !.props = ps]
        /\ [Shown(shown) EXCEPT !.ws = 0] = [active EXCEPT !.props = ps, !.ws = 0]
  BY <1>1, ShownShape
<1>3. CASE GiveUp(r, w, Shown(shown))
  BY <1>2, <1>3 DEF GiveUp
<1>4. CASE GiveUp(r, w, active)
  BY <1>1, <1>4, ActiveSame DEF GiveUp
<1> QED BY <1>3, <1>4

\* on_pipeline_failed has the shape of a slot.
LEMMA PipelineFailedShape ==
  ASSUME Typed, OneWorker, Signals, OnPipelineFailed
  PROVE  Slot(Src)
<1> DEFINE w == Src
           r == worker[Src].run
<1>1. /\ queue # <<>> /\ main = Idle /\ queue' = Tail(queue) /\ SlotFrame
           /\ UNCHANGED <<worker, published>>
      /\ Head(queue).kind = "failed" /\ worker[w].eng = "pipeline" /\ GiveUp(r, w, active)
  BY DEF OnPipelineFailed, Posted, Take, SlotFrame, PipelineSlotFrame
<1>2. w \in WorkerIds /\ r \in RunIds /\ status[r] # "none"
  BY <1>1, SrcFacts
<1>3. RunSettles(r) /\ (UNCHANGED ui \/ Heard(w))
  BY <1>2, SettleFailedMoves, FinishHeard, StatusSame DEF OnPipelineFailed
<1>4. Reports(Head(queue))
  BY <1>1 DEF Reports, Src
<1> QED BY <1>1, <1>3, <1>4, GiveUpShape DEF Slot, PipelineSlot, Publishes

\* on_pipeline_finished has the shape of a slot.
LEMMA PipelineFinishedShape ==
  ASSUME Typed, OneWorker, Signals, OnPipelineFinished
  PROVE  Slot(Src)
<1> DEFINE w == Src
           r == worker[Src].run
           o == Head(queue).what
<1>1. /\ queue # <<>> /\ main = Idle /\ queue' = Tail(queue) /\ SlotFrame /\ UNCHANGED worker
      /\ Head(queue).kind = "finished_ok" /\ worker[w].eng = "pipeline"
  BY DEF OnPipelineFinished, Posted, Take, SlotFrame, PipelineSlotFrame
<1>2. w \in WorkerIds /\ r \in RunIds /\ status[r] # "none"
  BY <1>1, SrcFacts
<1>3. o \in Reportable
  BY <1>1, HeadOfQueue DEF Signals, SignalOK, Typed
<1>4. Reports(Head(queue))
  BY <1>1 DEF Reports, Src
<1>5. CASE drain' = Retain(r, w) /\ Bound(r)
        /\ UNCHANGED <<tree, active, status, exe, ui, published, faults>>
  BY <1>1, <1>2, <1>4, <1>5, StatusSame, ActiveSame DEF Slot, PipelineSlot, Publishes, Typed
<1>6. CASE ReportLost(w, r, o)
  <2>1. RunSettles(r) /\ (UNCHANGED ui \/ Heard(w))
    BY <1>2, <1>6, SettleFailedMoves, FinishHeard DEF ReportLost
  <2>2. Publishes(r) /\ \E shown \in BOOLEAN : GiveUp(r, w, Shown(shown))
    BY <1>6 DEF ReportLost, Publishes
  <2> QED BY <1>1, <1>4, <2>1, <2>2, GiveUpShape DEF Slot, PipelineSlot
<1>7. CASE Published(w, r, o)
  <2>1. Publishes(r)
    BY <1>7 DEF Published, Publishes
  <2>2. FinishReport(w, r, o) => RunSettles(r) /\ (UNCHANGED ui \/ Heard(w))
    <3>1. CASE o = "cancelled"
      BY <1>2, <3>1, SettleOrFailMoves DEF FinishReport
    <3>2. CASE o \in {"failed", "failed_with_changes"}
      BY <1>2, <3>2, StatusSame, FinishHeard DEF FinishReport
    <3>3. CASE o \in {"needs_user", "no_changes"}
      BY <1>2, <3>3, StatusSame, FinishHeard DEF FinishReport
    <3> QED BY <1>3, <3>1, <3>2, <3>3 DEF Reportable
  <2>3. Misread(w, r, o) => RunSettles(r) /\ (UNCHANGED ui \/ Heard(w))
    BY <1>2, SettledMoves, StatusSame, FinishHeard DEF Misread
  <2>4. RunSettles(r) /\ (UNCHANGED ui \/ Heard(w))
    BY <1>7, <2>2, <2>3 DEF Published
  <2>5. \E ps \in SUBSET Paths :
           \/ /\ active' = [active EXCEPT !.props = ps] /\ UNCHANGED tree
              /\ \/ UNCHANGED drain
                 \/ Bound(r) /\ drain' = Retain(r, w)
           \/ /\ active' = [active EXCEPT !.props = ps, !.ws = 0] /\ ~Bound(r)
              /\ tree' = Disposed(active.ws) /\ UNCHANGED drain
    <3>1. CASE active' = Shown(Carries(o)) /\ UNCHANGED <<tree, drain>>
      BY <3>1, ShownShape DEF Typed
    <3>2. CASE GiveUp(r, w, Shown(Carries(o)))
      BY <3>2, GiveUpShape
    <3> QED BY <1>7, <3>1, <3>2 DEF Published
  <2> QED BY <1>1, <1>4, <2>1, <2>4, <2>5 DEF Slot, PipelineSlot
<1> QED BY <1>5, <1>6, <1>7 DEF OnPipelineFinished, Overtaken

\* dispose_after_quiescent: with the thread's end, or now.
LEMMA QuietShape ==
  ASSUME Typed, NEW w, DisposeWhenQuiet(w)
  PROVE  \E ps \in SUBSET Paths :
           \/ /\ Alive(w) /\ worker' = [worker EXCEPT ![w].dispose = TRUE]
              /\ active' = [active EXCEPT !.props = ps] /\ UNCHANGED tree
           \/ ~Alive(w) /\ UNCHANGED worker /\ Gives(worker[w].run, ps)
<1>1. active \in ActiveStates /\ active.props \in SUBSET Paths
  BY DEF Typed, ActiveStates
<1>2. CASE Alive(w)
  BY <1>1, <1>2, ActiveSame DEF DisposeWhenQuiet
<1>3. CASE ~Alive(w)
  BY <1>1, <1>3, DisposeAgentShape DEF DisposeWhenQuiet
<1> QED BY <1>2, <1>3

\* The slots of an agent's worker have the shape of a slot.
LEMMA AgentShape ==
  ASSUME Typed, OneWorker, Signals, Recorded, OnAgentFailed \/ OnAgentComplete
  PROVE  Slot(Src)
<1> DEFINE w == Src
           r == worker[Src].run
           o == Head(queue).what
<1>1. /\ queue # <<>> /\ main = Idle /\ queue' = Tail(queue) /\ SlotFrame /\ UNCHANGED drain
      /\ Head(queue).kind \in {"failed", "finished_ok"} /\ worker[w].eng = "agent"
  BY DEF OnAgentFailed, OnAgentComplete, Posted, Take, SlotFrame, AgentSlotFrame, collab
<1>2. w \in WorkerIds /\ r \in RunIds /\ status[r] # "none"
  BY <1>1, SrcFacts
<1>3. Reports(Head(queue)) /\ ui[w] = "none"
  BY <1>1, HeadOfQueue DEF Reports, Src, Signals, SignalOK, Typed
<1>4. CASE OnAgentFailed
  <2>1. status[r] = "RUNNING" /\ Publishes(r)
    <3>1. UNCHANGED published /\ Head(queue).kind = "failed"
      BY <1>4 DEF OnAgentFailed, Posted
    <3>2. Head(queue) = queue[1] /\ 1 \in 1..Len(queue)
      BY <1>1, HeadOfQueue DEF Typed
    <3>3. worker[queue[1].worker].eng = "agent" /\ queue[1].kind = "failed" /\ r = worker[queue[1].worker].run
      BY <1>1, <3>1, <3>2 DEF Src
    <3>4. status[worker[queue[1].worker].run] = "RUNNING"
      BY <3>2, <3>3 DEF Recorded
    <3> QED BY <3>1, <3>3, <3>4 DEF Publishes
  <2>2. CASE UNCHANGED <<active, status, worker, ui, tree>>
    BY <1>1, <1>2, <1>3, <2>1, <2>2, StatusSame, ActiveSame DEF Slot, AgentSlot, Typed
  <2>3. CASE /\ status' = [status EXCEPT ![r] = IF @ = "RUNNING" THEN "FAILED" ELSE @]
             /\ DisposeWhenQuiet(w) /\ Finish(w, "failed")
    <3>1. status' = [status EXCEPT ![r] = "FAILED"]
      BY <2>1, <2>3
    <3>2. RunSettles(r) /\ status'[r] \in Terminal
      BY <1>2, <2>1, <3>1 DEF RunSettles, RunMoves, Statuses, Terminal, Typed
    <3>3. UNCHANGED ui \/ Heard(w)
      BY <1>2, <2>3, FinishHeard
    <3> QED BY <1>1, <1>3, <2>1, <2>3, <3>2, <3>3, QuietShape DEF Slot, AgentSlot
  <2> QED BY <1>4, <2>2, <2>3 DEF OnAgentFailed
<1>5. CASE OnAgentComplete
  <2>1. CASE active' = Shown(TRUE) /\ Publish(r, file) /\ Finish(w, "done")
          /\ UNCHANGED <<status, worker, tree>>
    <3>1. \E ps \in SUBSET Paths : active' = [active EXCEPT !.props = ps]
      BY <2>1, ShownShape DEF Typed
    <3> QED BY <1>1, <1>2, <1>3, <2>1, <3>1, FinishHeard, StatusSame DEF Slot, AgentSlot, Publishes
  <2>2. CASE AgentReportLost(w, r)
    <3>1. PICK shown \in BOOLEAN :
            /\ IF shown THEN Publish(r, file) ELSE UNCHANGED published
            /\ \/ active' = Shown(shown) /\ UNCHANGED <<status, worker, ui, tree>>
               \/ /\ status' = Ended(r, "FAILED") /\ Finish(w, "failed")
                  /\ \/ /\ Alive(w) /\ worker' = [worker EXCEPT ![w].dispose = TRUE]
                        /\ active' = Shown(shown) /\ UNCHANGED tree
                     \/ /\ ~Alive(w) /\ tree' = Disposed(r) /\ UNCHANGED worker
                        /\ active' = [Shown(shown) EXCEPT !.ws = IF @ = r THEN 0 ELSE @]
                     \/ /\ ~Alive(w) /\ tree' = Torn(r) /\ UNCHANGED worker
                        /\ active' = Shown(shown)
      BY <2>2 DEF AgentReportLost
    <3>2. PICK ps \in SUBSET Paths :
            /\ Shown(shown) = [active EXCEPT !.props = ps]
            /\ [Shown(shown) EXCEPT !.ws = IF @ = r THEN 0 ELSE @]
                 = [active EXCEPT !.props = ps, !.ws = IF @ = r THEN 0 ELSE @]
      BY ShownShape DEF Typed
    <3>3. Publishes(r)
      BY <3>1 DEF Publishes
    <3>4. CASE active' = Shown(shown) /\ UNCHANGED <<status, worker, ui, tree>>
      BY <1>1, <1>2, <1>3, <3>2, <3>3, <3>4, StatusSame DEF Slot, AgentSlot
    <3>5. CASE status' = Ended(r, "FAILED") /\ Finish(w, "failed")
      <4>1. RunSettles(r) /\ status'[r] \in Terminal
        <5>1. CASE status[r] \in Terminal
          <6>1. UNCHANGED status
            BY <3>5, <5>1 DEF Ended, Typed
          <6> QED BY <1>2, <5>1, <6>1, StatusSame
        <5>2. CASE status[r] \notin Terminal
          BY <1>2, <3>5, <5>2 DEF Ended, RunSettles, RunMoves, Statuses, Terminal, Typed
        <5> QED BY <5>1, <5>2
      <4>2. UNCHANGED ui \/ Heard(w)
        BY <1>2, <3>5, FinishHeard
      <4>3. \/ active' = [active EXCEPT !.props = ps] /\ UNCHANGED <<worker, tree>>
            \/ /\ Alive(w) /\ worker' = [worker EXCEPT ![w].dispose = TRUE]
               /\ active' = [active EXCEPT !.props = ps] /\ UNCHANGED tree
            \/ ~Alive(w) /\ UNCHANGED worker /\ Gives(r, ps)
        BY <3>1, <3>2 DEF Gives
      <4> QED BY <1>1, <1>3, <3>3, <4>1, <4>2, <4>3 DEF Slot, AgentSlot
    <3> QED BY <3>1, <3>4, <3>5
  <2>3. CASE /\ o # "needs_user" /\ DisposeWhenQuiet(w) /\ UNCHANGED <<status, published>>
             /\ Finish(w, CASE o = "no_changes" -> "done" [] o = "cancelled" -> "cancelled" [] OTHER -> "failed")
    <3>1. Head(queue).kind = "finished_ok"
      BY <1>5 DEF OnAgentComplete, Posted
    <3>2. status[r] \in Terminal
      BY <1>1, <2>3, <3>1, HeadOfQueue, SMTT(30) DEF Recorded, Src, Typed
    <3>3. UNCHANGED ui \/ Heard(w)
      BY <1>2, <2>3, FinishHeard
    <3> QED BY <1>1, <1>2, <1>3, <2>3, <3>2, <3>3, StatusSame, QuietShape DEF Slot, AgentSlot, Publishes
  <2> QED BY <1>5, <2>1, <2>2, <2>3 DEF OnAgentComplete
<1> QED BY <1>4, <1>5

\* Every slot is of one of these shapes.
LEMMA SlotShapes ==
  ASSUME Typed, OneWorker, Signals, Recorded, SlotNext
  PROVE  Slot(Src)
<1>1. ASSUME OnThreadFinished PROVE Slot(Src)
  <2>1. CASE worker[Src].dispose /\ DisposeAgent(worker[Src].run)
    BY <1>1, <2>1, DisposeAgentShape
       DEF Typed, OnThreadFinished, Posted, Take, Slot, SlotFrame, ThreadSlot, collab, project, published
  <2>2. CASE UNCHANGED <<tree, active>>
    BY <1>1, <2>2
       DEF OnThreadFinished, Posted, Take, Slot, SlotFrame, ThreadSlot, collab, project, published
  <2> QED BY <1>1, <2>1, <2>2 DEF OnThreadFinished
<1> QED BY <1>1, LegacyEndShape, EventShape, PipelineFailedShape, PipelineFinishedShape, AgentShape DEF SlotNext

\* A decision gives the resources to the drain, or releases them.
LEMMA ReleaseShape ==
  ASSUME Typed, Release
  PROVE  \/ /\ active' = [active EXCEPT !.props = {}] /\ UNCHANGED <<tree, sess>>
            /\ UNCHANGED drain \/ (active.sess # 0 /\ drain' = Retain(active.sess, 0))
         \/ /\ active' = [active EXCEPT !.props = {}] /\ active.sess = 0 /\ active.engine = "agent"
            /\ Remains(active.ws) /\ tree' = Torn(active.ws) /\ UNCHANGED <<sess, drain>>
         \/ /\ active' = [active EXCEPT !.props = {}] /\ active.sess # 0 /\ ~Busy(active.sess)
            /\ Remains(active.ws) /\ tree' = Torn(active.ws)
            /\ sess' = [sess EXCEPT ![active.sess] = "closed"] /\ drain' = Retain(active.sess, 0)
         \/ /\ active' = [active EXCEPT !.props = {}, !.ws = 0] /\ active.sess = 0
            /\ tree' = Disposed(active.ws) /\ UNCHANGED <<sess, drain>>
         \/ /\ active' = [active EXCEPT !.props = {}, !.sess = 0, !.ws = 0] /\ active.sess # 0
            /\ ~Busy(active.sess)
            /\ sess' = [sess EXCEPT ![active.sess] = "closed"]
            /\ tree' = Disposed(active.ws) /\ UNCHANGED drain
<1>1. active \in ActiveStates
  BY DEF Typed
<1>2. [active EXCEPT !.props = {}, !.ws = active.ws] = [active EXCEPT !.props = {}]
  BY <1>1 DEF ActiveStates
<1>3. CASE active.sess = 0 /\ active.engine = "legacy"
  BY <1>2, <1>3 DEF Release
<1>4. CASE active.sess = 0 /\ active.engine # "legacy"
  BY <1>4 DEF Release
<1>5. CASE active.sess # 0
  BY <1>5 DEF Release
<1> QED BY <1>3, <1>4, <1>5

\* Every step keeps every variable in its type.
LEMMA TypedStep ==
  ASSUME Typed, OneRun, OneWorker, Following, Signals, Recorded, [Orderly]_vars
  PROVE  Typed'
<1>1. ASSUME NEW e \in Engines, NEW s \in Sessions, Start(e, s) PROVE Typed'
  <2>100. FreeRun \in RunIds
    BY <1>1, FreeRunIsFree DEF Start, StartAdmitted
  <2>101. FreeWorker \in WorkerIds /\ e \in EngineKinds
    BY <1>1, FreeWorkerIsFree, HostAssumption DEF Start, EngineKinds
  <2>1. status' \in [RunIds -> Statuses]
    BY <1>1, <2>100, <2>101 DEF Typed, Start, Statuses, Terminal
  <2>2. worker' \in [WorkerIds -> Threads]
    BY <1>1, <2>100, <2>101, ThreadUpdates, NewThread DEF Typed, Start
  <2>3. tree' \in [RunIds -> {"none", "live", "torn", "disposed"}]
    BY <1>1, <2>100, <2>101 DEF Typed, Start, NewTree, OldTreeGone, Disposed, Torn
  <2>4. sess' \in [RunIds -> {"none", "open", "closed"}]
    BY <1>1, <2>100, <2>101 DEF Typed, Start
  <2>5. active' \in ActiveStates
    BY <1>1, <2>100, <2>101, ActiveUpdates, Bounds DEF Typed, Start, ActiveStates, NoWorker
  <2>6. snap' \in [RunIds -> [Paths -> Contents]]
    BY <1>1, <2>100 DEF Typed, Start
  <2> QED BY <1>1, <2>1, <2>2, <2>3, <2>4, <2>5, <2>6 DEF Typed, Start, NoFault, collab, project, published
<1>2. ASSUME NEW e \in Engines, NEW s \in Sessions, StartFails(e, s) PROVE Typed'
  <2>100. FreeRun \in RunIds
    BY <1>2, FreeRunIsFree DEF StartFails, SessionAfter, Cleared, StartAdmitted
  <2>1. status' \in [RunIds -> Statuses]
    BY <1>2, <2>100 DEF Typed, StartFails, SessionAfter, Cleared, Statuses, Terminal
  <2>2. tree' \in [RunIds -> {"none", "live", "torn", "disposed"}]
    BY <1>2, <2>100 DEF Typed, StartFails, SessionAfter, Cleared, OldTreeGone, Disposed, Torn
  <2>3. sess' \in [RunIds -> {"none", "open", "closed"}]
    BY <1>2, <2>100 DEF Typed, StartFails, SessionAfter, Cleared
  <2>4. drain' \in SUBSET (RunIds \X (0..MaxWorkers))
    <3>1. Retain(FreeRun, 0) \subseteq RunIds \X (0..MaxWorkers)
      BY <2>100, RetainTyped, Bounds DEF Typed
    <3> QED BY <1>2, <3>1 DEF StartFails, SessionAfter, Cleared, Typed
  <2>5. active' \in ActiveStates
    <3>1. \A x \in {0, FreeRun}, k \in EngineKinds :
            [run |-> 0, engine |-> k, worker |-> 0, ws |-> 0, sess |-> x, coord |-> 0, props |-> {}] \in ActiveStates
      BY <2>100, Bounds DEF ActiveStates
    <3>2. e \in EngineKinds /\ "legacy" \in EngineKinds
      BY HostAssumption DEF EngineKinds
    <3>3. \A x \in 0..MaxRuns : [active EXCEPT !.ws = x] \in ActiveStates
      BY ActiveUpdates, Bounds DEF Typed
    <3>4. active.ws \in 0..MaxRuns /\ 0 \in 0..MaxRuns
      BY ActiveUpdates, Bounds DEF Typed
    <3>5. [Cleared(e, FreeRun, TRUE) EXCEPT !.run = FreeRun, !.ws = FreeRun, !.coord = FreeRun] \in ActiveStates
      BY <2>100, <3>2, Bounds DEF ActiveStates, Cleared
    <3> QED BY <1>2, <3>1, <3>2, <3>3, <3>4, <3>5 DEF StartFails, Cleared
  <2> QED BY <1>2, <2>1, <2>2, <2>3, <2>4, <2>5 DEF Typed, StartFails, SessionAfter, Cleared, project, published
<1>3. CASE FollowUpCheck
  <2>1. main' \in Requests
    BY <1>3, RequestUpdates DEF Typed, FollowUpCheck
  <2> QED BY <1>3, <2>1 DEF Typed, FollowUpCheck, NoFault, collab, project, published
<1>4. CASE Cancel
  <2>1. worker' \in [WorkerIds -> Threads]
    BY <1>4, ThreadUpdates, NewThread DEF Typed, Cancel
  <2> QED BY <1>4, <2>1 DEF Typed, Cancel, NoFault, collab, project, published
<1>5. CASE Reject
  <2>1. main' \in Requests
    <3>1. active.coord \in 0..MaxRuns
      BY DEF Typed, ActiveStates
    <3> QED BY <1>5, <3>1, RejectRequest DEF Reject
  <2> QED BY <1>5, <2>1 DEF Typed, Reject, NoFault, collab, project, published
<1>6. CASE ShutdownAsk
  <2>1. main' \in Requests
    BY <1>6, RequestUpdates DEF Typed, ShutdownAsk
  <2>2. worker' \in [WorkerIds -> Threads]
    BY <1>6, ThreadUpdates, NewThread DEF Typed, ShutdownAsk
  <2> QED BY <1>6, <2>1, <2>2 DEF Typed, ShutdownAsk, NoFault, collab, project, published
<1>7. ASSUME NEW wanted \in SUBSET Paths, ApplyCheck(wanted) PROVE Typed'
  <2>1. main' \in Requests
    BY <1>7, RequestUpdates DEF Typed, ApplyCheck, Requests, ActiveStates, Deciding
  <2> QED BY <1>7, <2>1 DEF Typed, ApplyCheck, NoFault, collab, project, published
<1>8. ASSUME NEW r \in RunIds, Undo(r) PROVE Typed'
  <2>1. file' \in [Paths -> Contents]
    BY <1>8, RestoredFiles DEF Undo, Typed
  <2> QED BY <1>8, <2>1 DEF Typed, Undo, NoFault, collab, published
<1>9. ASSUME NEW p \in Paths, Edit(p) PROVE Typed'
  <2>1. file' \in [Paths -> Contents]
    BY <1>9, EditBound DEF Edit, Typed
  <2>2. late' \in SUBSET Contents
    BY <1>9, EditBound DEF Typed, Edit
  <2>3. edits' \in 0..MaxEdits
    BY <1>9, EditBound DEF Typed, Edit
  <2> QED BY <1>9, <2>1, <2>2, <2>3 DEF Typed, Edit, NoFault, collab, published
<1>10. CASE SlotNext
  <2>1. Slot(Src) /\ Src \in WorkerIds /\ worker[Src].run \in RunIds /\ queue' \in Seq(Posts)
    BY <1>10, SlotShapes, SrcFacts DEF Slot
  <2>2. status' \in [RunIds -> Statuses]
          /\ ui' \in [WorkerIds -> {"none", "done", "failed", "cancelled"}]
    <3>1. RunMoves(worker[Src].run) => status' \in [RunIds -> Statuses]
      BY <2>1 DEF RunMoves, Typed
    <3>2. Heard(Src) => ui' \in [WorkerIds -> {"none", "done", "failed", "cancelled"}]
      BY <2>1 DEF Heard, Typed
    <3> QED BY <2>1, <3>1, <3>2 DEF Slot, LegacySlot, PipelineSlot, AgentSlot, ThreadSlot,
                                    OnThreadFinished, RunSettles, Typed
  <2>3. /\ base' \in [Paths -> Contents] /\ origin' \in [Paths -> Contents]
        /\ early' \in SUBSET Contents
    <3>1. ASSUME NEW b \in [Paths -> Contents], Publish(worker[Src].run, b)
          PROVE  /\ base' \in [Paths -> Contents] /\ origin' \in [Paths -> Contents]
                 /\ early' \in SUBSET Contents
      BY <2>1, <3>1 DEF Publish, Typed
    <3>2. UNCHANGED published \/ Publishes(worker[Src].run)
      BY <2>1 DEF Slot, LegacySlot, PipelineSlot, AgentSlot, ThreadSlot
    <3>3. file \in [Paths -> Contents] /\ hashed[worker[Src].run] \in [Paths -> Contents]
      BY <2>1 DEF Typed
    <3> QED BY <3>1, <3>2, <3>3 DEF Publishes, published, Typed
  <2>4. worker' \in [WorkerIds -> Threads]
    <3>1. /\ [worker EXCEPT ![Src].cancel = TRUE] \in [WorkerIds -> Threads]
          /\ [worker EXCEPT ![Src].dispose = TRUE] \in [WorkerIds -> Threads]
      BY <2>1, ThreadUpdates DEF Typed
    <3> QED BY <2>1, <3>1 DEF Slot, LegacySlot, PipelineSlot, AgentSlot, ThreadSlot, Typed
  <2>5. tree' \in [RunIds -> {"none", "live", "torn", "disposed"}]
    BY <2>1 DEF Slot, LegacySlot, PipelineSlot, AgentSlot, Gives, Disposed, Torn, ThreadSlot, Typed
  <2>6. drain' \in SUBSET (RunIds \X (0..MaxWorkers))
    BY <2>1, RetainTyped, Bounds DEF Slot, LegacySlot, PipelineSlot, AgentSlot, ThreadSlot,
                                     OnThreadFinished, collab, Typed
  <2>7. active' \in ActiveStates
    <3>1. /\ \A ps \in SUBSET Paths, x \in 0..MaxRuns :
                /\ [active EXCEPT !.props = ps] \in ActiveStates
                /\ [active EXCEPT !.ws = x] \in ActiveStates
                /\ [active EXCEPT !.props = ps, !.ws = x] \in ActiveStates
          /\ active.ws \in 0..MaxRuns /\ 0 \in 0..MaxRuns /\ Paths \in SUBSET Paths
               /\ active \in ActiveStates
      BY ActiveUpdates, Bounds DEF Typed
    <3>2. LegacySlot(Src) \/ PipelineSlot(Src) => active' \in ActiveStates
      BY <3>1 DEF LegacySlot, PipelineSlot
    <3>5. ASSUME NEW ps \in SUBSET Paths, Gives(worker[Src].run, ps) PROVE active' \in ActiveStates
      <4>1. (IF active.ws = worker[Src].run THEN 0 ELSE active.ws) \in 0..MaxRuns
        BY <3>1
      <4> QED BY <3>1, <3>5, <4>1 DEF Gives
    <3>3. AgentSlot(Src) => active' \in ActiveStates
      BY <3>1, <3>5 DEF AgentSlot
    <3>4. ThreadSlot(Src) => active' \in ActiveStates
      <4>1. active.props \in SUBSET Paths
        BY <3>1 DEF ActiveStates
      <4> QED BY <3>1, <3>5, <4>1 DEF ThreadSlot
    <3> QED BY <2>1, <3>2, <3>3, <3>4 DEF Slot
  <2> QED BY <2>1, <2>2, <2>3, <2>4, <2>5, <2>6, <2>7 DEF Slot, SlotFrame, Typed
<1>11. CASE Checkpoint
  <2>1. main' \in Requests
    BY <1>11, RequestUpdates DEF Typed, Checkpoint
  <2>2. ckpt' \in [RunIds -> SUBSET (Paths \X Contents)]
    <3>1. main.wanted \subseteq Paths
      BY RequestUpdates DEF Typed
    <3>2. {<<p, file[p]>> : p \in main.wanted} \subseteq Paths \X Contents
      BY <3>1 DEF Typed
    <3> QED BY <1>11, <3>2 DEF Checkpoint, Typed
  <2> QED BY <1>11, <2>1, <2>2 DEF Typed, Checkpoint, NoFault, collab, published
<1>12. ASSUME NEW p \in Paths, Write(p) PROVE Typed'
  <2>1. main' \in Requests
    <3>1. /\ [main EXCEPT !.todo = @ \ {p}] \in Requests
          /\ [main EXCEPT !.todo = @ \ {p}, !.errors = TRUE] \in Requests
      BY RequestUpdates DEF Typed
    <3> QED BY <1>12, <3>1 DEF Write
  <2>2. file' \in [Paths -> Contents]
    <3>1. main.run \in Contents
      BY RequestUpdates, Bounds DEF Typed
    <3> QED BY <1>12, <3>1 DEF Write, Typed
  <2> QED BY <1>12, <2>1, <2>2 DEF Typed, Write, NoFault, ApplyFrame, published
<1>13. CASE ApplySettle
  <2>1. main' \in Requests
    <3>1. [main EXCEPT !.pc = "release"] \in Requests /\ [main EXCEPT !.errors = TRUE] \in Requests
      BY RequestUpdates DEF Typed
    <3> QED BY <1>13, <3>1 DEF ApplySettle
  <2>2. status' \in [RunIds -> Statuses]
    <3>1. status' = [status EXCEPT ![main.run] = "SUCCEEDED"] \/ UNCHANGED status
      BY <1>13 DEF ApplySettle
    <3> QED BY <3>1 DEF Typed, Statuses, Terminal
  <2>3. applied' \in SUBSET RunIds
    <3>1. main.run \in RunIds
      BY <1>13, RequestUpdates, Bounds DEF ApplySettle, OneRun, Typed
    <3> QED BY <1>13, <3>1 DEF ApplySettle, Typed
  <2> QED BY <1>13, <2>1, <2>2, <2>3 DEF Typed, ApplySettle, NoFault, ApplyFrame, published
<1>14. CASE DecisionRelease
  <2>100. \A ps \in SUBSET Paths : /\ [active EXCEPT !.props = ps] \in ActiveStates
                                /\ [active EXCEPT !.props = ps, !.ws = 0] \in ActiveStates
                                /\ [active EXCEPT !.props = ps, !.sess = 0, !.ws = 0] \in ActiveStates
    BY ActiveUpdates, Bounds DEF Typed
  <2>101. active.sess # 0 => active.sess \in RunIds
            /\ Retain(active.sess, 0) \subseteq RunIds \X (0..MaxWorkers)
    BY RetainTyped, ActiveUpdates, Bounds DEF Typed
  <2>1. active' \in ActiveStates
    <3>1. {} \in SUBSET Paths
      OBVIOUS
    <3> QED BY <1>14, <2>100, <3>1, ReleaseShape DEF DecisionRelease
  <2>2. tree' \in [RunIds -> {"none", "live", "torn", "disposed"}]
    BY <1>14, ReleaseShape DEF DecisionRelease, Typed, Disposed, Torn
  <2>3. sess' \in [RunIds -> {"none", "open", "closed"}]
    BY <1>14, ReleaseShape DEF DecisionRelease, Typed
  <2>4. drain' \in SUBSET (RunIds \X (0..MaxWorkers))
    BY <1>14, <2>101, ReleaseShape DEF DecisionRelease, Typed
  <2>5. main' \in Requests
    BY <1>14, RequestUpdates DEF DecisionRelease, Typed
  <2> QED BY <1>14, <2>1, <2>2, <2>3, <2>4, <2>5 DEF Typed, DecisionRelease, project, published
<1>15. CASE Restore
  <2>1. main' \in Requests
    BY <1>15, RequestUpdates DEF Typed, Restore
  <2>2. file' \in [Paths -> Contents]
    <3>1. Restored(ckpt[main.run]) \in [Paths -> Contents]
      BY RestoredFiles DEF Typed
    <3> QED BY <1>15, <3>1 DEF Restore, Typed
  <2>3. ckpt' \in [RunIds -> SUBSET (Paths \X Contents)]
    BY <1>15, RequestUpdates DEF Typed, Restore
  <2> QED BY <1>15, <2>1, <2>2, <2>3 DEF Typed, Restore, NoFault, ApplyFrame, published
<1>16. CASE FollowUpStart
  <2>100. FreeWorker \in WorkerIds /\ active.coord \in RunIds /\ active.engine \in EngineKinds
    BY <1>16, FreeWorkerIsFree, Bounds, ActiveUpdates DEF FollowUpStart, Following, OneRun, Typed
  <2>1. worker' \in [WorkerIds -> Threads]
    <3>1. \A f, g \in BOOLEAN :
            [NoWorker EXCEPT !.run = active.coord, !.eng = active.engine, !.pc = "running",
                             !.follow = f, !.retired = g] \in Threads
      BY <2>100, NewThread
    <3>3. UNCHANGED worker \/ worker' = [worker EXCEPT ![FreeWorker] = FollowUpThread(active.coord, active.engine)]
      BY <1>16 DEF FollowUpStart
    <3>2. (active.engine = "pipeline") \in BOOLEAN
            /\ (Draining(active.coord) \/ sess[active.coord] = "closed") \in BOOLEAN
      BY DEF Draining
    <3> QED BY <2>100, <3>1, <3>2, <3>3 DEF FollowUpThread, Typed
  <2>2. status' \in [RunIds -> Statuses]
    BY <1>16, <2>100 DEF Typed, FollowUpStart, Statuses, Terminal
  <2>3. active' \in ActiveStates
    <3>1. FreeWorker \in 0..MaxWorkers /\ {} \in SUBSET Paths
      BY <2>100, Bounds
    <3>2. /\ [active EXCEPT !.worker = FreeWorker, !.props = {}] \in ActiveStates
          /\ [active EXCEPT !.worker = 0, !.ws = 0, !.props = {}] \in ActiveStates
          /\ [active EXCEPT !.worker = 0, !.props = {}] \in ActiveStates
      BY <3>1, Bounds, ActiveUpdates DEF Typed
    <3> QED BY <1>16, <3>2 DEF FollowUpStart, Typed
  <2>4. tree' \in [RunIds -> {"none", "live", "torn", "disposed"}]
    BY <1>16, <2>100 DEF Typed, FollowUpStart, Disposed, Torn
  <2>5. main' \in Requests
    BY <1>16, <2>100, RequestUpdates DEF Typed, FollowUpStart
  <2> QED BY <1>16, <2>1, <2>2, <2>3, <2>4, <2>5 DEF Typed, FollowUpStart, NoFault, collab,
       project, published
<1>17. CASE ShutdownRelease
  <2>1. main' \in Requests
    BY <1>17, RequestUpdates DEF Typed, ShutdownRelease
  <2>2. drain' \in SUBSET (RunIds \X (0..MaxWorkers))
    <3>1. active.sess # 0 => Retain(active.sess, active.worker) \subseteq RunIds \X (0..MaxWorkers)
      BY RetainTyped, ActiveUpdates, Bounds DEF Typed
    <3> QED BY <1>17, <3>1 DEF ShutdownRelease, Typed
  <2>3. tree' \in [RunIds -> {"none", "live", "torn", "disposed"}]
    BY <1>17 DEF Typed, ShutdownRelease, DisposeAgent, Disposed, Torn
  <2>4. active' \in ActiveStates
    <3>1. [active EXCEPT !.ws = 0] \in ActiveStates
      BY ActiveUpdates, Bounds DEF Typed
    <3> QED BY <1>17, <3>1 DEF ShutdownRelease, DisposeAgent, Typed
  <2> QED BY <1>17, <2>1, <2>2, <2>3, <2>4 DEF Typed, ShutdownRelease, NoFault, project, published
<1>18. ASSUME NEW w \in WorkerIds, Resume(w) PROVE Typed'
  <2>1. status' \in [RunIds -> Statuses]
    BY <1>18 DEF Typed, Resume, Statuses, Terminal
  <2>2. worker' \in [WorkerIds -> Threads]
    BY <1>18, ThreadUpdates, NewThread DEF Typed, Resume
  <2> QED BY <1>18, <2>1, <2>2 DEF Typed, Resume, NoFault, WorkerOnly, collab, project, published
<1>19. ASSUME NEW w \in WorkerIds, NEW o \in Reportable, Report(w, o) PROVE Typed'
  <2>1. status' \in [RunIds -> Statuses]
    <3>1. worker[w].run \in RunIds
      BY <1>19, RunOfThread DEF Report
    <3>2. Reported(worker[w].run, o) \in Statuses
      BY <3>1 DEF Reported, Reportable, Statuses, Terminal, Typed
    <3> QED BY <1>19, <3>1, <3>2 DEF Report, Typed
  <2>2. worker' \in [WorkerIds -> Threads]
    BY <1>19, ThreadUpdates, NewThread DEF Typed, Report, Post
  <2>3. queue' \in Seq(Posts)
    BY <1>19 DEF Typed, Report, Post, Posts, Reportable, Emitted
  <2> QED BY <1>19, <2>1, <2>2, <2>3 DEF Typed, Report, NoFault, WorkerOnly, collab, project, published
<1>20. ASSUME NEW w \in WorkerIds, Raise(w) PROVE Typed'
  <2>1. worker' \in [WorkerIds -> Threads]
    BY <1>20, ThreadUpdates, NewThread DEF Typed, Raise, Post
  <2>2. queue' \in Seq(Posts)
    BY <1>20 DEF Typed, Raise, Post, Posts, Reportable, Emitted
  <2> QED BY <1>20, <2>1, <2>2 DEF Typed, Raise, WorkerOnly, collab, project, published
<1>21. ASSUME NEW w \in WorkerIds, NEW what \in Emitted, LegacyEmit(w, what) PROVE Typed'
  <2>1. worker' \in [WorkerIds -> Threads]
    BY <1>21, ThreadUpdates, NewThread DEF Typed, LegacyEmit, Post
  <2>2. queue' \in Seq(Posts)
    BY <1>21 DEF Typed, LegacyEmit, Post, Posts, Reportable, Emitted
  <2> QED BY <1>21, <2>1, <2>2 DEF Typed, LegacyEmit, NoFault, WorkerOnly, collab, project, published
<1>22. ASSUME NEW w \in WorkerIds, LegacyCancelled(w) PROVE Typed'
  <2>1. worker' \in [WorkerIds -> Threads]
    BY <1>22, ThreadUpdates, NewThread DEF Typed, LegacyCancelled, Post
  <2>2. queue' \in Seq(Posts)
    BY <1>22 DEF Typed, LegacyCancelled, Post, Posts, Reportable, Emitted
  <2> QED BY <1>22, <2>1, <2>2 DEF Typed, LegacyCancelled, NoFault, WorkerOnly, collab, project, published
<1>23. ASSUME NEW w \in WorkerIds, Exit(w) PROVE Typed'
  <2>1. worker' \in [WorkerIds -> Threads]
    BY <1>23, ThreadUpdates, NewThread DEF Typed, Exit, Post
  <2>2. queue' \in Seq(Posts)
    BY <1>23 DEF Typed, Exit, Post, Posts, Reportable, Emitted
  <2> QED BY <1>23, <2>1, <2>2 DEF Typed, Exit, NoFault, WorkerOnly, collab, project, published
<1>24. ASSUME NEW d \in Deliveries, Capture(d) PROVE Typed'
  <2>1. delivery' \in [Deliveries -> Borrowers]
    BY <1>24, BorrowerUpdates DEF Typed, Capture, Borrowers, ActiveStates
  <2> QED BY <1>24, <2>1 DEF Typed, Capture, NoFault, project, published
<1>25. ASSUME NEW d \in Deliveries, Lease(d) PROVE Typed'
  <2>1. delivery' \in [Deliveries -> Borrowers]
    <3>1. \A x \in {"idle", "leased", "using"} : [delivery[d] EXCEPT !.pc = x] \in Borrowers
      BY BorrowerUpdates DEF Typed
    <3>2. \E x \in {"idle", "leased", "using"} : delivery' = [delivery EXCEPT ![d].pc = x]
      BY <1>25 DEF Lease, DeliveryStep
    <3> QED BY <3>1, <3>2 DEF Typed
  <2> QED BY <1>25, <2>1 DEF Typed, Lease, DeliveryStep, NoFault, project, published
<1>26. ASSUME NEW d \in Deliveries, Validate(d) PROVE Typed'
  <2>1. delivery' \in [Deliveries -> Borrowers]
    <3>1. \A x \in {"idle", "leased", "using"} : [delivery[d] EXCEPT !.pc = x] \in Borrowers
      BY BorrowerUpdates DEF Typed
    <3>2. \E x \in {"idle", "leased", "using"} : delivery' = [delivery EXCEPT ![d].pc = x]
      BY <1>26 DEF Validate, DeliveryStep
    <3> QED BY <3>1, <3>2 DEF Typed
  <2> QED BY <1>26, <2>1 DEF Typed, Validate, DeliveryStep, NoFault, project, published
<1>27. ASSUME NEW d \in Deliveries, Return(d) PROVE Typed'
  <2>1. delivery' \in [Deliveries -> Borrowers]
    BY <1>27, BorrowerUpdates DEF Typed, Return, DeliveryStep
  <2> QED BY <1>27, <2>1 DEF Typed, Return, DeliveryStep, NoFault, project, published
<1>28. ASSUME NEW r \in RunIds, DrainBegin(r) PROVE Typed'
  <2>1. closing' \in SUBSET RunIds
    BY <1>28 DEF Typed, DrainBegin
  <2> QED BY <1>28, <2>1 DEF Typed, DrainBegin, NoFault, project, published
<1>29. ASSUME NEW r \in RunIds, DrainEnd(r) PROVE Typed'
  <2>1. closing' \in SUBSET RunIds
    BY <1>29 DEF Typed, DrainEnd
  <2>2. sess' \in [RunIds -> {"none", "open", "closed"}]
    BY <1>29 DEF Typed, DrainEnd
  <2>3. tree' \in [RunIds -> {"none", "live", "torn", "disposed"}]
    BY <1>29 DEF Typed, DrainEnd, Disposed, Torn
  <2>4. drain' \in SUBSET (RunIds \X (0..MaxWorkers))
    BY <1>29, RetainTyped, ActiveUpdates, Bounds DEF Typed, DrainEnd
  <2>5. active' \in ActiveStates
    <3>1. active.ws \in 0..MaxRuns
            /\ \A x \in 0..MaxRuns : [active EXCEPT !.sess = 0, !.ws = x] \in ActiveStates
      BY ActiveUpdates, Bounds DEF Typed
    <3>2. (IF active.ws = r THEN 0 ELSE active.ws) \in 0..MaxRuns
      BY <3>1, Bounds
    <3> QED BY <1>29, <3>1, <3>2 DEF DrainEnd, Typed
  <2> QED BY <1>29, <2>1, <2>2, <2>3, <2>4, <2>5 DEF Typed, DrainEnd, NoFault, project, published
<1>31. CASE OldTreeKept
  <2>1. tree' \in [RunIds -> {"none", "live", "torn", "disposed"}]
    BY <1>31 DEF OldTreeKept, Torn, Typed
  <2> QED BY <1>31, <2>1 DEF Typed, OldTreeKept, collab, project, published
<1>32. ASSUME NEW w \in WorkerIds, LegacyRead(w) \/ LegacyHash(w) PROVE Typed'
  <2>1. worker' \in [WorkerIds -> Threads]
    <3>1. /\ [worker[w] EXCEPT !.at = "code"] \in Threads
          /\ [worker[w] EXCEPT !.at = "review"] \in Threads
      BY ThreadUpdates DEF Typed
    <3>2. \E x \in {"code", "review"} : worker' = [worker EXCEPT ![w].at = x]
      BY <1>32 DEF LegacyRead, LegacyHash
    <3> QED BY <3>1, <3>2 DEF Typed
  <2>2. snap' \in [RunIds -> [Paths -> Contents]] /\ hashed' \in [RunIds -> [Paths -> Contents]]
    BY <1>32 DEF Typed, LegacyRead, LegacyHash
  <2> QED BY <1>32, <2>1, <2>2 DEF Typed, LegacyRead, LegacyHash, collab, published
<1>33. CASE RejectSettle
  <2>1. main' \in Requests
    <3>1. [main EXCEPT !.pc = "release"] \in Requests /\ Idle \in Requests
      BY RequestUpdates DEF Typed
    <3> QED BY <1>33, <3>1 DEF RejectSettle
  <2>2. status' \in [RunIds -> Statuses]
    BY <1>33 DEF Typed, RejectSettle, Statuses, Terminal
  <2> QED BY <1>33, <2>1, <2>2 DEF Typed, RejectSettle, collab, project, published
<1>30. CASE UNCHANGED vars
  BY <1>30 DEF vars, Typed
<1> QED BY <1>1, <1>2, <1>3, <1>4, <1>5, <1>6, <1>7, <1>8, <1>9, <1>10, <1>11, <1>12,
          <1>13, <1>14, <1>15, <1>16, <1>17, <1>18, <1>19, <1>20, <1>21, <1>22, <1>23,
          <1>24, <1>25, <1>26, <1>27, <1>28, <1>29, <1>30, <1>31, <1>32, <1>33
       DEF Orderly, UserNext, ApplyNext, WorkerNext, DeliveryNext, Reportable, Emitted

\* What _active refers to exists.
LEMMA ActiveFacts ==
  ASSUME Typed
  PROVE  /\ active.run \in 0..MaxRuns /\ active.ws \in 0..MaxRuns /\ active.sess \in 0..MaxRuns
         /\ active.coord \in 0..MaxRuns /\ active.worker \in 0..MaxWorkers
              /\ active.engine \in EngineKinds
         /\ active.run # 0 => active.run \in RunIds
         /\ active.worker # 0 => active.worker \in WorkerIds
         /\ active.sess # 0 => active.sess \in RunIds
         /\ active.ws # 0 => active.ws \in RunIds
BY Bounds DEF Typed, ActiveStates

\* What no slot changes.
Kept == /\ active'.run = active.run /\ active'.coord = active.coord
             /\ active'.worker = active.worker
        /\ active'.engine = active.engine /\ active'.sess = active.sess
             /\ active'.ws \in {0, active.ws}

\* What no slot changes: whose Run and thread is active, and the threads themselves.
LEMMA SlotKeeps ==
  ASSUME Typed, OneWorker, Signals, Recorded, SlotNext
  PROVE  /\ Kept
         /\ \A v \in WorkerIds : /\ worker'[v].pc = worker[v].pc /\ worker'[v].run = worker[v].run
                                 /\ worker'[v].eng = worker[v].eng
                                      /\ worker'[v].follow = worker[v].follow
                                 /\ worker'[v].retired = worker[v].retired
                                 /\ worker[v].pc = "none" => worker'[v] = worker[v]
         /\ \A r \in RunIds : /\ status[r] # "none" => status'[r] # "none"
                              /\ r # worker[Src].run => status'[r] = status[r]
         /\ \A v \in WorkerIds : /\ v # Src => ui'[v] = ui[v]
                                 /\ ui[v] # "none" => ui'[v] # "none"
         /\ status'[worker[Src].run] # status[worker[Src].run] =>
              worker[Src].eng = "legacy" \/ ui[Src] = "none"
         /\ main = Idle /\ main' = Idle /\ queue # <<>> /\ queue' = Tail(queue)
              /\ UNCHANGED <<sess, delivery, closing>>
<1>1. Slot(Src) /\ Src \in WorkerIds /\ worker[Src].run \in RunIds /\ worker[Src].pc # "none"
  BY SlotShapes, SrcFacts DEF Slot
<1>2. Kept
  <2>1. ASSUME NEW x, active' = active \/ active' = [active EXCEPT !.props = x] PROVE Kept
    BY <2>1 DEF Kept, Typed, ActiveStates
  <2>3. ASSUME NEW x, active' = [active EXCEPT !.props = x, !.ws = 0] PROVE Kept
    BY <2>3 DEF Kept, Typed, ActiveStates
  <2>4. CASE LegacySlot(Src)
    BY <2>1, <2>4 DEF LegacySlot
  <2>5. CASE PipelineSlot(Src)
    BY <2>1, <2>3, <2>5 DEF PipelineSlot
  <2>6. ASSUME NEW ps, Gives(worker[Src].run, ps) PROVE Kept
    BY <2>6 DEF Gives, Kept, Typed, ActiveStates
  <2>7. CASE AgentSlot(Src)
    BY <2>1, <2>6, <2>7 DEF AgentSlot
  <2>8. CASE ThreadSlot(Src)
    BY <2>1, <2>6, <2>8 DEF ThreadSlot
  <2> QED BY <1>1, <2>4, <2>5, <2>7, <2>8 DEF Slot
<1>3. \A v \in WorkerIds : /\ worker'[v].pc = worker[v].pc /\ worker'[v].run = worker[v].run
                           /\ worker'[v].eng = worker[v].eng
                                /\ worker'[v].follow = worker[v].follow
                           /\ worker'[v].retired = worker[v].retired
                           /\ worker[v].pc = "none" => worker'[v] = worker[v]
  <2>1. \/ UNCHANGED worker \/ worker' = [worker EXCEPT ![Src].cancel = TRUE]
        \/ worker' = [worker EXCEPT ![Src].dispose = TRUE]
    BY <1>1 DEF Slot, LegacySlot, PipelineSlot, AgentSlot, ThreadSlot
  <2>2. ASSUME worker' = [worker EXCEPT ![Src].cancel = TRUE], NEW v \in WorkerIds
        PROVE  /\ worker'[v].pc = worker[v].pc /\ worker'[v].run = worker[v].run
               /\ worker'[v].eng = worker[v].eng /\ worker'[v].follow = worker[v].follow
               /\ worker'[v].retired = worker[v].retired
               /\ worker[v].pc = "none" => worker'[v] = worker[v]
    BY <1>1, <2>2 DEF Typed, Threads
  <2>3. ASSUME worker' = [worker EXCEPT ![Src].dispose = TRUE], NEW v \in WorkerIds
        PROVE  /\ worker'[v].pc = worker[v].pc /\ worker'[v].run = worker[v].run
               /\ worker'[v].eng = worker[v].eng /\ worker'[v].follow = worker[v].follow
               /\ worker'[v].retired = worker[v].retired
               /\ worker[v].pc = "none" => worker'[v] = worker[v]
    BY <1>1, <2>3 DEF Typed, Threads
  <2> QED BY <2>1, <2>2, <2>3
<1>4. \A r \in RunIds : /\ status[r] # "none" => status'[r] # "none"
                        /\ r # worker[Src].run => status'[r] = status[r]
  <2>1. RunMoves(worker[Src].run) \/ UNCHANGED status
    BY <1>1 DEF Slot, LegacySlot, PipelineSlot, AgentSlot, ThreadSlot, RunSettles
  <2> QED BY <1>1, <2>1 DEF RunMoves, Typed
<1>5. \A v \in WorkerIds : /\ v # Src => ui'[v] = ui[v]
                           /\ ui[v] # "none" => ui'[v] # "none"
  <2>1. Heard(Src) \/ UNCHANGED ui
    BY <1>1 DEF Slot, LegacySlot, PipelineSlot, AgentSlot, ThreadSlot
  <2> QED BY <1>1, <2>1 DEF Heard, Typed
<1>6. status'[worker[Src].run] # status[worker[Src].run] =>
        worker[Src].eng = "legacy" \/ ui[Src] = "none"
  <2>1. Head(queue) = queue[1] /\ 1 \in 1..Len(queue) /\ Head(queue).worker = Src
    BY <1>1, HeadOfQueue DEF Slot, Src, Typed
  <2>2. Reports(Head(queue)) => ui[Src] = "none"
    BY <2>1 DEF Signals, SignalOK
  <2> QED BY <1>1, <2>2 DEF Slot, LegacySlot, PipelineSlot, AgentSlot, ThreadSlot
<1> QED BY <1>1, <1>2, <1>3, <1>4, <1>5, <1>6 DEF Slot, SlotFrame

\* What no decision changes.
LEMMA ReleaseKeeps ==
  ASSUME Typed, Release
  PROVE  /\ active'.run = active.run /\ active'.coord = active.coord
              /\ active'.worker = active.worker
         /\ active'.engine = active.engine /\ active'.sess \in {0, active.sess}
              /\ active'.ws \in {0, active.ws}
         /\ active'.props = {}
<1>1. \/ active' = [active EXCEPT !.props = {}] \/ active' = [active EXCEPT !.props = {}, !.ws = 0]
      \/ active' = [active EXCEPT !.props = {}, !.sess = 0, !.ws = 0]
  BY ReleaseShape
<1> QED BY <1>1 DEF Typed, ActiveStates

\* A worker's step moves only itself.
LEMMA ThreadMoves ==
  ASSUME Typed, NEW w \in WorkerIds, NEW x, worker' = [worker EXCEPT ![w].pc = x]
  PROVE  /\ worker'[w].pc = x
         /\ \A v \in WorkerIds : /\ worker'[v].run = worker[v].run
                                      /\ worker'[v].eng = worker[v].eng
                                 /\ worker'[v].follow = worker[v].follow
                                      /\ worker'[v].dispose = worker[v].dispose
                                 /\ worker'[v].retired = worker[v].retired
                                 /\ v # w => worker'[v] = worker[v]
BY DEF Typed, Threads

\* The end of an attempt leaves its Run as Reported says, and every other Run alone.
LEMMA ReportKeeps ==
  ASSUME Typed, OneWorker, NEW w \in WorkerIds, NEW o \in Reportable, Report(w, o)
  PROVE  /\ worker[w].run \in RunIds
         /\ status'[worker[w].run] = Reported(worker[w].run, o) /\ status'[worker[w].run] # "none"
         /\ status[worker[w].run] # "RUNNING" => UNCHANGED status
         /\ \A r \in RunIds : r # worker[w].run => status'[r] = status[r]
         /\ \A r \in RunIds : status[r] # "none" => status'[r] # "none"
         /\ o # "needs_user" /\ status[worker[w].run] = "RUNNING"
              => status'[worker[w].run] \in Terminal
<1>1. worker[w].run \in RunIds /\ status[worker[w].run] # "none"
  BY RunOfThread DEF Report, OneWorker
<1>2. status' = [status EXCEPT ![worker[w].run] = Reported(worker[w].run, o)]
  BY DEF Report
<1>3. /\ Reported(worker[w].run, o) # "none"
      /\ (status[worker[w].run] # "RUNNING" => Reported(worker[w].run, o) = status[worker[w].run])
      /\ (o # "needs_user" /\ status[worker[w].run] = "RUNNING" => Reported(worker[w].run, o) \in Terminal)
  BY <1>1 DEF Reported, Reportable, Terminal
<1> QED BY <1>1, <1>2, <1>3 DEF Typed

\* run.start: a new Run and thread, everything else as it was.
LEMMA StartKeeps ==
  ASSUME Typed, OneRun, NEW e \in Engines, NEW s \in Sessions, Start(e, s)
  PROVE  LET r == FreeRun  w == FreeWorker IN
         /\ r \in RunIds /\ status[r] = "none" /\ w \in WorkerIds /\ worker[w].pc = "none"
              /\ e \in EngineKinds
         /\ main = Idle /\ main' = Idle /\ drain = {} /\ drain' = {}
              /\ (active.worker # 0 => ui[active.worker] # "none")
         /\ ~Alive(active.worker) /\ ~BusyAtAll
         /\ status'[r] = "RUNNING" /\ \A q \in RunIds : q # r => status'[q] = status[q]
         /\ worker'[w].run = r /\ worker'[w].eng = e /\ worker'[w].pc = "running"
              /\ ~worker'[w].follow
         /\ ~worker'[w].dispose /\ \A v \in WorkerIds : v # w => worker'[v] = worker[v]
         /\ active'.run = r /\ active'.engine = e /\ active'.worker = w /\ active'.coord = r
              /\ active'.props = {}
         /\ active'.ws = (IF e = "legacy" THEN 0 ELSE r) /\ active'.sess = (IF s THEN r ELSE 0)
         /\ sess'[r] = (IF s THEN "open" ELSE "none") /\ \A q \in RunIds : q # r
              => sess'[q] = sess[q]
         /\ tree'[r] = (IF e = "legacy" THEN "none" ELSE "live")
         /\ \A q \in RunIds : q # r => tree'[q] = tree[q] \/ q = active.ws
         /\ UNCHANGED <<queue, ui, delivery, closing>> /\ (s => e = "pipeline")
<1>1. FreeRun \in RunIds /\ status[FreeRun] = "none" /\ FreeWorker \in WorkerIds
        /\ worker[FreeWorker].pc = "none" /\ e \in EngineKinds
  BY FreeRunIsFree, FreeWorkerIsFree, HostAssumption DEF Start, StartAdmitted, EngineKinds
<1>2. main = Idle /\ main' = Idle /\ drain = {} /\ drain' = {}
        /\ (active.worker # 0 => ui[active.worker] # "none")
      /\ ~Alive(active.worker) /\ ~BusyAtAll /\ UNCHANGED <<queue, ui, delivery, closing>>
           /\ (s => e = "pipeline")
  BY DEF Start, StartAdmitted, UiQuiet, collab
<1>3. status'[FreeRun] = "RUNNING" /\ \A q \in RunIds : q # FreeRun => status'[q] = status[q]
  BY <1>1 DEF Start, Typed
<1>4. /\ worker'[FreeWorker].run = FreeRun /\ worker'[FreeWorker].eng = e
           /\ worker'[FreeWorker].pc = "running"
      /\ ~worker'[FreeWorker].follow /\ ~worker'[FreeWorker].dispose
      /\ \A v \in WorkerIds : v # FreeWorker => worker'[v] = worker[v]
  BY <1>1 DEF Start, Typed, NoWorker
<1>5. /\ active'.run = FreeRun /\ active'.engine = e /\ active'.worker = FreeWorker
           /\ active'.coord = FreeRun
      /\ active'.props = {} /\ active'.ws = (IF e = "legacy" THEN 0 ELSE FreeRun)
           /\ active'.sess = (IF s THEN FreeRun ELSE 0)
  BY DEF Start
<1>6. sess'[FreeRun] = (IF s THEN "open" ELSE "none") /\ \A q \in RunIds : q # FreeRun
        => sess'[q] = sess[q]
  BY <1>1 DEF Start, Typed
<1>7. /\ tree'[FreeRun] = (IF e = "legacy" THEN "none" ELSE "live")
      /\ \A q \in RunIds : q # FreeRun => tree'[q] = tree[q] \/ q = active.ws
  BY <1>1 DEF Start, OldTreeGone, Disposed, Torn, NewTree, Typed
<1> QED BY <1>1, <1>2, <1>3, <1>4, <1>5, <1>6, <1>7

\* A run.start that fails: nothing but the new Run, its session and the old worktree.
LEMMA StartFailsKeeps ==
  ASSUME Typed, OneRun, NEW e \in Engines, NEW s \in Sessions, StartFails(e, s)
  PROVE  LET r == FreeRun IN
         /\ r \in RunIds /\ status[r] = "none"
         /\ main = Idle /\ main' = Idle /\ drain = {}
              /\ (active.worker # 0 => ui[active.worker] # "none")
         /\ ~Alive(active.worker) /\ ~BusyAtAll
         /\ status'[r] \in {"FAILED", "RUNNING"}
              /\ \A q \in RunIds : q # r => status'[q] = status[q]
         /\ \A q \in RunIds : q # r => sess'[q] = sess[q]
         /\ \A q \in RunIds : tree'[q] = tree[q] \/ (q = active.ws /\ active.engine = "agent") \/ q = r
         /\ UNCHANGED <<worker, queue, ui, delivery, closing>>
         /\ \/ active'.run = 0 /\ active'.coord = 0 /\ active'.ws = 0 /\ active'.worker = 0
              /\ active'.props = {}
               /\ active'.sess \in {0, r} /\ (active'.sess = r => sess'[r] # "none")
            \/ /\ active'.run = active.run /\ active'.coord = active.coord
                 /\ active'.worker = active.worker
               /\ active'.engine = active.engine /\ active'.sess = active.sess
                    /\ active'.props = active.props
               /\ active'.ws = IF active.engine = "agent" THEN 0 ELSE active.ws
            \/ /\ active'.run = r /\ active'.coord = r /\ active'.ws = r /\ active'.worker = 0
                 /\ active'.engine = "agent" /\ active'.sess = 0 /\ active'.props = {}
               /\ tree'[r] = "torn" /\ sess'[r] = "none"
         /\ drain' = {} \/ (drain' = {<<r, 0>>} /\ sess'[r] # "none")
<1>1. FreeRun \in RunIds /\ status[FreeRun] = "none"
  BY FreeRunIsFree DEF StartFails, StartAdmitted
<1>2. main = Idle /\ main' = Idle /\ drain = {}
        /\ (active.worker # 0 => ui[active.worker] # "none")
      /\ ~Alive(active.worker) /\ ~BusyAtAll /\ UNCHANGED <<worker, queue, ui, delivery, closing>>
  BY DEF StartFails, StartAdmitted, UiQuiet
<1>3. active \in ActiveStates /\ FreeRun # 0
  BY <1>1, Bounds DEF Typed
<1>4. PICK closed \in BOOLEAN, settled \in {"FAILED", "RUNNING"}, left \in {"none", "torn"} :
        /\ status' = [status EXCEPT ![FreeRun] = settled]
        /\ tree' = [OldTreeGone EXCEPT ![FreeRun] = left]
        /\ SessionAfter(FreeRun, s, closed)
        /\ \/ active' = Cleared(IF e = "agent" THEN "legacy" ELSE e, FreeRun, closed)
           \/ active' = [active EXCEPT !.ws = IF active.engine = "agent" THEN 0 ELSE @]
           \/ /\ e = "agent" /\ left = "torn"
              /\ active' = [Cleared(e, FreeRun, TRUE) EXCEPT !.run = FreeRun, !.ws = FreeRun, !.coord = FreeRun]
  BY DEF StartFails
<1>5. status'[FreeRun] \in {"FAILED", "RUNNING"} /\ \A q \in RunIds : q # FreeRun => status'[q] = status[q]
  BY <1>1, <1>4 DEF Typed
<1>6. /\ \A q \in RunIds : q # FreeRun => sess'[q] = sess[q]
      /\ sess'[FreeRun] = CASE ~s -> "none" [] s /\ closed -> "closed" [] OTHER -> "open"
      /\ ~s => closed
  BY <1>1, <1>4 DEF SessionAfter, Typed
<1>7. /\ \A q \in RunIds : tree'[q] = tree[q] \/ (q = active.ws /\ active.engine = "agent") \/ q = FreeRun
      /\ tree'[FreeRun] = left
  BY <1>1, <1>4 DEF OldTreeGone, Disposed, Typed
<1>8. ~closed => sess'[FreeRun] # "none"
  BY <1>6
<1>9. CASE active' = Cleared(IF e = "agent" THEN "legacy" ELSE e, FreeRun, closed)
  <2>1. active'.run = 0 /\ active'.coord = 0 /\ active'.ws = 0 /\ active'.worker = 0
          /\ active'.props = {} /\ active'.sess \in {0, FreeRun}
          /\ (active'.sess = FreeRun => sess'[FreeRun] # "none")
    BY <1>3, <1>8, <1>9 DEF Cleared
  <2>2. drain' = {} \/ (drain' = {<<FreeRun, 0>>} /\ sess'[FreeRun] # "none")
    BY <1>2, <1>4, <1>8 DEF SessionAfter, Retain, Draining
  <2> QED BY <1>1, <1>2, <1>5, <1>6, <1>7, <2>1, <2>2
<1>10. CASE active' = [active EXCEPT !.ws = IF active.engine = "agent" THEN 0 ELSE @]
  <2>1. /\ active'.run = active.run /\ active'.coord = active.coord
        /\ active'.worker = active.worker
        /\ active'.engine = active.engine /\ active'.sess = active.sess
        /\ active'.props = active.props
        /\ active'.ws = IF active.engine = "agent" THEN 0 ELSE active.ws
    BY <1>3, <1>10 DEF ActiveStates
  <2>2. drain' = {} \/ (drain' = {<<FreeRun, 0>>} /\ sess'[FreeRun] # "none")
    BY <1>2, <1>4, <1>8 DEF SessionAfter, Retain, Draining
  <2> QED BY <1>1, <1>2, <1>5, <1>6, <1>7, <2>1, <2>2
<1>11. CASE /\ e = "agent" /\ left = "torn"
            /\ active' = [Cleared(e, FreeRun, TRUE) EXCEPT !.run = FreeRun, !.ws = FreeRun, !.coord = FreeRun]
  <2>1. active'.run = FreeRun /\ active'.coord = FreeRun /\ active'.ws = FreeRun /\ active'.worker = 0
          /\ active'.engine = "agent" /\ active'.sess = 0 /\ active'.props = {}
    BY <1>11 DEF Cleared
  <2>2. ~s
    BY <1>11 DEF StartFails
  <2>3. tree'[FreeRun] = "torn" /\ sess'[FreeRun] = "none" /\ drain' = {}
    BY <1>2, <1>4, <1>6, <1>7, <1>11, <2>2 DEF SessionAfter
  <2> QED BY <1>1, <1>2, <1>5, <1>6, <1>7, <2>1, <2>3
<1> QED BY <1>4, <1>9, <1>10, <1>11

\* The worker of a follow-up.
Follower(w, r) ==
  /\ worker'[w].run = r /\ worker'[w].eng = active.engine /\ worker'[w].pc = "running"
  /\ worker'[w].follow <=> active.engine = "pipeline"
  /\ worker'[w].retired <=> (Draining(r) \/ sess[r] = "closed")
  /\ ~worker'[w].dispose
  /\ \A v \in WorkerIds : v # w => worker'[v] = worker[v]

\* run.followUp: a new thread of the same Run, or no thread.
LEMMA FollowUpStartKeeps ==
  ASSUME Typed, OneRun, Following, FollowUpStart
  PROVE  LET w == FreeWorker  r == active.run IN
         /\ w \in WorkerIds /\ worker[w].pc = "none" /\ r \in RunIds
              /\ active.worker \in WorkerIds
         /\ main.pc = "follow" /\ main' = Idle
              /\ UNCHANGED <<queue, ui, sess, drain, delivery, closing>>
         /\ active'.run = active.run /\ active'.coord = active.coord
              /\ active'.engine = active.engine /\ active'.sess = active.sess
         /\ \A q \in RunIds : q # r => status'[q] = status[q]
         /\ \/ /\ Follower(w, r)
               /\ status'[r] = IF active.engine = "agent" THEN "RUNNING" ELSE status[r]
               /\ active'.worker = w /\ active'.ws = active.ws /\ active'.props = {}
                    /\ UNCHANGED tree
            \/ UNCHANGED <<worker, status, active, tree>>
            \/ /\ active.engine = "agent" /\ UNCHANGED worker
                 /\ status'[r] \in {"FAILED", "RUNNING"}
               /\ active'.worker = 0 /\ active'.props = {}
               /\ \/ tree' = Disposed(active.ws) /\ active'.ws = 0
                  \/ tree' = Torn(active.ws) /\ active'.ws = active.ws
<1>1. /\ FreeWorker \in WorkerIds /\ worker[FreeWorker].pc = "none" /\ active.run \in RunIds
           /\ active.worker \in WorkerIds
      /\ main.pc = "follow" /\ main' = Idle
           /\ UNCHANGED <<queue, ui, sess, drain, delivery, closing>>
      /\ active.coord = active.run /\ active \in ActiveStates
  BY FreeWorkerIsFree, ActiveFacts DEF FollowUpStart, Following, OneRun, collab, Typed
<1>2. CASE /\ worker' = [worker EXCEPT ![FreeWorker] = FollowUpThread(active.coord, active.engine)]
           /\ status' = [status EXCEPT ![active.coord] = IF active.engine = "agent" THEN "RUNNING" ELSE @]
           /\ active' = [active EXCEPT !.worker = FreeWorker, !.props = {}]
           /\ UNCHANGED tree
  <2>1. Follower(FreeWorker, active.run)
    BY <1>1, <1>2 DEF FollowUpThread, Follower, Typed, NoWorker
  <2>2. /\ status'[active.run] = IF active.engine = "agent" THEN "RUNNING" ELSE status[active.run]
        /\ \A q \in RunIds : q # active.run => status'[q] = status[q]
    BY <1>1, <1>2 DEF Typed
  <2>3. /\ active'.run = active.run /\ active'.coord = active.coord
             /\ active'.engine = active.engine
        /\ active'.sess = active.sess /\ active'.worker = FreeWorker /\ active'.ws = active.ws
             /\ active'.props = {}
    BY <1>1, <1>2 DEF ActiveStates
  <2> QED BY <1>1, <1>2, <2>1, <2>2, <2>3
<1>3. CASE UNCHANGED <<worker, status, active, tree>>
  BY <1>1, <1>3
<1>4. CASE /\ active.engine = "agent" /\ UNCHANGED worker
           /\ \E st \in {"FAILED", "RUNNING"} : status' = [status EXCEPT ![active.coord] = st]
           /\ \/ tree' = Disposed(active.ws) /\ active' = [active EXCEPT !.worker = 0, !.ws = 0, !.props = {}]
              \/ tree' = Torn(active.ws) /\ active' = [active EXCEPT !.worker = 0, !.props = {}]
  <2>1. /\ status'[active.run] \in {"FAILED", "RUNNING"}
        /\ \A q \in RunIds : q # active.run => status'[q] = status[q]
    BY <1>1, <1>4 DEF Typed
  <2>2. /\ active'.run = active.run /\ active'.coord = active.coord
             /\ active'.engine = active.engine
        /\ active'.sess = active.sess /\ active'.worker = 0 /\ active'.props = {}
        /\ \/ tree' = Disposed(active.ws) /\ active'.ws = 0
           \/ tree' = Torn(active.ws) /\ active'.ws = active.ws
    BY <1>1, <1>4 DEF ActiveStates
  <2> QED BY <1>1, <1>4, <2>1, <2>2
<1> QED BY <1>2, <1>3, <1>4 DEF FollowUpStart

\* The end of a release: one Run's session and worktree, or nothing.
LEMMA DrainEndKeeps ==
  ASSUME Typed, NEW r \in RunIds, DrainEnd(r)
  PROVE  /\ active'.run = active.run /\ active'.coord = active.coord
              /\ active'.worker = active.worker
         /\ active'.engine = active.engine /\ active'.props = active.props /\ r \in closing
              /\ closing' = {}
         /\ UNCHANGED <<status, worker, queue, ui, delivery, main>>
         /\ \/ UNCHANGED <<sess, tree, drain, active>>
            \/ /\ drain' = {e \in drain : e[1] # r}
               /\ sess'[r] = "closed" /\ \A q \in RunIds : q # r => sess'[q] = sess[q]
                    /\ tree'[q] = tree[q]
               /\ ~Remains(r)'
               /\ IF active.run = r /\ active.sess = r
                  THEN active'.sess = 0 /\ active'.ws = IF active.ws = r THEN 0 ELSE active.ws
                  ELSE active' = active
            \/ /\ Remains(r) /\ UNCHANGED <<drain, active>> /\ tree'[r] = "torn"
               /\ sess'[r] = "closed" /\ \A q \in RunIds : q # r => sess'[q] = sess[q]
                    /\ tree'[q] = tree[q]
<1>1. active \in ActiveStates /\ r \in closing /\ closing' = {}
        /\ UNCHANGED <<status, worker, queue, ui, delivery, main>>
  BY DEF DrainEnd, Typed
<1>2. CASE UNCHANGED <<sess, tree, drain, active>>
  BY <1>1, <1>2
<1>3. CASE /\ sess' = [sess EXCEPT ![r] = "closed"]
           /\ tree' = IF Remains(r) THEN Disposed(r) ELSE tree
           /\ drain' = {e \in drain : e[1] # r}
           /\ active' = IF active.run = r /\ active.sess = r
                        THEN [active EXCEPT !.sess = 0, !.ws = IF @ = r THEN 0 ELSE @] ELSE active
  <2>1. sess'[r] = "closed" /\ ~Remains(r)' /\ \A q \in RunIds : q # r => sess'[q] = sess[q]
          /\ tree'[q] = tree[q]
    BY <1>3, Bounds DEF Typed, Disposed, Remains
  <2>2. CASE active.run = r /\ active.sess = r
    <3>1. active' = [active EXCEPT !.sess = 0, !.ws = IF @ = r THEN 0 ELSE @]
      BY <1>3, <2>2
    <3>2. /\ active'.run = active.run /\ active'.coord = active.coord
               /\ active'.worker = active.worker
          /\ active'.engine = active.engine /\ active'.props = active.props
          /\ active'.sess = 0 /\ active'.ws = IF active.ws = r THEN 0 ELSE active.ws
      BY <1>1, <3>1 DEF ActiveStates
    <3> QED BY <1>1, <1>3, <2>1, <2>2, <3>2
  <2>3. CASE ~(active.run = r /\ active.sess = r)
    BY <1>1, <1>3, <2>1, <2>3
  <2> QED BY <2>2, <2>3
<1>4. CASE /\ Remains(r) /\ sess' = [sess EXCEPT ![r] = "closed"] /\ tree' = Torn(r)
           /\ UNCHANGED <<drain, active>>
  <2>1. /\ sess'[r] = "closed" /\ tree'[r] = "torn"
        /\ \A q \in RunIds : q # r => sess'[q] = sess[q] /\ tree'[q] = tree[q]
    BY <1>4 DEF Typed, Torn
  <2> QED BY <1>1, <1>4, <2>1
<1> QED BY <1>2, <1>3, <1>4 DEF DrainEnd

\* The shutdown: an entry in the drain, or the worktree of the active Run.
LEMMA ShutdownReleaseKeeps ==
  ASSUME Typed, ShutdownRelease
  PROVE  /\ Kept /\ active'.props = active.props /\ main.pc = "stopping" /\ main'.pc = "down"
         /\ UNCHANGED <<status, worker, queue, ui, sess, delivery, closing>>
         /\ \/ active.sess # 0 /\ drain' = Retain(active.sess, active.worker)
              /\ UNCHANGED <<tree, active>>
            \/ active.sess = 0 /\ UNCHANGED <<drain, tree, active>>
            \/ /\ active.sess = 0 /\ UNCHANGED drain /\ tree' = Disposed(active.ws)
                 /\ active'.ws = 0
               /\ ~(active.engine = "agent" /\ Alive(active.worker))
            \/ /\ active.sess = 0 /\ UNCHANGED <<drain, active>> /\ tree' = Torn(active.ws)
               /\ Remains(active.ws) /\ active.engine = "agent" /\ ~Alive(active.worker)
<1>1. active \in ActiveStates /\ main.pc = "stopping" /\ main'.pc = "down"
        /\ UNCHANGED <<status, worker, queue, ui, sess, delivery, closing>>
  BY DEF ShutdownRelease, Typed, Idle
<1>2. [active EXCEPT !.ws = 0].ws = 0
        /\ (active' = [active EXCEPT !.ws = 0] \/ active' = active => Kept /\ active'.props = active.props)
  BY <1>1 DEF ActiveStates, Kept
<1>3. [active EXCEPT !.ws = IF @ = active.ws THEN 0 ELSE @] = [active EXCEPT !.ws = 0]
  BY <1>1 DEF ActiveStates
<1> QED BY <1>1, <1>2, <1>3 DEF ShutdownRelease, DisposeAgent

\* The classic engine reads and hashes the project: one thread is further on.
LEMMA ReadsKeep ==
  ASSUME Typed, NEW w \in WorkerIds, LegacyRead(w) \/ LegacyHash(w)
  PROVE  /\ \A v \in WorkerIds : /\ worker'[v].run = worker[v].run /\ worker'[v].eng = worker[v].eng
                                 /\ worker'[v].pc = worker[v].pc /\ worker'[v].cancel = worker[v].cancel
                                 /\ worker'[v].follow = worker[v].follow
                                 /\ worker'[v].dispose = worker[v].dispose
                                 /\ worker'[v].retired = worker[v].retired
                                 /\ v # w => worker'[v] = worker[v]
         /\ worker[w].pc = "running" /\ worker[w].eng = "legacy"
         /\ UNCHANGED <<active, status, queue, ui, tree, sess, drain, delivery, closing, main>>
         /\ UNCHANGED <<exe, file, base, origin, early, ckpt, applied, edits, late, lost, broken, faults>>
<1>1. PICK x : worker' = [worker EXCEPT ![w].at = x]
  BY DEF LegacyRead, LegacyHash
<1>2. \A v \in WorkerIds : /\ worker'[v].run = worker[v].run /\ worker'[v].eng = worker[v].eng
                           /\ worker'[v].pc = worker[v].pc /\ worker'[v].cancel = worker[v].cancel
                           /\ worker'[v].follow = worker[v].follow
                           /\ worker'[v].dispose = worker[v].dispose
                           /\ worker'[v].retired = worker[v].retired
                           /\ v # w => worker'[v] = worker[v]
  BY <1>1 DEF Typed, Threads
<1> QED BY <1>2 DEF LegacyRead, LegacyHash, collab, published, NoFault

\* The record of a rejection: a waiting Run succeeds, or nothing happens.
LEMMA RejectKeeps ==
  ASSUME Typed, OneRun, RejectSettle
  PROVE  /\ main.pc = "reject" /\ main.run \in RunIds
         /\ UNCHANGED <<active, worker, queue, ui, tree, sess, drain, delivery, closing>>
         /\ UNCHANGED <<exe, file, snap, hashed, base, origin, early, ckpt, applied, edits, late, lost, broken>>
         /\ \/ main' = Idle /\ main'.pc = "idle" /\ UNCHANGED status
            \/ /\ main'.pc = "release" /\ main'.run = main.run
               /\ status[main.run] = "WAITING_USER" /\ status'[main.run] = "SUCCEEDED"
         /\ \A r \in RunIds : /\ r # main.run => status'[r] = status[r]
                              /\ status[r] # "none" => status'[r] # "none"
                              /\ status'[r] # status[r] => status'[r] = "SUCCEEDED"
<1>1. main.pc = "reject" /\ main.run \in RunIds
  BY RequestUpdates, Bounds DEF RejectSettle, OneRun, Typed
<1>2. CASE main' = Idle /\ UNCHANGED status
  BY <1>1, <1>2 DEF RejectSettle, collab, project, published, Idle
<1>3. CASE /\ main' = [main EXCEPT !.pc = "release"] /\ status[main.run] = "WAITING_USER"
           /\ status' = [status EXCEPT ![main.run] = "SUCCEEDED"]
  <2>1. main'.pc = "release" /\ main'.run = main.run
    BY <1>3 DEF Typed, Requests
  <2> QED BY <1>1, <1>3, <2>1 DEF RejectSettle, collab, project, published, Typed
<1> QED BY <1>2, <1>3 DEF RejectSettle

\* Every step keeps what _active holds to one Run.
LEMMA OneRunStep ==
  ASSUME Typed, OneRun, OneWorker, Following, Signals, Recorded, [Orderly]_vars
  PROVE  OneRun'
<1>1. ASSUME NEW e \in Engines, NEW s \in Sessions, Start(e, s) PROVE OneRun'
  BY <1>1, StartKeeps, Bounds DEF OneRun, Idle
<1>2. ASSUME NEW e \in Engines, NEW s \in Sessions, StartFails(e, s) PROVE OneRun'
  <2>1. FreeRun # 0 /\ main'.pc = "idle"
    BY <1>2, StartFailsKeeps, Bounds DEF Idle
  <2>2. active.worker # 0 => worker[active.worker] = worker'[active.worker]
    BY <1>2, StartFailsKeeps
  <2>3. active.run # 0 => active.run # FreeRun /\ status'[active.run] = status[active.run]
    BY <1>2, StartFailsKeeps, ActiveFacts DEF OneRun
  <2> QED BY <1>2, <2>1, <2>2, <2>3, StartFailsKeeps DEF OneRun
<1>3. CASE FollowUpCheck
  BY <1>3 DEF FollowUpCheck, NoFault, collab, project, published, OneRun, Typed, ActiveStates, Threads,
              Requests, Idle
<1>4. CASE Cancel
  BY <1>4 DEF Cancel, NoFault, collab, project, published, OneRun, Typed, ActiveStates, Threads, Requests,
              Idle
<1>5. CASE Reject
  BY <1>5 DEF OneRun, Reject, Deciding, Idle
<1>6. CASE ShutdownAsk
  BY <1>6, SMTT(30) DEF ShutdownAsk, NoFault, collab, project, published, OneRun, Typed, ActiveStates, Threads,
              Requests, Idle
<1>7. ASSUME NEW wanted \in SUBSET Paths, ApplyCheck(wanted) PROVE OneRun'
  BY <1>7 DEF ApplyCheck, Deciding, NoFault, collab, project, published, OneRun, Typed, ActiveStates,
              Threads, Requests, Idle
<1>8. CASE SlotNext
  <2>1. /\ Kept /\ main' = main /\ main = Idle
        /\ active.worker # 0 => /\ worker'[active.worker].pc = worker[active.worker].pc
                                /\ worker'[active.worker].run = worker[active.worker].run
                                /\ worker'[active.worker].eng = worker[active.worker].eng
        /\ active.run # 0 => status'[active.run] # "none"
    BY <1>8, SlotKeeps, ActiveFacts DEF OneRun
  <2>2. active.ws # 0 /\ active.worker = 0 => status'[active.run] # "WAITING_USER"
    <3>1. queue # <<>>
      BY <1>8, SlotKeeps
    <3>2. Src \in WorkerIds /\ worker[Src].pc # "none"
      BY <3>1, SrcFacts
    <3>3. (worker[Src].run = active.run => worker[Src].eng = active.engine)
          /\ (ui[Src] = "none" => Src = active.worker)
      BY <3>2 DEF OneWorker
    <3>4. Src # 0
      BY <3>2, Bounds
    <3> QED BY <1>8, <3>3, <3>4, SlotKeeps, ActiveFacts DEF OneRun
  <2> QED BY <2>1, <2>2 DEF OneRun, Kept, Idle
<1>9. CASE Checkpoint
  BY <1>9 DEF Checkpoint, NoFault, Fault, collab, OneRun, Typed, ActiveStates, Threads, Requests,
              Idle
<1>10. ASSUME NEW p \in Paths, Write(p) PROVE OneRun'
  BY <1>10 DEF Write, NoFault, Fault, ApplyFrame, published, OneRun, Typed, ActiveStates, Threads, Requests,
               Idle
<1>11. CASE ApplySettle
  BY <1>11 DEF ApplySettle, NoFault, Fault, ApplyFrame, published, OneRun, Typed, ActiveStates, Threads,
               Requests, Idle
<1>12. CASE DecisionRelease
  BY <1>12, ReleaseKeeps, ActiveFacts DEF OneRun, DecisionRelease, Typed, Idle
<1>13. CASE Restore
  BY <1>13 DEF Restore, NoFault, Fault, ApplyFrame, published, OneRun, Typed, ActiveStates, Threads,
               Requests, Idle
<1>14. CASE FollowUpStart
  <2>1. main'.pc = "idle" /\ main.pc = "follow" /\ active.run # 0
          /\ status[active.run] = "WAITING_USER"
    BY <1>14, FollowUpStartKeeps DEF Idle, Following
  <2>2. CASE /\ Follower(FreeWorker, active.run) /\ active'.worker = FreeWorker
                  /\ active'.ws = active.ws
             /\ status'[active.run] = IF active.engine = "agent" THEN "RUNNING" ELSE status[active.run]
    BY <1>14, <2>1, <2>2, FollowUpStartKeeps, Bounds DEF OneRun, Follower, Following
  <2>3. CASE UNCHANGED <<worker, status, active, tree>>
    BY <2>1, <2>3 DEF OneRun
  <2>4. CASE active'.worker = 0 /\ active'.ws \in {0, active.ws} /\ active.engine = "agent" /\ status'[active.run] \in {"FAILED", "RUNNING"}
    BY <1>14, <2>1, <2>4, FollowUpStartKeeps DEF OneRun
  <2> QED BY <1>14, <2>2, <2>3, <2>4, FollowUpStartKeeps
<1>15. CASE ShutdownRelease
  BY <1>15, ShutdownReleaseKeeps, ActiveFacts DEF OneRun, Kept
<1>16. ASSUME NEW w \in WorkerIds, Resume(w) PROVE OneRun'
  BY <1>16 DEF Resume, NoFault, WorkerOnly, collab, project, published, OneRun, Typed, ActiveStates, Threads,
               Requests, Idle
<1>17. ASSUME NEW w \in WorkerIds, NEW o \in Reportable, Report(w, o) PROVE OneRun'
  <2>1. worker' = [worker EXCEPT ![w].pc = "settled"]
    BY <1>17 DEF Report
  <2>2. \A v \in WorkerIds : worker'[v].run = worker[v].run /\ worker'[v].eng = worker[v].eng
                            /\ (worker[v].pc # "none" => worker'[v].pc # "none")
    BY <2>1, ThreadMoves
  <2>3. active.worker # 0 /\ UNCHANGED <<active, main>>
    BY <1>17, Bounds DEF OneWorker, Report, WorkerOnly
  <2> QED BY <1>17, <2>2, <2>3, ReportKeeps, ActiveFacts DEF OneRun
<1>18. ASSUME NEW w \in WorkerIds, Raise(w) PROVE OneRun'
  BY <1>18 DEF Raise, Post, Fault, WorkerOnly, collab, project, published, OneRun, Typed, ActiveStates,
               Threads, Requests, Idle
<1>19. ASSUME NEW w \in WorkerIds, NEW what \in Emitted, LegacyEmit(w, what) PROVE OneRun'
  BY <1>19 DEF LegacyEmit, Post, NoFault, WorkerOnly, collab, project, published, OneRun, Typed,
               ActiveStates, Threads, Requests, Idle
<1>20. ASSUME NEW w \in WorkerIds, LegacyCancelled(w) PROVE OneRun'
  BY <1>20 DEF LegacyCancelled, Post, NoFault, WorkerOnly, collab, project, published, OneRun, Typed,
               ActiveStates, Threads, Requests, Idle
<1>21. ASSUME NEW w \in WorkerIds, Exit(w) PROVE OneRun'
  BY <1>21 DEF Exit, Post, NoFault, WorkerOnly, collab, project, published, OneRun, Typed, ActiveStates,
               Threads, Requests, Idle
<1>22. ASSUME NEW r \in RunIds, DrainEnd(r) PROVE OneRun'
  BY <1>22, DrainEndKeeps, ActiveFacts DEF OneRun
<1>23. CASE UNCHANGED <<active, status, worker, main>>
  BY <1>23 DEF OneRun
<1>24. ASSUME NEW r \in RunIds, Undo(r) PROVE OneRun'
  BY <1>24, <1>23 DEF Undo, NoFault, collab
<1>25. ASSUME NEW p \in Paths, Edit(p) PROVE OneRun'
  BY <1>25, <1>23 DEF Edit, NoFault, collab
<1>26. ASSUME NEW d \in Deliveries, Capture(d) PROVE OneRun'
  BY <1>26, <1>23 DEF Capture, NoFault, project, published
<1>27. ASSUME NEW d \in Deliveries, Lease(d) PROVE OneRun'
  BY <1>27, <1>23 DEF Lease, DeliveryStep, NoFault, project, published
<1>28. ASSUME NEW d \in Deliveries, Validate(d) PROVE OneRun'
  BY <1>28, <1>23 DEF Validate, DeliveryStep, NoFault, project, published
<1>29. ASSUME NEW d \in Deliveries, Return(d) PROVE OneRun'
  BY <1>29, <1>23 DEF Return, DeliveryStep, NoFault, project, published
<1>30. ASSUME NEW r \in RunIds, DrainBegin(r) PROVE OneRun'
  BY <1>30, <1>23 DEF DrainBegin, NoFault, project, published
<1>32. CASE OldTreeKept
  BY <1>32, <1>23 DEF OldTreeKept
<1>33. ASSUME NEW w \in WorkerIds, LegacyRead(w) \/ LegacyHash(w) PROVE OneRun'
  BY <1>33, ReadsKeep, ActiveFacts DEF OneRun
<1>34. CASE RejectSettle
  BY <1>34, RejectKeeps, ActiveFacts DEF OneRun
<1>31. CASE UNCHANGED vars
  BY <1>31 DEF vars, OneRun
<1> QED BY <1>1, <1>2, <1>3, <1>4, <1>5, <1>6, <1>7, <1>8, <1>9, <1>10, <1>11, <1>12,
          <1>13, <1>14, <1>15, <1>16, <1>17, <1>18, <1>19, <1>20, <1>21, <1>22, <1>23,
          <1>24, <1>25, <1>26, <1>27, <1>28, <1>29, <1>30, <1>31, <1>32, <1>33, <1>34
       DEF Orderly, UserNext, ApplyNext, WorkerNext, DeliveryNext, Reportable, Emitted

\* Every step keeps the live thread the active one.
LEMMA OneWorkerStep ==
  ASSUME Typed, OneRun, OneWorker, Following, Signals, Recorded, [Orderly]_vars
  PROVE  OneWorker'
<1>1. ASSUME NEW e \in Engines, NEW s \in Sessions, Start(e, s) PROVE OneWorker'
  <2>1. \A v \in WorkerIds : worker[v].pc # "none" =>
          /\ worker[v].pc \notin {"running", "settled"} /\ ui[v] # "none"
          /\ worker[v].run \in RunIds /\ worker[v].run # FreeRun /\ status[worker[v].run] # "none"
    <3>1. (active.worker # 0 => ui[active.worker] # "none") /\ ~Alive(active.worker)
            /\ status[FreeRun] = "none"
      BY <1>1, StartKeeps
    <3> QED BY <3>1, Bounds, RunOfThread DEF OneWorker, Alive
  <2>2. /\ FreeWorker \in WorkerIds /\ FreeRun \in RunIds /\ FreeRun # 0
        /\ status'[FreeRun] = "RUNNING" /\ \A q \in RunIds : q # FreeRun => status'[q] = status[q]
        /\ worker'[FreeWorker].run = FreeRun /\ worker'[FreeWorker].eng = e
             /\ worker'[FreeWorker].pc = "running"
        /\ \A v \in WorkerIds : v # FreeWorker => worker'[v] = worker[v]
        /\ active'.run = FreeRun /\ active'.engine = e /\ active'.worker = FreeWorker
             /\ UNCHANGED ui
    BY <1>1, StartKeeps, Bounds
  <2> QED BY <2>1, <2>2 DEF OneWorker
<1>2. ASSUME NEW e \in Engines, NEW s \in Sessions, StartFails(e, s) PROVE OneWorker'
  BY <1>2, StartFailsKeeps, ActiveFacts, RunOfThread DEF OneWorker, Alive
<1>3. CASE Cancel
  <2>1. \A v \in WorkerIds : /\ worker'[v].run = worker[v].run /\ worker'[v].eng = worker[v].eng
                             /\ worker'[v].pc = worker[v].pc
                                  /\ (worker[v].pc = "none" => worker'[v] = worker[v])
    BY <1>3, ActiveFacts DEF Cancel, Alive, Typed, Threads
  <2> QED BY <1>3, <2>1 DEF OneWorker, Cancel
<1>4. CASE RejectSettle
  BY <1>4, RejectKeeps, RunOfThread DEF OneWorker
<1>5. CASE ShutdownAsk
  <2>1. \A v \in WorkerIds : /\ worker'[v].run = worker[v].run /\ worker'[v].eng = worker[v].eng
                             /\ worker'[v].pc = worker[v].pc
                                  /\ (worker[v].pc = "none" => worker'[v] = worker[v])
    BY <1>5, ActiveFacts DEF ShutdownAsk, Alive, Typed, Threads
  <2> QED BY <1>5, <2>1 DEF OneWorker, ShutdownAsk
<1>6. CASE SlotNext
  <2>1. /\ active'.run = active.run /\ active'.worker = active.worker
             /\ active'.engine = active.engine
        /\ \A v \in WorkerIds : /\ worker'[v].pc = worker[v].pc /\ worker'[v].run = worker[v].run
                                /\ worker'[v].eng = worker[v].eng
                                /\ worker[v].pc = "none" => worker'[v] = worker[v]
        /\ \A r \in RunIds : status[r] # "none" => status'[r] # "none"
        /\ \A v \in WorkerIds : /\ v # Src => ui'[v] = ui[v]
                                /\ ui[v] # "none" => ui'[v] # "none"
        /\ queue # <<>>
    BY <1>6, SlotKeeps DEF Kept
  <2>2. worker[Src].pc # "none" /\ \A v \in WorkerIds : worker[v].pc # "none"
          => worker[v].run \in RunIds
    BY <2>1, RunOfThread, SrcFacts
  <2> QED BY <2>1, <2>2 DEF OneWorker
<1>7. CASE ApplySettle
  <2>1. \A r \in RunIds : status[r] # "none" => status'[r] # "none"
    BY <1>7 DEF ApplySettle, Typed
  <2> QED BY <1>7, <2>1, RunOfThread DEF OneWorker, ApplySettle, ApplyFrame, published
<1>8. CASE DecisionRelease
  BY <1>8, ReleaseKeeps DEF OneWorker, DecisionRelease
<1>9. CASE FollowUpStart
  <2>1. /\ \A v \in WorkerIds : worker[v].pc # "none" => worker[v].pc = "exited" /\ ui[v] # "none"
        /\ \A r \in RunIds : status[r] # "none" => status'[r] # "none"
    <3>1. \A v \in WorkerIds : worker[v].pc # "none" => worker[v].pc = "exited" /\ ui[v] # "none"
      <4>1. main.pc = "follow" /\ \A v \in WorkerIds : worker[v].pc \in {"none", "running", "settled", "exited"}
        BY <1>9 DEF FollowUpStart, Typed, Threads
      <4> QED BY <4>1 DEF OneWorker, Following
    <3>2. \A r \in RunIds : status[r] # "none" => status'[r] # "none"
      BY <1>9, FollowUpStartKeeps
    <3> QED BY <3>1, <3>2
  <2>2. CASE Follower(FreeWorker, active.run) /\ active'.worker = FreeWorker
    BY <1>9, <2>1, <2>2, FollowUpStartKeeps, RunOfThread DEF OneWorker, Follower, Following,
         OneRun
  <2>3. CASE UNCHANGED <<worker, status, active, tree>>
    BY <1>9, <2>3, FollowUpStartKeeps DEF OneWorker
  <2>4. CASE UNCHANGED worker /\ active'.worker = 0
    BY <1>9, <2>1, <2>4, FollowUpStartKeeps, RunOfThread DEF OneWorker
  <2> QED BY <1>9, <2>2, <2>3, <2>4, FollowUpStartKeeps
<1>10. CASE ShutdownRelease
  BY <1>10, ShutdownReleaseKeeps DEF OneWorker, Kept
<1>11. ASSUME NEW w \in WorkerIds, Resume(w) PROVE OneWorker'
  <2>1. \A v \in WorkerIds : /\ worker'[v].run = worker[v].run /\ worker'[v].eng = worker[v].eng
                             /\ worker'[v].pc = worker[v].pc
                                  /\ (worker[v].pc = "none" => worker'[v] = worker[v])
    BY <1>11 DEF Resume, Typed, Threads
  <2>2. \A r \in RunIds : status[r] # "none" => status'[r] # "none"
    BY <1>11 DEF Resume, Typed
  <2> QED BY <1>11, <2>1, <2>2, RunOfThread DEF OneWorker, Resume, WorkerOnly
<1>12. ASSUME NEW w \in WorkerIds, NEW o \in Reportable, Report(w, o) PROVE OneWorker'
  <2>1. worker' = [worker EXCEPT ![w].pc = "settled"] /\ UNCHANGED <<active, ui>>
          /\ worker[w].pc \in {"running", "settled"}
    BY <1>12 DEF Report, WorkerOnly
  <2>2. \A v \in WorkerIds : /\ worker'[v].run = worker[v].run /\ worker'[v].eng = worker[v].eng
                             /\ v # w => worker'[v] = worker[v]
    BY <2>1, ThreadMoves
  <2>3. worker'[w].pc = "settled"
    BY <2>1, ThreadMoves
  <2>4. /\ \A r \in RunIds : status[r] # "none" => status'[r] # "none"
        /\ \A v \in WorkerIds : worker[v].pc # "none" => worker[v].run \in RunIds
    BY <1>12, ReportKeeps, RunOfThread
  <2> QED BY <2>1, <2>2, <2>3, <2>4 DEF OneWorker
<1>13. ASSUME NEW w \in WorkerIds, Raise(w) PROVE OneWorker'
  <2>1. worker' = [worker EXCEPT ![w].pc = "settled"] /\ UNCHANGED <<active, ui>>
          /\ worker[w].pc \in {"running", "settled"}
    BY <1>13 DEF Raise, WorkerOnly
  <2>2. \A v \in WorkerIds : /\ worker'[v].run = worker[v].run /\ worker'[v].eng = worker[v].eng
                             /\ v # w => worker'[v] = worker[v]
    BY <2>1, ThreadMoves
  <2>3. worker'[w].pc = "settled"
    BY <2>1, ThreadMoves
  <2> QED BY <1>13, <2>1, <2>2, <2>3, RunOfThread DEF Raise, OneWorker
<1>14. ASSUME NEW w \in WorkerIds, NEW what \in Emitted, LegacyEmit(w, what) PROVE OneWorker'
  <2>1. PICK x \in {"running", "settled"} : worker' = [worker EXCEPT ![w].pc = x]
    BY <1>14 DEF LegacyEmit
  <2>2. \A v \in WorkerIds : /\ worker'[v].run = worker[v].run /\ worker'[v].eng = worker[v].eng
                             /\ v # w => worker'[v] = worker[v]
    BY <2>1, ThreadMoves
  <2>3. worker'[w].pc \in {"running", "settled"}
    BY <2>1, ThreadMoves
  <2> QED BY <1>14, <2>2, <2>3, RunOfThread DEF LegacyEmit, WorkerOnly, OneWorker
<1>15. ASSUME NEW w \in WorkerIds, LegacyCancelled(w) PROVE OneWorker'
  <2>1. worker' = [worker EXCEPT ![w].pc = "settled"] /\ UNCHANGED <<active, ui>>
          /\ worker[w].pc \in {"running", "settled"}
    BY <1>15 DEF LegacyCancelled, WorkerOnly
  <2>2. \A v \in WorkerIds : /\ worker'[v].run = worker[v].run /\ worker'[v].eng = worker[v].eng
                             /\ v # w => worker'[v] = worker[v]
    BY <2>1, ThreadMoves
  <2>3. worker'[w].pc = "settled"
    BY <2>1, ThreadMoves
  <2> QED BY <1>15, <2>1, <2>2, <2>3, RunOfThread DEF LegacyCancelled, OneWorker
<1>16. ASSUME NEW w \in WorkerIds, Exit(w) PROVE OneWorker'
  <2>1. worker' = [worker EXCEPT ![w].pc = "exited"] /\ UNCHANGED <<active, ui>>
          /\ worker[w].pc \in {"running", "settled"}
    BY <1>16 DEF Exit, WorkerOnly
  <2>2. \A v \in WorkerIds : /\ worker'[v].run = worker[v].run /\ worker'[v].eng = worker[v].eng
                             /\ v # w => worker'[v] = worker[v]
    BY <2>1, ThreadMoves
  <2>3. worker'[w].pc = "exited"
    BY <2>1, ThreadMoves
  <2> QED BY <1>16, <2>1, <2>2, <2>3, RunOfThread DEF Exit, OneWorker
<1>17. ASSUME NEW r \in RunIds, DrainEnd(r) PROVE OneWorker'
  BY <1>17, DrainEndKeeps DEF OneWorker
<1>18. CASE UNCHANGED <<active, status, worker, ui>>
  BY <1>18 DEF OneWorker
<1>19. CASE FollowUpCheck
  BY <1>19, <1>18 DEF FollowUpCheck, NoFault, collab, project, published
<1>20. ASSUME NEW wanted \in SUBSET Paths, ApplyCheck(wanted) PROVE OneWorker'
  BY <1>20, <1>18 DEF ApplyCheck, NoFault, collab, project, published
<1>21. ASSUME NEW r \in RunIds, Undo(r) PROVE OneWorker'
  BY <1>21, <1>18 DEF Undo, NoFault, collab
<1>22. ASSUME NEW p \in Paths, Edit(p) PROVE OneWorker'
  BY <1>22, <1>18 DEF Edit, NoFault, collab
<1>23. CASE Checkpoint
  BY <1>23, <1>18 DEF Checkpoint, NoFault, collab
<1>24. ASSUME NEW p \in Paths, Write(p) PROVE OneWorker'
  BY <1>24, <1>18 DEF Write, NoFault, ApplyFrame, published
<1>25. CASE Restore
  BY <1>25, <1>18 DEF Restore, NoFault, ApplyFrame, published
<1>26. ASSUME NEW d \in Deliveries, Capture(d) PROVE OneWorker'
  BY <1>26, <1>18 DEF Capture, NoFault, project, published
<1>27. ASSUME NEW d \in Deliveries, Lease(d) PROVE OneWorker'
  BY <1>27, <1>18 DEF Lease, DeliveryStep, NoFault, project, published
<1>28. ASSUME NEW d \in Deliveries, Validate(d) PROVE OneWorker'
  BY <1>28, <1>18 DEF Validate, DeliveryStep, NoFault, project, published
<1>29. ASSUME NEW d \in Deliveries, Return(d) PROVE OneWorker'
  BY <1>29, <1>18 DEF Return, DeliveryStep, NoFault, project, published
<1>30. ASSUME NEW r \in RunIds, DrainBegin(r) PROVE OneWorker'
  BY <1>30, <1>18 DEF DrainBegin, NoFault, project, published
<1>32. CASE OldTreeKept
  BY <1>32, <1>18 DEF OldTreeKept
<1>33. ASSUME NEW w \in WorkerIds, LegacyRead(w) \/ LegacyHash(w) PROVE OneWorker'
  BY <1>33, ReadsKeep DEF OneWorker
<1>34. CASE Reject
  BY <1>34, <1>18 DEF Reject
<1>31. CASE UNCHANGED vars
  BY <1>31 DEF vars, OneWorker
<1> QED BY <1>1, <1>2, <1>3, <1>4, <1>5, <1>6, <1>7, <1>8, <1>9, <1>10, <1>11, <1>12,
          <1>13, <1>14, <1>15, <1>16, <1>17, <1>18, <1>19, <1>20, <1>21, <1>22, <1>23,
          <1>24, <1>25, <1>26, <1>27, <1>28, <1>29, <1>30, <1>31, <1>32, <1>33, <1>34
       DEF Orderly, UserNext, ApplyNext, WorkerNext, DeliveryNext, Reportable, Emitted

\* Every step keeps the checks of a follow-up true until it starts.
LEMMA FollowingStep ==
  ASSUME Typed, OneRun, OneWorker, Following, Signals, Recorded, [Orderly]_vars
  PROVE  Following'
<1>1. ASSUME NEW e \in Engines, NEW s \in Sessions, Start(e, s) PROVE Following'
  BY <1>1, StartKeeps DEF Following, Idle
<1>2. ASSUME NEW e \in Engines, NEW s \in Sessions, StartFails(e, s) PROVE Following'
  BY <1>2, StartFailsKeeps DEF Following, Idle
<1>3. CASE FollowUpCheck
  <2>1. main'.pc = "follow" /\ UNCHANGED <<active, status, worker, ui, sess>> /\ main = Idle
    BY <1>3 DEF FollowUpCheck, Idle
  <2>2. active.worker # 0 /\ active.run # 0
    BY <1>3 DEF FollowUpCheck, OneRun
  <2>3. worker[active.worker].pc = "exited"
    BY <1>3, <2>2, ActiveFacts DEF FollowUpCheck, Alive, OneRun, Typed, Threads
  <2> QED BY <1>3, <2>1, <2>2, <2>3 DEF FollowUpCheck, UiQuiet, Following, OneRun
<1>4. CASE Cancel
  BY <1>4 DEF Cancel, Following, Idle
<1>5. CASE Reject
  BY <1>5 DEF Reject, Deciding, Following, Idle
<1>6. CASE ShutdownAsk
  BY <1>6 DEF ShutdownAsk, Following, Idle
<1>7. ASSUME NEW wanted \in SUBSET Paths, ApplyCheck(wanted) PROVE Following'
  BY <1>7 DEF ApplyCheck, Following
<1>8. CASE SlotNext
  BY <1>8, SlotKeeps DEF Following, Idle
<1>9. CASE Checkpoint
  BY <1>9 DEF Checkpoint, Following, Idle, Typed, Requests
<1>10. ASSUME NEW p \in Paths, Write(p) PROVE Following'
  BY <1>10 DEF Write, Following, Idle, Typed, Requests
<1>11. CASE ApplySettle
  BY <1>11 DEF ApplySettle, Following, Typed, Requests
<1>12. CASE DecisionRelease
  BY <1>12 DEF DecisionRelease, Following, Idle
<1>13. CASE Restore
  BY <1>13 DEF Restore, Following, Idle, Typed, Requests
<1>14. CASE FollowUpStart
  BY <1>14, FollowUpStartKeeps DEF Following, Idle
<1>15. CASE ShutdownRelease
  BY <1>15, ShutdownReleaseKeeps DEF Following
<1>16. ASSUME NEW w \in WorkerIds, Resume(w) PROVE Following'
  <2>1. w = active.worker /\ worker[w].pc \in {"running", "settled"} /\ UNCHANGED main
    BY <1>16 DEF Resume, OneWorker, WorkerOnly
  <2> QED BY <2>1 DEF Following
<1>17. ASSUME NEW w \in WorkerIds, NEW o \in Reportable, Report(w, o) PROVE Following'
  <2>1. w = active.worker /\ worker[w].pc \in {"running", "settled"} /\ UNCHANGED main
    BY <1>17 DEF Report, OneWorker, WorkerOnly
  <2> QED BY <2>1 DEF Following
<1>18. ASSUME NEW w \in WorkerIds, Raise(w) PROVE Following'
  <2>1. w = active.worker /\ worker[w].pc \in {"running", "settled"} /\ UNCHANGED main
    BY <1>18 DEF Raise, OneWorker, WorkerOnly
  <2> QED BY <2>1 DEF Following
<1>19. ASSUME NEW w \in WorkerIds, NEW what \in Emitted, LegacyEmit(w, what) PROVE Following'
  <2>1. w = active.worker /\ worker[w].pc \in {"running", "settled"} /\ UNCHANGED main
    BY <1>19 DEF LegacyEmit, OneWorker, WorkerOnly
  <2> QED BY <2>1 DEF Following
<1>20. ASSUME NEW w \in WorkerIds, LegacyCancelled(w) PROVE Following'
  <2>1. w = active.worker /\ worker[w].pc \in {"running", "settled"} /\ UNCHANGED main
    BY <1>20 DEF LegacyCancelled, OneWorker, WorkerOnly
  <2> QED BY <2>1 DEF Following
<1>21. ASSUME NEW w \in WorkerIds, Exit(w) PROVE Following'
  <2>1. w = active.worker /\ worker[w].pc \in {"running", "settled"} /\ UNCHANGED main
    BY <1>21 DEF Exit, OneWorker, WorkerOnly
  <2> QED BY <2>1 DEF Following
<1>22. ASSUME NEW r \in RunIds, DrainEnd(r) PROVE Following'
  <2>1. UNCHANGED <<main, worker, ui, status>> /\ active'.run = active.run
          /\ active'.worker = active.worker /\ active'.engine = active.engine
    BY <1>22, DrainEndKeeps
  <2>2. main.pc = "follow" => active'.ws # 0 \/ sess'[active.run] = "closed"
    BY <1>22, DrainEndKeeps, ActiveFacts DEF Following
  <2> QED BY <2>1, <2>2 DEF Following
<1>23. CASE UNCHANGED <<active, status, worker, ui, main, sess>>
  BY <1>23 DEF Following
<1>24. ASSUME NEW r \in RunIds, Undo(r) PROVE Following'
  BY <1>24, <1>23 DEF Undo, NoFault, collab
<1>25. ASSUME NEW p \in Paths, Edit(p) PROVE Following'
  BY <1>25, <1>23 DEF Edit, NoFault, collab
<1>26. ASSUME NEW d \in Deliveries, Capture(d) PROVE Following'
  BY <1>26, <1>23 DEF Capture, NoFault, project, published
<1>27. ASSUME NEW d \in Deliveries, Lease(d) PROVE Following'
  BY <1>27, <1>23 DEF Lease, DeliveryStep, NoFault, project, published
<1>28. ASSUME NEW d \in Deliveries, Validate(d) PROVE Following'
  BY <1>28, <1>23 DEF Validate, DeliveryStep, NoFault, project, published
<1>29. ASSUME NEW d \in Deliveries, Return(d) PROVE Following'
  BY <1>29, <1>23 DEF Return, DeliveryStep, NoFault, project, published
<1>30. ASSUME NEW r \in RunIds, DrainBegin(r) PROVE Following'
  BY <1>30, <1>23 DEF DrainBegin, NoFault, project, published
<1>41. CASE OldTreeKept
  BY <1>41 DEF OldTreeKept, StartAdmitted, Following, Idle
<1>42. ASSUME NEW w \in WorkerIds, LegacyRead(w) \/ LegacyHash(w) PROVE Following'
  <2>1. w = active.worker /\ worker[w].pc \in {"running", "settled"} /\ UNCHANGED main
    BY <1>42, ReadsKeep DEF OneWorker
  <2> QED BY <2>1 DEF Following
<1>43. CASE RejectSettle
  BY <1>43, RejectKeeps DEF Following
<1>31. CASE UNCHANGED vars
  BY <1>31 DEF vars, Following
<1> QED BY <1>1, <1>2, <1>3, <1>4, <1>5, <1>6, <1>7, <1>8, <1>9, <1>10, <1>11, <1>12,
          <1>13, <1>14, <1>15, <1>16, <1>17, <1>18, <1>19, <1>20, <1>21, <1>22, <1>23,
          <1>24, <1>25, <1>26, <1>27, <1>28, <1>29, <1>30, <1>31, <1>41, <1>42, <1>43
       DEF Orderly, UserNext, ApplyNext, WorkerNext, DeliveryNext, Reportable, Emitted

\* A posted signal is the last of the queue.
LEMMA QueueAppended ==
  ASSUME queue \in Seq(Posts), NEW m \in Posts, queue' = Append(queue, m)
  PROVE  /\ Len(queue') = Len(queue) + 1 /\ Len(queue) \in Nat
         /\ \A i \in 1..Len(queue') : \/ i \in 1..Len(queue) /\ queue'[i] = queue[i]
                                      \/ i = Len(queue) + 1 /\ queue'[i] = m
OBVIOUS

\* Signals come from threads.
LEMMA PostedWorkers ==
  ASSUME queue \in Seq(Posts), NEW i \in 1..Len(queue)
  PROVE  queue[i] \in Posts /\ queue[i].worker \in WorkerIds
<1>1. queue[i] \in Posts
  OBVIOUS
<1> QED BY <1>1 DEF Posts

\* The same of a signal in the next state.
ReportsNext(m) == m.kind \in {"failed", "finished_ok"} /\ worker'[m.worker].eng # "legacy"
SignalNext(m) ==
  /\ worker'[m.worker].pc # "none"
  /\ m.kind = "event" => worker'[m.worker].eng = "legacy" /\ m.what \in Emitted
  /\ m.kind = "finished_ok" => worker'[m.worker].eng # "legacy" /\ m.what \in Reportable
  /\ ReportsNext(m) => ui'[m.worker] = "none" /\ worker'[m.worker].pc \in {"settled", "exited"}

\* What there is to show about the queue in the next state.
LEMMA SignalsNext ==
  ASSUME \A i \in 1..Len(queue') : SignalNext(queue'[i]),
         \A i, j \in 1..Len(queue') :
           ReportsNext(queue'[i]) => /\ j # i /\ ReportsNext(queue'[j])
                                          => queue'[j].worker # queue'[i].worker
                                     /\ j > i => queue'[j].kind # "event",
         NoEventLeft', \A v \in WorkerIds : Working(v)' => ui'[v] = "none"
  PROVE  Signals'
BY DEF Signals, SignalOK, SignalNext, Reports, ReportsNext, ReportsOnce

\* A step that posts and takes nothing, and leaves the threads of the signals alone.
LEMMA SignalsFrame ==
  ASSUME Typed, Signals, UNCHANGED <<queue, ui>>,
         \A v \in WorkerIds : worker[v].pc # "none" => worker'[v].eng = worker[v].eng
           /\ worker'[v].pc = worker[v].pc,
         \A v \in WorkerIds : Working(v)' => ui[v] = "none",
         NoEventLeft'
  PROVE  Signals'
<1>1. \A i \in 1..Len(queue) : queue[i].worker \in WorkerIds
        /\ worker[queue[i].worker].pc # "none"
  BY PostedWorkers DEF Typed, Signals, SignalOK
<1>2. \A i \in 1..Len(queue) : ReportsNext(queue[i]) <=> Reports(queue[i])
  BY <1>1 DEF Reports, ReportsNext
<1>3. \A i \in 1..Len(queue) : SignalNext(queue[i])
  BY <1>1, <1>2 DEF Signals, SignalOK, SignalNext
<1>4. \A i, j \in 1..Len(queue) :
        ReportsNext(queue[i]) => /\ j # i /\ ReportsNext(queue[j])
                                      => queue[j].worker # queue[i].worker
                                 /\ j > i => queue[j].kind # "event"
  BY <1>2 DEF Signals, ReportsOnce
<1> QED BY <1>3, <1>4, SignalsNext

\* A thread that is running posts its last word, or the end of the thread follows.
LEMMA SignalsPost ==
  ASSUME Typed, OneRun, OneWorker, Signals, Recorded, NEW w \in WorkerIds, NEW m \in Posts,
           m.worker = w,
         queue' = Append(queue, m), UNCHANGED <<ui, active>>,
         worker[w].pc \in {"running", "settled"}, worker'[w].pc \in {"running", "settled", "exited"},
         worker[w].pc = "settled" => worker'[w].pc = "exited",
         \A v \in WorkerIds : /\ worker'[v].eng = worker[v].eng
                                   /\ worker'[v].follow = worker[v].follow
                              /\ v # w => worker'[v] = worker[v],
         worker'[w].pc = "running" => worker[w].eng = "legacy",
         m.kind = "event" => worker[w].eng = "legacy" /\ m.what \in Emitted
           /\ worker[w].pc = "running",
         m.kind = "finished_ok" => worker[w].eng # "legacy" /\ m.what \in Reportable,
         m.kind \in {"failed", "finished_ok"} => worker[w].pc = "running"
           /\ worker'[w].pc = "settled"
  PROVE  Signals'
<1>1. /\ Len(queue') = Len(queue) + 1 /\ Len(queue) \in Nat
      /\ \A i \in 1..Len(queue') : \/ i \in 1..Len(queue) /\ queue'[i] = queue[i]
                                   \/ i = Len(queue) + 1 /\ queue'[i] = m
  BY QueueAppended DEF Typed
<1>2. \A i \in 1..Len(queue) : queue[i].worker \in WorkerIds
  BY PostedWorkers DEF Typed
<1>3. w = active.worker
  BY DEF OneWorker
<1>4. \A i \in 1..Len(queue) : /\ ReportsNext(queue[i]) <=> Reports(queue[i])
                               /\ SignalNext(queue[i])
  BY <1>2 DEF Reports, ReportsNext, Signals, SignalOK, SignalNext
<1>5. ReportsNext(m) => ui[w] = "none" /\ worker'[w].pc = "settled" /\ worker[w].eng # "legacy"
  BY DEF ReportsNext, Signals, Working
<1>6. SignalNext(m)
  BY <1>5 DEF SignalNext
<1>7. \A i \in 1..Len(queue') : SignalNext(queue'[i])
  BY <1>1, <1>4, <1>6
<1>8. m.kind = "event" => \A i \in 1..Len(queue) : ~Reports(queue[i])
  <2>1. SUFFICES ASSUME m.kind = "event", NEW i \in 1..Len(queue), Reports(queue[i]) PROVE FALSE
    OBVIOUS
  <2>2. ui[queue[i].worker] = "none" /\ worker[queue[i].worker].pc # "none"
          /\ worker[queue[i].worker].eng # "legacy"
    BY <2>1 DEF Signals, SignalOK, Reports
  <2>3. queue[i].worker = active.worker
    BY <1>2, <2>2 DEF OneWorker
  <2> QED BY <1>3, <2>1, <2>2, <2>3
<1>9. ReportsNext(m) => \A i \in 1..Len(queue) : Reports(queue[i]) => queue[i].worker # w
  BY DEF Signals, SignalOK, ReportsNext
<1>10. ASSUME NEW i \in 1..Len(queue'), NEW j \in 1..Len(queue'), ReportsNext(queue'[i])
       PROVE  /\ j # i /\ ReportsNext(queue'[j]) => queue'[j].worker # queue'[i].worker
              /\ j > i => queue'[j].kind # "event"
  <2>1. ReportsNext(queue'[i])
    BY <1>10
  <2>2. CASE i \in 1..Len(queue) /\ j \in 1..Len(queue)
    BY <1>1, <1>4, <2>1, <2>2 DEF Signals, ReportsOnce
  <2>3. CASE i = Len(queue) + 1 /\ queue'[i] = m
    BY <1>1, <1>4, <1>9, <2>1, <2>3
  <2>4. CASE i \in 1..Len(queue) /\ j = Len(queue) + 1
    BY <1>1, <1>4, <1>8, <1>9, <2>1, <2>4
  <2> QED BY <1>1, <2>2, <2>3, <2>4
<1>11. NoEventLeft'
  <2>1. SUFFICES ASSUME \/ active'.worker # 0 /\ active'.engine # "legacy"
                             /\ ui'[active'.worker] # "none"
                        \/ \E v \in WorkerIds : worker'[v].pc = "running" /\ worker'[v].follow
                 PROVE  \A i \in 1..Len(queue') : queue'[i].kind # "event"
    BY DEF NoEventLeft
  <2>2. CASE active.worker # 0 /\ active.engine # "legacy" /\ ui[active.worker] # "none"
    BY <1>1, <1>3, <2>2 DEF Signals, NoEventLeft, OneRun
  <2>3. CASE \E v \in WorkerIds : worker'[v].pc = "running" /\ worker'[v].follow
    <3>1. PICK v \in WorkerIds : worker'[v].pc = "running" /\ worker'[v].follow
      BY <2>3
    <3>2. worker[v].pc = "running" /\ worker[v].follow
      BY <3>1
    <3>3. v = active.worker /\ worker[v].eng = "pipeline"
      BY <3>2 DEF OneWorker, Recorded
    <3> QED BY <1>1, <1>3, <3>2, <3>3 DEF Signals, NoEventLeft
  <2> QED BY <2>1, <2>2, <2>3
<1>12. \A v \in WorkerIds : Working(v)' => ui'[v] = "none"
  BY DEF Signals, Working
<1> QED BY <1>7, <1>10, <1>11, <1>12, SignalsNext

\* Taking a signal keeps the queue in order.
LEMMA SignalsSlot ==
  ASSUME Typed, OneRun, OneWorker, Signals, Recorded, SlotNext
  PROVE  Signals'
<1>1. /\ Slot(Src) /\ Src \in WorkerIds /\ queue # <<>> /\ queue' = Tail(queue)
           /\ Head(queue).worker = Src
      /\ active'.worker = active.worker /\ active'.engine = active.engine
      /\ \A v \in WorkerIds : /\ worker'[v].pc = worker[v].pc
                              /\ worker'[v].eng = worker[v].eng
                                   /\ worker'[v].follow = worker[v].follow
      /\ \A v \in WorkerIds : /\ v # Src => ui'[v] = ui[v]
                              /\ ui[v] # "none" => ui'[v] # "none"
  BY SlotKeeps, SrcFacts, SlotShapes DEF Kept
<1>2. /\ Len(queue') = Len(queue) - 1 /\ Head(queue) = queue[1] /\ 1 \in 1..Len(queue)
           /\ Len(queue) \in Nat
      /\ \A i \in 1..Len(queue') : i + 1 \in 1..Len(queue) /\ queue'[i] = queue[i + 1]
      /\ \A i \in 1..Len(queue) : queue[i].worker \in WorkerIds
  BY <1>1, HeadOfQueue, PostedWorkers DEF Typed
<1>3. \A i \in 1..Len(queue) : ReportsNext(queue[i]) <=> Reports(queue[i])
  BY <1>1, <1>2 DEF Reports, ReportsNext
<1>4. UNCHANGED ui \/ Reports(Head(queue)) \/ worker[Src].eng = "legacy"
  BY <1>1 DEF Slot, LegacySlot, PipelineSlot, AgentSlot, ThreadSlot
<1>5. \A i \in 2..Len(queue) : Reports(queue[i]) => ui'[queue[i].worker] = ui[queue[i].worker]
  <2>1. SUFFICES ASSUME NEW i \in 2..Len(queue), Reports(queue[i]), queue[i].worker = Src,
          ui'[Src] # ui[Src] PROVE FALSE
    BY <1>1, <1>2
  <2>2. Reports(queue[1])
    BY <1>2, <1>4, <2>1 DEF Reports
  <2>3. queue[1].worker = Src
    BY <1>1, <1>2
  <2>4. i # 1 /\ i \in 1..Len(queue)
    BY <1>2, <2>1
  <2> QED BY <1>2, <2>1, <2>2, <2>3, <2>4 DEF Signals, ReportsOnce
<1>6. ASSUME NEW i \in 1..Len(queue') PROVE SignalNext(queue'[i])
  <2>2. i + 1 \in 1..Len(queue) /\ i + 1 \in 2..Len(queue) /\ queue'[i] = queue[i + 1]
    BY <1>2
  <2>3. SignalOK(queue[i + 1]) /\ queue[i + 1].worker \in WorkerIds
          /\ (ReportsNext(queue[i + 1]) <=> Reports(queue[i + 1]))
    BY <1>2, <1>3, <2>2 DEF Signals
  <2> QED BY <1>1, <1>5, <2>2, <2>3 DEF SignalOK, SignalNext
<1>7. ASSUME NEW i \in 1..Len(queue'), NEW j \in 1..Len(queue'), ReportsNext(queue'[i])
      PROVE  /\ j # i /\ ReportsNext(queue'[j]) => queue'[j].worker # queue'[i].worker
             /\ j > i => queue'[j].kind # "event"
  <2>2. /\ i + 1 \in 1..Len(queue) /\ j + 1 \in 1..Len(queue) /\ queue'[i] = queue[i + 1]
             /\ queue'[j] = queue[j + 1]
        /\ (j # i => j + 1 # i + 1) /\ (j > i => j + 1 > i + 1)
    BY <1>2
  <2> QED BY <1>3, <1>7, <2>2 DEF Signals, ReportsOnce
<1>8. NoEventLeft'
  <2>1. SUFFICES ASSUME \/ active'.worker # 0 /\ active'.engine # "legacy"
                             /\ ui'[active'.worker] # "none"
                        \/ \E v \in WorkerIds : worker'[v].pc = "running" /\ worker'[v].follow,
                        NEW i \in 1..Len(queue')
                 PROVE  queue'[i].kind # "event"
    BY DEF NoEventLeft
  <2>2. i + 1 \in 1..Len(queue) /\ i + 1 > 1 /\ queue'[i] = queue[i + 1]
    BY <1>2
  <2>3. CASE \/ active.worker # 0 /\ active.engine # "legacy" /\ ui[active.worker] # "none"
             \/ \E v \in WorkerIds : worker[v].pc = "running" /\ worker[v].follow
    BY <2>2, <2>3 DEF Signals, NoEventLeft
  <2>4. CASE active.worker # 0 /\ active.engine # "legacy" /\ ui'[active.worker] # "none"
          /\ ui[active.worker] = "none"
    <3>1. active.worker = Src /\ worker[Src].eng # "legacy"
      BY <1>1, <2>4, ActiveFacts DEF OneRun
    <3>2. Reports(queue[1])
      BY <1>2, <1>4, <2>4, <3>1
    <3> QED BY <1>2, <2>2, <3>2 DEF Signals, ReportsOnce
  <2> QED BY <1>1, <2>1, <2>3, <2>4
<1>9. \A v \in WorkerIds : Working(v)' => ui'[v] = "none"
  <2>1. SUFFICES ASSUME NEW v \in WorkerIds, Working(v) PROVE ui'[v] = "none"
    BY <1>1 DEF Working
  <2>2. CASE v # Src
    BY <1>1, <2>1, <2>2 DEF Signals
  <2>3. CASE v = Src
    <3>1. ~Reports(queue[1])
      BY <1>1, <1>2, <2>1, <2>3 DEF Signals, SignalOK, Working
    <3> QED BY <1>1, <1>2, <1>4, <2>1, <2>3, <3>1 DEF Signals, Working
  <2> QED BY <2>2, <2>3
<1> QED BY <1>6, <1>7, <1>8, <1>9, SignalsNext

\* Every step keeps the queue in order.
LEMMA SignalsStep ==
  ASSUME Typed, OneRun, OneWorker, Following, Signals, Recorded, [Orderly]_vars
  PROVE  Signals'
<1>1. ASSUME NEW e \in Engines, NEW s \in Sessions, Start(e, s) PROVE Signals'
  <2>1. /\ UNCHANGED <<queue, ui>> /\ FreeWorker \in WorkerIds /\ worker[FreeWorker].pc = "none"
        /\ worker'[FreeWorker].pc = "running" /\ ~worker'[FreeWorker].follow
        /\ \A v \in WorkerIds : v # FreeWorker => worker'[v] = worker[v]
        /\ active'.worker = FreeWorker
    BY <1>1, StartKeeps
  <2>2. ui[FreeWorker] = "none"
    BY <2>1 DEF OneWorker
  <2>3. NoEventLeft'
    BY <2>1, <2>2 DEF Signals, NoEventLeft
  <2> QED BY <2>1, <2>2, <2>3, SignalsFrame DEF Signals, Working
<1>2. ASSUME NEW e \in Engines, NEW s \in Sessions, StartFails(e, s) PROVE Signals'
  <2>1. /\ UNCHANGED <<queue, ui, worker>>
        /\ active'.worker = 0 \/ (active'.worker = active.worker /\ active'.engine = active.engine)
    BY <1>2, StartFailsKeeps
  <2>2. NoEventLeft'
    BY <2>1 DEF Signals, NoEventLeft
  <2> QED BY <2>1, <2>2, SignalsFrame DEF Signals, Working
<1>3. CASE Cancel
  <2>1. /\ UNCHANGED <<queue, ui, active>>
        /\ \A v \in WorkerIds : worker'[v].eng = worker[v].eng /\ worker'[v].pc = worker[v].pc
             /\ worker'[v].follow = worker[v].follow
    BY <1>3, ActiveFacts DEF Cancel, Alive, Typed, Threads
  <2>2. NoEventLeft'
    BY <2>1 DEF Signals, NoEventLeft
  <2> QED BY <2>1, <2>2, SignalsFrame DEF Signals, Working
<1>5. CASE ShutdownAsk
  <2>1. /\ UNCHANGED <<queue, ui, active>>
        /\ \A v \in WorkerIds : worker'[v].eng = worker[v].eng /\ worker'[v].pc = worker[v].pc
             /\ worker'[v].follow = worker[v].follow
    BY <1>5, ActiveFacts DEF ShutdownAsk, Alive, Typed, Threads
  <2>2. NoEventLeft'
    BY <2>1 DEF Signals, NoEventLeft
  <2> QED BY <2>1, <2>2, SignalsFrame DEF Signals, Working
<1>6. CASE SlotNext
  BY <1>6, SignalsSlot
<1>7. CASE DecisionRelease
  <2>1. /\ UNCHANGED <<queue, ui, worker>> /\ active'.worker = active.worker
             /\ active'.engine = active.engine
    BY <1>7, ReleaseKeeps DEF DecisionRelease
  <2>2. NoEventLeft'
    BY <2>1 DEF Signals, NoEventLeft
  <2> QED BY <2>1, <2>2, SignalsFrame DEF Signals, Working
<1>8. CASE FollowUpStart
  <2>1. /\ UNCHANGED <<queue, ui>> /\ FreeWorker \in WorkerIds /\ worker[FreeWorker].pc = "none"
        /\ active'.engine = active.engine
    BY <1>8, FollowUpStartKeeps
  <2>2. ui[FreeWorker] = "none"
    BY <2>1 DEF OneWorker
  <2>3. active.worker # 0 /\ active.engine # "legacy" /\ ui[active.worker] # "none"
    BY <1>8, FollowUpStartKeeps DEF Following
  <2>4. NoEventLeft'
    BY <2>1, <2>3 DEF Signals, NoEventLeft
  <2>5. UNCHANGED worker \/ (Follower(FreeWorker, active.run))
    BY <1>8, FollowUpStartKeeps
  <2>6. \A v \in WorkerIds : v # FreeWorker => worker'[v] = worker[v]
    BY <2>5 DEF Follower
  <2>7. \A v \in WorkerIds : Working(v)' => ui[v] = "none"
    BY <2>2, <2>6 DEF Signals, Working
  <2> QED BY <2>1, <2>4, <2>6, <2>7, SignalsFrame
<1>9. CASE ShutdownRelease
  <2>1. /\ UNCHANGED <<queue, ui, worker>> /\ active'.worker = active.worker
             /\ active'.engine = active.engine
    BY <1>9, ShutdownReleaseKeeps DEF ShutdownRelease, Kept
  <2>2. NoEventLeft'
    BY <2>1 DEF Signals, NoEventLeft
  <2> QED BY <2>1, <2>2, SignalsFrame DEF Signals, Working
<1>10. ASSUME NEW w \in WorkerIds, Resume(w) PROVE Signals'
  <2>1. /\ UNCHANGED <<queue, ui, active>>
        /\ \A v \in WorkerIds : /\ worker'[v].eng = worker[v].eng /\ worker'[v].pc = worker[v].pc
                                /\ worker'[v].follow => worker[v].follow
    BY <1>10 DEF Resume, WorkerOnly, Typed, Threads
  <2>2. NoEventLeft'
    BY <2>1 DEF Signals, NoEventLeft
  <2> QED BY <2>1, <2>2, SignalsFrame DEF Signals, Working
<1>11. ASSUME NEW w \in WorkerIds, NEW o \in Reportable, Report(w, o) PROVE Signals'
  <2>1. /\ worker' = [worker EXCEPT ![w].pc = "settled"] /\ UNCHANGED <<ui, active>>
        /\ queue' = Append(queue, [worker |-> w, kind |-> "finished_ok", what |-> o])
    BY <1>11 DEF Report, Post, WorkerOnly
  <2>2. [worker |-> w, kind |-> "finished_ok", what |-> o] \in Posts
    BY DEF Posts, Reportable, Emitted
  <2>3. \A v \in WorkerIds : /\ worker'[v].eng = worker[v].eng
                                  /\ worker'[v].follow = worker[v].follow
                             /\ v # w => worker'[v] = worker[v]
    BY <2>1, ThreadMoves
  <2>4. worker'[w].pc = "settled"
    BY <2>1, ThreadMoves
  <2> DEFINE m == [worker |-> w, kind |-> "finished_ok", what |-> o]
  <2>6. m.worker = w /\ m.kind = "finished_ok" /\ m.what = o /\ m \in Posts
          /\ queue' = Append(queue, m)
    BY <2>1, <2>2
  <2> HIDE DEF m
  <2> QED BY <1>11, <2>1, <2>3, <2>4, <2>6, SignalsPost DEF Report
<1>12. ASSUME NEW w \in WorkerIds, Raise(w) PROVE Signals'
  <2>1. /\ worker' = [worker EXCEPT ![w].pc = "settled"] /\ UNCHANGED <<ui, active>>
        /\ queue' = Append(queue, [worker |-> w, kind |-> "failed", what |-> "none"])
    BY <1>12 DEF Raise, Post, WorkerOnly
  <2>2. [worker |-> w, kind |-> "failed", what |-> "none"] \in Posts
    BY DEF Posts, Reportable, Emitted
  <2>3. \A v \in WorkerIds : /\ worker'[v].eng = worker[v].eng
                                  /\ worker'[v].follow = worker[v].follow
                             /\ v # w => worker'[v] = worker[v]
    BY <2>1, ThreadMoves
  <2>4. worker'[w].pc = "settled"
    BY <2>1, ThreadMoves
  <2> DEFINE m == [worker |-> w, kind |-> "failed", what |-> "none"]
  <2>6. m.worker = w /\ m.kind = "failed" /\ m.what = "none" /\ m \in Posts
          /\ queue' = Append(queue, m)
    BY <2>1, <2>2
  <2> HIDE DEF m
  <2> QED BY <1>12, <2>1, <2>3, <2>4, <2>6, SignalsPost DEF Raise
<1>13. ASSUME NEW w \in WorkerIds, NEW what \in Emitted, LegacyEmit(w, what) PROVE Signals'
  <2>0. PICK x \in {"running", "settled"} : worker' = [worker EXCEPT ![w].pc = x]
    BY <1>13 DEF LegacyEmit
  <2>1. /\ worker' = [worker EXCEPT ![w].pc = x] /\ UNCHANGED <<ui, active>>
        /\ queue' = Append(queue, [worker |-> w, kind |-> "event", what |-> what])
    BY <1>13, <2>0 DEF LegacyEmit, Post, WorkerOnly
  <2>2. [worker |-> w, kind |-> "event", what |-> what] \in Posts
    BY DEF Posts, Reportable, Emitted
  <2>3. \A v \in WorkerIds : /\ worker'[v].eng = worker[v].eng
                                  /\ worker'[v].follow = worker[v].follow
                             /\ v # w => worker'[v] = worker[v]
    BY <2>1, ThreadMoves
  <2>4. worker'[w].pc = x
    BY <2>1, ThreadMoves
  <2> DEFINE m == [worker |-> w, kind |-> "event", what |-> what]
  <2>6. m.worker = w /\ m.kind = "event" /\ m.what = what /\ m \in Posts
          /\ queue' = Append(queue, m)
    BY <2>1, <2>2
  <2> HIDE DEF m
  <2> QED BY <1>13, <2>0, <2>1, <2>3, <2>4, <2>6, SignalsPost DEF LegacyEmit
<1>14. ASSUME NEW w \in WorkerIds, LegacyCancelled(w) PROVE Signals'
  <2>1. /\ worker' = [worker EXCEPT ![w].pc = "settled"] /\ UNCHANGED <<ui, active>>
        /\ queue' = Append(queue, [worker |-> w, kind |-> "cancelled", what |-> "none"])
    BY <1>14 DEF LegacyCancelled, Post, WorkerOnly
  <2>2. [worker |-> w, kind |-> "cancelled", what |-> "none"] \in Posts
    BY DEF Posts, Reportable, Emitted
  <2>3. \A v \in WorkerIds : /\ worker'[v].eng = worker[v].eng
                                  /\ worker'[v].follow = worker[v].follow
                             /\ v # w => worker'[v] = worker[v]
    BY <2>1, ThreadMoves
  <2>4. worker'[w].pc = "settled"
    BY <2>1, ThreadMoves
  <2> DEFINE m == [worker |-> w, kind |-> "cancelled", what |-> "none"]
  <2>6. m.worker = w /\ m.kind = "cancelled" /\ m.what = "none" /\ m \in Posts
          /\ queue' = Append(queue, m)
    BY <2>1, <2>2
  <2> HIDE DEF m
  <2> QED BY <1>14, <2>1, <2>3, <2>4, <2>6, SignalsPost DEF LegacyCancelled
<1>15. ASSUME NEW w \in WorkerIds, Exit(w) PROVE Signals'
  <2>1. /\ worker' = [worker EXCEPT ![w].pc = "exited"] /\ UNCHANGED <<ui, active>>
        /\ queue' = Append(queue, [worker |-> w, kind |-> "finished", what |-> "none"])
    BY <1>15 DEF Exit, Post, WorkerOnly
  <2>2. [worker |-> w, kind |-> "finished", what |-> "none"] \in Posts
    BY DEF Posts, Reportable, Emitted
  <2>3. \A v \in WorkerIds : /\ worker'[v].eng = worker[v].eng
                                  /\ worker'[v].follow = worker[v].follow
                             /\ v # w => worker'[v] = worker[v]
    BY <2>1, ThreadMoves
  <2>4. worker'[w].pc = "exited"
    BY <2>1, ThreadMoves
  <2> DEFINE m == [worker |-> w, kind |-> "finished", what |-> "none"]
  <2>6. m.worker = w /\ m.kind = "finished" /\ m.what = "none" /\ m \in Posts
          /\ queue' = Append(queue, m)
    BY <2>1, <2>2
  <2> HIDE DEF m
  <2> QED BY <1>15, <2>1, <2>3, <2>4, <2>6, SignalsPost DEF Exit
<1>16. ASSUME NEW r \in RunIds, DrainEnd(r) PROVE Signals'
  <2>1. /\ UNCHANGED <<queue, ui, worker>> /\ active'.worker = active.worker
             /\ active'.engine = active.engine
    BY <1>16, DrainEndKeeps DEF DrainEnd
  <2>2. NoEventLeft'
    BY <2>1 DEF Signals, NoEventLeft
  <2> QED BY <2>1, <2>2, SignalsFrame DEF Signals, Working
<1>17. CASE UNCHANGED <<active, worker, queue, ui>>
  BY <1>17 DEF Signals, SignalOK, Reports, ReportsOnce, NoEventLeft, Working
<1>4. CASE Reject
  BY <1>4, <1>17 DEF Reject
<1>18. CASE FollowUpCheck
  BY <1>18, <1>17 DEF FollowUpCheck, NoFault, collab, project, published
<1>19. ASSUME NEW wanted \in SUBSET Paths, ApplyCheck(wanted) PROVE Signals'
  BY <1>19, <1>17 DEF ApplyCheck, NoFault, collab, project, published
<1>20. ASSUME NEW r \in RunIds, Undo(r) PROVE Signals'
  BY <1>20, <1>17 DEF Undo, NoFault, collab
<1>21. ASSUME NEW p \in Paths, Edit(p) PROVE Signals'
  BY <1>21, <1>17 DEF Edit, NoFault, collab
<1>22. CASE Checkpoint
  BY <1>22, <1>17 DEF Checkpoint, NoFault, collab
<1>23. ASSUME NEW p \in Paths, Write(p) PROVE Signals'
  BY <1>23, <1>17 DEF Write, NoFault, ApplyFrame, published
<1>24. CASE ApplySettle
  BY <1>24, <1>17 DEF ApplySettle, NoFault, ApplyFrame, published
<1>25. CASE Restore
  BY <1>25, <1>17 DEF Restore, NoFault, ApplyFrame, published
<1>26. ASSUME NEW d \in Deliveries, Capture(d) PROVE Signals'
  BY <1>26, <1>17 DEF Capture, NoFault, project, published
<1>27. ASSUME NEW d \in Deliveries, Lease(d) PROVE Signals'
  BY <1>27, <1>17 DEF Lease, DeliveryStep, NoFault, project, published
<1>28. ASSUME NEW d \in Deliveries, Validate(d) PROVE Signals'
  BY <1>28, <1>17 DEF Validate, DeliveryStep, NoFault, project, published
<1>29. ASSUME NEW d \in Deliveries, Return(d) PROVE Signals'
  BY <1>29, <1>17 DEF Return, DeliveryStep, NoFault, project, published
<1>30. ASSUME NEW r \in RunIds, DrainBegin(r) PROVE Signals'
  BY <1>30, <1>17 DEF DrainBegin, NoFault, project, published
<1>32. CASE OldTreeKept
  BY <1>32, <1>17 DEF OldTreeKept
<1>33. ASSUME NEW w \in WorkerIds, LegacyRead(w) \/ LegacyHash(w) PROVE Signals'
  <2>1. /\ UNCHANGED <<queue, ui, active>>
        /\ \A v \in WorkerIds : worker'[v].eng = worker[v].eng /\ worker'[v].pc = worker[v].pc
             /\ worker'[v].follow = worker[v].follow
    BY <1>33, ReadsKeep
  <2>2. NoEventLeft'
    BY <2>1 DEF Signals, NoEventLeft
  <2> QED BY <2>1, <2>2, SignalsFrame DEF Signals, Working
<1>34. CASE RejectSettle
  BY <1>34, <1>17, RejectKeeps
<1>31. CASE UNCHANGED vars
  BY <1>31 DEF vars, Signals, SignalOK, Reports, ReportsOnce, NoEventLeft, Working
<1> QED BY <1>1, <1>2, <1>3, <1>4, <1>5, <1>6, <1>7, <1>8, <1>9, <1>10, <1>11, <1>12,
          <1>13, <1>14, <1>15, <1>16, <1>17, <1>18, <1>19, <1>20, <1>21, <1>22, <1>23,
          <1>24, <1>25, <1>26, <1>27, <1>28, <1>29, <1>30, <1>31, <1>32, <1>33, <1>34
       DEF Orderly, UserNext, ApplyNext, WorkerNext, DeliveryNext, Reportable, Emitted

\* What Recorded says of a thread and of a signal, in the next state.
ThreadNext(w) ==
  /\ Working(w)' /\ ~worker'[w].follow => status'[worker'[w].run] = "RUNNING"
  /\ worker'[w].pc = "running" /\ worker'[w].follow =>
       /\ active'.props = {} /\ main'.pc \notin {"checked", "write", "reject", "release"}
       /\ worker'[w].eng = "pipeline"
  /\ worker'[w].dispose => worker'[w].eng = "agent" /\ status'[worker'[w].run] \in Terminal
  /\ main'.pc = "release" => ~Working(w)'
ToldNext(m) ==
  worker'[m.worker].eng = "agent" =>
    /\ m.kind = "failed" => status'[worker'[m.worker].run] = "RUNNING"
    /\ m.kind = "finished_ok" /\ m.what # "needs_user"
         => status'[worker'[m.worker].run] \in Terminal

\* What there is to show about the ledger in the next state.
LEMMA RecordedNext ==
  ASSUME \A w \in WorkerIds : ThreadNext(w), \A i \in 1..Len(queue') : ToldNext(queue'[i])
  PROVE  Recorded'
BY DEF Recorded, ThreadNext, ToldNext, Working

\* A Run that waits for the user has no agent's report in the queue.
LEMMA ToldFrame ==
  ASSUME Typed, Signals, Recorded, UNCHANGED queue,
         \A v \in WorkerIds : worker[v].pc # "none" =>
           /\ worker'[v].eng = worker[v].eng /\ worker'[v].run = worker[v].run
           /\ status'[worker[v].run] = status[worker[v].run] \/ status[worker[v].run] = "WAITING_USER"
  PROVE  \A i \in 1..Len(queue') : ToldNext(queue'[i])
<1>1. \A i \in 1..Len(queue) : queue[i].worker \in WorkerIds
        /\ worker[queue[i].worker].pc # "none"
  BY PostedWorkers DEF Typed, Signals, SignalOK
<1> QED BY <1>1 DEF Recorded, ToldNext, Terminal

\* While an attempt is under way no report is in the queue.
LEMMA NoReportYet ==
  ASSUME Typed, OneWorker, Signals, NEW w \in WorkerIds, worker[w].pc = "running",
         NEW i \in 1..Len(queue)
  PROVE  ~Reports(queue[i])
<1>1. SUFFICES ASSUME Reports(queue[i]) PROVE FALSE
  OBVIOUS
<1>2. queue[i].worker \in WorkerIds
  BY PostedWorkers DEF Typed
<1>3. ui[queue[i].worker] = "none" /\ worker[queue[i].worker].pc \in {"settled", "exited"}
  BY <1>1 DEF Signals, SignalOK
<1> QED BY <1>2, <1>3 DEF OneWorker

\* A posted signal says of the Run what the ledger says.
LEMMA ToldPost ==
  ASSUME Typed, OneWorker, Signals, Recorded, NEW w \in WorkerIds, NEW m \in Posts, m.worker = w,
         queue' = Append(queue, m), worker[w].pc \in {"running", "settled"},
         \A v \in WorkerIds : worker'[v].eng = worker[v].eng /\ worker'[v].run = worker[v].run,
         UNCHANGED status \/ worker[w].pc = "running", ToldNext(m)
  PROVE  \A i \in 1..Len(queue') : ToldNext(queue'[i])
<1>1. \A i \in 1..Len(queue') : \/ i \in 1..Len(queue) /\ queue'[i] = queue[i]
                                \/ i = Len(queue) + 1 /\ queue'[i] = m
  BY QueueAppended DEF Typed
<1>2. \A i \in 1..Len(queue) : queue[i].worker \in WorkerIds
  BY PostedWorkers DEF Typed
<1>3. ASSUME NEW i \in 1..Len(queue) PROVE ToldNext(queue[i])
  <2>1. CASE UNCHANGED status
    BY <1>2, <2>1 DEF Recorded, ToldNext
  <2>2. CASE worker[w].pc = "running"
    <3>1. ~Reports(queue[i])
      BY <2>2, NoReportYet
    <3> QED BY <1>2, <3>1 DEF Reports, ToldNext
  <2> QED BY <2>1, <2>2
<1> QED BY <1>1, <1>3

\* Two reports in the queue are of one thread at most.
LEMMA OneReport ==
  ASSUME Typed, OneWorker, Signals, NEW i \in 1..Len(queue), NEW j \in 1..Len(queue),
         Reports(queue[i]), Reports(queue[j])
  PROVE  i = j
<1>1. queue[i].worker \in WorkerIds /\ queue[j].worker \in WorkerIds
  BY PostedWorkers DEF Typed
<1>2. /\ ui[queue[i].worker] = "none" /\ worker[queue[i].worker].pc # "none"
      /\ ui[queue[j].worker] = "none" /\ worker[queue[j].worker].pc # "none"
  BY DEF Signals, SignalOK
<1>3. queue[i].worker = queue[j].worker
  BY <1>1, <1>2 DEF OneWorker
<1> QED BY <1>3 DEF Signals, ReportsOnce

\* The threads a slot can find at work: none whose report it takes, and none of the Run
\* of another slot.
LEMMA SlotStatus ==
  ASSUME Typed, OneRun, OneWorker, Signals, Recorded, SlotNext
  PROVE  /\ Reports(Head(queue)) => \A v \in WorkerIds : worker[v].pc # "running"
         /\ \A v \in WorkerIds : worker[v].pc # "none" /\ worker[v].eng # "legacy"
               /\ status'[worker[v].run] # status[worker[v].run] => Reports(Head(queue))
                    /\ worker[Src].eng = worker[v].eng
         /\ \A v \in WorkerIds : worker[v].pc # "none" /\ worker[v].eng # "legacy"
               /\ status[worker[v].run] \in Terminal => status'[worker[v].run] \in Terminal
<1>1. /\ Slot(Src) /\ Src \in WorkerIds /\ queue # <<>> /\ worker[Src].run \in RunIds
           /\ worker[Src].pc # "none"
      /\ \A r \in RunIds : r # worker[Src].run => status'[r] = status[r]
  BY SlotKeeps, SrcFacts, SlotShapes DEF Kept
<1>2. Head(queue) = queue[1] /\ 1 \in 1..Len(queue)
  BY <1>1, HeadOfQueue DEF Typed
<1>3. Reports(Head(queue)) => \A v \in WorkerIds : worker[v].pc # "running"
  BY <1>2, NoReportYet
<1>4. \A v \in WorkerIds : worker[v].pc # "none" /\ worker[v].run = worker[Src].run
        => worker[v].eng = worker[Src].eng
  BY <1>1 DEF OneWorker
<1>5. worker[Src].eng # "legacy" /\ status' # status => Reports(Head(queue))
  BY <1>1 DEF Slot, LegacySlot, PipelineSlot, AgentSlot, ThreadSlot
<1>6. worker[Src].eng # "legacy" => RunSettles(worker[Src].run) \/ UNCHANGED status
  BY <1>1 DEF Slot, LegacySlot, PipelineSlot, AgentSlot, ThreadSlot
<1>7. \A v \in WorkerIds : worker[v].pc # "none" => worker[v].run \in RunIds
  BY RunOfThread
<1>8. \A v \in WorkerIds : worker[v].pc # "none" /\ worker[v].eng # "legacy"
        /\ status'[worker[v].run] # status[worker[v].run] => Reports(Head(queue))
             /\ worker[Src].eng = worker[v].eng
  BY <1>1, <1>4, <1>5, <1>7
<1>9. \A v \in WorkerIds : worker[v].pc # "none" /\ worker[v].eng # "legacy"
        /\ status[worker[v].run] \in Terminal => status'[worker[v].run] \in Terminal
  BY <1>1, <1>4, <1>6, <1>7 DEF RunSettles
<1> QED BY <1>3, <1>8, <1>9

\* Only an agent's slot leaves a worktree to the end of a thread.
LEMMA SlotDispose ==
  ASSUME Typed, OneWorker, Signals, Recorded, SlotNext, NEW v \in WorkerIds, worker'[v].dispose
  PROVE  worker[v].dispose \/ (v = Src /\ worker[Src].eng = "agent" /\ status'[worker[Src].run] \in Terminal)
<1>1. Slot(Src) /\ Src \in WorkerIds
  BY SlotKeeps, SrcFacts, SlotShapes DEF Slot
<1>2. \/ UNCHANGED worker \/ worker' = [worker EXCEPT ![Src].cancel = TRUE]
      \/ /\ worker' = [worker EXCEPT ![Src].dispose = TRUE]
         /\ worker[Src].eng = "agent" /\ status'[worker[Src].run] \in Terminal
  BY <1>1 DEF Slot, LegacySlot, PipelineSlot, AgentSlot, ThreadSlot
<1>3. CASE worker' = [worker EXCEPT ![Src].cancel = TRUE]
  BY <1>1, <1>3 DEF Typed, Threads
<1>4. CASE worker' = [worker EXCEPT ![Src].dispose = TRUE]
  <2>1. v # Src => worker'[v] = worker[v]
    BY <1>1, <1>4 DEF Typed
  <2> QED BY <1>1, <1>2, <1>3, <1>4, <2>1
<1> QED BY <1>2, <1>3, <1>4

\* Only reports and events publish proposals.
LEMMA SlotProps ==
  ASSUME Typed, OneWorker, Signals, Recorded, SlotNext
  PROVE  active'.props = active.props \/ Reports(Head(queue)) \/ Head(queue).kind = "event"
<1>1. Slot(Src) /\ active \in ActiveStates
  BY SlotShapes, SrcFacts DEF Typed
<1>2. Reports(Head(queue)) \/ Head(queue).kind = "event" \/ active' = active \/ ThreadSlot(Src)
  BY <1>1 DEF Slot, LegacySlot, PipelineSlot, AgentSlot
<1>3. ThreadSlot(Src) => active'.props = active.props
  BY <1>1 DEF ThreadSlot, Gives, ActiveStates
<1> QED BY <1>2, <1>3

\* Taking a signal keeps the ledger in line with the threads.
LEMMA RecordedSlot ==
  ASSUME Typed, OneRun, OneWorker, Signals, Recorded, SlotNext
  PROVE  Recorded'
<1>1. /\ Src \in WorkerIds /\ queue # <<>> /\ queue' = Tail(queue) /\ main'.pc = "idle"
           /\ worker[Src].pc # "none"
      /\ \A v \in WorkerIds : /\ worker'[v].pc = worker[v].pc /\ worker'[v].run = worker[v].run
                              /\ worker'[v].eng = worker[v].eng
                                   /\ worker'[v].follow = worker[v].follow
                              /\ worker[v].pc = "none" => worker'[v] = worker[v]
  BY SlotKeeps, SrcFacts DEF Kept, Idle
<1>2. /\ Head(queue) = queue[1] /\ 1 \in 1..Len(queue) /\ Len(queue) \in Nat
      /\ \A i \in 1..Len(queue') : i + 1 \in 1..Len(queue) /\ queue'[i] = queue[i + 1]
           /\ i + 1 # 1
      /\ \A i \in 1..Len(queue) : queue[i].worker \in WorkerIds
           /\ worker[queue[i].worker].pc # "none"
  BY <1>1, HeadOfQueue, PostedWorkers DEF Typed, Signals, SignalOK
<1>3. /\ Reports(Head(queue)) => \A v \in WorkerIds : worker[v].pc # "running"
      /\ \A v \in WorkerIds : worker[v].pc # "none" /\ worker[v].eng # "legacy"
            /\ status'[worker[v].run] # status[worker[v].run] => Reports(Head(queue))
                 /\ worker[Src].eng = worker[v].eng
      /\ \A v \in WorkerIds : worker[v].pc # "none" /\ worker[v].eng # "legacy"
            /\ status[worker[v].run] \in Terminal => status'[worker[v].run] \in Terminal
  BY SlotStatus
<1>4. ASSUME NEW v \in WorkerIds PROVE ThreadNext(v)
  <2>1. Working(v)' /\ ~worker'[v].follow => status'[worker'[v].run] = "RUNNING"
    BY <1>1, <1>3 DEF Working, Recorded
  <2>2. worker'[v].pc = "running" /\ worker'[v].follow => active'.props = {}
          /\ worker'[v].eng = "pipeline"
    <3>1. SUFFICES ASSUME worker[v].pc = "running", worker[v].follow PROVE active'.props = {}
            /\ worker'[v].eng = "pipeline"
      BY <1>1
    <3>2. ~Reports(Head(queue)) /\ Head(queue).kind # "event"
      BY <1>2, <1>3, <3>1 DEF Signals, NoEventLeft
    <3>3. active'.props = active.props
      BY <3>2, SlotProps
    <3> QED BY <1>1, <3>1, <3>3 DEF Recorded
  <2>3. worker'[v].dispose => worker'[v].eng = "agent" /\ status'[worker'[v].run] \in Terminal
    <3>1. SUFFICES ASSUME worker'[v].dispose PROVE worker'[v].eng = "agent"
            /\ status'[worker'[v].run] \in Terminal
      OBVIOUS
    <3>2. worker[v].dispose \/ (v = Src /\ worker[Src].eng = "agent" /\ status'[worker[Src].run] \in Terminal)
      BY <3>1, SlotDispose
    <3>3. worker[v].dispose => worker[v].eng = "agent" /\ status[worker[v].run] \in Terminal
            /\ worker[v].pc # "none"
      BY DEF Recorded, OneWorker, NoWorker
    <3> QED BY <1>1, <1>3, <3>2, <3>3
  <2> QED BY <1>1, <2>1, <2>2, <2>3 DEF ThreadNext
<1>5. ASSUME NEW i \in 1..Len(queue') PROVE ToldNext(queue'[i])
  <2>1. SUFFICES ASSUME NEW j \in 1..Len(queue), j # 1 PROVE ToldNext(queue[j])
    BY <1>2
  <2>2. SUFFICES ASSUME worker[queue[j].worker].eng = "agent",
          queue[j].kind \in {"failed", "finished_ok"} PROVE ToldNext(queue[j])
    BY <1>1, <1>2 DEF ToldNext
  <2>3. ~Reports(queue[1])
    BY <1>2, <2>1, <2>2, OneReport DEF Reports
  <2>4. status'[worker[queue[j].worker].run] = status[worker[queue[j].worker].run]
    BY <1>2, <1>3, <2>2, <2>3
  <2> QED BY <1>1, <1>2, <2>2, <2>4 DEF Recorded, ToldNext
<1> QED BY <1>4, <1>5, RecordedNext

\* Every step keeps the ledger in line with the threads.
LEMMA RecordedStep ==
  ASSUME Typed, OneRun, OneWorker, Following, Signals, Recorded, [Orderly]_vars
  PROVE  Recorded'
<1>1. ASSUME NEW e \in Engines, NEW s \in Sessions, Start(e, s) PROVE Recorded'
  <2>1. /\ UNCHANGED queue /\ main'.pc = "idle" /\ active'.props = {} /\ FreeWorker \in WorkerIds
        /\ worker[FreeWorker].pc = "none" /\ worker'[FreeWorker].run = FreeRun
             /\ ~worker'[FreeWorker].follow
        /\ ~worker'[FreeWorker].dispose /\ status'[FreeRun] = "RUNNING"
        /\ \A v \in WorkerIds : v # FreeWorker => worker'[v] = worker[v]
        /\ status[FreeRun] = "none" /\ \A q \in RunIds : q # FreeRun => status'[q] = status[q]
    BY <1>1, StartKeeps DEF Idle
  <2>5. \A v \in WorkerIds : worker[v].pc # "none" => worker'[v] = worker[v]
          /\ status'[worker[v].run] = status[worker[v].run]
    BY <2>1, RunOfThread DEF OneWorker
  <2>7. \A v \in WorkerIds : worker[v].dispose => worker[v].pc # "none"
    BY DEF OneWorker, NoWorker
  <2>2. \A v \in WorkerIds : ThreadNext(v)
    BY <2>1, <2>5, <2>7 DEF ThreadNext, Recorded, Working
  <2>8. \A i \in 1..Len(queue') : ToldNext(queue'[i])
    BY <2>1, <2>5, ToldFrame
  <2> QED BY <2>2, <2>8, RecordedNext
<1>2. ASSUME NEW e \in Engines, NEW s \in Sessions, StartFails(e, s) PROVE Recorded'
  <2>1. /\ UNCHANGED <<queue, worker>> /\ main'.pc = "idle"
             /\ (active'.props = {} \/ active'.props = active.props)
        /\ status[FreeRun] = "none" /\ \A q \in RunIds : q # FreeRun => status'[q] = status[q]
    BY <1>2, StartFailsKeeps DEF Idle
  <2>5. \A v \in WorkerIds : worker[v].pc # "none"
          => status'[worker[v].run] = status[worker[v].run]
    BY <2>1, RunOfThread DEF OneWorker
  <2>7. \A v \in WorkerIds : worker[v].dispose => worker[v].pc # "none"
    BY DEF OneWorker, NoWorker
  <2>2. \A v \in WorkerIds : ThreadNext(v)
    BY <2>1, <2>5, <2>7 DEF ThreadNext, Recorded, Working
  <2>8. \A i \in 1..Len(queue') : ToldNext(queue'[i])
    BY <2>1, <2>5, ToldFrame
  <2> QED BY <2>2, <2>8, RecordedNext
<1>3. CASE FollowUpCheck
  <2>1. /\ UNCHANGED <<queue, status, active, worker>> /\ main'.pc # "release"
        /\ (main'.pc \in {"idle", "follow"} \/ main.pc \in {"checked", "write"})
    BY <1>3 DEF FollowUpCheck, Deciding, Typed, Requests, Idle
  <2>2. \A v \in WorkerIds : ThreadNext(v)
    BY <2>1 DEF ThreadNext, Recorded, Working
  <2>8. \A i \in 1..Len(queue') : ToldNext(queue'[i])
    BY <2>1, ToldFrame
  <2> QED BY <2>2, <2>8, RecordedNext
<1>4. CASE Cancel
  <2>1. /\ UNCHANGED <<queue, status, active>> /\ main'.pc \in {"idle", "stopping"}
        /\ \A v \in WorkerIds : /\ worker'[v].run = worker[v].run
                                     /\ worker'[v].eng = worker[v].eng
                                          /\ worker'[v].pc = worker[v].pc
                                /\ worker'[v].follow = worker[v].follow
                                     /\ worker'[v].dispose = worker[v].dispose
    BY <1>4, ActiveFacts DEF Cancel, Alive, Typed, Threads, Idle
  <2>2. \A v \in WorkerIds : ThreadNext(v)
    BY <2>1 DEF ThreadNext, Recorded, Working
  <2>8. \A i \in 1..Len(queue') : ToldNext(queue'[i])
    BY <2>1, ToldFrame
  <2> QED BY <2>2, <2>8, RecordedNext
<1>5. CASE Reject
  <2>1. /\ UNCHANGED <<queue, status, active, worker>> /\ main'.pc # "release"
        /\ (active.props # {})
    BY <1>5 DEF Reject, Deciding, Idle
  <2>2. \A v \in WorkerIds : ThreadNext(v)
    BY <2>1 DEF ThreadNext, Recorded, Working
  <2>8. \A i \in 1..Len(queue') : ToldNext(queue'[i])
    BY <2>1, ToldFrame
  <2> QED BY <2>2, <2>8, RecordedNext
<1>6. CASE ShutdownAsk
  <2>1. /\ UNCHANGED <<queue, status, active>> /\ main'.pc \in {"idle", "stopping"}
        /\ \A v \in WorkerIds : /\ worker'[v].run = worker[v].run
                                     /\ worker'[v].eng = worker[v].eng
                                          /\ worker'[v].pc = worker[v].pc
                                /\ worker'[v].follow = worker[v].follow
                                     /\ worker'[v].dispose = worker[v].dispose
    BY <1>6, ActiveFacts DEF ShutdownAsk, Alive, Typed, Threads, Idle
  <2>2. \A v \in WorkerIds : ThreadNext(v)
    BY <2>1 DEF ThreadNext, Recorded, Working
  <2>8. \A i \in 1..Len(queue') : ToldNext(queue'[i])
    BY <2>1, ToldFrame
  <2> QED BY <2>2, <2>8, RecordedNext
<1>7. ASSUME NEW wanted \in SUBSET Paths, ApplyCheck(wanted) PROVE Recorded'
  <2>1. /\ UNCHANGED <<queue, status, active, worker>> /\ main'.pc # "release"
        /\ (active.props # {})
    BY <1>7 DEF ApplyCheck, Deciding, Typed, Requests, Idle
  <2>2. \A v \in WorkerIds : ThreadNext(v)
    BY <2>1 DEF ThreadNext, Recorded, Working
  <2>8. \A i \in 1..Len(queue') : ToldNext(queue'[i])
    BY <2>1, ToldFrame
  <2> QED BY <2>2, <2>8, RecordedNext
<1>8. CASE SlotNext
  BY <1>8, RecordedSlot
<1>9. CASE Checkpoint
  <2>1. /\ UNCHANGED <<queue, status, active, worker>> /\ main'.pc # "release"
        /\ (main'.pc \in {"idle", "follow"} \/ main.pc \in {"checked", "write"})
    BY <1>9 DEF Checkpoint, Deciding, Typed, Requests, Idle
  <2>2. \A v \in WorkerIds : ThreadNext(v)
    BY <2>1 DEF ThreadNext, Recorded, Working
  <2>8. \A i \in 1..Len(queue') : ToldNext(queue'[i])
    BY <2>1, ToldFrame
  <2> QED BY <2>2, <2>8, RecordedNext
<1>10. ASSUME NEW p \in Paths, Write(p) PROVE Recorded'
  <2>1. /\ UNCHANGED <<queue, status, active, worker>> /\ main'.pc # "release"
        /\ (main'.pc \in {"idle", "follow"} \/ main.pc \in {"checked", "write"})
    BY <1>10 DEF Write, Deciding, Typed, Requests, Idle, ApplyFrame, published
  <2>2. \A v \in WorkerIds : ThreadNext(v)
    BY <2>1 DEF ThreadNext, Recorded, Working
  <2>8. \A i \in 1..Len(queue') : ToldNext(queue'[i])
    BY <2>1, ToldFrame
  <2> QED BY <2>2, <2>8, RecordedNext
<1>11. CASE ApplySettle
  <2>10. UNCHANGED <<queue, active, worker>> /\ main.pc = "write" /\ main.run = active.run
           /\ main.run # 0
    BY <1>11 DEF ApplySettle, ApplyFrame, published, OneRun
  <2>11. \A r \in RunIds : \/ status'[r] = status[r]
                           \/ r = main.run /\ status[r] = "WAITING_USER"
    BY <1>11 DEF ApplySettle, Typed
  <2>12. [main EXCEPT !.errors = TRUE].pc = "write"
    BY <2>10 DEF Typed, Requests
  <2>13. main'.pc = "release" => status[main.run] = "WAITING_USER"
    BY <1>11, <2>12 DEF ApplySettle
  <2>1. /\ UNCHANGED <<queue, active, worker>> /\ main.pc = "write" /\ main.run = active.run
             /\ main.run # 0
        /\ \A r \in RunIds : \/ status'[r] = status[r]
                             \/ r = main.run /\ status[r] = "WAITING_USER"
        /\ (main'.pc = "release" => status[main.run] = "WAITING_USER")
    BY <2>10, <2>11, <2>13
  <2>5. \A v \in WorkerIds : worker[v].pc # "none" => \/ status'[worker[v].run] = status[worker[v].run]
                                                      \/ status[worker[v].run] = "WAITING_USER"
    BY <2>1, RunOfThread
  <2>6. \A v \in WorkerIds : worker[v].pc = "running" => ~worker[v].follow
          /\ worker[v].run = main.run
    BY <2>1, Bounds DEF Recorded, OneWorker, OneRun
  <2>7. \A v \in WorkerIds : worker[v].dispose => worker[v].pc # "none"
    BY DEF OneWorker, NoWorker
  <2>2. ASSUME NEW v \in WorkerIds PROVE ThreadNext(v)
    <3>1. Working(v) => status[main.run] = "RUNNING" /\ ~worker[v].follow
      BY <2>6 DEF Recorded, Working
    <3>2. worker[v].pc = "running" => ~worker[v].follow
      BY <2>6
    <3>3. worker[v].dispose => worker[v].eng = "agent" /\ status'[worker[v].run] \in Terminal
      BY <2>5, <2>7 DEF Recorded, Terminal
    <3>4. Working(v) => status'[worker[v].run] = "RUNNING" /\ main'.pc # "release"
      BY <2>1, <2>5, <2>6, <3>1 DEF Working
    <3> QED BY <2>1, <3>1, <3>2, <3>3, <3>4 DEF ThreadNext, Working
  <2>8. \A i \in 1..Len(queue') : ToldNext(queue'[i])
    BY <2>1, <2>5, ToldFrame
  <2> QED BY <2>2, <2>8, RecordedNext
<1>12. CASE DecisionRelease
  <2>1. UNCHANGED <<queue, worker, status>> /\ active'.props = {} /\ main'.pc = "idle"
    BY <1>12, ReleaseKeeps DEF DecisionRelease, Idle
  <2>2. \A v \in WorkerIds : ThreadNext(v)
    BY <2>1 DEF ThreadNext, Recorded, Working
  <2>8. \A i \in 1..Len(queue') : ToldNext(queue'[i])
    BY <2>1, ToldFrame
  <2> QED BY <2>2, <2>8, RecordedNext
<1>13. CASE Restore
  <2>1. /\ UNCHANGED <<queue, status, active, worker>> /\ main'.pc # "release"
        /\ (main'.pc \in {"idle", "follow"} \/ main.pc \in {"checked", "write"})
    BY <1>13 DEF Restore, Deciding, Typed, Requests, Idle, ApplyFrame, published
  <2>2. \A v \in WorkerIds : ThreadNext(v)
    BY <2>1 DEF ThreadNext, Recorded, Working
  <2>8. \A i \in 1..Len(queue') : ToldNext(queue'[i])
    BY <2>1, ToldFrame
  <2> QED BY <2>2, <2>8, RecordedNext
<1>14. CASE FollowUpStart
  <2>1. /\ UNCHANGED queue /\ main'.pc = "idle" /\ FreeWorker \in WorkerIds
             /\ worker[FreeWorker].pc = "none"
        /\ \A q \in RunIds : q # active.run => status'[q] = status[q]
        /\ status[active.run] = "WAITING_USER" /\ active.engine \in {"pipeline", "agent"}
        /\ \A v \in WorkerIds : worker[v].pc # "running"
    BY <1>14, FollowUpStartKeeps, ActiveFacts DEF Idle, Following, OneWorker, EngineKinds
  <2>4. \/ UNCHANGED worker
        \/ /\ Follower(FreeWorker, active.run) /\ active'.props = {}
           /\ status'[active.run] = IF active.engine = "agent" THEN "RUNNING" ELSE status[active.run]
    BY <1>14, FollowUpStartKeeps
  <2>5. \A v \in WorkerIds : worker[v].pc # "none" => \/ status'[worker[v].run] = status[worker[v].run]
                                                      \/ status[worker[v].run] = "WAITING_USER"
    BY <2>1, RunOfThread
  <2>6. \A v \in WorkerIds : v # FreeWorker => worker'[v] = worker[v]
    BY <2>4 DEF Follower
  <2>7. \A v \in WorkerIds : worker[v].dispose => worker[v].pc # "none"
    BY DEF OneWorker, NoWorker
  <2>2. ASSUME NEW v \in WorkerIds PROVE ThreadNext(v)
    <3>1. CASE v # FreeWorker \/ UNCHANGED worker
      BY <2>1, <2>5, <2>6, <2>7, <3>1 DEF ThreadNext, Recorded, Working, Terminal
    <3>2. CASE v = FreeWorker /\ Follower(FreeWorker, active.run) /\ active'.props = {}
               /\ status'[active.run] = IF active.engine = "agent" THEN "RUNNING" ELSE status[active.run]
      BY <2>1, <3>2 DEF ThreadNext, Working, Follower
    <3> QED BY <2>4, <3>1, <3>2
  <2>8. \A i \in 1..Len(queue') : ToldNext(queue'[i])
    BY <2>1, <2>5, <2>6, ToldFrame
  <2> QED BY <2>2, <2>8, RecordedNext
<1>15. CASE ShutdownRelease
  <2>1. UNCHANGED <<queue, worker, status>> /\ active'.props = active.props /\ main'.pc = "down"
    BY <1>15, ShutdownReleaseKeeps
  <2>2. \A v \in WorkerIds : ThreadNext(v)
    BY <2>1 DEF ThreadNext, Recorded, Working
  <2>8. \A i \in 1..Len(queue') : ToldNext(queue'[i])
    BY <2>1, ToldFrame
  <2> QED BY <2>2, <2>8, RecordedNext
<1>16. ASSUME NEW w \in WorkerIds, Resume(w) PROVE Recorded'
  <2>1. /\ UNCHANGED <<queue, active, main>> /\ status[worker[w].run] = "WAITING_USER"
             /\ worker[w].pc = "running" /\ worker[w].follow
        /\ \A v \in WorkerIds : /\ worker'[v].run = worker[v].run
                                     /\ worker'[v].eng = worker[v].eng
                                          /\ worker'[v].pc = worker[v].pc
                                /\ worker'[v].dispose = worker[v].dispose
                                /\ v # w => worker'[v].follow = worker[v].follow
    BY <1>16, ZenonT(40) DEF Resume, WorkerOnly, Typed, Threads
  <2>3. worker[w].run \in RunIds /\ status'[worker[w].run] = "RUNNING"
          /\ \A r \in RunIds : r # worker[w].run => status'[r] = status[r]
    BY <1>16, <2>1, RunOfThread DEF Resume, Typed
  <2>4. ~worker'[w].follow
    BY <1>16 DEF Resume, Typed, Threads
  <2>5. \A v \in WorkerIds : worker[v].pc # "none" => \/ status'[worker[v].run] = status[worker[v].run]
                                                      \/ status[worker[v].run] = "WAITING_USER"
    BY <2>1, <2>3, RunOfThread
  <2>7. \A v \in WorkerIds : worker[v].dispose => worker[v].pc # "none"
    BY DEF OneWorker, NoWorker
  <2>9. \A v \in WorkerIds : worker[v].pc = "running" => v = w
    BY <2>1 DEF OneWorker
  <2>2. ASSUME NEW v \in WorkerIds PROVE ThreadNext(v)
    <3>1. worker[v].pc = "running" => v = w /\ ~worker'[v].follow
            /\ status'[worker[v].run] = "RUNNING" /\ main.pc # "release"
      BY <2>1, <2>3, <2>4, <2>9 DEF Recorded
    <3>2. worker[v].dispose => worker[v].eng = "agent" /\ status'[worker[v].run] \in Terminal
      BY <2>5, <2>7 DEF Recorded, Terminal
    <3> QED BY <2>1, <3>1, <3>2 DEF ThreadNext, Working
  <2>8. \A i \in 1..Len(queue') : ToldNext(queue'[i])
    BY <2>1, <2>5, ToldFrame
  <2> QED BY <2>2, <2>8, RecordedNext
<1>17. ASSUME NEW w \in WorkerIds, NEW o \in Reportable, Report(w, o) PROVE Recorded'
  <2>1. /\ worker' = [worker EXCEPT ![w].pc = "settled"] /\ UNCHANGED <<active, main>>
             /\ worker[w].pc \in {"running", "settled"}
        /\ queue' = Append(queue, [worker |-> w, kind |-> "finished_ok", what |-> o])
    BY <1>17 DEF Report, Post, WorkerOnly
  <2> DEFINE m == [worker |-> w, kind |-> "finished_ok", what |-> o]
  <2>3. m.worker = w /\ m.kind = "finished_ok" /\ m.what = o /\ m \in Posts
          /\ queue' = Append(queue, m)
    BY <2>1 DEF Posts, Reportable, Emitted
  <2> HIDE DEF m
  <2>4. \A v \in WorkerIds : /\ worker'[v].run = worker[v].run /\ worker'[v].eng = worker[v].eng
                             /\ worker'[v].follow = worker[v].follow
                                  /\ worker'[v].dispose = worker[v].dispose
                             /\ v # w => worker'[v] = worker[v]
    BY <2>1, ThreadMoves
  <2>5. worker'[w].pc = "settled"
    BY <2>1, ThreadMoves
  <2>9. worker[w].pc = "running" /\ worker[w].eng # "legacy"
    BY <1>17 DEF Report
  <2>10. /\ worker[w].run \in RunIds /\ (status[worker[w].run] # "RUNNING" => UNCHANGED status)
         /\ \A r \in RunIds : r # worker[w].run => status'[r] = status[r]
         /\ (o # "needs_user" /\ status[worker[w].run] = "RUNNING" => status'[worker[w].run] \in Terminal)
    BY <1>17, ReportKeeps
  <2>11. \A v \in WorkerIds : worker[v].pc = "running" => v = w
    BY <2>9 DEF OneWorker
  <2>12. \A v \in WorkerIds : worker[v].dispose => worker[v].pc # "none"
    BY DEF OneWorker, NoWorker
  <2>6. ASSUME NEW v \in WorkerIds PROVE ThreadNext(v)
    <3>1. worker'[v].pc # "running"
      BY <2>4, <2>5, <2>11
    <3>2. worker[v].dispose => worker[v].eng = "agent" /\ status[worker[v].run] \in Terminal
      BY DEF Recorded
    <3>3. worker[v].dispose => status'[worker[v].run] \in Terminal
      BY <2>10, <2>12, <3>2, RunOfThread DEF Terminal
    <3> QED BY <2>4, <3>1, <3>2, <3>3 DEF ThreadNext, Working
  <2>7. ToldNext(m)
    <3>1. worker[w].eng = "agent" => status[worker[w].run] = "RUNNING"
      BY <2>9 DEF Recorded, Working
    <3> QED BY <2>3, <2>4, <2>10, <3>1 DEF ToldNext
  <2>8. \A i \in 1..Len(queue') : ToldNext(queue'[i])
    BY <2>1, <2>3, <2>4, <2>7, <2>9, ToldPost
  <2> QED BY <2>6, <2>8, RecordedNext
<1>18. ASSUME NEW w \in WorkerIds, Raise(w) PROVE Recorded'
  <2>1. /\ worker' = [worker EXCEPT ![w].pc = "settled"] /\ UNCHANGED <<active, main, status>>
             /\ worker[w].pc \in {"running", "settled"}
        /\ queue' = Append(queue, [worker |-> w, kind |-> "failed", what |-> "none"])
    BY <1>18 DEF Raise, Post, WorkerOnly
  <2> DEFINE m == [worker |-> w, kind |-> "failed", what |-> "none"]
  <2>3. m.worker = w /\ m.kind = "failed" /\ m.what = "none" /\ m \in Posts
          /\ queue' = Append(queue, m)
    BY <2>1 DEF Posts, Reportable, Emitted
  <2> HIDE DEF m
  <2>4. \A v \in WorkerIds : /\ worker'[v].run = worker[v].run /\ worker'[v].eng = worker[v].eng
                             /\ worker'[v].follow = worker[v].follow
                                  /\ worker'[v].dispose = worker[v].dispose
                             /\ v # w => worker'[v] = worker[v]
    BY <2>1, ThreadMoves
  <2>5. worker'[w].pc = "settled"
    BY <2>1, ThreadMoves
  <2>6. \A v \in WorkerIds : ThreadNext(v)
    BY <1>18, <2>1, <2>4, <2>5 DEF ThreadNext, Recorded, Working, Raise
  <2>7. ToldNext(m)
    BY <1>18, <2>1, <2>3, <2>4 DEF Raise, ToldNext, Recorded, Working
  <2>8. \A i \in 1..Len(queue') : ToldNext(queue'[i])
    BY <1>18, <2>1, <2>3, <2>4, <2>7, ToldPost
  <2> QED BY <2>6, <2>8, RecordedNext
<1>19. ASSUME NEW w \in WorkerIds, NEW what \in Emitted, LegacyEmit(w, what) PROVE Recorded'
  <2>0. PICK x \in {"running", "settled"} : worker' = [worker EXCEPT ![w].pc = x]
    BY <1>19 DEF LegacyEmit
  <2>1. /\ worker' = [worker EXCEPT ![w].pc = x] /\ UNCHANGED <<active, main, status>>
             /\ worker[w].pc \in {"running", "settled"}
        /\ queue' = Append(queue, [worker |-> w, kind |-> "event", what |-> what])
    BY <1>19, <2>0 DEF LegacyEmit, Post, WorkerOnly
  <2> DEFINE m == [worker |-> w, kind |-> "event", what |-> what]
  <2>3. m.worker = w /\ m.kind = "event" /\ m.what = what /\ m \in Posts
          /\ queue' = Append(queue, m)
    BY <2>1 DEF Posts, Reportable, Emitted
  <2> HIDE DEF m
  <2>4. \A v \in WorkerIds : /\ worker'[v].run = worker[v].run /\ worker'[v].eng = worker[v].eng
                             /\ worker'[v].follow = worker[v].follow
                                  /\ worker'[v].dispose = worker[v].dispose
                             /\ v # w => worker'[v] = worker[v]
    BY <2>1, ThreadMoves
  <2>5. worker'[w].pc = x
    BY <2>1, ThreadMoves
  <2>6. \A v \in WorkerIds : ThreadNext(v)
    BY <1>19, <2>1, <2>4, <2>5 DEF ThreadNext, Recorded, Working, LegacyEmit
  <2>7. ToldNext(m)
    BY <2>3 DEF ToldNext
  <2>8. \A i \in 1..Len(queue') : ToldNext(queue'[i])
    BY <1>19, <2>1, <2>3, <2>4, <2>7, ToldPost
  <2> QED BY <2>6, <2>8, RecordedNext
<1>20. ASSUME NEW w \in WorkerIds, LegacyCancelled(w) PROVE Recorded'
  <2>1. /\ worker' = [worker EXCEPT ![w].pc = "settled"] /\ UNCHANGED <<active, main, status>>
             /\ worker[w].pc \in {"running", "settled"}
        /\ queue' = Append(queue, [worker |-> w, kind |-> "cancelled", what |-> "none"])
    BY <1>20 DEF LegacyCancelled, Post, WorkerOnly
  <2> DEFINE m == [worker |-> w, kind |-> "cancelled", what |-> "none"]
  <2>3. m.worker = w /\ m.kind = "cancelled" /\ m.what = "none" /\ m \in Posts
          /\ queue' = Append(queue, m)
    BY <2>1 DEF Posts, Reportable, Emitted
  <2> HIDE DEF m
  <2>4. \A v \in WorkerIds : /\ worker'[v].run = worker[v].run /\ worker'[v].eng = worker[v].eng
                             /\ worker'[v].follow = worker[v].follow
                                  /\ worker'[v].dispose = worker[v].dispose
                             /\ v # w => worker'[v] = worker[v]
    BY <2>1, ThreadMoves
  <2>5. worker'[w].pc = "settled"
    BY <2>1, ThreadMoves
  <2>6. \A v \in WorkerIds : ThreadNext(v)
    BY <1>20, <2>1, <2>4, <2>5 DEF ThreadNext, Recorded, Working, LegacyCancelled
  <2>7. ToldNext(m)
    BY <2>3 DEF ToldNext
  <2>8. \A i \in 1..Len(queue') : ToldNext(queue'[i])
    BY <1>20, <2>1, <2>3, <2>4, <2>7, ToldPost
  <2> QED BY <2>6, <2>8, RecordedNext
<1>21. ASSUME NEW w \in WorkerIds, Exit(w) PROVE Recorded'
  <2>1. /\ worker' = [worker EXCEPT ![w].pc = "exited"] /\ UNCHANGED <<active, main, status>>
             /\ worker[w].pc \in {"running", "settled"}
        /\ queue' = Append(queue, [worker |-> w, kind |-> "finished", what |-> "none"])
    BY <1>21 DEF Exit, Post, WorkerOnly
  <2> DEFINE m == [worker |-> w, kind |-> "finished", what |-> "none"]
  <2>3. m.worker = w /\ m.kind = "finished" /\ m.what = "none" /\ m \in Posts
          /\ queue' = Append(queue, m)
    BY <2>1 DEF Posts, Reportable, Emitted
  <2> HIDE DEF m
  <2>4. \A v \in WorkerIds : /\ worker'[v].run = worker[v].run /\ worker'[v].eng = worker[v].eng
                             /\ worker'[v].follow = worker[v].follow
                                  /\ worker'[v].dispose = worker[v].dispose
                             /\ v # w => worker'[v] = worker[v]
    BY <2>1, ThreadMoves
  <2>5. worker'[w].pc = "exited"
    BY <2>1, ThreadMoves
  <2>6. \A v \in WorkerIds : ThreadNext(v)
    BY <1>21, <2>1, <2>4, <2>5 DEF ThreadNext, Recorded, Working, Exit
  <2>7. ToldNext(m)
    BY <2>3 DEF ToldNext
  <2>8. \A i \in 1..Len(queue') : ToldNext(queue'[i])
    BY <1>21, <2>1, <2>3, <2>4, <2>7, ToldPost
  <2> QED BY <2>6, <2>8, RecordedNext
<1>22. ASSUME NEW r \in RunIds, DrainEnd(r) PROVE Recorded'
  <2>1. UNCHANGED <<queue, worker, status, main>> /\ active'.props = active.props
    BY <1>22, DrainEndKeeps
  <2>2. \A v \in WorkerIds : ThreadNext(v)
    BY <2>1 DEF ThreadNext, Recorded, Working
  <2>8. \A i \in 1..Len(queue') : ToldNext(queue'[i])
    BY <2>1, ToldFrame
  <2> QED BY <2>2, <2>8, RecordedNext
<1>23. CASE UNCHANGED <<active, worker, queue, status, main>>
  BY <1>23 DEF Recorded, Working
<1>24. ASSUME NEW r \in RunIds, Undo(r) PROVE Recorded'
  BY <1>24, <1>23 DEF Undo, NoFault, collab
<1>25. ASSUME NEW p \in Paths, Edit(p) PROVE Recorded'
  BY <1>25, <1>23 DEF Edit, NoFault, collab
<1>26. ASSUME NEW d \in Deliveries, Capture(d) PROVE Recorded'
  BY <1>26, <1>23 DEF Capture, NoFault, project, published
<1>27. ASSUME NEW d \in Deliveries, Lease(d) PROVE Recorded'
  BY <1>27, <1>23 DEF Lease, DeliveryStep, NoFault, project, published
<1>28. ASSUME NEW d \in Deliveries, Validate(d) PROVE Recorded'
  BY <1>28, <1>23 DEF Validate, DeliveryStep, NoFault, project, published
<1>29. ASSUME NEW d \in Deliveries, Return(d) PROVE Recorded'
  BY <1>29, <1>23 DEF Return, DeliveryStep, NoFault, project, published
<1>30. ASSUME NEW r \in RunIds, DrainBegin(r) PROVE Recorded'
  BY <1>30, <1>23 DEF DrainBegin, NoFault, project, published
<1>32. CASE OldTreeKept
  BY <1>32, <1>23 DEF OldTreeKept
<1>33. ASSUME NEW w \in WorkerIds, LegacyRead(w) \/ LegacyHash(w) PROVE Recorded'
  <2>1. /\ UNCHANGED <<queue, status, active, main>>
        /\ \A v \in WorkerIds : /\ worker'[v].run = worker[v].run /\ worker'[v].eng = worker[v].eng
                                /\ worker'[v].pc = worker[v].pc /\ worker'[v].follow = worker[v].follow
                                /\ worker'[v].dispose = worker[v].dispose
    BY <1>33, ReadsKeep
  <2>2. \A v \in WorkerIds : ThreadNext(v)
    BY <2>1 DEF ThreadNext, Recorded, Working
  <2>8. \A i \in 1..Len(queue') : ToldNext(queue'[i])
    BY <2>1, ToldFrame
  <2> QED BY <2>2, <2>8, RecordedNext
<1>34. CASE RejectSettle
  <2>1. /\ UNCHANGED <<queue, active, worker>> /\ main.pc = "reject" /\ main.run = active.run
             /\ main.run # 0 /\ main'.pc \in {"idle", "release"}
        /\ \A r \in RunIds : \/ status'[r] = status[r]
                             \/ r = main.run /\ status[r] = "WAITING_USER"
        /\ (main'.pc = "release" => status[main.run] = "WAITING_USER")
    BY <1>34, RejectKeeps DEF OneRun
  <2>5. \A v \in WorkerIds : worker[v].pc # "none" => \/ status'[worker[v].run] = status[worker[v].run]
                                                      \/ status[worker[v].run] = "WAITING_USER"
    BY <2>1, RunOfThread
  <2>6. \A v \in WorkerIds : worker[v].pc = "running" => ~worker[v].follow
          /\ worker[v].run = main.run
    BY <2>1, Bounds DEF Recorded, OneWorker, OneRun
  <2>7. \A v \in WorkerIds : worker[v].dispose => worker[v].pc # "none"
    BY DEF OneWorker, NoWorker
  <2>2. ASSUME NEW v \in WorkerIds PROVE ThreadNext(v)
    <3>1. Working(v) => status[main.run] = "RUNNING" /\ ~worker[v].follow
      BY <2>6 DEF Recorded, Working
    <3>2. worker[v].pc = "running" => ~worker[v].follow
      BY <2>6
    <3>3. worker[v].dispose => worker[v].eng = "agent" /\ status'[worker[v].run] \in Terminal
      BY <2>5, <2>7 DEF Recorded, Terminal
    <3>4. Working(v) => status'[worker[v].run] = "RUNNING" /\ main'.pc # "release"
      BY <2>1, <2>5, <2>6, <3>1 DEF Working
    <3> QED BY <2>1, <3>1, <3>2, <3>3, <3>4 DEF ThreadNext, Working
  <2>8. \A i \in 1..Len(queue') : ToldNext(queue'[i])
    BY <2>1, <2>5, ToldFrame
  <2> QED BY <2>2, <2>8, RecordedNext
<1>31. CASE UNCHANGED vars
  BY <1>31 DEF vars, Recorded, Working
<1> QED BY <1>1, <1>2, <1>3, <1>4, <1>5, <1>6, <1>7, <1>8, <1>9, <1>10, <1>11, <1>12,
          <1>13, <1>14, <1>15, <1>16, <1>17, <1>18, <1>19, <1>20, <1>21, <1>22, <1>23,
          <1>24, <1>25, <1>26, <1>27, <1>28, <1>29, <1>30, <1>31, <1>32, <1>33, <1>34
       DEF Orderly, UserNext, ApplyNext, WorkerNext, DeliveryNext, Reportable, Emitted

\* What a decision does to session, worktree and drain.
LEMMA ReleaseEffects ==
  ASSUME Typed, Release
  PROVE  \/ /\ UNCHANGED <<sess, tree>> /\ active'.sess = active.sess /\ active'.ws = active.ws
            /\ UNCHANGED drain \/ (active.sess # 0 /\ drain' = Retain(active.sess, 0))
         \/ /\ active.sess = 0 /\ active'.sess = 0 /\ active'.ws = active.ws
            /\ active.engine = "agent" /\ Remains(active.ws)
            /\ UNCHANGED <<sess, drain>> /\ tree' = Torn(active.ws)
         \/ /\ active.sess # 0 /\ ~Busy(active.sess) /\ Remains(active.ws)
            /\ active'.sess = active.sess /\ active'.ws = active.ws
            /\ sess'[active.sess] = "closed" /\ \A q \in RunIds : q # active.sess
                 => sess'[q] = sess[q]
            /\ drain' = Retain(active.sess, 0) /\ tree' = Torn(active.ws)
         \/ /\ active.sess = 0 /\ active'.sess = 0 /\ active'.ws = 0
            /\ UNCHANGED <<sess, drain>> /\ tree' = Disposed(active.ws)
         \/ /\ active.sess # 0 /\ ~Busy(active.sess) /\ active'.sess = 0 /\ active'.ws = 0
            /\ sess'[active.sess] = "closed" /\ \A q \in RunIds : q # active.sess
                 => sess'[q] = sess[q]
            /\ UNCHANGED drain /\ tree' = Disposed(active.ws)
<1>0. active \in ActiveStates
  BY DEF Typed
<1>4. active.sess # 0 /\ sess' = [sess EXCEPT ![active.sess] = "closed"]
        => sess'[active.sess] = "closed" /\ \A q \in RunIds : q # active.sess => sess'[q] = sess[q]
  BY ActiveFacts DEF Typed
<1>5. /\ [active EXCEPT !.props = {}].sess = active.sess /\ [active EXCEPT !.props = {}].ws = active.ws
      /\ [active EXCEPT !.props = {}, !.ws = 0].sess = active.sess
      /\ [active EXCEPT !.props = {}, !.ws = 0].ws = 0
      /\ [active EXCEPT !.props = {}, !.sess = 0, !.ws = 0].sess = 0
      /\ [active EXCEPT !.props = {}, !.sess = 0, !.ws = 0].ws = 0
  BY <1>0 DEF ActiveStates
<1> QED BY <1>4, <1>5, ReleaseShape

\* dispose() of one worktree leaves the others.
LEMMA DisposedOnly ==
  ASSUME Typed, NEW r
  PROVE  \A q \in RunIds : q # r => Disposed(r)[q] = tree[q] /\ Torn(r)[q] = tree[q]
BY DEF Disposed, Torn, Typed

\* While a decision releases no engine works in a worktree.
LEMMA NoneDeciding ==
  ASSUME Recorded, DecisionRelease, NEW w \in WorkerIds
  PROVE  ~Working(w)
BY DEF DecisionRelease, Recorded

\* While a Run may be started no thread is in its engine.
LEMMA NoneStarting ==
  ASSUME Typed, OneWorker, ~Alive(active.worker), NEW w \in WorkerIds
  PROVE  worker[w].pc \notin {"running", "settled"}
BY Bounds DEF OneWorker, Alive

\* What a slot does to the worktrees.
LEMMA SlotTrees ==
  ASSUME Typed, OneRun, OneWorker, Signals, Recorded, SlotNext
  PROVE  \/ UNCHANGED tree
         \/ /\ tree' = Disposed(active.ws) /\ active'.ws = 0
            /\ worker[Src].eng = "pipeline" /\ ~Bound(worker[Src].run) /\ Reports(Head(queue))
         \/ /\ worker[Src].eng = "agent" /\ status'[worker[Src].run] \in Terminal
            /\ \/ /\ tree' = Disposed(worker[Src].run)
                  /\ active'.ws = IF active.ws = worker[Src].run THEN 0 ELSE active.ws
               \/ tree' = Torn(worker[Src].run) /\ active'.ws = active.ws
<1>1. Slot(Src) /\ Src \in WorkerIds /\ active \in ActiveStates
  BY SlotShapes, SrcFacts DEF Typed, Slot
<1>2. CASE PipelineSlot(Src)
  <2>1. \A ps : active' = [active EXCEPT !.props = ps, !.ws = 0] => active'.ws = 0
    BY <1>1 DEF ActiveStates
  <2> QED BY <1>2, <2>1 DEF PipelineSlot
<1>3. ASSUME NEW ps, Gives(worker[Src].run, ps)
      PROVE  \/ /\ tree' = Disposed(worker[Src].run)
                /\ active'.ws = IF active.ws = worker[Src].run THEN 0 ELSE active.ws
             \/ tree' = Torn(worker[Src].run) /\ active'.ws = active.ws
  BY <1>1, <1>3 DEF Gives, ActiveStates
<1>4. CASE AgentSlot(Src)
  BY <1>3, <1>4 DEF AgentSlot
<1>5. CASE ThreadSlot(Src)
  <2>1. worker[Src].dispose => worker[Src].eng = "agent" /\ status[worker[Src].run] \in Terminal
    BY <1>1 DEF Recorded
  <2> QED BY <1>3, <1>5, <2>1 DEF ThreadSlot
<1>6. CASE LegacySlot(Src)
  BY <1>6 DEF LegacySlot
<1> QED BY <1>1, <1>2, <1>4, <1>5, <1>6 DEF Slot

\* What a slot gives to the drain.
LEMMA SlotDrains ==
  ASSUME Typed, OneWorker, Signals, Recorded, SlotNext
  PROVE  \/ UNCHANGED drain
         \/ /\ Bound(worker[Src].run) /\ drain' = Retain(worker[Src].run, Src)
              /\ Reports(Head(queue))
<1>1. Slot(Src)
  BY SlotShapes
<1> QED BY <1>1 DEF Slot, LegacySlot, PipelineSlot, AgentSlot, ThreadSlot

\* Entries of the drain are kept when one is added.
LEMMA RetainDraining ==
  ASSUME NEW r, NEW w, drain' = Retain(r, w), NEW q, Draining(q)
  PROVE  Draining(q)'
BY DEF Retain, Draining

\* Every step keeps what _active refers to.
LEMMA OwnedStep ==
  ASSUME Typed, OneRun, OneWorker, Following, Signals, Recorded, Owned, Bindings, Closing,
           Guarded, [Orderly]_vars
  PROVE  Owned'
<1>1. ASSUME NEW e \in Engines, NEW s \in Sessions, Start(e, s) PROVE Owned'
  <2>1. /\ FreeRun \in RunIds /\ active'.run = FreeRun /\ active'.engine = e
             /\ (s => e = "pipeline")
        /\ active'.ws = (IF e = "legacy" THEN 0 ELSE FreeRun)
             /\ active'.sess = (IF s THEN FreeRun ELSE 0)
        /\ sess'[FreeRun] = (IF s THEN "open" ELSE "none")
        /\ tree'[FreeRun] = (IF e = "legacy" THEN "none" ELSE "live")
    BY <1>1, StartKeeps
  <2>2. FreeRun # 0
    BY <2>1, Bounds
  <2>3. CASE s
    BY <2>1, <2>2, <2>3 DEF Owned, Bound, Remains
  <2>4. CASE ~s
    BY <2>1, <2>2, <2>4 DEF Owned, Bound, Remains
  <2> QED BY <2>3, <2>4
<1>2. ASSUME NEW e \in Engines, NEW s \in Sessions, StartFails(e, s) PROVE Owned'
  <2>1. /\ FreeRun \in RunIds /\ status[FreeRun] = "none"
        /\ \A q \in RunIds : q # FreeRun => sess'[q] = sess[q]
        /\ \A q \in RunIds : tree'[q] = tree[q] \/ (q = active.ws /\ active.engine = "agent") \/ q = FreeRun
    BY <1>2, StartFailsKeeps
  <2>2. CASE active'.run = 0 /\ active'.ws = 0 /\ active'.sess \in {0, FreeRun}
          /\ (active'.sess = FreeRun => sess'[FreeRun] # "none")
    BY <2>2 DEF Owned, Bound
  <2>3. CASE /\ active'.run = active.run /\ active'.engine = active.engine
                  /\ active'.sess = active.sess
             /\ active'.ws = IF active.engine = "agent" THEN 0 ELSE active.ws
    <3>1. active.sess # 0 => active.sess \in RunIds /\ active.sess # FreeRun
      BY <2>1, ActiveFacts DEF Owned, Bindings
    <3>2. active.run # 0 => active.run \in RunIds /\ active.run # FreeRun
      BY <2>1, ActiveFacts DEF OneRun
    <3>3. active.ws # 0 => active.ws \in RunIds /\ active.ws = active.run
      BY ActiveFacts DEF OneRun
    <3> QED BY <2>1, <2>3, <3>1, <3>2, <3>3 DEF Owned, Bound, Remains
  <2>4. CASE /\ active'.run = FreeRun /\ active'.ws = FreeRun /\ active'.sess = 0
             /\ tree'[FreeRun] = "torn" /\ sess'[FreeRun] = "none"
    BY <2>4 DEF Owned, Bound, Remains
  <2> QED BY <1>2, <2>2, <2>3, <2>4, StartFailsKeeps
<1>3. CASE OldTreeKept
  <2>1. active.engine = "agent" /\ active.ws # 0 /\ UNCHANGED <<active, sess>> /\ tree' = Torn(active.ws)
    BY <1>3 DEF OldTreeKept, Remains
  <2>2. active.ws \in RunIds /\ active.run = active.ws /\ ~Bound(active.run) /\ tree'[active.ws] = "torn"
    BY <2>1, ActiveFacts DEF OneRun, Owned, Torn, Typed
  <2> QED BY <2>1, <2>2 DEF Owned, Bound, Remains
<1>4. CASE SlotNext
  <2>1. Kept /\ UNCHANGED sess /\ queue # <<>>
    BY <1>4, SlotKeeps
  <2>2. active.run # 0 /\ Bound(active.run) => tree'[active.run] = tree[active.run]
    <3>1. SUFFICES ASSUME active.run # 0, Bound(active.run) PROVE tree'[active.run] = tree[active.run]
      OBVIOUS
    <3>2. Src \in WorkerIds /\ worker[Src].pc # "none" /\ active.run \in RunIds
      BY <2>1, <3>1, SrcFacts, ActiveFacts
    <3>3. worker[Src].eng = "agent" => worker[Src].run # active.run
      BY <3>1, <3>2 DEF OneWorker, Owned
    <3>4. ~Bound(worker[Src].run) => active.ws # active.run \/ ~Reports(Head(queue))
      <4>1. SUFFICES ASSUME Reports(Head(queue)), ~Bound(worker[Src].run) PROVE FALSE
        OBVIOUS
      <4>2. Head(queue) = queue[1] /\ 1 \in 1..Len(queue) /\ Head(queue).worker = Src
        BY <2>1, HeadOfQueue DEF Typed, Src
      <4>3. Src = active.worker
        BY <3>2, <4>1, <4>2 DEF Signals, SignalOK, OneWorker
      <4> QED BY <3>1, <3>2, <4>1, <4>3, Bounds DEF OneRun
    <3> QED BY <1>4, <3>2, <3>3, <3>4, SlotTrees, DisposedOnly
  <2>3. active'.ws # 0 => tree'[active.ws] \in {"live", "torn"} /\ active'.ws = active.ws
    <3>1. active'.ws # 0 => active'.ws = active.ws /\ active.ws \in RunIds
            /\ Remains(active.ws)
      BY <2>1, ActiveFacts DEF Kept, Owned
    <3>2. \A r : active.ws \in RunIds /\ active.ws # r =>
            Disposed(r)[active.ws] = tree[active.ws] /\ Torn(r)[active.ws] = tree[active.ws]
      BY DisposedOnly
    <3>3. active.ws \in RunIds => Torn(active.ws)[active.ws] = "torn"
      BY DEF Torn, Typed
    <3>4. CASE active.ws = worker[Src].run
      BY <1>4, <3>1, <3>3, <3>4, SlotTrees DEF Remains
    <3>5. CASE active.ws # worker[Src].run
      BY <1>4, <3>1, <3>2, <3>5, SlotTrees DEF Remains
    <3> QED BY <3>4, <3>5
  <2> QED BY <2>1, <2>2, <2>3 DEF Owned, Kept, Bound, Remains
<1>5. CASE DecisionRelease
  <2>0. Release /\ active.run # 0 /\ active.run \in RunIds
    BY <1>5, ActiveFacts DEF DecisionRelease, OneRun
  <2>1. active'.run = active.run /\ active'.engine = active.engine
    BY <2>0, ReleaseKeeps
  <2>2. CASE UNCHANGED <<sess, tree>> /\ active'.sess = active.sess /\ active'.ws = active.ws
    BY <2>1, <2>2 DEF Owned, Bound, Remains
  <2>3. CASE active.sess = 0 /\ active'.sess = 0 /\ active'.ws = 0 /\ UNCHANGED sess
    BY <2>1, <2>3 DEF Owned, Bound
  <2>4. active.sess # 0 => active.sess = active.run /\ active.engine # "agent"
    BY <2>0 DEF Owned, OneRun
  <2>5. CASE /\ active.sess # 0 /\ active'.sess = 0 /\ active'.ws = 0
             /\ sess'[active.sess] = "closed" /\ \A q \in RunIds : q # active.sess
                  => sess'[q] = sess[q]
    BY <2>1, <2>4, <2>5 DEF Owned, Bound
  <2>6. Remains(active.ws) => active.ws = active.run /\ Torn(active.ws)[active.run] = "torn"
    BY <2>0 DEF OneRun, Remains, Torn, Typed
  <2>7. CASE /\ active.sess = 0 /\ active'.sess = 0 /\ active'.ws = active.ws
             /\ Remains(active.ws) /\ UNCHANGED sess /\ tree' = Torn(active.ws)
    BY <2>1, <2>6, <2>7 DEF Owned, Bound, Remains
  <2>8. CASE /\ active.sess # 0 /\ active'.sess = active.sess /\ active'.ws = active.ws
             /\ Remains(active.ws) /\ tree' = Torn(active.ws)
             /\ sess'[active.sess] = "closed" /\ \A q \in RunIds : q # active.sess
                  => sess'[q] = sess[q]
    BY <2>1, <2>4, <2>6, <2>8 DEF Owned, Bound, Remains
  <2> QED BY <2>0, <2>2, <2>3, <2>5, <2>7, <2>8, ReleaseEffects
<1>6. CASE FollowUpStart
  <2>1. /\ UNCHANGED sess /\ active'.run = active.run /\ active'.engine = active.engine
             /\ active'.sess = active.sess
        /\ \/ active'.ws = active.ws /\ UNCHANGED tree
           \/ /\ active.engine = "agent"
              /\ \/ active'.ws = 0
                 \/ active'.ws = active.ws /\ tree' = Torn(active.ws)
    BY <1>6, FollowUpStartKeeps
  <2>2. CASE active'.ws = active.ws /\ UNCHANGED tree
    BY <2>1, <2>2 DEF Owned, Bound, Remains
  <2>3. CASE /\ active.engine = "agent"
             /\ \/ active'.ws = 0
                \/ active'.ws = active.ws /\ tree' = Torn(active.ws)
    <3>1. active.run # 0 /\ ~Bound(active.run) /\ active.ws \in {0, active.run}
      BY <1>6, <2>3 DEF FollowUpStart, Following, Owned, OneRun
    <3>2. active.ws # 0 => active.ws \in RunIds /\ Torn(active.ws)[active.ws] = "torn"
      BY ActiveFacts DEF Torn, Typed
    <3> QED BY <2>1, <2>3, <3>1, <3>2 DEF Owned, Bound, Remains
  <2> QED BY <2>1, <2>2, <2>3
<1>7. CASE ShutdownRelease
  <2>1. /\ UNCHANGED sess /\ Kept
        /\ \/ active'.ws = 0 /\ active.sess = 0
           \/ UNCHANGED <<tree, active>>
           \/ active.sess = 0 /\ UNCHANGED active /\ tree' = Torn(active.ws) /\ Remains(active.ws)
    BY <1>7, ShutdownReleaseKeeps
  <2>2. active.ws # 0 => active.ws \in RunIds /\ Torn(active.ws)[active.ws] = "torn"
    BY ActiveFacts DEF Torn, Typed
  <2> QED BY <2>1, <2>2 DEF Owned, Bound, Kept, Remains
<1>8. ASSUME NEW r \in RunIds, DrainEnd(r) PROVE Owned'
  <2>1. active'.run = active.run /\ active'.engine = active.engine /\ r \in closing
    BY <1>8, DrainEndKeeps
  <2>2. Bound(r)
    BY <2>1 DEF Closing, Draining, Bindings
  <2>3. CASE UNCHANGED <<sess, tree, drain, active>>
    BY <2>3 DEF Owned, Bound, Remains
  <2>4. CASE /\ sess'[r] = "closed" /\ \A q \in RunIds : q # r => sess'[q] = sess[q]
                  /\ tree'[q] = tree[q]
             /\ IF active.run = r /\ active.sess = r
                THEN active'.sess = 0 /\ active'.ws = IF active.ws = r THEN 0 ELSE active.ws
                ELSE active' = active
    <3>1. /\ (active.sess # 0 => active.sess \in RunIds)
               /\ (active.run # 0 => active.run \in RunIds)
          /\ (active.ws # 0 => active.ws \in RunIds /\ active.ws = active.run)
      BY ActiveFacts DEF OneRun
    <3>2. active.ws = r => active.run = r /\ active.sess = r
      BY <2>2, <3>1, Bounds DEF Owned
    <3>3. r # 0
      BY Bounds
    <3>4. CASE active.run = r /\ active.sess = r
      BY <2>1, <2>2, <2>4, <3>1, <3>3, <3>4 DEF Owned, Bound, Remains
    <3>5. CASE ~(active.run = r /\ active.sess = r)
      <4>1. active' = active /\ active.ws # r
        BY <2>4, <3>2, <3>5
      <4>2. /\ active.ws # 0 => tree'[active.ws] = tree[active.ws] /\ sess'[active.ws] = sess[active.ws]
            /\ active.run # 0 => \/ active.run = r /\ active.sess # r
                                 \/ tree'[active.run] = tree[active.run] /\ sess'[active.run] = sess[active.run]
            /\ active.sess # 0 => Bound(active.sess)'
        BY <2>4, <3>1, <3>5, <4>1 DEF Owned, Bound
      <4> QED BY <2>2, <2>4, <3>1, <4>1, <4>2 DEF Owned, OneRun, Bound, Remains
    <3> QED BY <3>4, <3>5
  <2>5. CASE /\ UNCHANGED active /\ tree'[r] = "torn"
             /\ sess'[r] = "closed" /\ \A q \in RunIds : q # r => sess'[q] = sess[q]
                  /\ tree'[q] = tree[q]
    <3>1. /\ (active.sess # 0 => active.sess \in RunIds)
               /\ (active.run # 0 => active.run \in RunIds)
          /\ (active.ws # 0 => active.ws \in RunIds)
      BY ActiveFacts
    <3> QED BY <2>2, <2>5, <3>1 DEF Owned, Bound, Remains
  <2> QED BY <1>8, <2>3, <2>4, <2>5, DrainEndKeeps
<1>9. CASE UNCHANGED <<active, sess, tree>>
  BY <1>9 DEF Owned, Bound, Remains
<1>10. CASE FollowUpCheck
  BY <1>10, <1>9 DEF FollowUpCheck, NoFault, collab, project, published
<1>11. CASE Cancel
  BY <1>11, <1>9 DEF Cancel, NoFault, collab, project, published
<1>12. CASE ShutdownAsk
  BY <1>12, <1>9 DEF ShutdownAsk, NoFault, collab, project, published
<1>13. ASSUME NEW wanted \in SUBSET Paths, ApplyCheck(wanted) PROVE Owned'
  BY <1>13, <1>9 DEF ApplyCheck, NoFault, collab, project, published
<1>14. ASSUME NEW r \in RunIds, Undo(r) PROVE Owned'
  BY <1>14, <1>9 DEF Undo, NoFault, collab
<1>15. ASSUME NEW p \in Paths, Edit(p) PROVE Owned'
  BY <1>15, <1>9 DEF Edit, NoFault, collab
<1>16. CASE Checkpoint
  BY <1>16, <1>9 DEF Checkpoint, NoFault, collab
<1>17. ASSUME NEW p \in Paths, Write(p) PROVE Owned'
  BY <1>17, <1>9 DEF Write, NoFault, ApplyFrame, published
<1>18. CASE ApplySettle
  BY <1>18, <1>9 DEF ApplySettle, NoFault, ApplyFrame, published
<1>19. CASE Restore
  BY <1>19, <1>9 DEF Restore, NoFault, ApplyFrame, published
<1>20. ASSUME NEW w \in WorkerIds, Resume(w) PROVE Owned'
  BY <1>20, <1>9 DEF Resume, NoFault, WorkerOnly, collab, project, published
<1>21. ASSUME NEW w \in WorkerIds, NEW o \in Reportable, Report(w, o) PROVE Owned'
  BY <1>21, <1>9 DEF Report, NoFault, WorkerOnly, collab, project, published
<1>22. ASSUME NEW w \in WorkerIds, Raise(w) PROVE Owned'
  BY <1>22, <1>9 DEF Raise, WorkerOnly, collab, project, published
<1>23. ASSUME NEW w \in WorkerIds, NEW what \in Emitted, LegacyEmit(w, what) PROVE Owned'
  BY <1>23, <1>9 DEF LegacyEmit, NoFault, WorkerOnly, collab, project, published
<1>24. ASSUME NEW w \in WorkerIds, LegacyCancelled(w) PROVE Owned'
  BY <1>24, <1>9 DEF LegacyCancelled, NoFault, WorkerOnly, collab, project, published
<1>25. ASSUME NEW w \in WorkerIds, Exit(w) PROVE Owned'
  BY <1>25, <1>9 DEF Exit, NoFault, WorkerOnly, collab, project, published
<1>26. ASSUME NEW d \in Deliveries, Capture(d) PROVE Owned'
  BY <1>26, <1>9 DEF Capture, NoFault, project, published
<1>27. ASSUME NEW d \in Deliveries, Lease(d) PROVE Owned'
  BY <1>27, <1>9 DEF Lease, DeliveryStep, NoFault, project, published
<1>28. ASSUME NEW d \in Deliveries, Validate(d) PROVE Owned'
  BY <1>28, <1>9 DEF Validate, DeliveryStep, NoFault, project, published
<1>29. ASSUME NEW d \in Deliveries, Return(d) PROVE Owned'
  BY <1>29, <1>9 DEF Return, DeliveryStep, NoFault, project, published
<1>30. ASSUME NEW r \in RunIds, DrainBegin(r) PROVE Owned'
  BY <1>30, <1>9 DEF DrainBegin, NoFault, project, published
<1>32. CASE Reject
  BY <1>32, <1>9 DEF Reject
<1>33. ASSUME NEW w \in WorkerIds, LegacyRead(w) \/ LegacyHash(w) PROVE Owned'
  BY <1>33, <1>9, ReadsKeep
<1>34. CASE RejectSettle
  BY <1>34, <1>9, RejectKeeps
<1>31. CASE UNCHANGED vars
  BY <1>31 DEF vars, Owned, Bound, Remains
<1> QED BY <1>1, <1>2, <1>3, <1>4, <1>5, <1>6, <1>7, <1>8, <1>9, <1>10, <1>11, <1>12,
          <1>13, <1>14, <1>15, <1>16, <1>17, <1>18, <1>19, <1>20, <1>21, <1>22, <1>23,
          <1>24, <1>25, <1>26, <1>27, <1>28, <1>29, <1>30, <1>31, <1>32, <1>33, <1>34
       DEF Orderly, UserNext, ApplyNext, WorkerNext, DeliveryNext, Reportable, Emitted

\* Every step leaves a torn worktree to its end.
LEMMA TornIsLeftStep ==
  ASSUME Typed, OneRun, OneWorker, Following, Signals, Recorded, Owned, TornIsLeft, Bindings, Closing,
           Guarded, [Orderly]_vars
  PROVE  TornIsLeft'
<1>1. ASSUME NEW e \in Engines, NEW s \in Sessions, Start(e, s) PROVE TornIsLeft'
  BY <1>1, StartKeeps DEF TornIsLeft, Idle
<1>2. ASSUME NEW e \in Engines, NEW s \in Sessions, StartFails(e, s) PROVE TornIsLeft'
  <2>1. main.pc = "idle" /\ main'.pc = "idle" /\ drain = {}
    BY <1>2, StartFailsKeeps DEF Idle
  <2>2. CASE active'.ws = 0
    BY <2>1, <2>2 DEF TornIsLeft
  <2>3. CASE active'.ws = active.ws /\ active.ws # 0 /\ active.engine # "agent"
    <3>1. active.ws \in RunIds /\ active.ws # FreeRun
      BY <1>2, <2>3, StartFailsKeeps, ActiveFacts DEF OneRun
    <3>2. tree'[active.ws] = tree[active.ws] /\ tree[active.ws] # "torn"
      BY <1>2, <2>1, <2>3, <3>1, StartFailsKeeps DEF TornIsLeft, Draining
    <3> QED BY <2>1, <2>3, <3>2 DEF TornIsLeft
  <2>4. CASE active'.worker = 0 /\ active'.engine = "agent"
    BY <2>1, <2>4 DEF TornIsLeft
  <2> QED BY <1>2, <2>2, <2>3, <2>4, StartFailsKeeps
<1>3. CASE OldTreeKept
  <2>1. active.engine = "agent" /\ active.run # 0 /\ status[active.run] \in Terminal
          /\ UNCHANGED <<active, status, main>> /\ main.pc = "idle"
    BY <1>3 DEF OldTreeKept, StartAdmitted, Remains, OneRun, Idle
  <2> QED BY <2>1 DEF TornIsLeft
<1>4. CASE SlotNext
  <2>1. Kept /\ main.pc = "idle" /\ main'.pc = "idle" /\ queue # <<>>
    BY <1>4, SlotKeeps DEF Idle
  <2>2. Src \in WorkerIds /\ worker[Src].run \in RunIds /\ worker[Src].pc # "none"
    BY <2>1, SrcFacts
  <2>3. SUFFICES ASSUME active.ws # 0, active'.ws = active.ws, tree'[active.ws] = "torn"
                 PROVE  \/ active.engine = "agent" /\ (active.worker = 0 \/ status'[active.run] \in Terminal)
                        \/ \E x \in drain' : x[1] = active.ws
    BY <2>1 DEF TornIsLeft, Kept, Draining
  <2>4. active.ws \in RunIds /\ active.run = active.ws
    BY <2>3, ActiveFacts DEF OneRun
  <2>5. \A q : Draining(q) => \E x \in drain' : x[1] = q
    BY <1>4, SlotDrains, RetainDraining DEF Draining
  <2>6. CASE tree[active.ws] = "torn"
    <3>1. Draining(active.ws) \/ (active.engine = "agent" /\ (active.worker = 0 \/ status[active.run] \in Terminal))
      BY <2>1, <2>3, <2>6 DEF TornIsLeft
    <3>2. active.engine = "agent" /\ status[active.run] \in Terminal => status'[active.run] \in Terminal
      <4>1. CASE active.run # worker[Src].run
        BY <1>4, <2>4, <4>1, SlotKeeps
      <4>2. CASE active.run = worker[Src].run
        BY <1>4, <2>2, <4>2, SlotStatus DEF OneWorker
      <4> QED BY <4>1, <4>2
    <3> QED BY <2>5, <3>1, <3>2
  <2>7. CASE tree[active.ws] # "torn"
    <3>1. active.ws = worker[Src].run /\ worker[Src].eng = "agent" /\ status'[worker[Src].run] \in Terminal
      BY <1>4, <2>3, <2>4, <2>7, SlotTrees, DisposedOnly
    <3> QED BY <2>2, <2>4, <3>1 DEF OneWorker
  <2> QED BY <2>6, <2>7
<1>5. CASE DecisionRelease
  <2>1. Release /\ main'.pc = "idle" /\ UNCHANGED status /\ main.pc = "release" /\ active.run # 0
    BY <1>5 DEF DecisionRelease, Idle, OneRun
  <2>2. /\ active'.run = active.run /\ active'.engine = active.engine /\ active'.worker = active.worker
        /\ status[active.run] \in Terminal
    BY <2>1, ReleaseKeeps DEF TornIsLeft, Terminal
  <2>3. SUFFICES ASSUME active.ws # 0, active'.ws = active.ws, tree'[active.ws] = "torn",
                        active.engine # "agent"
                 PROVE  \E x \in drain' : x[1] = active.ws
    BY <2>1, <2>2, ReleaseEffects DEF TornIsLeft, Draining
  <2>4. active.sess # 0 => active.sess = active.ws /\ active.sess \in RunIds
    BY <2>1, <2>3, ActiveFacts DEF OneRun
  <2>5. CASE UNCHANGED tree /\ (UNCHANGED drain \/ (active.sess # 0 /\ drain' = Retain(active.sess, 0)))
    <3>1. Draining(active.ws)
      BY <2>1, <2>3, <2>5 DEF TornIsLeft
    <3> QED BY <2>5, <3>1, RetainDraining DEF Draining
  <2>6. CASE active.sess # 0 /\ drain' = Retain(active.sess, 0)
    <3>1. CASE Draining(active.sess)
      BY <2>4, <2>6, <3>1 DEF Retain, Draining
    <3>2. CASE ~Draining(active.sess)
      <4>1. <<active.sess, 0>> \in drain' /\ <<active.sess, 0>>[1] = active.sess
        BY <2>6, <3>2 DEF Retain
      <4> QED BY <2>4, <2>6, <4>1
    <3> QED BY <3>1, <3>2
  <2> QED BY <2>1, <2>3, <2>5, <2>6, ReleaseEffects
<1>6. CASE FollowUpStart
  <2>1. main.pc = "follow" /\ main'.pc = "idle" /\ UNCHANGED <<drain, sess>>
          /\ active.run # 0 /\ active.worker # 0 /\ status[active.run] = "WAITING_USER"
          /\ active'.run = active.run /\ active'.engine = active.engine
    BY <1>6, FollowUpStartKeeps DEF Following, Idle
  <2>2. active.ws # 0 /\ tree[active.ws] = "torn" => Draining(active.ws)
    BY <2>1 DEF TornIsLeft, Terminal
  <2>3. CASE active'.ws = active.ws /\ UNCHANGED tree
    BY <2>1, <2>2, <2>3 DEF TornIsLeft, Draining
  <2>4. CASE active.engine = "agent" /\ active'.worker = 0
    BY <2>1, <2>4 DEF TornIsLeft
  <2> QED BY <1>6, <2>3, <2>4, FollowUpStartKeeps
<1>7. CASE ShutdownRelease
  <2>1. main'.pc = "down"
    BY <1>7, ShutdownReleaseKeeps
  <2> QED BY <2>1 DEF TornIsLeft
<1>8. ASSUME NEW r \in RunIds, DrainEnd(r) PROVE TornIsLeft'
  <2>1. /\ active'.run = active.run /\ active'.engine = active.engine /\ active'.worker = active.worker
        /\ r \in closing /\ UNCHANGED <<main, status>> /\ r # 0
    BY <1>8, DrainEndKeeps, Bounds
  <2>2. Bound(r) /\ Draining(r)
    BY <2>1 DEF Closing, Draining, Bindings
  <2>3. CASE UNCHANGED <<sess, tree, drain, active>>
    BY <2>1, <2>3 DEF TornIsLeft, Draining
  <2>4. CASE /\ drain' = {e \in drain : e[1] # r}
             /\ \A q \in RunIds : q # r => tree'[q] = tree[q]
             /\ IF active.run = r /\ active.sess = r
                THEN active'.sess = 0 /\ active'.ws = IF active.ws = r THEN 0 ELSE active.ws
                ELSE active' = active
    <3>1. active.ws = r => active.run = r /\ active.sess = r
      BY <2>1, <2>2 DEF Owned, OneRun
    <3>2. active'.ws # 0 => active'.ws = active.ws /\ active.ws # r /\ active.ws \in RunIds
      BY <2>4, <3>1, ActiveFacts
    <3>3. active'.ws # 0 /\ Draining(active.ws) => Draining(active.ws)'
      BY <2>4, <3>2 DEF Draining
    <3> QED BY <2>1, <2>4, <3>2, <3>3 DEF TornIsLeft
  <2>5. CASE /\ UNCHANGED <<drain, active>> /\ \A q \in RunIds : q # r => tree'[q] = tree[q]
    <3>1. active.ws # 0 => active.ws \in RunIds
      BY ActiveFacts
    <3> QED BY <2>1, <2>2, <2>5, <3>1 DEF TornIsLeft, Draining
  <2> QED BY <1>8, <2>3, <2>4, <2>5, DrainEndKeeps
<1>9. CASE UNCHANGED <<active, status, tree, drain, main>>
  BY <1>9 DEF TornIsLeft, Draining
<1>10. CASE FollowUpCheck
  <2>1. main.pc = "idle" /\ main'.pc = "follow" /\ UNCHANGED <<active, status, tree, drain>>
    BY <1>10 DEF FollowUpCheck, Idle, collab
  <2> QED BY <2>1 DEF TornIsLeft, Draining
<1>11. CASE Cancel
  BY <1>11, <1>9 DEF Cancel, NoFault, collab, project, published
<1>12. CASE ShutdownAsk
  <2>1. main.pc = "idle" /\ main'.pc = "stopping" /\ UNCHANGED <<active, status, tree, drain>>
    BY <1>12 DEF ShutdownAsk, Idle, collab
  <2> QED BY <2>1 DEF TornIsLeft, Draining
<1>13. ASSUME NEW wanted \in SUBSET Paths, ApplyCheck(wanted) PROVE TornIsLeft'
  <2>1. main.pc = "idle" /\ main'.pc = "checked" /\ UNCHANGED <<active, status, tree, drain>>
    BY <1>13 DEF ApplyCheck, Deciding, Idle, collab
  <2> QED BY <2>1 DEF TornIsLeft, Draining
<1>14. ASSUME NEW r \in RunIds, Undo(r) PROVE TornIsLeft'
  BY <1>14, <1>9 DEF Undo, NoFault, collab
<1>15. ASSUME NEW p \in Paths, Edit(p) PROVE TornIsLeft'
  BY <1>15, <1>9 DEF Edit, NoFault, collab
<1>16. CASE Checkpoint
  <2>1. main.pc = "checked" /\ main'.pc \in {"write", "idle"} /\ UNCHANGED <<active, status, tree, drain>>
    BY <1>16 DEF Checkpoint, Idle, collab, Typed, Requests
  <2> QED BY <2>1 DEF TornIsLeft, Draining
<1>17. ASSUME NEW p \in Paths, Write(p) PROVE TornIsLeft'
  <2>1. main.pc = "write" /\ main'.pc = "write" /\ UNCHANGED <<active, status, tree, drain>>
    BY <1>17 DEF Write, Typed, Requests
  <2> QED BY <2>1 DEF TornIsLeft, Draining
<1>18. CASE ApplySettle
  <2>1. main.pc = "write" /\ main.run = active.run /\ main.run \in RunIds /\ UNCHANGED <<active, tree, drain>>
    BY <1>18, ActiveFacts DEF ApplySettle, OneRun
  <2>2. \/ main'.pc = "release" /\ status'[active.run] = "SUCCEEDED"
        \/ main'.pc = "write" /\ UNCHANGED status
    BY <1>18, <2>1 DEF ApplySettle, Typed, Requests
  <2> QED BY <2>1, <2>2 DEF TornIsLeft, Draining, Terminal
<1>19. CASE Restore
  <2>1. main.pc = "write" /\ main'.pc = "idle" /\ UNCHANGED <<active, status, tree, drain>>
    BY <1>19 DEF Restore, Idle
  <2> QED BY <2>1 DEF TornIsLeft, Draining
<1>20. ASSUME NEW w \in WorkerIds, Resume(w) PROVE TornIsLeft'
  <2>1. /\ UNCHANGED <<active, tree, drain, main>> /\ worker[w].pc = "running" /\ worker[w].follow
        /\ worker[w].run \in RunIds
    BY <1>20, RunOfThread DEF Resume, WorkerOnly, collab
  <2>2. main.pc # "release" /\ worker[w].eng = "pipeline" /\ w = active.worker
    BY <2>1 DEF Recorded, OneWorker
  <2>3. active.engine # "agent"
    BY <2>2, Bounds DEF OneRun
  <2> QED BY <2>1, <2>2, <2>3 DEF TornIsLeft, Draining
<1>21. ASSUME NEW w \in WorkerIds, NEW o \in Reportable, Report(w, o) PROVE TornIsLeft'
  <2>1. UNCHANGED <<active, tree, drain, main>> /\ Working(w)
    BY <1>21 DEF Report, WorkerOnly, collab, Working
  <2>2. main.pc # "release" /\ w = active.worker /\ w # 0
    BY <2>1, Bounds DEF Recorded, OneWorker, Working
  <2>3. worker[w].run = active.run
    BY <2>2 DEF OneRun
  <2>4. status[active.run] \in Terminal => status'[active.run] \in Terminal
    BY <1>21, <2>3, ReportKeeps DEF Terminal
  <2> QED BY <2>1, <2>2, <2>4 DEF TornIsLeft, Draining
<1>22. ASSUME NEW w \in WorkerIds, Raise(w) PROVE TornIsLeft'
  BY <1>22, <1>9 DEF Raise, WorkerOnly, collab, project, published
<1>23. ASSUME NEW w \in WorkerIds, NEW what \in Emitted, LegacyEmit(w, what) PROVE TornIsLeft'
  BY <1>23, <1>9 DEF LegacyEmit, NoFault, WorkerOnly, collab, project, published
<1>24. ASSUME NEW w \in WorkerIds, LegacyCancelled(w) PROVE TornIsLeft'
  BY <1>24, <1>9 DEF LegacyCancelled, NoFault, WorkerOnly, collab, project, published
<1>25. ASSUME NEW w \in WorkerIds, Exit(w) PROVE TornIsLeft'
  BY <1>25, <1>9 DEF Exit, NoFault, WorkerOnly, collab, project, published
<1>26. ASSUME NEW d \in Deliveries, Capture(d) PROVE TornIsLeft'
  BY <1>26, <1>9 DEF Capture, NoFault, project, published
<1>27. ASSUME NEW d \in Deliveries, Lease(d) PROVE TornIsLeft'
  BY <1>27, <1>9 DEF Lease, DeliveryStep, NoFault, project, published
<1>28. ASSUME NEW d \in Deliveries, Validate(d) PROVE TornIsLeft'
  BY <1>28, <1>9 DEF Validate, DeliveryStep, NoFault, project, published
<1>29. ASSUME NEW d \in Deliveries, Return(d) PROVE TornIsLeft'
  BY <1>29, <1>9 DEF Return, DeliveryStep, NoFault, project, published
<1>30. ASSUME NEW r \in RunIds, DrainBegin(r) PROVE TornIsLeft'
  BY <1>30, <1>9 DEF DrainBegin, NoFault, project, published
<1>32. CASE Reject
  <2>1. main.pc = "idle" /\ main'.pc = "reject" /\ UNCHANGED <<active, status, tree, drain>>
    BY <1>32 DEF Reject, Deciding, Idle, collab
  <2> QED BY <2>1 DEF TornIsLeft, Draining
<1>33. ASSUME NEW w \in WorkerIds, LegacyRead(w) \/ LegacyHash(w) PROVE TornIsLeft'
  BY <1>33, <1>9, ReadsKeep
<1>34. CASE RejectSettle
  <2>1. main.pc = "reject" /\ main.run = active.run /\ UNCHANGED <<active, tree, drain>>
    BY <1>34, RejectKeeps DEF OneRun
  <2>2. \/ main'.pc = "release" /\ status'[active.run] = "SUCCEEDED"
        \/ main'.pc = "idle" /\ UNCHANGED status
    BY <1>34, <2>1, RejectKeeps
  <2> QED BY <2>1, <2>2 DEF TornIsLeft, Draining, Terminal
<1>31. CASE UNCHANGED vars
  BY <1>31 DEF vars, TornIsLeft, Draining
<1> QED BY <1>1, <1>2, <1>3, <1>4, <1>5, <1>6, <1>7, <1>8, <1>9, <1>10, <1>11, <1>12,
          <1>13, <1>14, <1>15, <1>16, <1>17, <1>18, <1>19, <1>20, <1>21, <1>22, <1>23,
          <1>24, <1>25, <1>26, <1>27, <1>28, <1>29, <1>30, <1>31, <1>32, <1>33, <1>34
       DEF Orderly, UserNext, ApplyNext, WorkerNext, DeliveryNext, Reportable, Emitted

\* Every step keeps sessions to started Runs, and drain entries to bound ones.
LEMMA BindingsStep ==
  ASSUME Typed, OneRun, OneWorker, Following, Signals, Recorded, Owned, Bindings, Closing,
           Guarded, [Orderly]_vars
  PROVE  Bindings'
<1>1. ASSUME NEW e \in Engines, NEW s \in Sessions, Start(e, s) PROVE Bindings'
  <2>1. /\ FreeRun \in RunIds /\ FreeWorker \in WorkerIds /\ status[FreeRun] = "none"
             /\ (s => e = "pipeline")
        /\ worker'[FreeWorker].run = FreeRun /\ worker'[FreeWorker].eng = e
        /\ \A v \in WorkerIds : v # FreeWorker => worker'[v] = worker[v]
        /\ status'[FreeRun] = "RUNNING" /\ \A q \in RunIds : q # FreeRun => status'[q] = status[q]
        /\ sess'[FreeRun] = (IF s THEN "open" ELSE "none") /\ \A q \in RunIds : q # FreeRun
             => sess'[q] = sess[q]
        /\ drain' = {}
    BY <1>1, StartKeeps
  <2>2. \A v \in WorkerIds : worker[v].pc # "none" => worker[v].run \in RunIds
          /\ worker[v].run # FreeRun
    BY <2>1, RunOfThread DEF OneWorker
  <2> QED BY <2>1, <2>2 DEF Bindings, Bound
<1>2. ASSUME NEW e \in Engines, NEW s \in Sessions, StartFails(e, s) PROVE Bindings'
  <2>1. /\ FreeRun \in RunIds /\ status[FreeRun] = "none" /\ UNCHANGED worker
        /\ status'[FreeRun] # "none" /\ \A q \in RunIds : q # FreeRun => status'[q] = status[q]
        /\ \A q \in RunIds : q # FreeRun => sess'[q] = sess[q]
        /\ (drain' = {} \/ (drain' = {<<FreeRun, 0>>} /\ sess'[FreeRun] # "none"))
    BY <1>2, StartFailsKeeps
  <2>2. \A v \in WorkerIds : worker[v].pc # "none" => worker[v].run \in RunIds
          /\ worker[v].run # FreeRun
    BY <2>1, RunOfThread DEF OneWorker
  <2> QED BY <2>1, <2>2 DEF Bindings, Bound
<1>3. CASE Cancel
  <2>1. /\ UNCHANGED <<sess, drain, status>>
        /\ \A v \in WorkerIds : /\ worker'[v].run = worker[v].run
                                     /\ worker'[v].eng = worker[v].eng
                                          /\ worker'[v].pc = worker[v].pc
    BY <1>3, ActiveFacts DEF Cancel, Alive, Typed, Threads, collab
  <2> QED BY <2>1 DEF Bindings, Bound
<1>4. CASE RejectSettle
  BY <1>4, RejectKeeps DEF Bindings, Bound
<1>5. CASE ShutdownAsk
  <2>1. /\ UNCHANGED <<sess, drain, status>>
        /\ \A v \in WorkerIds : /\ worker'[v].run = worker[v].run
                                     /\ worker'[v].eng = worker[v].eng
                                          /\ worker'[v].pc = worker[v].pc
    BY <1>5, ActiveFacts DEF ShutdownAsk, Alive, Typed, Threads, collab
  <2> QED BY <2>1 DEF Bindings, Bound
<1>6. CASE SlotNext
  <2>1. /\ UNCHANGED sess
        /\ \A v \in WorkerIds : worker'[v].pc = worker[v].pc /\ worker'[v].run = worker[v].run
             /\ worker'[v].eng = worker[v].eng
        /\ \A r \in RunIds : status[r] # "none" => status'[r] # "none"
    BY <1>6, SlotKeeps
  <2>2. \A e \in drain' : Bound(e[1])
    BY <1>6, SlotDrains, RetainEntries DEF Bindings
  <2> QED BY <2>1, <2>2 DEF Bindings, Bound
<1>7. CASE ApplySettle
  <2>1. UNCHANGED <<sess, drain, worker>> /\ \A r \in RunIds : status[r] # "none"
          => status'[r] # "none"
    BY <1>7 DEF ApplySettle, ApplyFrame, published, Typed
  <2> QED BY <2>1 DEF Bindings, Bound
<1>8. CASE DecisionRelease
  <2>0. Release /\ UNCHANGED worker
    BY <1>8 DEF DecisionRelease
  <2>1. \A r \in RunIds : status[r] # "none" => status'[r] # "none"
    BY <1>8 DEF DecisionRelease
  <2>2. \A q \in RunIds : Bound(q)' <=> Bound(q)
    BY <2>0, ReleaseEffects, ActiveFacts DEF Bound, Owned
  <2>5. \A x \in drain' : x \in drain \/ (x[1] = active.sess /\ active.sess # 0)
    BY <2>0, ReleaseEffects, RetainEntries
  <2>3. \A x \in drain' : x[1] \in RunIds /\ Bound(x[1])
    BY <2>5, ActiveFacts DEF Bindings, Owned, Typed
  <2>4. \A v \in WorkerIds : worker[v].pc # "none" => worker[v].run \in RunIds
    BY RunOfThread
  <2> QED BY <2>0, <2>1, <2>2, <2>3, <2>4 DEF Bindings
<1>9. CASE FollowUpStart
  <2>1. /\ UNCHANGED <<sess, drain>> /\ FreeWorker \in WorkerIds
        /\ \A q \in RunIds : q # active.run => status'[q] = status[q]
        /\ status'[active.run] # "none"
    BY <1>9, FollowUpStartKeeps DEF Following
  <2>2. CASE Follower(FreeWorker, active.run)
    BY <2>1, <2>2, <1>9 , FollowUpStartKeeps DEF Bindings, Bound, Follower, Owned, Following
  <2>3. CASE UNCHANGED worker
    BY <2>1, <2>3 DEF Bindings, Bound
  <2> QED BY <1>9, <2>2, <2>3, FollowUpStartKeeps
<1>10. CASE ShutdownRelease
  <2>1. UNCHANGED <<sess, status, worker>>
          /\ (UNCHANGED drain \/ (active.sess # 0 /\ drain' = Retain(active.sess, active.worker)))
    BY <1>10, ShutdownReleaseKeeps
  <2>2. \A e \in drain' : Bound(e[1])
    BY <2>1, RetainEntries DEF Bindings, Owned
  <2> QED BY <2>1, <2>2 DEF Bindings, Bound
<1>11. ASSUME NEW w \in WorkerIds, Resume(w) PROVE Bindings'
  <2>1. /\ UNCHANGED <<sess, drain>> /\ \A r \in RunIds : status[r] # "none"
             => status'[r] # "none"
        /\ \A v \in WorkerIds : /\ worker'[v].run = worker[v].run
                                     /\ worker'[v].eng = worker[v].eng
                                          /\ worker'[v].pc = worker[v].pc
    BY <1>11 DEF Resume, WorkerOnly, collab, Typed, Threads
  <2> QED BY <2>1 DEF Bindings, Bound
<1>12. ASSUME NEW w \in WorkerIds, NEW o \in Reportable, Report(w, o) PROVE Bindings'
  <2>1. /\ UNCHANGED <<sess, drain>> /\ worker[w].pc # "none"
             /\ \E x : worker' = [worker EXCEPT ![w].pc = x]
        /\ \A r \in RunIds : status[r] # "none" => status'[r] # "none"
    BY <1>12, ReportKeeps DEF Report, WorkerOnly, collab
  <2>2. \A v \in WorkerIds : /\ worker'[v].run = worker[v].run /\ worker'[v].eng = worker[v].eng
                             /\ v # w => worker'[v] = worker[v]
    BY <2>1, ThreadMoves
  <2> QED BY <2>1, <2>2 DEF Bindings, Bound
<1>13. ASSUME NEW w \in WorkerIds, Raise(w) PROVE Bindings'
  <2>1. /\ UNCHANGED <<sess, drain>> /\ worker[w].pc # "none"
             /\ \E x : worker' = [worker EXCEPT ![w].pc = x]
        /\ \A r \in RunIds : status[r] # "none" => status'[r] # "none"
    BY <1>13 DEF Raise, WorkerOnly, collab
  <2>2. \A v \in WorkerIds : /\ worker'[v].run = worker[v].run /\ worker'[v].eng = worker[v].eng
                             /\ v # w => worker'[v] = worker[v]
    BY <2>1, ThreadMoves
  <2> QED BY <2>1, <2>2 DEF Bindings, Bound
<1>14. ASSUME NEW w \in WorkerIds, NEW what \in Emitted, LegacyEmit(w, what) PROVE Bindings'
  <2>1. /\ UNCHANGED <<sess, drain>> /\ worker[w].pc # "none"
             /\ \E x : worker' = [worker EXCEPT ![w].pc = x]
        /\ \A r \in RunIds : status[r] # "none" => status'[r] # "none"
    BY <1>14 DEF LegacyEmit, WorkerOnly, collab
  <2>2. \A v \in WorkerIds : /\ worker'[v].run = worker[v].run /\ worker'[v].eng = worker[v].eng
                             /\ v # w => worker'[v] = worker[v]
    BY <2>1, ThreadMoves
  <2> QED BY <2>1, <2>2 DEF Bindings, Bound
<1>15. ASSUME NEW w \in WorkerIds, LegacyCancelled(w) PROVE Bindings'
  <2>1. /\ UNCHANGED <<sess, drain>> /\ worker[w].pc # "none"
             /\ \E x : worker' = [worker EXCEPT ![w].pc = x]
        /\ \A r \in RunIds : status[r] # "none" => status'[r] # "none"
    BY <1>15 DEF LegacyCancelled, WorkerOnly, collab
  <2>2. \A v \in WorkerIds : /\ worker'[v].run = worker[v].run /\ worker'[v].eng = worker[v].eng
                             /\ v # w => worker'[v] = worker[v]
    BY <2>1, ThreadMoves
  <2> QED BY <2>1, <2>2 DEF Bindings, Bound
<1>16. ASSUME NEW w \in WorkerIds, Exit(w) PROVE Bindings'
  <2>1. /\ UNCHANGED <<sess, drain>> /\ worker[w].pc # "none"
             /\ \E x : worker' = [worker EXCEPT ![w].pc = x]
        /\ \A r \in RunIds : status[r] # "none" => status'[r] # "none"
    BY <1>16 DEF Exit, WorkerOnly, collab
  <2>2. \A v \in WorkerIds : /\ worker'[v].run = worker[v].run /\ worker'[v].eng = worker[v].eng
                             /\ v # w => worker'[v] = worker[v]
    BY <2>1, ThreadMoves
  <2> QED BY <2>1, <2>2 DEF Bindings, Bound
<1>17. ASSUME NEW r \in RunIds, DrainEnd(r) PROVE Bindings'
  <2>1. UNCHANGED <<status, worker>> /\ r \in closing
    BY <1>17, DrainEndKeeps
  <2>2. Bound(r)
    BY <2>1 DEF Closing, Draining, Bindings
  <2>3. \A q \in RunIds : Bound(q)' <=> Bound(q)
    BY <1>17, <2>2, DrainEndKeeps DEF Bound
  <2>4. drain' \subseteq drain /\ \A e \in drain : e[1] \in RunIds
    BY <1>17, DrainEndKeeps DEF Typed
  <2>5. \A v \in WorkerIds : worker[v].pc # "none" => worker[v].run \in RunIds
    BY RunOfThread
  <2> QED BY <2>1, <2>3, <2>4, <2>5 DEF Bindings
<1>18. CASE UNCHANGED <<sess, status, worker, drain>>
  BY <1>18 DEF Bindings, Bound
<1>19. CASE FollowUpCheck
  BY <1>19, <1>18 DEF FollowUpCheck, NoFault, collab, project, published
<1>20. ASSUME NEW wanted \in SUBSET Paths, ApplyCheck(wanted) PROVE Bindings'
  BY <1>20, <1>18 DEF ApplyCheck, NoFault, collab, project, published
<1>21. ASSUME NEW r \in RunIds, Undo(r) PROVE Bindings'
  BY <1>21, <1>18 DEF Undo, NoFault, collab
<1>22. ASSUME NEW p \in Paths, Edit(p) PROVE Bindings'
  BY <1>22, <1>18 DEF Edit, NoFault, collab
<1>23. CASE Checkpoint
  BY <1>23, <1>18 DEF Checkpoint, NoFault, collab
<1>24. ASSUME NEW p \in Paths, Write(p) PROVE Bindings'
  BY <1>24, <1>18 DEF Write, NoFault, ApplyFrame, published
<1>25. CASE Restore
  BY <1>25, <1>18 DEF Restore, NoFault, ApplyFrame, published
<1>26. ASSUME NEW d \in Deliveries, Capture(d) PROVE Bindings'
  BY <1>26, <1>18 DEF Capture, NoFault, project, published
<1>27. ASSUME NEW d \in Deliveries, Lease(d) PROVE Bindings'
  BY <1>27, <1>18 DEF Lease, DeliveryStep, NoFault, project, published
<1>28. ASSUME NEW d \in Deliveries, Validate(d) PROVE Bindings'
  BY <1>28, <1>18 DEF Validate, DeliveryStep, NoFault, project, published
<1>29. ASSUME NEW d \in Deliveries, Return(d) PROVE Bindings'
  BY <1>29, <1>18 DEF Return, DeliveryStep, NoFault, project, published
<1>30. ASSUME NEW r \in RunIds, DrainBegin(r) PROVE Bindings'
  BY <1>30, <1>18 DEF DrainBegin, NoFault, project, published
<1>32. CASE OldTreeKept
  BY <1>32, <1>18 DEF OldTreeKept, collab
<1>33. ASSUME NEW w \in WorkerIds, LegacyRead(w) \/ LegacyHash(w) PROVE Bindings'
  BY <1>33, ReadsKeep DEF Bindings, Bound
<1>34. CASE Reject
  BY <1>34, <1>18 DEF Reject, collab
<1>31. CASE UNCHANGED vars
  BY <1>31 DEF vars, Bindings, Bound
<1> QED BY <1>1, <1>2, <1>3, <1>4, <1>5, <1>6, <1>7, <1>8, <1>9, <1>10, <1>11, <1>12,
          <1>13, <1>14, <1>15, <1>16, <1>17, <1>18, <1>19, <1>20, <1>21, <1>22, <1>23,
          <1>24, <1>25, <1>26, <1>27, <1>28, <1>29, <1>30, <1>31, <1>32, <1>33, <1>34
       DEF Orderly, UserNext, ApplyNext, WorkerNext, DeliveryNext, Reportable, Emitted

\* Every step keeps what is being released out of the deliveries' hands.
LEMMA ClosingStep ==
  ASSUME Typed, OneRun, OneWorker, Following, Signals, Recorded, Owned, Bindings, Closing,
           Guarded, [Orderly]_vars
  PROVE  Closing'
<1>1. ASSUME NEW e \in Engines, NEW s \in Sessions, StartFails(e, s) PROVE Closing'
  <2>1. UNCHANGED <<closing, delivery>> /\ drain = {}
    BY <1>1, StartFailsKeeps
  <2> QED BY <2>1 DEF Closing, Draining
<1>3. CASE SlotNext
  <2>1. UNCHANGED <<closing, delivery>>
    BY <1>3, SlotKeeps
  <2>2. \A q : Draining(q) => Draining(q)'
    BY <1>3, SlotDrains, RetainDraining DEF Draining
  <2> QED BY <2>1, <2>2 DEF Closing, Leased
<1>4. CASE DecisionRelease
  <2>1. UNCHANGED <<closing, delivery>> /\ Release
    BY <1>4 DEF DecisionRelease
  <2>2. UNCHANGED drain \/ drain' = Retain(active.sess, 0)
    BY <2>1, ReleaseEffects
  <2>3. \A q : Draining(q) => Draining(q)'
    BY <2>2, RetainDraining DEF Draining
  <2> QED BY <2>1, <2>3 DEF Closing, Leased
<1>5. CASE ShutdownRelease
  <2>1. UNCHANGED <<closing, delivery>>
          /\ (UNCHANGED drain \/ drain' = Retain(active.sess, active.worker))
    BY <1>5, ShutdownReleaseKeeps
  <2>2. \A q : Draining(q) => Draining(q)'
    BY <2>1, RetainDraining DEF Draining
  <2> QED BY <2>1, <2>2 DEF Closing, Leased
<1>6. ASSUME NEW d \in Deliveries, Capture(d) PROVE Closing'
  <2>1. UNCHANGED <<drain, closing>> /\ \A k \in Deliveries : k # d => delivery'[k] = delivery[k]
    BY <1>6 DEF Capture, DeliveryStep, Typed
  <2>2. delivery'[d].pc = "captured"
    BY <1>6 DEF Capture, DeliveryStep, Typed, Borrowers
  <2>3. \A q \in closing : Leased(q)' => Leased(q)
    BY <2>1, <2>2 DEF Leased
  <2> QED BY <2>1, <2>3 DEF Closing, Draining
<1>7. ASSUME NEW d \in Deliveries, Lease(d) PROVE Closing'
  <2>1. UNCHANGED <<drain, closing>> /\ \A k \in Deliveries : k # d => delivery'[k] = delivery[k]
    BY <1>7 DEF Lease, DeliveryStep, Typed
  <2>2. delivery'[d].run = delivery[d].run
          /\ (delivery'[d].pc = "idle" \/ delivery[d].run \notin closing)
    BY <1>7 DEF Lease, DeliveryStep, Typed, Borrowers
  <2>3. \A q \in closing : Leased(q)' => Leased(q)
    BY <2>1, <2>2 DEF Leased
  <2> QED BY <2>1, <2>3 DEF Closing, Draining
<1>8. ASSUME NEW d \in Deliveries, Validate(d) PROVE Closing'
  <2>1. UNCHANGED <<drain, closing>> /\ \A k \in Deliveries : k # d => delivery'[k] = delivery[k]
    BY <1>8 DEF Validate, DeliveryStep, Typed
  <2>2. delivery'[d].run = delivery[d].run /\ delivery[d].pc = "leased"
    BY <1>8 DEF Validate, DeliveryStep, Typed, Borrowers
  <2>3. \A q \in closing : Leased(q)' => Leased(q)
    BY <2>1, <2>2 DEF Leased
  <2> QED BY <2>1, <2>3 DEF Closing, Draining
<1>9. ASSUME NEW d \in Deliveries, Return(d) PROVE Closing'
  <2>1. UNCHANGED <<drain, closing>> /\ \A k \in Deliveries : k # d => delivery'[k] = delivery[k]
    BY <1>9 DEF Return, DeliveryStep, Typed
  <2>2. delivery'[d].run = delivery[d].run /\ delivery[d].pc = "using"
    BY <1>9 DEF Return, DeliveryStep, Typed, Borrowers
  <2>3. \A q \in closing : Leased(q)' => Leased(q)
    BY <2>1, <2>2 DEF Leased
  <2> QED BY <2>1, <2>3 DEF Closing, Draining
<1>10. ASSUME NEW r \in RunIds, DrainBegin(r) PROVE Closing'
  <2>1. closing' = {r} /\ UNCHANGED <<drain, delivery>> /\ ~Leased(r) /\ Draining(r)
    BY <1>10 DEF DrainBegin, Draining
  <2> QED BY <2>1 DEF Closing, Leased, Draining
<1>11. ASSUME NEW r \in RunIds, DrainEnd(r) PROVE Closing'
  <2>1. closing' = {}
    BY <1>11, DrainEndKeeps
  <2> QED BY <2>1 DEF Closing
<1>12. CASE UNCHANGED <<drain, closing, delivery>>
  BY <1>12 DEF Closing, Draining, Leased
<1>2. CASE Reject
  BY <1>2, <1>12 DEF Reject, NoFault, collab, project, published
<1>13. ASSUME NEW e \in Engines, NEW s \in Sessions, Start(e, s) PROVE Closing'
  BY <1>13, <1>12 DEF Start, NoFault, collab, project, published
<1>14. CASE FollowUpCheck
  BY <1>14, <1>12 DEF FollowUpCheck, NoFault, collab, project, published
<1>15. CASE Cancel
  BY <1>15, <1>12 DEF Cancel, NoFault, collab, project, published
<1>16. CASE ShutdownAsk
  BY <1>16, <1>12 DEF ShutdownAsk, NoFault, collab, project, published
<1>17. ASSUME NEW wanted \in SUBSET Paths, ApplyCheck(wanted) PROVE Closing'
  BY <1>17, <1>12 DEF ApplyCheck, NoFault, collab, project, published
<1>18. ASSUME NEW r \in RunIds, Undo(r) PROVE Closing'
  BY <1>18, <1>12 DEF Undo, NoFault, collab
<1>19. ASSUME NEW p \in Paths, Edit(p) PROVE Closing'
  BY <1>19, <1>12 DEF Edit, NoFault, collab
<1>20. CASE Checkpoint
  BY <1>20, <1>12 DEF Checkpoint, NoFault, collab
<1>21. ASSUME NEW p \in Paths, Write(p) PROVE Closing'
  BY <1>21, <1>12 DEF Write, NoFault, ApplyFrame, published
<1>22. CASE ApplySettle
  BY <1>22, <1>12 DEF ApplySettle, NoFault, ApplyFrame, published
<1>23. CASE Restore
  BY <1>23, <1>12 DEF Restore, NoFault, ApplyFrame, published
<1>24. CASE FollowUpStart
  BY <1>24, <1>12 DEF FollowUpStart, NoFault, collab, project, published
<1>25. ASSUME NEW w \in WorkerIds, Resume(w) PROVE Closing'
  BY <1>25, <1>12 DEF Resume, NoFault, WorkerOnly, collab, project, published
<1>26. ASSUME NEW w \in WorkerIds, NEW o \in Reportable, Report(w, o) PROVE Closing'
  BY <1>26, <1>12 DEF Report, NoFault, WorkerOnly, collab, project, published
<1>27. ASSUME NEW w \in WorkerIds, Raise(w) PROVE Closing'
  BY <1>27, <1>12 DEF Raise, WorkerOnly, collab, project, published
<1>28. ASSUME NEW w \in WorkerIds, NEW what \in Emitted, LegacyEmit(w, what) PROVE Closing'
  BY <1>28, <1>12 DEF LegacyEmit, NoFault, WorkerOnly, collab, project, published
<1>29. ASSUME NEW w \in WorkerIds, LegacyCancelled(w) PROVE Closing'
  BY <1>29, <1>12 DEF LegacyCancelled, NoFault, WorkerOnly, collab, project, published
<1>30. ASSUME NEW w \in WorkerIds, Exit(w) PROVE Closing'
  BY <1>30, <1>12 DEF Exit, NoFault, WorkerOnly, collab, project, published
<1>32. CASE RejectSettle
  BY <1>32, <1>12 DEF RejectSettle, NoFault, collab, project, published
<1>33. CASE OldTreeKept
  BY <1>33, <1>12 DEF OldTreeKept, NoFault, collab, project, published
<1>34. ASSUME NEW w \in WorkerIds, LegacyRead(w) \/ LegacyHash(w) PROVE Closing'
  BY <1>34, <1>12, ReadsKeep
<1>31. CASE UNCHANGED vars
  BY <1>31 DEF vars, Closing, Draining, Leased
<1> QED BY <1>1, <1>2, <1>3, <1>4, <1>5, <1>6, <1>7, <1>8, <1>9, <1>10, <1>11, <1>12,
          <1>13, <1>14, <1>15, <1>16, <1>17, <1>18, <1>19, <1>20, <1>21, <1>22, <1>23,
          <1>24, <1>25, <1>26, <1>27, <1>28, <1>29, <1>30, <1>31, <1>32, <1>33, <1>34
       DEF Orderly, UserNext, ApplyNext, WorkerNext, DeliveryNext, Reportable, Emitted

\* Every step keeps the drain's entries with the threads that use them.
LEMMA GuardedStep ==
  ASSUME Typed, OneRun, OneWorker, Following, Signals, Recorded, Owned, Bindings, Closing,
           Guarded, [Orderly]_vars
  PROVE  Guarded'
<1>1. ASSUME NEW e \in Engines, NEW s \in Sessions, Start(e, s) PROVE Guarded'
  <2>1. /\ FreeRun \in RunIds /\ FreeWorker \in WorkerIds /\ drain = {} /\ drain' = {}
             /\ UNCHANGED closing
        /\ worker'[FreeWorker].run = FreeRun /\ ~Alive(active.worker)
        /\ \A v \in WorkerIds : v # FreeWorker => worker'[v] = worker[v]
        /\ sess'[FreeRun] = (IF s THEN "open" ELSE "none")
    BY <1>1, StartKeeps
  <2>2. \A v \in WorkerIds : worker[v].pc # "running"
    BY <2>1, NoneStarting
  <2>3. closing = {}
    BY <2>1 DEF Closing, Draining
  <2> QED BY <2>1, <2>2, <2>3 DEF Guarded, Working
<1>2. ASSUME NEW e \in Engines, NEW s \in Sessions, StartFails(e, s) PROVE Guarded'
  <2>1. UNCHANGED worker /\ ~Alive(active.worker)
    BY <1>2, StartFailsKeeps
  <2>2. \A v \in WorkerIds : worker[v].pc # "running"
    BY <2>1, NoneStarting
  <2> QED BY <2>1, <2>2 DEF Guarded, Working
<1>3. CASE Cancel
  <2>1. /\ UNCHANGED <<sess, drain, closing>>
        /\ \A v \in WorkerIds : /\ worker'[v].run = worker[v].run
                                     /\ worker'[v].eng = worker[v].eng
                                          /\ worker'[v].pc = worker[v].pc
                                /\ worker'[v].retired = worker[v].retired
    BY <1>3, ActiveFacts DEF Cancel, Alive, Typed, Threads, collab
  <2> QED BY <2>1 DEF Guarded, Working
<1>5. CASE ShutdownAsk
  <2>1. /\ UNCHANGED <<sess, drain, closing>>
        /\ \A v \in WorkerIds : /\ worker'[v].run = worker[v].run
                                     /\ worker'[v].eng = worker[v].eng
                                          /\ worker'[v].pc = worker[v].pc
                                /\ worker'[v].retired = worker[v].retired
    BY <1>5, ActiveFacts DEF ShutdownAsk, Alive, Typed, Threads, collab
  <2> QED BY <2>1 DEF Guarded, Working
<1>6. CASE SlotNext
  <2>1. /\ UNCHANGED <<closing, sess>>
        /\ \A v \in WorkerIds : /\ worker'[v].pc = worker[v].pc /\ worker'[v].run = worker[v].run
                                /\ worker'[v].eng = worker[v].eng
                                     /\ worker'[v].retired = worker[v].retired
    BY <1>6, SlotKeeps
  <2>2. UNCHANGED drain \/ \A v \in WorkerIds : ~Working(v)
    BY <1>6, SlotDrains, SlotStatus DEF Working
  <2> QED BY <2>1, <2>2 DEF Guarded, Working
<1>7. CASE DecisionRelease
  <2>1. UNCHANGED worker /\ \A v \in WorkerIds : ~Working(v)
    BY <1>7, NoneDeciding DEF DecisionRelease
  <2> QED BY <2>1 DEF Guarded, Working
<1>8. CASE FollowUpStart
  <2>1. UNCHANGED <<closing, sess, drain>> /\ FreeWorker \in WorkerIds
    BY <1>8, FollowUpStartKeeps
  <2>2. CASE Follower(FreeWorker, active.run)
    <3>1. \A v \in WorkerIds : v # FreeWorker => worker'[v] = worker[v]
      BY <2>2 DEF Follower
    <3>2. worker'[FreeWorker].run = active.run
            /\ (worker'[FreeWorker].retired <=> (Draining(active.run) \/ sess[active.run] = "closed"))
      BY <2>2 DEF Follower
    <3>3. active.run \in closing => Draining(active.run)
      BY DEF Closing
    <3>4. \A e \in drain : e[1] = active.run => Draining(active.run)
      BY DEF Draining
    <3> QED BY <2>1, <3>1, <3>2, <3>3, <3>4 DEF Guarded, Working
  <2>3. CASE UNCHANGED worker
    BY <2>1, <2>3 DEF Guarded, Working
  <2> QED BY <1>8, <2>2, <2>3, FollowUpStartKeeps
<1>9. CASE ShutdownRelease
  <2>1. UNCHANGED <<sess, closing, worker>>
          /\ (UNCHANGED drain \/ drain' = Retain(active.sess, active.worker))
    BY <1>9, ShutdownReleaseKeeps
  <2>2. \A v \in WorkerIds : Working(v) => v = active.worker
    BY DEF OneWorker, Working
  <2>3. \A x \in drain' : x \in drain \/ x[2] = active.worker
    BY <2>1, RetainEntries
  <2> QED BY <2>1, <2>2, <2>3 DEF Guarded, Working
<1>10. ASSUME NEW w \in WorkerIds, Resume(w) PROVE Guarded'
  <2>1. /\ UNCHANGED <<sess, drain, closing>>
        /\ \A v \in WorkerIds : /\ worker'[v].run = worker[v].run
                                     /\ worker'[v].eng = worker[v].eng
                                          /\ worker'[v].pc = worker[v].pc
                                /\ worker'[v].retired = worker[v].retired
    BY <1>10 DEF Resume, WorkerOnly, collab, Typed, Threads
  <2> QED BY <2>1 DEF Guarded, Working
<1>11. ASSUME NEW w \in WorkerIds, NEW o \in Reportable, Report(w, o) PROVE Guarded'
  <2>1. /\ UNCHANGED <<sess, drain, closing>> /\ \E x : worker' = [worker EXCEPT ![w].pc = x]
             /\ (x = "running" => worker[w].pc = "running")
    BY <1>11 DEF Report, WorkerOnly, collab
  <2>2. \A v \in WorkerIds : /\ worker'[v].run = worker[v].run /\ worker'[v].eng = worker[v].eng
                                  /\ worker'[v].retired = worker[v].retired
                             /\ worker'[v].pc = "running" => worker[v].pc = "running"
    BY <2>1, ThreadMoves
  <2> QED BY <2>1, <2>2 DEF Guarded, Working
<1>12. ASSUME NEW w \in WorkerIds, Raise(w) PROVE Guarded'
  <2>1. /\ UNCHANGED <<sess, drain, closing>> /\ \E x : worker' = [worker EXCEPT ![w].pc = x]
             /\ (x = "running" => worker[w].pc = "running")
    BY <1>12 DEF Raise, WorkerOnly, collab
  <2>2. \A v \in WorkerIds : /\ worker'[v].run = worker[v].run /\ worker'[v].eng = worker[v].eng
                                  /\ worker'[v].retired = worker[v].retired
                             /\ worker'[v].pc = "running" => worker[v].pc = "running"
    BY <2>1, ThreadMoves
  <2> QED BY <2>1, <2>2 DEF Guarded, Working
<1>13. ASSUME NEW w \in WorkerIds, NEW what \in Emitted, LegacyEmit(w, what) PROVE Guarded'
  <2>1. /\ UNCHANGED <<sess, drain, closing>> /\ \E x : worker' = [worker EXCEPT ![w].pc = x]
             /\ (x = "running" => worker[w].pc = "running")
    BY <1>13 DEF LegacyEmit, WorkerOnly, collab
  <2>2. \A v \in WorkerIds : /\ worker'[v].run = worker[v].run /\ worker'[v].eng = worker[v].eng
                                  /\ worker'[v].retired = worker[v].retired
                             /\ worker'[v].pc = "running" => worker[v].pc = "running"
    BY <2>1, ThreadMoves
  <2> QED BY <2>1, <2>2 DEF Guarded, Working
<1>14. ASSUME NEW w \in WorkerIds, LegacyCancelled(w) PROVE Guarded'
  <2>1. /\ UNCHANGED <<sess, drain, closing>> /\ \E x : worker' = [worker EXCEPT ![w].pc = x]
             /\ (x = "running" => worker[w].pc = "running")
    BY <1>14 DEF LegacyCancelled, WorkerOnly, collab
  <2>2. \A v \in WorkerIds : /\ worker'[v].run = worker[v].run /\ worker'[v].eng = worker[v].eng
                                  /\ worker'[v].retired = worker[v].retired
                             /\ worker'[v].pc = "running" => worker[v].pc = "running"
    BY <2>1, ThreadMoves
  <2> QED BY <2>1, <2>2 DEF Guarded, Working
<1>15. ASSUME NEW w \in WorkerIds, Exit(w) PROVE Guarded'
  <2>1. /\ UNCHANGED <<sess, drain, closing>> /\ worker' = [worker EXCEPT ![w].pc = "exited"]
    BY <1>15 DEF Exit, WorkerOnly, collab
  <2>2. \A v \in WorkerIds : /\ worker'[v].run = worker[v].run /\ worker'[v].eng = worker[v].eng
                                  /\ worker'[v].retired = worker[v].retired
                             /\ worker'[v].pc = "running" => worker[v].pc = "running"
    BY <2>1, ThreadMoves
  <2> QED BY <2>1, <2>2 DEF Guarded, Working
<1>16. ASSUME NEW r \in RunIds, DrainBegin(r) PROVE Guarded'
  <2>1. closing' = {r} /\ UNCHANGED <<drain, worker, sess>>
    BY <1>16 DEF DrainBegin
  <2>2. PICK x \in drain : x[1] = r /\ ~Alive(x[2])
    BY <1>16 DEF DrainBegin
  <2>3. \A v \in WorkerIds : Working(v) => Alive(v)
    BY Bounds DEF Working, Alive
  <2>4. \A v \in WorkerIds : Working(v) /\ worker[v].run = r => worker[v].retired
    BY <2>2, <2>3 DEF Guarded
  <2> QED BY <2>1, <2>4 DEF Guarded, Working
<1>17. ASSUME NEW r \in RunIds, DrainEnd(r) PROVE Guarded'
  <2>1. /\ UNCHANGED worker /\ r \in closing /\ closing' = {} /\ drain' \subseteq drain
        /\ \A q \in RunIds : sess'[q] = sess[q] \/ q = r
    BY <1>17, DrainEndKeeps
  <2>2. \A v \in WorkerIds : worker[v].pc # "none" => worker[v].run \in RunIds
    BY RunOfThread
  <2> QED BY <2>1, <2>2 DEF Guarded, Working
<1>18. CASE UNCHANGED <<worker, drain, closing, sess>>
  BY <1>18 DEF Guarded, Working
<1>19. CASE FollowUpCheck
  BY <1>19, <1>18 DEF FollowUpCheck, NoFault, collab, project, published
<1>20. ASSUME NEW wanted \in SUBSET Paths, ApplyCheck(wanted) PROVE Guarded'
  BY <1>20, <1>18 DEF ApplyCheck, NoFault, collab, project, published
<1>21. ASSUME NEW r \in RunIds, Undo(r) PROVE Guarded'
  BY <1>21, <1>18 DEF Undo, NoFault, collab
<1>22. ASSUME NEW p \in Paths, Edit(p) PROVE Guarded'
  BY <1>22, <1>18 DEF Edit, NoFault, collab
<1>23. CASE Checkpoint
  BY <1>23, <1>18 DEF Checkpoint, NoFault, collab
<1>24. ASSUME NEW p \in Paths, Write(p) PROVE Guarded'
  BY <1>24, <1>18 DEF Write, NoFault, ApplyFrame, published
<1>25. CASE ApplySettle
  BY <1>25, <1>18 DEF ApplySettle, NoFault, ApplyFrame, published
<1>26. CASE Restore
  BY <1>26, <1>18 DEF Restore, NoFault, ApplyFrame, published
<1>27. ASSUME NEW d \in Deliveries, Capture(d) PROVE Guarded'
  BY <1>27, <1>18 DEF Capture, NoFault, project, published
<1>28. ASSUME NEW d \in Deliveries, Lease(d) PROVE Guarded'
  BY <1>28, <1>18 DEF Lease, DeliveryStep, NoFault, project, published
<1>29. ASSUME NEW d \in Deliveries, Validate(d) PROVE Guarded'
  BY <1>29, <1>18 DEF Validate, DeliveryStep, NoFault, project, published
<1>30. ASSUME NEW d \in Deliveries, Return(d) PROVE Guarded'
  BY <1>30, <1>18 DEF Return, DeliveryStep, NoFault, project, published
<1>4. CASE Reject
  BY <1>4, <1>18 DEF Reject, NoFault, collab, project, published
<1>32. CASE RejectSettle
  BY <1>32, <1>18 DEF RejectSettle, NoFault, collab, project, published
<1>33. CASE OldTreeKept
  BY <1>33, <1>18 DEF OldTreeKept, NoFault, collab, project, published
<1>34. ASSUME NEW w \in WorkerIds, LegacyRead(w) \/ LegacyHash(w) PROVE Guarded'
  <2>1. /\ UNCHANGED <<sess, drain, closing>>
        /\ \A v \in WorkerIds : /\ worker'[v].run = worker[v].run
                                     /\ worker'[v].eng = worker[v].eng
                                          /\ worker'[v].pc = worker[v].pc
                                /\ worker'[v].retired = worker[v].retired
    BY <1>34, ReadsKeep
  <2> QED BY <2>1 DEF Guarded, Working
<1>31. CASE UNCHANGED vars
  BY <1>31 DEF vars, Guarded, Working
<1> QED BY <1>1, <1>2, <1>3, <1>4, <1>5, <1>6, <1>7, <1>8, <1>9, <1>10, <1>11, <1>12,
          <1>13, <1>14, <1>15, <1>16, <1>17, <1>18, <1>19, <1>20, <1>21, <1>22, <1>23,
          <1>24, <1>25, <1>26, <1>27, <1>28, <1>29, <1>30, <1>31, <1>32, <1>33, <1>34
       DEF Orderly, UserNext, ApplyNext, WorkerNext, DeliveryNext, Reportable, Emitted

\* Every step keeps the worktree of an engine at work.
LEMMA KeptStep ==
  ASSUME Typed, OneRun, OneWorker, Following, Signals, Recorded, Owned, TornIsLeft, Bindings, Closing,
           Guarded, InPlace, Recorded', [Orderly]_vars
  PROVE  InPlace'
<1>1. ASSUME NEW e \in Engines, NEW s \in Sessions, Start(e, s) PROVE InPlace'
  <2>1. /\ FreeRun \in RunIds /\ FreeWorker \in WorkerIds /\ ~Alive(active.worker)
        /\ worker'[FreeWorker].run = FreeRun /\ worker'[FreeWorker].eng = e
        /\ \A v \in WorkerIds : v # FreeWorker => worker'[v] = worker[v]
        /\ tree'[FreeRun] = (IF e = "legacy" THEN "none" ELSE "live")
    BY <1>1, StartKeeps
  <2>2. \A v \in WorkerIds : worker[v].pc # "running"
    BY <2>1, NoneStarting
  <2> QED BY <2>1, <2>2 DEF InPlace
<1>2. ASSUME NEW e \in Engines, NEW s \in Sessions, StartFails(e, s) PROVE InPlace'
  <2>1. UNCHANGED worker /\ ~Alive(active.worker)
    BY <1>2, StartFailsKeeps
  <2>2. \A v \in WorkerIds : worker[v].pc # "running"
    BY <2>1, NoneStarting
  <2> QED BY <2>1, <2>2 DEF InPlace
<1>3. CASE FollowUpCheck
  <2>1. UNCHANGED <<tree, worker, sess>> /\ main.pc # "down"
    BY <1>3 DEF FollowUpCheck, Idle
  <2> QED BY <2>1 DEF InPlace, Bound
<1>4. CASE Cancel
  <2>1. /\ UNCHANGED <<sess, tree>> /\ main.pc # "down"
        /\ \A v \in WorkerIds : /\ worker'[v].run = worker[v].run
                                     /\ worker'[v].eng = worker[v].eng
                                          /\ worker'[v].pc = worker[v].pc
                                /\ worker'[v].retired = worker[v].retired
    BY <1>4, ActiveFacts DEF Cancel, Alive, Typed, Threads, Idle
  <2> QED BY <2>1 DEF InPlace, Bound
<1>5. CASE Reject
  <2>1. UNCHANGED <<tree, worker, sess>> /\ main.pc # "down"
    BY <1>5 DEF Reject, Idle, Deciding
  <2> QED BY <2>1 DEF InPlace, Bound
<1>6. CASE ShutdownAsk
  <2>1. /\ UNCHANGED <<sess, tree>> /\ main.pc # "down"
        /\ \A v \in WorkerIds : /\ worker'[v].run = worker[v].run
                                     /\ worker'[v].eng = worker[v].eng
                                          /\ worker'[v].pc = worker[v].pc
                                /\ worker'[v].retired = worker[v].retired
    BY <1>6, ActiveFacts DEF ShutdownAsk, Alive, Typed, Threads, Idle
  <2> QED BY <2>1 DEF InPlace, Bound
<1>7. ASSUME NEW wanted \in SUBSET Paths, ApplyCheck(wanted) PROVE InPlace'
  <2>1. UNCHANGED <<tree, worker, sess>> /\ main.pc # "down"
    BY <1>7 DEF ApplyCheck, Idle, Deciding
  <2> QED BY <2>1 DEF InPlace, Bound
<1>8. CASE SlotNext
  <2>1. /\ UNCHANGED <<main, sess>> /\ Src \in WorkerIds /\ worker[Src].pc # "none"
             /\ worker[Src].run \in RunIds
        /\ \A v \in WorkerIds : /\ worker'[v].pc = worker[v].pc /\ worker'[v].run = worker[v].run
                                /\ worker'[v].eng = worker[v].eng
                                     /\ worker'[v].retired = worker[v].retired
    BY <1>8, SlotKeeps, SrcFacts
  <2>2. CASE UNCHANGED tree
    BY <2>1, <2>2 DEF InPlace, Bound
  <2>3. CASE Reports(Head(queue))
    BY <1>8, <2>1, <2>3, SlotStatus DEF InPlace
  <2>4. CASE tree' \in {Disposed(worker[Src].run), Torn(worker[Src].run)} /\ worker[Src].eng = "agent"
          /\ status'[worker[Src].run] \in Terminal
    <3>1. \A v \in WorkerIds : worker[v].pc = "running" /\ worker[v].eng # "legacy"
            => worker[v].run \in RunIds /\ worker[v].run # worker[Src].run
      <4>1. SUFFICES ASSUME NEW v \in WorkerIds, Working(v), worker[v].run = worker[Src].run
              PROVE FALSE
        BY RunOfThread DEF Working
      <4>2. worker[v].eng = "agent"
        BY <2>1, <2>4, <4>1 DEF OneWorker, Working
      <4>3. ~worker[v].follow
        BY <4>1, <4>2 DEF Recorded, Working
      <4>4. Working(v)' /\ ~worker'[v].follow /\ worker'[v].run = worker[Src].run
        BY <1>8, <2>1, <4>1, <4>3, SlotKeeps DEF Working
      <4> QED BY <2>4, <4>4 DEF Recorded, Terminal
    <3>2. \A q \in RunIds : q # worker[Src].run => tree'[q] = tree[q]
      BY <2>4, DisposedOnly
    <3> QED BY <2>1, <3>1, <3>2 DEF InPlace, Bound
  <2> QED BY <1>8, <2>2, <2>3, <2>4, SlotTrees
<1>9. CASE Checkpoint
  <2>1. UNCHANGED <<tree, worker, sess>> /\ main.pc # "down"
    BY <1>9 DEF Checkpoint, Idle
  <2> QED BY <2>1 DEF InPlace, Bound
<1>10. ASSUME NEW p \in Paths, Write(p) PROVE InPlace'
  <2>1. UNCHANGED <<tree, worker, sess>> /\ main.pc # "down"
    BY <1>10 DEF Write, Idle, ApplyFrame, published
  <2> QED BY <2>1 DEF InPlace, Bound
<1>11. CASE ApplySettle
  <2>1. UNCHANGED <<tree, worker, sess>> /\ main.pc # "down"
    BY <1>11 DEF ApplySettle, Idle, ApplyFrame, published
  <2> QED BY <2>1 DEF InPlace, Bound
<1>12. CASE DecisionRelease
  <2>1. UNCHANGED worker /\ \A v \in WorkerIds : ~Working(v)
    BY <1>12, NoneDeciding DEF DecisionRelease
  <2> QED BY <2>1 DEF InPlace, Working
<1>13. CASE Restore
  <2>1. UNCHANGED <<tree, worker, sess>> /\ main.pc # "down"
    BY <1>13 DEF Restore, Idle, ApplyFrame, published
  <2> QED BY <2>1 DEF InPlace, Bound
<1>14. CASE FollowUpStart
  <2>1. /\ FreeWorker \in WorkerIds /\ active.run \in RunIds
             /\ \A v \in WorkerIds : worker[v].pc # "running"
        /\ (active.ws # 0 \/ sess[active.run] = "closed")
    BY <1>14, FollowUpStartKeeps DEF Following, OneWorker
  <2>2. CASE UNCHANGED worker
    BY <2>1, <2>2 DEF InPlace
  <2>3. CASE Follower(FreeWorker, active.run) /\ UNCHANGED tree
    <3>1. active.ws # 0 => active.ws = active.run /\ tree[active.run] \in {"live", "torn"}
      BY DEF Owned, OneRun, Remains
    <3>2. main.pc = "follow" /\ active.worker # 0 /\ status[active.run] = "WAITING_USER"
      BY <1>14, FollowUpStartKeeps DEF Following
    <3>3. active.ws # 0 /\ tree[active.run] = "torn" => Draining(active.run)
      BY <3>1, <3>2 DEF TornIsLeft, Terminal
    <3> QED BY <2>1, <2>3, <3>1, <3>3 DEF InPlace, Follower
  <2> QED BY <1>14, <2>2, <2>3, FollowUpStartKeeps
<1>15. CASE ShutdownRelease
  <2>1. UNCHANGED <<worker, sess>> /\ main.pc = "stopping" /\ main'.pc = "down"
    BY <1>15, ShutdownReleaseKeeps
  <2>2. CASE UNCHANGED tree
    BY <2>1, <2>2 DEF InPlace, Bound
  <2>3. CASE active.sess = 0 /\ tree' = Disposed(active.ws)
          /\ ~(active.engine = "agent" /\ Alive(active.worker))
    <3>1. ASSUME NEW v \in WorkerIds, Working(v)
          PROVE  /\ v = active.worker /\ worker[v].run = active.run /\ worker[v].eng = "pipeline"
                      /\ worker[v].run \in RunIds
      <4>1. v = active.worker /\ v # 0
        BY <3>1, Bounds DEF OneWorker, Working
      <4>2. worker[v].run = active.run /\ worker[v].eng = active.engine
        BY <4>1 DEF OneRun
      <4>3. Alive(v)
        BY <3>1, <4>1 DEF Alive, Working
      <4> QED BY <2>3, <3>1, <4>1, <4>2, <4>3, ActiveFacts, RunOfThread DEF Working, EngineKinds
    <3>2. active.ws # 0 => ~Bound(active.ws)
      BY <2>3 DEF Owned
    <3>3. \A q \in RunIds : q # active.ws => tree'[q] = tree[q]
      BY <2>3, DisposedOnly
    <3>4. ASSUME NEW v \in WorkerIds, Working(v)
            PROVE tree'[worker[v].run] = "live" \/ worker[v].retired \/ ~Bound(worker[v].run)
      <4>1. worker[v].run \in RunIds /\ worker[v].eng = "pipeline"
        BY <3>1, <3>4
      <4>2. CASE worker[v].run = active.ws
        BY <3>2, <4>1, <4>2, Bounds
      <4>3. CASE worker[v].run # active.ws
        BY <2>1, <3>3, <3>4, <4>1, <4>3 DEF InPlace, Working
      <4> QED BY <4>2, <4>3
    <3> QED BY <2>1, <3>1, <3>4 DEF InPlace, Working, Bound
  <2>4. CASE active.engine = "agent" /\ ~Alive(active.worker)
    <3>1. \A v \in WorkerIds : worker[v].pc # "running"
      BY <2>4, NoneStarting
    <3> QED BY <2>1, <3>1 DEF InPlace
  <2> QED BY <1>15, <2>2, <2>3, <2>4, ShutdownReleaseKeeps
<1>16. ASSUME NEW w \in WorkerIds, Resume(w) PROVE InPlace'
  <2>1. /\ UNCHANGED <<sess, tree, main>>
        /\ \A v \in WorkerIds : /\ worker'[v].run = worker[v].run
                                     /\ worker'[v].eng = worker[v].eng
                                          /\ worker'[v].pc = worker[v].pc
                                /\ worker'[v].retired = worker[v].retired
    BY <1>16 DEF Resume, WorkerOnly, Typed, Threads
  <2> QED BY <2>1 DEF InPlace, Bound
<1>17. ASSUME NEW w \in WorkerIds, NEW o \in Reportable, Report(w, o) PROVE InPlace'
  <2>1. UNCHANGED <<sess, tree, main>> /\ \E x : worker' = [worker EXCEPT ![w].pc = x]
          /\ (x = "running" => worker[w].pc = "running")
    BY <1>17 DEF Report, WorkerOnly
  <2>2. \A v \in WorkerIds : /\ worker'[v].run = worker[v].run /\ worker'[v].eng = worker[v].eng
                                  /\ worker'[v].retired = worker[v].retired
                             /\ worker'[v].pc = "running" => worker[v].pc = "running"
    BY <2>1, ThreadMoves
  <2> QED BY <2>1, <2>2 DEF InPlace, Bound
<1>18. ASSUME NEW w \in WorkerIds, Raise(w) PROVE InPlace'
  <2>1. UNCHANGED <<sess, tree, main>> /\ \E x : worker' = [worker EXCEPT ![w].pc = x]
          /\ (x = "running" => worker[w].pc = "running")
    BY <1>18 DEF Raise, WorkerOnly
  <2>2. \A v \in WorkerIds : /\ worker'[v].run = worker[v].run /\ worker'[v].eng = worker[v].eng
                                  /\ worker'[v].retired = worker[v].retired
                             /\ worker'[v].pc = "running" => worker[v].pc = "running"
    BY <2>1, ThreadMoves
  <2> QED BY <2>1, <2>2 DEF InPlace, Bound
<1>19. ASSUME NEW w \in WorkerIds, NEW what \in Emitted, LegacyEmit(w, what) PROVE InPlace'
  <2>1. UNCHANGED <<sess, tree, main>> /\ \E x : worker' = [worker EXCEPT ![w].pc = x]
          /\ (x = "running" => worker[w].pc = "running")
    BY <1>19 DEF LegacyEmit, WorkerOnly
  <2>2. \A v \in WorkerIds : /\ worker'[v].run = worker[v].run /\ worker'[v].eng = worker[v].eng
                                  /\ worker'[v].retired = worker[v].retired
                             /\ worker'[v].pc = "running" => worker[v].pc = "running"
    BY <2>1, ThreadMoves
  <2> QED BY <2>1, <2>2 DEF InPlace, Bound
<1>20. ASSUME NEW w \in WorkerIds, LegacyCancelled(w) PROVE InPlace'
  <2>1. UNCHANGED <<sess, tree, main>> /\ \E x : worker' = [worker EXCEPT ![w].pc = x]
          /\ (x = "running" => worker[w].pc = "running")
    BY <1>20 DEF LegacyCancelled, WorkerOnly
  <2>2. \A v \in WorkerIds : /\ worker'[v].run = worker[v].run /\ worker'[v].eng = worker[v].eng
                                  /\ worker'[v].retired = worker[v].retired
                             /\ worker'[v].pc = "running" => worker[v].pc = "running"
    BY <2>1, ThreadMoves
  <2> QED BY <2>1, <2>2 DEF InPlace, Bound
<1>21. ASSUME NEW w \in WorkerIds, Exit(w) PROVE InPlace'
  <2>1. UNCHANGED <<sess, tree, main>> /\ worker' = [worker EXCEPT ![w].pc = "exited"]
    BY <1>21 DEF Exit, WorkerOnly
  <2>2. \A v \in WorkerIds : /\ worker'[v].run = worker[v].run /\ worker'[v].eng = worker[v].eng
                                  /\ worker'[v].retired = worker[v].retired
                             /\ worker'[v].pc = "running" => worker[v].pc = "running"
    BY <2>1, ThreadMoves
  <2> QED BY <2>1, <2>2 DEF InPlace, Bound
<1>22. ASSUME NEW r \in RunIds, DrainEnd(r) PROVE InPlace'
  <2>1. UNCHANGED <<worker, main>> /\ r \in closing
    BY <1>22, DrainEndKeeps
  <2>2. Bound(r)
    BY <2>1 DEF Closing, Draining, Bindings
  <2>3. \A q \in RunIds : (q # r => tree'[q] = tree[q] /\ sess'[q] = sess[q]) \/ UNCHANGED <<sess, tree>>
    BY <1>22, DrainEndKeeps
  <2>4. \A v \in WorkerIds : Working(v) => worker[v].run \in RunIds
          /\ (worker[v].run = r => worker[v].retired)
    BY <2>1, RunOfThread DEF Guarded, Working
  <2> QED BY <2>1, <2>3, <2>4 DEF InPlace, Working, Bound
<1>23. CASE UNCHANGED <<tree, worker, main, sess>>
  BY <1>23 DEF InPlace, Bound
<1>24. ASSUME NEW r \in RunIds, Undo(r) PROVE InPlace'
  BY <1>24, <1>23 DEF Undo, NoFault, collab
<1>25. ASSUME NEW p \in Paths, Edit(p) PROVE InPlace'
  BY <1>25, <1>23 DEF Edit, NoFault, collab
<1>26. ASSUME NEW d \in Deliveries, Capture(d) PROVE InPlace'
  BY <1>26, <1>23 DEF Capture, NoFault, project, published
<1>27. ASSUME NEW d \in Deliveries, Lease(d) PROVE InPlace'
  BY <1>27, <1>23 DEF Lease, DeliveryStep, NoFault, project, published
<1>28. ASSUME NEW d \in Deliveries, Validate(d) PROVE InPlace'
  BY <1>28, <1>23 DEF Validate, DeliveryStep, NoFault, project, published
<1>29. ASSUME NEW d \in Deliveries, Return(d) PROVE InPlace'
  BY <1>29, <1>23 DEF Return, DeliveryStep, NoFault, project, published
<1>30. ASSUME NEW r \in RunIds, DrainBegin(r) PROVE InPlace'
  BY <1>30, <1>23 DEF DrainBegin, NoFault, project, published
<1>32. CASE RejectSettle
  <2>1. UNCHANGED <<tree, worker, sess>> /\ main.pc # "down"
    BY <1>32, RejectKeeps
  <2> QED BY <2>1 DEF InPlace, Bound
<1>33. CASE OldTreeKept
  <2>1. UNCHANGED worker /\ \A v \in WorkerIds : worker[v].pc # "running"
    BY <1>33, NoneStarting DEF OldTreeKept, StartAdmitted
  <2> QED BY <2>1 DEF InPlace
<1>34. ASSUME NEW w \in WorkerIds, LegacyRead(w) \/ LegacyHash(w) PROVE InPlace'
  <2>1. /\ UNCHANGED <<sess, tree, main>>
        /\ \A v \in WorkerIds : /\ worker'[v].run = worker[v].run
                                     /\ worker'[v].eng = worker[v].eng
                                          /\ worker'[v].pc = worker[v].pc
                                /\ worker'[v].retired = worker[v].retired
    BY <1>34, ReadsKeep
  <2> QED BY <2>1 DEF InPlace, Bound
<1>31. CASE UNCHANGED vars
  BY <1>31 DEF vars, InPlace, Bound
<1> QED BY <1>1, <1>2, <1>3, <1>4, <1>5, <1>6, <1>7, <1>8, <1>9, <1>10, <1>11, <1>12,
          <1>13, <1>14, <1>15, <1>16, <1>17, <1>18, <1>19, <1>20, <1>21, <1>22, <1>23,
          <1>24, <1>25, <1>26, <1>27, <1>28, <1>29, <1>30, <1>31, <1>32, <1>33, <1>34
       DEF Orderly, UserNext, ApplyNext, WorkerNext, DeliveryNext, Reportable, Emitted

\* Every step keeps the Runs of the deliveries.
LEMMA LoansStep ==
  ASSUME Typed, OneRun, OneWorker, Following, Signals, Recorded, Owned, Bindings, Closing,
           Guarded, Loans, [Orderly]_vars
  PROVE  Loans'
<1>1. ASSUME UNCHANGED delivery, \A q \in RunIds : Bound(q) => sess'[q] # "none"
      PROVE  Loans'
  BY <1>1 DEF Loans, Bound
<1>2. CASE SlotNext
  BY <1>1, <1>2, SlotKeeps DEF Bound
<1>3. ASSUME NEW d \in Deliveries, Capture(d) PROVE Loans'
  <2>1. delivery' = [delivery EXCEPT ![d] = [pc |-> "captured", run |-> active.run]]
          /\ active.run \in RunIds /\ Bound(active.run) /\ UNCHANGED sess
    BY <1>3, ActiveFacts DEF Capture, Borrowable, Owned
  <2> QED BY <2>1 DEF Loans, Typed, Bound
<1>4. ASSUME NEW d \in Deliveries, Lease(d) \/ Validate(d) \/ Return(d) PROVE Loans'
  <2>1. UNCHANGED sess /\ \E x : delivery[d].pc # "idle" /\ delivery' = [delivery EXCEPT ![d].pc = x]
    BY <1>4 DEF Lease, Validate, Return, DeliveryStep
  <2> QED BY <2>1 DEF Loans, Typed, Borrowers, Bound
<1>5. ASSUME NEW e \in Engines, NEW s \in Sessions, Start(e, s) PROVE Loans'
  <2>1. ~Bound(FreeRun)
    BY <1>5, StartKeeps DEF Bindings
  <2> QED BY <1>1, <1>5, <2>1, StartKeeps DEF Bound
<1>6. ASSUME NEW e \in Engines, NEW s \in Sessions, StartFails(e, s) PROVE Loans'
  <2>1. ~Bound(FreeRun)
    BY <1>6, StartFailsKeeps DEF Bindings
  <2> QED BY <1>1, <1>6, <2>1, StartFailsKeeps DEF Bound
<1>7. CASE DecisionRelease
  <2>1. Release /\ UNCHANGED delivery
    BY <1>7 DEF DecisionRelease
  <2>2. \A q \in RunIds : sess'[q] = sess[q] \/ sess'[q] = "closed"
    BY <2>1, ReleaseEffects
  <2> QED BY <1>1, <2>1, <2>2 DEF Bound
<1>8. ASSUME NEW r \in RunIds, DrainEnd(r) PROVE Loans'
  <2>1. UNCHANGED delivery /\ \A q \in RunIds : sess'[q] = sess[q] \/ sess'[q] = "closed"
    BY <1>8, DrainEndKeeps
  <2> QED BY <1>1, <2>1 DEF Bound
<1>9. CASE UNCHANGED <<sess, delivery>>
  BY <1>1, <1>9 DEF Bound
<1>10. CASE OldTreeKept \/ FollowUpCheck \/ Cancel \/ Reject \/ ShutdownAsk \/ RejectSettle
  BY <1>9, <1>10 DEF OldTreeKept, FollowUpCheck, Cancel, Reject, ShutdownAsk, RejectSettle, collab
<1>11. ASSUME NEW wanted \in SUBSET Paths, ApplyCheck(wanted) PROVE Loans'
  BY <1>9, <1>11 DEF ApplyCheck, collab
<1>12. ASSUME NEW r \in RunIds, Undo(r) PROVE Loans'
  BY <1>9, <1>12 DEF Undo, collab
<1>13. ASSUME NEW p \in Paths, Edit(p) \/ Write(p) PROVE Loans'
  BY <1>9, <1>13 DEF Edit, Write, collab, ApplyFrame
<1>14. CASE Checkpoint \/ ApplySettle \/ Restore
  BY <1>9, <1>14 DEF Checkpoint, ApplySettle, Restore, collab, ApplyFrame
<1>15. CASE FollowUpStart
  BY <1>9, <1>15 DEF FollowUpStart, collab
<1>16. CASE ShutdownRelease
  BY <1>9, <1>16 DEF ShutdownRelease
<1>17. ASSUME NEW w \in WorkerIds, WorkerNext(w) PROVE Loans'
  <2>1. CASE LegacyRead(w) \/ LegacyHash(w)
    BY <1>9, <2>1, ReadsKeep
  <2>2. CASE Resume(w) \/ Raise(w) \/ LegacyCancelled(w) \/ Exit(w)
    BY <1>9, <2>2 DEF Resume, Raise, LegacyCancelled, Exit, WorkerOnly, collab
  <2>3. ASSUME NEW o \in Reportable, Report(w, o) PROVE Loans'
    BY <1>9, <2>3 DEF Report, WorkerOnly, collab
  <2>4. ASSUME NEW what \in Emitted, LegacyEmit(w, what) PROVE Loans'
    BY <1>9, <2>4 DEF LegacyEmit, WorkerOnly, collab
  <2> QED BY <1>17, <2>1, <2>2, <2>3, <2>4 DEF WorkerNext, Reportable, Emitted
<1>18. ASSUME NEW r \in RunIds, DrainBegin(r) PROVE Loans'
  BY <1>9, <1>18 DEF DrainBegin
<1>19. CASE UNCHANGED vars
  BY <1>9, <1>19 DEF vars
<1> QED BY <1>2, <1>3, <1>4, <1>5, <1>6, <1>7, <1>8, <1>10, <1>11, <1>12, <1>13, <1>14,
          <1>15, <1>16, <1>17, <1>18, <1>19
       DEF Orderly, UserNext, ApplyNext, DeliveryNext

\* What LeaseProtects says of a delivery, in one step.
Lent(d) ==
  LET r == delivery[d].run IN
  /\ delivery[d].pc \in {"leased", "using"} /\ delivery'[d].pc # "idle"
       => tree'[r] = tree[r] /\ sess'[r] = sess[r]
  /\ delivery[d].pc = "leased" /\ delivery'[d].pc = "using"
       => (tree[r] = "live" /\ sess[r] = "open") \/ tree[r] = "torn"

\* Every step leaves what is on loan alone, those that stray as well.
LEMMA LeaseStep ==
  ASSUME Typed, OneRun, OneWorker, Following, Signals, Recorded, Owned, Bindings, Closing,
           Guarded, Loans, [Orderly \/ Straying]_vars
  PROVE  \A d \in Deliveries : Lent(d)
<1> DEFINE Same(q) == tree'[q] = tree[q] /\ sess'[q] = sess[q]
           Goal == \A d \in Deliveries : Lent(d)
<1>0. \A d \in Deliveries : delivery[d].pc \in {"leased", "using"}
        => delivery[d].run \in RunIds /\ Bound(delivery[d].run) /\ Leased(delivery[d].run)
  BY DEF Loans, Leased
<1>1. ASSUME UNCHANGED delivery, \A q \in RunIds : Leased(q) /\ Bound(q) => Same(q) PROVE Goal
  BY <1>0, <1>1 DEF Lent
<1>2. ASSUME UNCHANGED <<tree, sess>>, UNCHANGED delivery PROVE Goal
  BY <1>1, <1>2
<1>3. ASSUME UNCHANGED delivery, UNCHANGED sess, tree' \in {Disposed(active.ws), Torn(active.ws)},
             active.sess = 0
      PROVE  Goal
  <2>1. active.ws # 0 => ~Bound(active.ws)
    BY <1>3 DEF Owned
  <2>2. \A q \in RunIds : q # active.ws => tree'[q] = tree[q]
    BY <1>3, DisposedOnly
  <2> QED BY <1>1, <1>3, <2>1, <2>2, Bounds
<1>4. ASSUME UNCHANGED delivery, ~BusyAtAll PROVE Goal
  BY <1>1, <1>4, Bounds DEF BusyAtAll, Busy
<1>5. CASE SlotNext
  <2>1. UNCHANGED <<sess, delivery>> /\ Src \in WorkerIds /\ worker[Src].pc # "none"
          /\ queue # <<>> /\ worker[Src].run \in RunIds
    BY <1>5, SlotKeeps, SrcFacts
  <2>2. CASE UNCHANGED tree
    BY <1>2, <2>1, <2>2
  <2>3. CASE tree' = Disposed(active.ws) /\ ~Bound(worker[Src].run) /\ Reports(Head(queue))
    <3>1. Src = active.worker /\ Src # 0
      <4>1. ui[Src] = "none"
        BY <2>1, <2>3, HeadOfQueue, SrcFacts DEF Signals, SignalOK, Typed
      <4> QED BY <2>1, <4>1, Bounds DEF OneWorker
    <3>2. worker[Src].run = active.run /\ active.ws \in {0, active.run}
      BY <3>1 DEF OneRun
    <3>3. \A q \in RunIds : q # active.ws => tree'[q] = tree[q]
      BY <2>3, DisposedOnly
    <3> QED BY <1>1, <2>1, <2>3, <3>2, <3>3, Bounds
  <2>4. CASE tree' \in {Disposed(worker[Src].run), Torn(worker[Src].run)} /\ worker[Src].eng = "agent"
    <3>1. ~Bound(worker[Src].run)
      BY <2>1, <2>4 DEF Bindings
    <3>2. \A q \in RunIds : q # worker[Src].run => tree'[q] = tree[q]
      BY <2>4, DisposedOnly
    <3> QED BY <1>1, <2>1, <3>1, <3>2
  <2> QED BY <1>5, <2>2, <2>3, <2>4, SlotTrees
<1>6. ASSUME NEW d \in Deliveries, Capture(d) \/ Lease(d) \/ Return(d) PROVE Goal
  <2>1. /\ UNCHANGED <<tree, sess>> /\ delivery'[d].pc # "using"
        /\ \A k \in Deliveries : k # d => delivery'[k] = delivery[k]
    BY <1>6 DEF Capture, Lease, Return, DeliveryStep, Typed, Borrowers
  <2> QED BY <2>1 DEF Lent
<1>7. ASSUME NEW d \in Deliveries, Validate(d) PROVE Goal
  <2>1. UNCHANGED <<tree, sess>> /\ \A k \in Deliveries : k # d => delivery'[k] = delivery[k]
    BY <1>7 DEF Validate, DeliveryStep, Typed, Borrowers
  <2>2. delivery'[d].pc = "using" => Borrowable(delivery[d].run)
    BY <1>7 DEF Validate, DeliveryStep, Typed, Borrowers
  <2>3. delivery[d].pc = "leased" => delivery[d].run \in RunIds
    BY <1>0
  <2>4. ASSUME Borrowable(delivery[d].run), delivery[d].run \in RunIds
        PROVE  \/ tree[delivery[d].run] = "live" /\ sess[delivery[d].run] = "open"
               \/ tree[delivery[d].run] = "torn"
    <3>1. /\ delivery[d].run = active.run /\ active.sess = active.run /\ active.run \in RunIds
          /\ active.run # 0 /\ tree[active.run] \in {"live", "torn"}
      BY <2>4 DEF Borrowable, Remains
    <3>2. sess[active.run] \in {"none", "open", "closed"} /\ sess[active.run] # "none"
      BY <3>1 DEF Owned, Bound, Typed
    <3> QED BY <3>1, <3>2 DEF Owned
  <2> QED BY <2>1, <2>2, <2>3, <2>4 DEF Lent
<1>8. ASSUME NEW e \in Engines, NEW s \in Sessions, Start(e, s) PROVE Goal
  BY <1>4, <1>8, StartKeeps
<1>9. ASSUME NEW e \in Engines, NEW s \in Sessions, StartFails(e, s) PROVE Goal
  BY <1>4, <1>9, StartFailsKeeps
<1>10. CASE OldTreeKept
  BY <1>4, <1>10 DEF OldTreeKept, StartAdmitted, collab
<1>11. CASE DecisionRelease
  <2>1. UNCHANGED delivery /\ Release
    BY <1>11 DEF DecisionRelease
  <2>2. CASE UNCHANGED <<sess, tree>>
    BY <1>2, <2>1, <2>2
  <2>3. CASE active.sess = 0 /\ UNCHANGED sess /\ tree' \in {Disposed(active.ws), Torn(active.ws)}
    BY <1>3, <2>1, <2>3
  <2>4. CASE /\ active.sess # 0 /\ ~Busy(active.sess)
             /\ \A q \in RunIds : q # active.sess => sess'[q] = sess[q]
             /\ tree' \in {Disposed(active.ws), Torn(active.ws)}
    <3>1. ~Leased(active.sess)
      BY <2>4 DEF Busy
    <3>2. active.ws # 0 => active.sess = active.ws \/ ~Bound(active.ws)
      BY DEF Owned
    <3>3. \A q \in RunIds : q # active.ws => tree'[q] = tree[q]
      BY <2>4, DisposedOnly
    <3> QED BY <1>1, <2>1, <2>4, <3>1, <3>2, <3>3, Bounds
  <2> QED BY <2>1, <2>2, <2>3, <2>4, ReleaseEffects
<1>12. CASE FollowUpStart
  <2>1. UNCHANGED <<delivery, sess>> /\ active.run # 0
          /\ \/ UNCHANGED tree
             \/ active.engine = "agent" /\ tree' \in {Disposed(active.ws), Torn(active.ws)}
    BY <1>12, FollowUpStartKeeps, Bounds
  <2>2. active.engine = "agent" => active.sess = 0
    BY <2>1 DEF Owned, OneRun
  <2> QED BY <1>2, <1>3, <2>1, <2>2
<1>13. CASE ShutdownRelease
  <2>1. UNCHANGED <<delivery, sess>>
          /\ \/ UNCHANGED tree
             \/ active.sess = 0 /\ tree' \in {Disposed(active.ws), Torn(active.ws)}
    BY <1>13, ShutdownReleaseKeeps
  <2> QED BY <1>2, <1>3, <2>1
<1>14. ASSUME NEW r \in RunIds, DrainEnd(r) PROVE Goal
  <2>1. UNCHANGED delivery /\ r \in closing
    BY <1>14, DrainEndKeeps
  <2>2. ~Leased(r)
    BY <2>1 DEF Closing
  <2>3. UNCHANGED <<sess, tree>> \/ \A q \in RunIds : q # r => Same(q)
    BY <1>14, DrainEndKeeps
  <2> QED BY <1>1, <1>2, <2>1, <2>2, <2>3
<1>15. CASE FollowUpCheck \/ Cancel \/ Reject \/ ShutdownAsk \/ RejectSettle
  BY <1>2, <1>15 DEF FollowUpCheck, Cancel, Reject, ShutdownAsk, RejectSettle, collab
<1>16. ASSUME NEW wanted \in SUBSET Paths, ApplyCheck(wanted) PROVE Goal
  BY <1>2, <1>16 DEF ApplyCheck, collab
<1>17. ASSUME NEW r \in RunIds, Undo(r) PROVE Goal
  BY <1>2, <1>17 DEF Undo, collab
<1>18. ASSUME NEW p \in Paths, Edit(p) \/ Write(p) PROVE Goal
  BY <1>2, <1>18 DEF Edit, Write, collab, ApplyFrame
<1>19. CASE Checkpoint \/ ApplySettle \/ Restore
  BY <1>2, <1>19 DEF Checkpoint, ApplySettle, Restore, collab, ApplyFrame
<1>20. ASSUME NEW w \in WorkerIds, WorkerNext(w) PROVE Goal
  <2>1. CASE LegacyRead(w) \/ LegacyHash(w)
    BY <1>2, <2>1, ReadsKeep
  <2>2. CASE Resume(w) \/ Raise(w) \/ LegacyCancelled(w) \/ Exit(w)
    BY <1>2, <2>2 DEF Resume, Raise, LegacyCancelled, Exit, WorkerOnly, collab
  <2>3. ASSUME NEW o \in Reportable, Report(w, o) PROVE Goal
    BY <1>2, <2>3 DEF Report, WorkerOnly, collab
  <2>4. ASSUME NEW what \in Emitted, LegacyEmit(w, what) PROVE Goal
    BY <1>2, <2>4 DEF LegacyEmit, WorkerOnly, collab
  <2> QED BY <1>20, <2>1, <2>2, <2>3, <2>4 DEF WorkerNext, Reportable, Emitted
<1>21. ASSUME NEW r \in RunIds, DrainBegin(r) PROVE Goal
  BY <1>2, <1>21 DEF DrainBegin
<1>22. ASSUME NEW s \in Sessions, StartStrays(s) PROVE Goal
  BY <1>4, <1>22 DEF StartStrays, StartAdmitted
<1>23. CASE FollowUpStrays
  BY <1>2, <1>23 DEF FollowUpStrays, collab
<1>24. CASE UNCHANGED vars
  BY <1>2, <1>24 DEF vars
<1> QED BY <1>5, <1>6, <1>7, <1>8, <1>9, <1>10, <1>11, <1>12, <1>13, <1>14, <1>15, <1>16,
          <1>17, <1>18, <1>19, <1>20, <1>21, <1>22, <1>23, <1>24
       DEF Orderly, Straying, UserNext, ApplyNext, DeliveryNext

\* What a slot publishes is vouched for.
LEMMA SlotPublishes ==
  ASSUME Typed, OneWorker, Signals, Recorded, Vouched, SlotNext
  PROVE  Vouched' /\ early \subseteq early' /\ UNCHANGED <<late, lost>>
<1>1. Slot(Src)
  BY SlotShapes
<1>2. UNCHANGED <<late, lost>>
  BY <1>1 DEF Slot, SlotFrame
<1>3. UNCHANGED published \/ \E b : Publish(worker[Src].run, b)
  BY <1>1 DEF Slot, LegacySlot, PipelineSlot, AgentSlot, ThreadSlot, Publishes
<1>4. CASE UNCHANGED published
  BY <1>2, <1>4 DEF published, Vouched
<1>5. ASSUME NEW b, Publish(worker[Src].run, b) PROVE Vouched' /\ early \subseteq early'
  BY <1>5 DEF Publish, Vouched
<1> QED BY <1>2, <1>3, <1>4, <1>5 DEF published

\* Every step keeps the hashes of the proposals vouched for.
LEMMA VouchedStep ==
  ASSUME Typed, OneRun, OneWorker, Signals, Recorded, Vouched, [Orderly]_vars
  PROVE  Vouched'
<1>1. CASE SlotNext
  BY <1>1, SlotPublishes
<1>2. CASE UNCHANGED <<base, origin, early>>
  BY <1>2 DEF Vouched
<1>3. CASE UserNext
  BY <1>2, <1>3 DEF UserNext, Start, StartFails, OldTreeKept, FollowUpCheck, Cancel, Reject,
     ShutdownAsk, ApplyCheck, Undo, Edit, project, published
<1>4. CASE ApplyNext
  BY <1>2, <1>4 DEF ApplyNext, Checkpoint, Write, ApplySettle, Restore, RejectSettle, DecisionRelease,
     ApplyFrame, project, published
<1>5. CASE FollowUpStart \/ ShutdownRelease
  BY <1>2, <1>5 DEF FollowUpStart, ShutdownRelease, project, published
<1>6. ASSUME NEW w \in WorkerIds, WorkerNext(w) PROVE Vouched'
  BY <1>2, <1>6 DEF WorkerNext, Resume, Raise, LegacyRead, LegacyHash, LegacyCancelled, Exit, Report, LegacyEmit,
     WorkerOnly, project, published
<1>7. ASSUME NEW d \in Deliveries, DeliveryNext(d) PROVE Vouched'
  BY <1>2, <1>7 DEF DeliveryNext, Capture, Lease, Validate, Return, DeliveryStep, project, published
<1>8. ASSUME NEW r \in RunIds, DrainBegin(r) \/ DrainEnd(r) PROVE Vouched'
  BY <1>2, <1>8 DEF DrainBegin, DrainEnd, project, published
<1>9. CASE UNCHANGED vars
  BY <1>2, <1>9 DEF vars, published
<1> QED BY <1>1, <1>3, <1>4, <1>5, <1>6, <1>7, <1>8, <1>9 DEF Orderly

\* Every step keeps the files an apply has still to write as they were checked.
LEMMA UnwrittenStep ==
  ASSUME Typed, OneRun, Unwritten, Covered, Accounted, Safe, OneWorker, Signals, Recorded,
           [Orderly]_vars
  PROVE  Unwritten'
<1>1. CASE FollowUpCheck
  <2>1. main'.pc \notin {"checked", "write"} /\ main.pc \notin {"checked", "write"}
          /\ UNCHANGED <<file, base, late, ckpt, applied, broken, lost>>
    BY <1>1 DEF FollowUpCheck, project, published, Idle
  <2> QED BY <2>1 DEF Unwritten
<1>2. CASE ShutdownAsk
  <2>1. main'.pc \notin {"checked", "write"} /\ main.pc \notin {"checked", "write"}
          /\ UNCHANGED <<file, base, late, ckpt, applied, broken, lost>>
    BY <1>2 DEF ShutdownAsk, project, published, Idle
  <2> QED BY <2>1 DEF Unwritten
<1>3. ASSUME NEW wanted \in SUBSET Paths, ApplyCheck(wanted) PROVE Unwritten'
  <2>1. main'.todo = wanted /\ main'.wanted = wanted /\ UNCHANGED <<file, base, late>>
          /\ \A p \in wanted : file[p] = base[p]
    BY <1>3 DEF ApplyCheck, project, published
  <2> QED BY <2>1 DEF Unwritten
<1>4. ASSUME NEW r \in RunIds, Undo(r) PROVE Unwritten'
  <2>1. main.pc = "idle" /\ main' = main
    BY <1>4 DEF Undo, Idle
  <2> QED BY <2>1 DEF Unwritten
<1>5. ASSUME NEW p \in Paths, Edit(p) PROVE Unwritten'
  <2>1. /\ UNCHANGED <<main, base, ckpt, applied, broken, lost>> /\ late \subseteq late'
        /\ (main.pc \in {"checked", "write"} => MaxRuns + edits + 1 \in late')
    BY <1>5 DEF Edit, published
  <2>2. file'[p] = MaxRuns + edits + 1 /\ \A q \in Paths : q # p => file'[q] = file[q]
    BY <1>5 DEF Edit, Typed
  <2>3. main.todo \subseteq Paths /\ main.wanted \subseteq Paths
    BY RequestUpdates DEF Typed
  <2> QED BY <2>1, <2>2, <2>3 DEF Unwritten
<1>6. CASE SlotNext
  <2>1. main = Idle /\ main' = Idle /\ UNCHANGED <<file, late, ckpt, applied, broken, lost>>
    BY <1>6, SlotShapes DEF Slot, SlotFrame
  <2> QED BY <2>1 DEF Unwritten, Idle
<1>7. CASE Checkpoint
  <2>1. /\ UNCHANGED <<file, base, late>> /\ main.pc = "checked"
        /\ (main'.todo = main.todo /\ main'.wanted = main.wanted) \/ main'.pc = "idle"
    BY <1>7 DEF Checkpoint, Idle, Typed, Requests, published
  <2> QED BY <2>1 DEF Unwritten
<1>8. ASSUME NEW p \in Paths, Write(p) PROVE Unwritten'
  <2>0. main \in Requests
    BY DEF Typed
  <2>1. /\ UNCHANGED <<base, late, ckpt, applied, broken>> /\ main.pc = "write" /\ p \in main.todo
        /\ (UNCHANGED <<file, lost>> \/ (file' = [file EXCEPT ![p] = main.run] /\ lost' = lost \cup Gone({p}, Known)))
    BY <1>8 DEF Write, ApplyFrame, published
  <2>2. main'.todo = main.todo \ {p} /\ main'.wanted = main.wanted /\ main'.run = main.run
          /\ main'.pc = "write"
    BY <1>8, <2>0, <2>1 DEF Write, Requests
  <2>3. \A q \in Paths : q # p => file'[q] = file[q]
    BY <2>1 DEF Typed
  <2>4. main.todo \subseteq Paths /\ main.wanted \subseteq Paths
          /\ main.todo \subseteq main.wanted
    BY <2>0, <2>1, RequestUpdates DEF Unwritten
  <2>5. file'[p] = file[p] \/ file'[p] = main.run
    BY <2>1 DEF Typed
  <2> QED BY <2>1, <2>2, <2>3, <2>4 DEF Unwritten
<1>9. CASE ApplySettle
  <2>0. main \in Requests
    BY DEF Typed
  <2>1. UNCHANGED <<file, base, late, ckpt, broken, lost>> /\ main.pc = "write"
          /\ applied \subseteq applied'
    BY <1>9 DEF ApplySettle, ApplyFrame, published
  <2>2. main'.todo = main.todo /\ main'.wanted = main.wanted /\ main'.run = main.run
    BY <1>9, <2>0 DEF ApplySettle, Requests
  <2>3. main'.pc = "write" \/ (main'.pc = "release" /\ main.run \in applied')
    BY <1>9, <2>0, <2>1 DEF ApplySettle, Requests
  <2> QED BY <2>1, <2>2 DEF Unwritten
<1>10. CASE DecisionRelease
  <2>1. main'.pc \notin {"checked", "write"} /\ main.pc \notin {"checked", "write"}
          /\ UNCHANGED <<file, base, late, ckpt, applied, broken, lost>>
    BY <1>10 DEF DecisionRelease, project, published, Idle
  <2> QED BY <2>1 DEF Unwritten
<1>11. CASE Restore
  <2>1. main'.pc = "idle"
    BY <1>11 DEF Restore, Idle
  <2> QED BY <2>1 DEF Unwritten
<1>12. CASE FollowUpStart
  <2>1. main'.pc \notin {"checked", "write"} /\ main.pc \notin {"checked", "write"}
          /\ UNCHANGED <<file, base, late, ckpt, applied, broken, lost>>
    BY <1>12 DEF FollowUpStart, project, published, Idle
  <2> QED BY <2>1 DEF Unwritten
<1>13. CASE ShutdownRelease
  <2>1. main'.pc \notin {"checked", "write"} /\ main.pc \notin {"checked", "write"}
          /\ UNCHANGED <<file, base, late, ckpt, applied, broken, lost>>
    BY <1>13 DEF ShutdownRelease, project, published, Idle
  <2> QED BY <2>1 DEF Unwritten
<1>14. CASE UNCHANGED <<file, base, main, late>>
  BY <1>14 DEF Unwritten
<1>15. ASSUME NEW e \in Engines, NEW s \in Sessions, Start(e, s) PROVE Unwritten'
  BY <1>15, <1>14 DEF Start, NoFault, collab, project, published
<1>16. ASSUME NEW e \in Engines, NEW s \in Sessions, StartFails(e, s) PROVE Unwritten'
  BY <1>16, <1>14 DEF StartFails, SessionAfter, Cleared, project, published
<1>17. CASE Cancel
  BY <1>17, <1>14 DEF Cancel, NoFault, collab, project, published
<1>18. CASE Reject
  <2>1. main'.pc \notin {"checked", "write"} /\ main.pc \notin {"checked", "write"}
          /\ UNCHANGED <<file, base, late, ckpt, applied, broken, lost>>
    BY <1>18 DEF Reject, Deciding, project, published, Idle
  <2> QED BY <2>1 DEF Unwritten
<1>19. ASSUME NEW w \in WorkerIds, Resume(w) PROVE Unwritten'
  BY <1>19, <1>14 DEF Resume, NoFault, WorkerOnly, collab, project, published
<1>20. ASSUME NEW w \in WorkerIds, NEW o \in Reportable, Report(w, o) PROVE Unwritten'
  BY <1>20, <1>14 DEF Report, NoFault, WorkerOnly, collab, project, published
<1>21. ASSUME NEW w \in WorkerIds, Raise(w) PROVE Unwritten'
  BY <1>21, <1>14 DEF Raise, WorkerOnly, collab, project, published
<1>22. ASSUME NEW w \in WorkerIds, NEW what \in Emitted, LegacyEmit(w, what) PROVE Unwritten'
  BY <1>22, <1>14 DEF LegacyEmit, NoFault, WorkerOnly, collab, project, published
<1>23. ASSUME NEW w \in WorkerIds, LegacyCancelled(w) PROVE Unwritten'
  BY <1>23, <1>14 DEF LegacyCancelled, NoFault, WorkerOnly, collab, project, published
<1>24. ASSUME NEW w \in WorkerIds, Exit(w) PROVE Unwritten'
  BY <1>24, <1>14 DEF Exit, NoFault, WorkerOnly, collab, project, published
<1>25. ASSUME NEW d \in Deliveries, Capture(d) PROVE Unwritten'
  BY <1>25, <1>14 DEF Capture, NoFault, project, published
<1>26. ASSUME NEW d \in Deliveries, Lease(d) PROVE Unwritten'
  BY <1>26, <1>14 DEF Lease, DeliveryStep, NoFault, project, published
<1>27. ASSUME NEW d \in Deliveries, Validate(d) PROVE Unwritten'
  BY <1>27, <1>14 DEF Validate, DeliveryStep, NoFault, project, published
<1>28. ASSUME NEW d \in Deliveries, Return(d) PROVE Unwritten'
  BY <1>28, <1>14 DEF Return, DeliveryStep, NoFault, project, published
<1>29. ASSUME NEW r \in RunIds, DrainBegin(r) PROVE Unwritten'
  BY <1>29, <1>14 DEF DrainBegin, NoFault, project, published
<1>30. ASSUME NEW r \in RunIds, DrainEnd(r) PROVE Unwritten'
  BY <1>30, <1>14 DEF DrainEnd, NoFault, project, published
<1>32. CASE RejectSettle
  <2>1. main'.pc \notin {"checked", "write"} /\ main.pc \notin {"checked", "write"}
          /\ UNCHANGED <<file, base, late, ckpt, applied, broken, lost>>
    BY <1>32, RejectKeeps
  <2> QED BY <2>1 DEF Unwritten
<1>33. CASE OldTreeKept
  BY <1>33, <1>14 DEF OldTreeKept, NoFault, collab, project, published
<1>34. ASSUME NEW w \in WorkerIds, LegacyRead(w) \/ LegacyHash(w) PROVE Unwritten'
  BY <1>34, <1>14, ReadsKeep
<1>31. CASE UNCHANGED vars
  BY <1>31 DEF vars, Unwritten
<1> QED BY <1>1, <1>2, <1>3, <1>4, <1>5, <1>6, <1>7, <1>8, <1>9, <1>10, <1>11, <1>12,
          <1>13, <1>14, <1>15, <1>16, <1>17, <1>18, <1>19, <1>20, <1>21, <1>22, <1>23,
          <1>24, <1>25, <1>26, <1>27, <1>28, <1>29, <1>30, <1>31, <1>32, <1>33, <1>34
       DEF Orderly, UserNext, ApplyNext, WorkerNext, DeliveryNext, Reportable, Emitted

\* Every step keeps the checkpoint of an apply complete.
LEMMA CoveredStep ==
  ASSUME Typed, OneRun, Unwritten, Covered, Accounted, Safe, OneWorker, Signals, Recorded,
           [Orderly]_vars
  PROVE  Covered'
<1>1. CASE FollowUpCheck
  <2>1. main'.pc \notin {"checked", "write"} /\ main.pc \notin {"checked", "write"}
          /\ UNCHANGED <<file, base, late, ckpt, applied, broken, lost>>
    BY <1>1 DEF FollowUpCheck, project, published, Idle
  <2> QED BY <2>1 DEF Covered
<1>2. CASE ShutdownAsk
  <2>1. main'.pc \notin {"checked", "write"} /\ main.pc \notin {"checked", "write"}
          /\ UNCHANGED <<file, base, late, ckpt, applied, broken, lost>>
    BY <1>2 DEF ShutdownAsk, project, published, Idle
  <2> QED BY <2>1 DEF Covered
<1>3. ASSUME NEW wanted \in SUBSET Paths, ApplyCheck(wanted) PROVE Covered'
  <2>1. main'.pc = "checked"
    BY <1>3 DEF ApplyCheck
  <2> QED BY <2>1 DEF Covered
<1>4. ASSUME NEW r \in RunIds, Undo(r) PROVE Covered'
  <2>1. main.pc = "idle" /\ main' = main
    BY <1>4 DEF Undo, Idle
  <2> QED BY <2>1 DEF Covered
<1>5. ASSUME NEW p \in Paths, Edit(p) PROVE Covered'
  <2>1. /\ UNCHANGED <<main, base, ckpt, applied, broken, lost>> /\ late \subseteq late'
        /\ (main.pc \in {"checked", "write"} => MaxRuns + edits + 1 \in late')
    BY <1>5 DEF Edit, published
  <2>2. file'[p] = MaxRuns + edits + 1 /\ \A q \in Paths : q # p => file'[q] = file[q]
    BY <1>5 DEF Edit, Typed
  <2>3. main.todo \subseteq Paths /\ main.wanted \subseteq Paths
    BY RequestUpdates DEF Typed
  <2> QED BY <2>1, <2>2, <2>3 DEF Covered
<1>6. CASE SlotNext
  <2>1. main = Idle /\ main' = Idle /\ UNCHANGED <<file, late, ckpt, applied, broken, lost>>
    BY <1>6, SlotShapes DEF Slot, SlotFrame
  <2> QED BY <2>1 DEF Covered, Idle
<1>7. CASE Checkpoint
  <2>1. CASE main'.pc = "idle"
    BY <2>1 DEF Covered
  <2>2. CASE ckpt' = [ckpt EXCEPT ![main.run] = {<<p, file[p]>> : p \in main.wanted}]
          /\ main' = [main EXCEPT !.pc = "write"]
    <3>1. main.run \in RunIds /\ main.wanted \subseteq Paths
      BY <1>7, ActiveFacts, RequestUpdates DEF Checkpoint, OneRun, Typed
    <3>2. main'.wanted = main.wanted /\ main'.run = main.run /\ UNCHANGED file
      BY <1>7, <2>2 DEF Checkpoint, Typed, Requests
    <3>3. ckpt'[main.run] = {<<p, file[p]>> : p \in main.wanted}
      BY <2>2, <3>1 DEF Typed
    <3>4. \A p \in main.wanted : file[p] \in Contents /\ <<p, file[p]>> \in ckpt'[main.run]
      BY <3>1, <3>3 DEF Typed
    <3> QED BY <3>2, <3>4 DEF Covered
  <2> QED BY <1>7, <2>1, <2>2 DEF Checkpoint, Idle
<1>8. ASSUME NEW p \in Paths, Write(p) PROVE Covered'
  <2>0. main \in Requests
    BY DEF Typed
  <2>1. /\ UNCHANGED <<base, late, ckpt, applied, broken>> /\ main.pc = "write" /\ p \in main.todo
        /\ (UNCHANGED <<file, lost>> \/ (file' = [file EXCEPT ![p] = main.run] /\ lost' = lost \cup Gone({p}, Known)))
    BY <1>8 DEF Write, ApplyFrame, published
  <2>2. main'.todo = main.todo \ {p} /\ main'.wanted = main.wanted /\ main'.run = main.run
          /\ main'.pc = "write"
    BY <1>8, <2>0, <2>1 DEF Write, Requests
  <2>3. \A q \in Paths : q # p => file'[q] = file[q]
    BY <2>1 DEF Typed
  <2>4. main.todo \subseteq Paths /\ main.wanted \subseteq Paths
          /\ main.todo \subseteq main.wanted
    BY <2>0, <2>1, RequestUpdates DEF Unwritten
  <2>5. file'[p] = file[p] \/ file'[p] = main.run
    BY <2>1 DEF Typed
  <2> QED BY <2>1, <2>2, <2>3, <2>4, <2>5 DEF Covered
<1>9. CASE ApplySettle
  <2>0. main \in Requests
    BY DEF Typed
  <2>1. UNCHANGED <<file, base, late, ckpt, broken, lost>> /\ main.pc = "write"
          /\ applied \subseteq applied'
    BY <1>9 DEF ApplySettle, ApplyFrame, published
  <2>2. main'.todo = main.todo /\ main'.wanted = main.wanted /\ main'.run = main.run
    BY <1>9, <2>0 DEF ApplySettle, Requests
  <2>3. main'.pc = "write" \/ (main'.pc = "release" /\ main.run \in applied')
    BY <1>9, <2>0, <2>1 DEF ApplySettle, Requests
  <2> QED BY <2>1, <2>2 DEF Covered
<1>10. CASE DecisionRelease
  <2>1. main'.pc \notin {"checked", "write"} /\ main.pc \notin {"checked", "write"}
          /\ UNCHANGED <<file, base, late, ckpt, applied, broken, lost>>
    BY <1>10 DEF DecisionRelease, project, published, Idle
  <2> QED BY <2>1 DEF Covered
<1>11. CASE Restore
  <2>1. main'.pc = "idle"
    BY <1>11 DEF Restore, Idle
  <2> QED BY <2>1 DEF Covered
<1>12. CASE FollowUpStart
  <2>1. main'.pc \notin {"checked", "write"} /\ main.pc \notin {"checked", "write"}
          /\ UNCHANGED <<file, base, late, ckpt, applied, broken, lost>>
    BY <1>12 DEF FollowUpStart, project, published, Idle
  <2> QED BY <2>1 DEF Covered
<1>13. CASE ShutdownRelease
  <2>1. main'.pc \notin {"checked", "write"} /\ main.pc \notin {"checked", "write"}
          /\ UNCHANGED <<file, base, late, ckpt, applied, broken, lost>>
    BY <1>13 DEF ShutdownRelease, project, published, Idle
  <2> QED BY <2>1 DEF Covered
<1>14. CASE UNCHANGED <<file, main, late, ckpt>>
  BY <1>14 DEF Covered
<1>15. ASSUME NEW e \in Engines, NEW s \in Sessions, Start(e, s) PROVE Covered'
  BY <1>15, <1>14 DEF Start, NoFault, collab, project, published
<1>16. ASSUME NEW e \in Engines, NEW s \in Sessions, StartFails(e, s) PROVE Covered'
  BY <1>16, <1>14 DEF StartFails, SessionAfter, Cleared, project, published
<1>17. CASE Cancel
  BY <1>17, <1>14 DEF Cancel, NoFault, collab, project, published
<1>18. CASE Reject
  <2>1. main'.pc \notin {"checked", "write"} /\ main.pc \notin {"checked", "write"}
          /\ UNCHANGED <<file, base, late, ckpt, applied, broken, lost>>
    BY <1>18 DEF Reject, Deciding, project, published, Idle
  <2> QED BY <2>1 DEF Covered
<1>19. ASSUME NEW w \in WorkerIds, Resume(w) PROVE Covered'
  BY <1>19, <1>14 DEF Resume, NoFault, WorkerOnly, collab, project, published
<1>20. ASSUME NEW w \in WorkerIds, NEW o \in Reportable, Report(w, o) PROVE Covered'
  BY <1>20, <1>14 DEF Report, NoFault, WorkerOnly, collab, project, published
<1>21. ASSUME NEW w \in WorkerIds, Raise(w) PROVE Covered'
  BY <1>21, <1>14 DEF Raise, WorkerOnly, collab, project, published
<1>22. ASSUME NEW w \in WorkerIds, NEW what \in Emitted, LegacyEmit(w, what) PROVE Covered'
  BY <1>22, <1>14 DEF LegacyEmit, NoFault, WorkerOnly, collab, project, published
<1>23. ASSUME NEW w \in WorkerIds, LegacyCancelled(w) PROVE Covered'
  BY <1>23, <1>14 DEF LegacyCancelled, NoFault, WorkerOnly, collab, project, published
<1>24. ASSUME NEW w \in WorkerIds, Exit(w) PROVE Covered'
  BY <1>24, <1>14 DEF Exit, NoFault, WorkerOnly, collab, project, published
<1>25. ASSUME NEW d \in Deliveries, Capture(d) PROVE Covered'
  BY <1>25, <1>14 DEF Capture, NoFault, project, published
<1>26. ASSUME NEW d \in Deliveries, Lease(d) PROVE Covered'
  BY <1>26, <1>14 DEF Lease, DeliveryStep, NoFault, project, published
<1>27. ASSUME NEW d \in Deliveries, Validate(d) PROVE Covered'
  BY <1>27, <1>14 DEF Validate, DeliveryStep, NoFault, project, published
<1>28. ASSUME NEW d \in Deliveries, Return(d) PROVE Covered'
  BY <1>28, <1>14 DEF Return, DeliveryStep, NoFault, project, published
<1>29. ASSUME NEW r \in RunIds, DrainBegin(r) PROVE Covered'
  BY <1>29, <1>14 DEF DrainBegin, NoFault, project, published
<1>30. ASSUME NEW r \in RunIds, DrainEnd(r) PROVE Covered'
  BY <1>30, <1>14 DEF DrainEnd, NoFault, project, published
<1>32. CASE RejectSettle
  <2>1. main'.pc \notin {"checked", "write"} /\ main.pc \notin {"checked", "write"}
          /\ UNCHANGED <<file, base, late, ckpt, applied, broken, lost>>
    BY <1>32, RejectKeeps
  <2> QED BY <2>1 DEF Covered
<1>33. CASE OldTreeKept
  BY <1>33, <1>14 DEF OldTreeKept, NoFault, collab, project, published
<1>34. ASSUME NEW w \in WorkerIds, LegacyRead(w) \/ LegacyHash(w) PROVE Covered'
  BY <1>34, <1>14, ReadsKeep
<1>31. CASE UNCHANGED vars
  BY <1>31 DEF vars, Covered
<1> QED BY <1>1, <1>2, <1>3, <1>4, <1>5, <1>6, <1>7, <1>8, <1>9, <1>10, <1>11, <1>12,
          <1>13, <1>14, <1>15, <1>16, <1>17, <1>18, <1>19, <1>20, <1>21, <1>22, <1>23,
          <1>24, <1>25, <1>26, <1>27, <1>28, <1>29, <1>30, <1>31, <1>32, <1>33, <1>34
       DEF Orderly, UserNext, ApplyNext, WorkerNext, DeliveryNext, Reportable, Emitted

\* Every step keeps proposed content to the Runs that were applied.
LEMMA AccountedStep ==
  ASSUME Typed, OneRun, Unwritten, Covered, Accounted, Safe, OneWorker, Signals, Recorded,
           [Orderly]_vars
  PROVE  Accounted'
<1>1. CASE FollowUpCheck
  <2>1. main'.pc \notin {"checked", "write"} /\ main.pc \notin {"checked", "write"}
          /\ UNCHANGED <<file, base, late, ckpt, applied, broken, lost>>
    BY <1>1 DEF FollowUpCheck, project, published, Idle
  <2> QED BY <2>1 DEF Accounted
<1>2. CASE ShutdownAsk
  <2>1. main'.pc \notin {"checked", "write"} /\ main.pc \notin {"checked", "write"}
          /\ UNCHANGED <<file, base, late, ckpt, applied, broken, lost>>
    BY <1>2 DEF ShutdownAsk, project, published, Idle
  <2> QED BY <2>1 DEF Accounted
<1>3. ASSUME NEW wanted \in SUBSET Paths, ApplyCheck(wanted) PROVE Accounted'
  <2>1. main.pc = "idle" /\ UNCHANGED <<file, ckpt, applied, broken>>
    BY <1>3 DEF ApplyCheck, Deciding, Idle, project, published
  <2> QED BY <2>1 DEF Accounted
<1>4. ASSUME NEW r \in RunIds, Undo(r) PROVE Accounted'
  <2>1. file' = Restored(ckpt[r]) /\ UNCHANGED <<main, ckpt, applied, broken>> /\ main.pc = "idle"
    BY <1>4 DEF Undo, Idle
  <2>2. \A p \in Paths : <<p, file'[p]>> \in ckpt[r] \/ file'[p] = file[p]
    BY <2>1, RestoredFiles DEF Typed
  <2>3. \A p \in Paths : ~broken /\ <<p, file'[p]>> \in ckpt[r] /\ file'[p] \in RunIds
          => file'[p] \in applied
    BY DEF Accounted
  <2> QED BY <2>1, <2>2, <2>3 DEF Accounted
<1>5. ASSUME NEW p \in Paths, Edit(p) PROVE Accounted'
  <2>1. /\ UNCHANGED <<main, base, ckpt, applied, broken, lost>> /\ late \subseteq late'
        /\ (main.pc \in {"checked", "write"} => MaxRuns + edits + 1 \in late')
    BY <1>5 DEF Edit, published
  <2>2. file'[p] = MaxRuns + edits + 1 /\ \A q \in Paths : q # p => file'[q] = file[q]
    BY <1>5 DEF Edit, Typed
  <2>3. main.todo \subseteq Paths /\ main.wanted \subseteq Paths
    BY RequestUpdates DEF Typed
  <2>4. MaxRuns + edits + 1 \notin RunIds
    BY <1>5, EditBound DEF Edit, Typed
  <2> QED BY <2>1, <2>2, <2>3, <2>4 DEF Accounted
<1>6. CASE SlotNext
  <2>1. main = Idle /\ main' = Idle /\ UNCHANGED <<file, late, ckpt, applied, broken, lost>>
    BY <1>6, SlotShapes DEF Slot, SlotFrame
  <2> QED BY <2>1 DEF Accounted, Idle
<1>7. CASE Checkpoint
  <2>1. UNCHANGED <<file, applied, broken>> /\ main.pc = "checked"
    BY <1>7 DEF Checkpoint
  <2>2. CASE UNCHANGED ckpt
    BY <2>1, <2>2 DEF Accounted
  <2>3. CASE ckpt' = [ckpt EXCEPT ![main.run] = {<<p, file[p]>> : p \in main.wanted}]
    <3>1. main.run \in RunIds /\ main.wanted \subseteq Paths
      BY <2>1, ActiveFacts, RequestUpdates DEF OneRun, Typed
    <3>2. ckpt'[main.run] = {<<p, file[p]>> : p \in main.wanted} /\ \A q \in RunIds : q # main.run
            => ckpt'[q] = ckpt[q]
      BY <2>3, <3>1 DEF Typed
    <3>3. ~broken => \A p \in main.wanted : file[p] \in RunIds => file[p] \in applied
      BY <2>1, <3>1 DEF Accounted
    <3>4. ~broken => \A x \in ckpt'[main.run] : x[2] \in RunIds => x[2] \in applied
      BY <3>2, <3>3
    <3>5. ~broken => \A q \in RunIds : \A x \in ckpt'[q] : x[2] \in RunIds => x[2] \in applied
      BY <3>2, <3>4 DEF Accounted
    <3> QED BY <2>1, <3>5 DEF Accounted
  <2> QED BY <1>7, <2>2, <2>3 DEF Checkpoint
<1>8. ASSUME NEW p \in Paths, Write(p) PROVE Accounted'
  <2>0. main \in Requests
    BY DEF Typed
  <2>1. /\ UNCHANGED <<base, late, ckpt, applied, broken>> /\ main.pc = "write" /\ p \in main.todo
        /\ (UNCHANGED <<file, lost>> \/ (file' = [file EXCEPT ![p] = main.run] /\ lost' = lost \cup Gone({p}, Known)))
    BY <1>8 DEF Write, ApplyFrame, published
  <2>2. main'.todo = main.todo \ {p} /\ main'.wanted = main.wanted /\ main'.run = main.run
          /\ main'.pc = "write"
    BY <1>8, <2>0, <2>1 DEF Write, Requests
  <2>3. \A q \in Paths : q # p => file'[q] = file[q]
    BY <2>1 DEF Typed
  <2>4. main.todo \subseteq Paths /\ main.wanted \subseteq Paths
          /\ main.todo \subseteq main.wanted
    BY <2>0, <2>1, RequestUpdates DEF Unwritten
  <2>5. file'[p] = file[p] \/ file'[p] = main.run
    BY <2>1 DEF Typed
  <2> QED BY <2>1, <2>2, <2>3, <2>4, <2>5 DEF Accounted
<1>9. CASE ApplySettle
  <2>0. main \in Requests
    BY DEF Typed
  <2>1. UNCHANGED <<file, base, late, ckpt, broken, lost>> /\ main.pc = "write"
          /\ applied \subseteq applied'
    BY <1>9 DEF ApplySettle, ApplyFrame, published
  <2>2. main'.todo = main.todo /\ main'.wanted = main.wanted /\ main'.run = main.run
    BY <1>9, <2>0 DEF ApplySettle, Requests
  <2>3. main'.pc = "write" \/ (main'.pc = "release" /\ main.run \in applied')
    BY <1>9, <2>0, <2>1 DEF ApplySettle, Requests
  <2> QED BY <2>1, <2>2, <2>3 DEF Accounted
<1>10. CASE DecisionRelease
  <2>1. main'.pc \notin {"checked", "write"} /\ main.pc \notin {"checked", "write"}
          /\ UNCHANGED <<file, base, late, ckpt, applied, broken, lost>>
    BY <1>10 DEF DecisionRelease, project, published, Idle
  <2> QED BY <2>1 DEF Accounted
<1>11. CASE Restore
  <2>0. UNCHANGED applied /\ main.pc = "write" /\ main'.pc = "idle" /\ main.run \in RunIds
    BY <1>11, ActiveFacts DEF Restore, Idle, OneRun
  <2>1. CASE broken'
    BY <2>1 DEF Accounted
  <2>2. CASE file' = Restored(ckpt[main.run]) /\ ckpt' = [ckpt EXCEPT ![main.run] = {}]
          /\ UNCHANGED broken
    <3>1. \A p \in Paths : \/ <<p, file'[p]>> \in ckpt[main.run]
                           \/ file'[p] = file[p] /\ ~\E c \in Contents : <<p, c>> \in ckpt[main.run]
      BY <2>2, RestoredFiles DEF Typed
    <3>2. \A p \in Paths : ~broken /\ <<p, file'[p]>> \in ckpt[main.run] /\ file'[p] \in RunIds
            => file'[p] \in applied
      BY <2>0 DEF Accounted
    <3>3. \A p \in Paths : ~broken /\ file'[p] = file[p]
            /\ ~(\E c \in Contents : <<p, c>> \in ckpt[main.run]) /\ file'[p] \in RunIds
                 => file'[p] \in applied
      BY <2>0 DEF Accounted, Covered
    <3>4. ckpt'[main.run] = {} /\ \A q \in RunIds : q # main.run => ckpt'[q] = ckpt[q]
      BY <2>0, <2>2 DEF Typed
    <3>5. ~broken => \A q \in RunIds : \A x \in ckpt'[q] : x[2] \in RunIds => x[2] \in applied
      BY <3>4 DEF Accounted
    <3> QED BY <2>0, <2>2, <3>1, <3>2, <3>3, <3>5 DEF Accounted
  <2> QED BY <1>11, <2>1, <2>2 DEF Restore
<1>12. CASE FollowUpStart
  <2>1. main'.pc \notin {"checked", "write"} /\ main.pc \notin {"checked", "write"}
          /\ UNCHANGED <<file, base, late, ckpt, applied, broken, lost>>
    BY <1>12 DEF FollowUpStart, project, published, Idle
  <2> QED BY <2>1 DEF Accounted
<1>13. CASE ShutdownRelease
  <2>1. main'.pc \notin {"checked", "write"} /\ main.pc \notin {"checked", "write"}
          /\ UNCHANGED <<file, base, late, ckpt, applied, broken, lost>>
    BY <1>13 DEF ShutdownRelease, project, published, Idle
  <2> QED BY <2>1 DEF Accounted
<1>14. CASE UNCHANGED <<file, main, ckpt, applied, broken>>
  BY <1>14 DEF Accounted
<1>15. ASSUME NEW e \in Engines, NEW s \in Sessions, Start(e, s) PROVE Accounted'
  BY <1>15, <1>14 DEF Start, NoFault, collab, project, published
<1>16. ASSUME NEW e \in Engines, NEW s \in Sessions, StartFails(e, s) PROVE Accounted'
  BY <1>16, <1>14 DEF StartFails, SessionAfter, Cleared, project, published
<1>17. CASE Cancel
  BY <1>17, <1>14 DEF Cancel, NoFault, collab, project, published
<1>18. CASE Reject
  <2>1. main'.pc \notin {"checked", "write"} /\ main.pc \notin {"checked", "write"}
          /\ UNCHANGED <<file, base, late, ckpt, applied, broken, lost>>
    BY <1>18 DEF Reject, Deciding, project, published, Idle
  <2> QED BY <2>1 DEF Accounted
<1>19. ASSUME NEW w \in WorkerIds, Resume(w) PROVE Accounted'
  BY <1>19, <1>14 DEF Resume, NoFault, WorkerOnly, collab, project, published
<1>20. ASSUME NEW w \in WorkerIds, NEW o \in Reportable, Report(w, o) PROVE Accounted'
  BY <1>20, <1>14 DEF Report, NoFault, WorkerOnly, collab, project, published
<1>21. ASSUME NEW w \in WorkerIds, Raise(w) PROVE Accounted'
  BY <1>21, <1>14 DEF Raise, WorkerOnly, collab, project, published
<1>22. ASSUME NEW w \in WorkerIds, NEW what \in Emitted, LegacyEmit(w, what) PROVE Accounted'
  BY <1>22, <1>14 DEF LegacyEmit, NoFault, WorkerOnly, collab, project, published
<1>23. ASSUME NEW w \in WorkerIds, LegacyCancelled(w) PROVE Accounted'
  BY <1>23, <1>14 DEF LegacyCancelled, NoFault, WorkerOnly, collab, project, published
<1>24. ASSUME NEW w \in WorkerIds, Exit(w) PROVE Accounted'
  BY <1>24, <1>14 DEF Exit, NoFault, WorkerOnly, collab, project, published
<1>25. ASSUME NEW d \in Deliveries, Capture(d) PROVE Accounted'
  BY <1>25, <1>14 DEF Capture, NoFault, project, published
<1>26. ASSUME NEW d \in Deliveries, Lease(d) PROVE Accounted'
  BY <1>26, <1>14 DEF Lease, DeliveryStep, NoFault, project, published
<1>27. ASSUME NEW d \in Deliveries, Validate(d) PROVE Accounted'
  BY <1>27, <1>14 DEF Validate, DeliveryStep, NoFault, project, published
<1>28. ASSUME NEW d \in Deliveries, Return(d) PROVE Accounted'
  BY <1>28, <1>14 DEF Return, DeliveryStep, NoFault, project, published
<1>29. ASSUME NEW r \in RunIds, DrainBegin(r) PROVE Accounted'
  BY <1>29, <1>14 DEF DrainBegin, NoFault, project, published
<1>30. ASSUME NEW r \in RunIds, DrainEnd(r) PROVE Accounted'
  BY <1>30, <1>14 DEF DrainEnd, NoFault, project, published
<1>32. CASE RejectSettle
  <2>1. main'.pc \notin {"checked", "write"} /\ main.pc \notin {"checked", "write"}
          /\ UNCHANGED <<file, base, late, ckpt, applied, broken, lost>>
    BY <1>32, RejectKeeps
  <2> QED BY <2>1 DEF Accounted
<1>33. CASE OldTreeKept
  BY <1>33, <1>14 DEF OldTreeKept, NoFault, collab, project, published
<1>34. ASSUME NEW w \in WorkerIds, LegacyRead(w) \/ LegacyHash(w) PROVE Accounted'
  BY <1>34, <1>14, ReadsKeep
<1>31. CASE UNCHANGED vars
  BY <1>31 DEF vars, Accounted
<1> QED BY <1>1, <1>2, <1>3, <1>4, <1>5, <1>6, <1>7, <1>8, <1>9, <1>10, <1>11, <1>12,
          <1>13, <1>14, <1>15, <1>16, <1>17, <1>18, <1>19, <1>20, <1>21, <1>22, <1>23,
          <1>24, <1>25, <1>26, <1>27, <1>28, <1>29, <1>30, <1>31, <1>32, <1>33, <1>34
       DEF Orderly, UserNext, ApplyNext, WorkerNext, DeliveryNext, Reportable, Emitted

\* Every step overwrites late edits only.
LEMMA EditSafeStep ==
  ASSUME Typed, OneRun, OneWorker, Signals, Recorded, Vouched, Unwritten, Covered, Safe, [Orderly]_vars
  PROVE  Safe'
<1>1. ASSUME NEW p \in Paths, Write(p) PROVE Safe'
  <2>1. /\ UNCHANGED <<late, early>> /\ main.pc = "write" /\ p \in main.todo
        /\ (UNCHANGED lost \/ lost' = lost \cup Gone({p}, Known))
    BY <1>1 DEF Write, ApplyFrame, published
  <2>2. file[p] = base[p] \/ file[p] \in late
    BY <2>1 DEF Unwritten
  <2>3. Gone({p}, Known) \subseteq late \cup early
    <3>1. file[p] > MaxRuns /\ file[p] = base[p] => file[p] = origin[p] \/ file[p] \in early
      BY DEF Vouched
    <3>2. <<p, origin[p]>> \in Known
      BY DEF Known
    <3> QED BY <2>2, <3>1, <3>2 DEF Gone
  <2> QED BY <2>1, <2>3 DEF Safe
<1>2. CASE Restore
  <2>1. UNCHANGED <<late, early>> /\ main.pc = "write"
          /\ (UNCHANGED lost \/ lost' = lost \cup Gone(main.wanted, ckpt[main.run]))
    BY <1>2 DEF Restore, ApplyFrame, published
  <2>2. main.run \in 0..MaxRuns /\ main.wanted \subseteq Paths
    BY RequestUpdates DEF Typed
  <2>3. \A p \in main.wanted : file[p] > MaxRuns /\ <<p, file[p]>> \notin ckpt[main.run]
          => file[p] \in late
    BY <2>1, <2>2, HostAssumption DEF Covered
  <2>4. Gone(main.wanted, ckpt[main.run]) \subseteq late
    BY <2>3 DEF Gone
  <2> QED BY <2>1, <2>4 DEF Safe
<1>3. CASE SlotNext
  <2>1. UNCHANGED <<late, lost>> /\ early \subseteq early'
    BY <1>3, SlotPublishes
  <2> QED BY <2>1 DEF Safe
<1>4. CASE UNCHANGED <<lost, early>> /\ late \subseteq late'
  BY <1>4 DEF Safe
<1>5. CASE UserNext
  BY <1>4, <1>5 DEF UserNext, Start, StartFails, OldTreeKept, FollowUpCheck, Cancel, Reject,
     ShutdownAsk, ApplyCheck, Undo, Edit, project, published
<1>6. CASE Checkpoint \/ ApplySettle \/ RejectSettle \/ DecisionRelease
  BY <1>4, <1>6 DEF Checkpoint, ApplySettle, RejectSettle, DecisionRelease, ApplyFrame, project, published
<1>7. CASE FollowUpStart \/ ShutdownRelease
  BY <1>4, <1>7 DEF FollowUpStart, ShutdownRelease, project, published
<1>8. ASSUME NEW w \in WorkerIds, WorkerNext(w) PROVE Safe'
  BY <1>4, <1>8 DEF WorkerNext, Resume, Raise, LegacyRead, LegacyHash, LegacyCancelled, Exit, Report, LegacyEmit,
     WorkerOnly, project, published
<1>9. ASSUME NEW d \in Deliveries, DeliveryNext(d) PROVE Safe'
  BY <1>4, <1>9 DEF DeliveryNext, Capture, Lease, Validate, Return, DeliveryStep, project, published
<1>10. ASSUME NEW r \in RunIds, DrainBegin(r) \/ DrainEnd(r) PROVE Safe'
  BY <1>4, <1>10 DEF DrainBegin, DrainEnd, project, published
<1>11. CASE UNCHANGED vars
  BY <1>4, <1>11 DEF vars
<1> QED BY <1>1, <1>2, <1>3, <1>5, <1>6, <1>7, <1>8, <1>9, <1>10, <1>11 DEF Orderly, ApplyNext

-----------------------------------------------------------------------------
(* The invariants of the specification                                     *)

IInv ==
  /\ Typed /\ OneRun /\ OneWorker /\ Following /\ Signals /\ Recorded
  /\ Owned /\ TornIsLeft /\ Bindings /\ Closing /\ Guarded /\ Loans
  /\ Vouched /\ Unwritten /\ Covered /\ Accounted
  /\ InPlace /\ Safe

\* The invariants hold at the start.
LEMMA InitIInv == Init => IInv
<1> SUFFICES ASSUME Init PROVE IInv
  OBVIOUS
<1>1. Typed
  <2>1. active \in ActiveStates /\ main \in Requests
    BY Bounds DEF Init, ActiveStates, EngineKinds, Requests, Idle
  <2>2. status \in [RunIds -> Statuses]
    BY DEF Init, Statuses
  <2>3. worker \in [WorkerIds -> Threads]
    <3>1. NoWorker \in Threads
      BY Bounds DEF NoWorker, Threads, EngineKinds
    <3> QED BY <3>1 DEF Init
  <2>4. /\ queue \in Seq(Posts) /\ ui \in [WorkerIds -> {"none", "done", "failed", "cancelled"}]
        /\ tree \in [RunIds -> {"none", "live", "torn", "disposed"}]
             /\ sess \in [RunIds -> {"none", "open", "closed"}]
    BY DEF Init
  <2>5. /\ drain \subseteq RunIds \X (0..MaxWorkers) /\ closing \subseteq RunIds
        /\ ckpt \in [RunIds -> SUBSET (Paths \X Contents)] /\ applied \subseteq RunIds
    BY DEF Init
  <2>6. delivery \in [Deliveries -> Borrowers]
    BY Bounds DEF Init, Borrowers
  <2>7. /\ file \in [Paths -> Contents] /\ base \in [Paths -> Contents] /\ origin \in [Paths -> Contents]
        /\ snap \in [RunIds -> [Paths -> Contents]] /\ hashed \in [RunIds -> [Paths -> Contents]]
    BY Bounds DEF Init
  <2>8. early \subseteq Contents /\ late \subseteq Contents /\ edits \in 0..MaxEdits
    BY Bounds DEF Init
  <2> QED BY <2>1, <2>2, <2>3, <2>4, <2>5, <2>6, <2>7, <2>8 DEF Typed
<1>2. OneRun /\ Following
  BY DEF Init, OneRun, Following, Idle
<1>3. OneWorker
  BY DEF Init, OneWorker, NoWorker
<1>4. \A w \in WorkerIds : worker[w] = NoWorker
  BY DEF Init
<1>5. Signals
  BY <1>4 DEF Init, Signals, SignalOK, ReportsOnce, NoEventLeft, Working, NoWorker
<1>6. Recorded
  BY <1>4 DEF Init, Recorded, Working, NoWorker, Idle
<1>7. Owned /\ TornIsLeft /\ Bindings /\ Closing
  BY <1>4 DEF Init, Owned, TornIsLeft, Bindings, Closing, Bound, NoWorker, Idle
<1>8. Guarded /\ InPlace
  BY <1>4 DEF Guarded, InPlace, Working, NoWorker
<1>9. Loans /\ Vouched
  BY DEF Init, Loans, Vouched
<1>10. Unwritten /\ Covered
  BY DEF Init, Unwritten, Covered, Idle
<1>11. Accounted /\ Safe
  BY Bounds DEF Init, Accounted, Safe
<1> QED BY <1>1, <1>2, <1>3, <1>5, <1>6, <1>7, <1>8, <1>9, <1>10, <1>11 DEF IInv

\* Every orderly step keeps the invariants.
LEMMA NextIInv == IInv /\ [Orderly]_vars => IInv'
<1> SUFFICES ASSUME IInv, [Orderly]_vars PROVE IInv'
  OBVIOUS
<1>1. /\ Typed /\ OneRun /\ OneWorker /\ Following /\ Signals /\ Recorded
      /\ Owned /\ TornIsLeft /\ Bindings /\ Closing /\ Guarded /\ Loans
      /\ Vouched /\ Unwritten /\ Covered /\ Accounted /\ InPlace /\ Safe
  BY DEF IInv
<1>2. Typed' /\ OneRun' /\ OneWorker' /\ Following' /\ Signals' /\ Recorded'
  BY <1>1, TypedStep, OneRunStep, OneWorkerStep, FollowingStep, SignalsStep, RecordedStep
<1>3. Owned' /\ TornIsLeft' /\ Bindings' /\ Closing' /\ Guarded' /\ Loans'
  BY <1>1, OwnedStep, TornIsLeftStep, BindingsStep, ClosingStep, GuardedStep, LoansStep
<1>4. Vouched' /\ Unwritten' /\ Covered' /\ Accounted' /\ Safe'
  BY <1>1, VouchedStep, UnwrittenStep, CoveredStep, AccountedStep, EditSafeStep
<1>5. InPlace'
  BY <1>1, <1>2, KeptStep
<1> QED BY <1>2, <1>3, <1>4, <1>5 DEF IInv

\* The invariants hold as long as no thread strays.
LEMMA Invariance == Spec => [](strayed \/ IInv)
<1>1. Init => strayed \/ IInv
  BY InitIInv
<1>2. (strayed \/ IInv) /\ [Next]_vars => (strayed \/ IInv)'
  <2> SUFFICES ASSUME strayed \/ IInv, [Next]_vars PROVE (strayed \/ IInv)'
    OBVIOUS
  <2>1. CASE strayed
    <3>1. strayed'
      BY <2>1 DEF Next, vars
    <3> QED BY <3>1
  <2>2. CASE IInv
    <3>1. CASE Straying /\ strayed' = TRUE
      BY <3>1
    <3>2. CASE [Orderly]_vars
      BY <2>2, <3>2, NextIInv
    <3> QED BY <3>1, <3>2 DEF Next
  <2> QED BY <2>1, <2>2
<1> QED BY <1>1, <1>2, PTL DEF Spec

\* From the registration of its lease on a delivery keeps the worktree and the session
\* it borrows (webhost/api/run.py, borrow_delivery_context): whatever drains, decides,
\* starts, fails to dispose or shuts down meanwhile leaves them alone; and they are open
\* and live when it is given them, or a disposal had failed on them before.
THEOREM LeasesProtected == Spec => LeaseProtects
<1>1. ASSUME strayed \/ IInv, [Next]_vars
      PROVE  \A d \in Deliveries :
       LET r == delivery[d].run IN
       /\ ~strayed /\ delivery[d].pc \in {"leased", "using"} /\ delivery'[d].pc # "idle"
            => tree'[r] = tree[r] /\ sess'[r] = sess[r]
       /\ ~strayed /\ delivery[d].pc = "leased" /\ delivery'[d].pc = "using"
            => (tree[r] = "live" /\ sess[r] = "open") \/ tree[r] = "torn"
  <2>1. CASE strayed
    BY <2>1
  <2>2. CASE IInv
    <3>1. [Orderly \/ Straying]_vars
      BY <1>1 DEF Next
    <3>2. \A d \in Deliveries : Lent(d)
      BY <2>2, <3>1, LeaseStep DEF IInv
    <3> QED BY <3>2 DEF Lent
  <2> QED BY <1>1, <2>1, <2>2
<1> QED BY <1>1, Invariance, PTL DEF Spec, LeaseProtects

\* No engine loses the worktree it works in (every path that disposes one), but for
\* the two exceptions KeptWhileUsed names, as long as no thread strays.
THEOREM WorktreesKept == Spec => []KeptWhileUsed
<1>1. strayed \/ IInv => KeptWhileUsed
  BY DEF IInv, InPlace, KeptWhileUsed
<1> QED BY <1>1, Invariance, PTL

\* Between requests the project holds proposed content only of Runs whose apply was
\* recorded (run.applyProposals with its checkpoint and rollback, and Undo).
THEOREM AppliesAllOrNothing == Spec => []AllOrNothing
<1>1. strayed \/ IInv => AllOrNothing
  BY DEF IInv, Accounted, AllOrNothing
<1> QED BY <1>1, Invariance, PTL

\* The only edits an apply or its rollback destroys were made while it was under way, or
\* between the files a Run worked from and the hashes of its proposals
\* (_stale_apply_conflicts, CheckpointStore, _build_pipeline_proposals).
THEOREM EditsSafe == Spec => []EditSafe
<1>1. strayed \/ IInv => EditSafe
  BY DEF IInv, Safe, EditSafe
<1> QED BY <1>1, Invariance, PTL

-----------------------------------------------------------------------------
(* How Runs end, and what the user is told: a thread's signals come in     *)
(* turn, and the classic engine's record is kept while it works.           *)

StageEvent(m) == m.kind = "event" /\ m.what = "stage"
Classic(w) == worker[w].pc # "none" /\ worker[w].eng = "legacy"

\* A thread that still emits, or whose events or cancellation have not been handled.
Unfinished(w) ==
  \/ worker[w].pc = "running"
  \/ \E i \in 1..Len(queue) : queue[i].worker = w /\ queue[i].kind \in {"event", "cancelled"}

\* Before a thread's last word there are only stages, after it only its end.
InTurn ==
  /\ \A i, j \in 1..Len(queue) :
       i < j /\ queue[i].worker = queue[j].worker /\ queue[j].kind # "finished" => StageEvent(queue[i])
  /\ \A k \in 1..Len(queue) : worker[queue[k].worker].pc = "running" => StageEvent(queue[k])

\* A Run of the classic engine has one thread.
OneThread ==
  \A v, w \in WorkerIds : Classic(v) /\ Classic(w) /\ worker[v].run = worker[w].run => v = w

\* The Run of a classic thread that is unfinished is running, unless a write failed and
\* on_event told the user so.
Timely ==
  \A w \in WorkerIds :
    Classic(w) /\ Unfinished(w) =>
      IF ui[w] = "none" THEN status[worker[w].run] = "RUNNING" ELSE faults > 0

\* The adapter's idea of the open execution is the ledger's; until the user is told of the
\* end only a running Run has one.
NoExecution == [open |-> 0, cur |-> FALSE]
Consistent == {NoExecution, [open |-> 1, cur |-> TRUE]}
Adapter ==
  /\ exe \in [RunIds -> Consistent]
  /\ \A r \in RunIds : exe[r].cur => \E v \in WorkerIds : Classic(v) /\ worker[v].run = r
  /\ \A w \in WorkerIds :
       Classic(w) /\ ui[w] = "none" /\ exe[worker[w].run].cur => status[worker[w].run] = "RUNNING"

\* A report that has not been handled says what the ledger says.
Truthful ==
  \A i \in 1..Len(queue) :
    queue[i].kind = "finished_ok" =>
      /\ queue[i].what \in {"needs_user", "no_changes"} => status[worker[queue[i].worker].run] # "RUNNING"
      /\ queue[i].what = "cancelled" =>
           status[worker[queue[i].worker].run] = "CANCELLED" \/ worker[queue[i].worker].follow

\* A follow-up that has neither resumed its Run nor been heard of: the Run waits, and there
\* is nothing to decide on.
DecisionSteps == {"checked", "write", "reject", "release"}
Undecided ==
  \A w \in WorkerIds :
    worker[w].pc # "none" /\ worker[w].follow /\ ui[w] = "none" =>
      /\ status[worker[w].run] = "WAITING_USER" /\ worker[w].eng = "pipeline"
      /\ active.props = {} /\ main.pc \notin DecisionSteps
      /\ \A i \in 1..Len(queue) : queue[i].kind # "event"

\* The rest of the types.
Budgeted == faults \in 0..MaxFaults /\ broken \in BOOLEAN

-----------------------------------------------------------------------------
(* The three kinds of steps                                                *)

\* A step that neither posts nor takes a signal: it may start a thread, a new one of a new
\* Run or a follow-up, and decide on a Run that waits.
Quiet ==
  /\ UNCHANGED <<queue, ui, exe>>
  /\ \A v \in WorkerIds : worker[v].pc # "none" =>
       /\ worker'[v].run = worker[v].run /\ worker'[v].eng = worker[v].eng
       /\ worker'[v].pc = worker[v].pc
       /\ worker'[v].follow = worker[v].follow \/ worker[v].pc = "running"
       /\ worker'[v].follow => worker[v].follow
  /\ \A v \in WorkerIds : worker[v].pc = "none" /\ worker'[v].pc # "none" =>
       /\ worker'[v].eng = "legacy" =>
            /\ worker'[v].run \in RunIds /\ status[worker'[v].run] = "none"
            /\ status'[worker'[v].run] = "RUNNING"
       /\ \A u \in WorkerIds : worker[u].pc = "none" /\ worker'[u].pc # "none" => u = v
  /\ \A r \in RunIds :
       /\ status'[r] = status[r] \/ status[r] \in {"none", "WAITING_USER"}
       /\ status'[r] = "RUNNING" /\ status[r] # "RUNNING" =>
            status[r] = "none" \/ \A i \in 1..Len(queue) : ~Reports(queue[i])

\* Thread w posts m.
Speaks(w, m) ==
  /\ m \in Posts /\ m.worker = w /\ queue' = Append(queue, m) /\ UNCHANGED <<ui, exe>>
  /\ \A v \in WorkerIds :
       /\ worker'[v].run = worker[v].run /\ worker'[v].eng = worker[v].eng
       /\ worker'[v].follow = worker[v].follow
       /\ v # w => worker'[v] = worker[v]
  /\ \/ /\ m.kind = "finished" /\ worker[w].pc = "settled" /\ worker'[w].pc = "exited"
        /\ UNCHANGED status
     \/ /\ m.kind # "finished" /\ worker[w].pc = "running"
        /\ worker'[w].pc = "settled" \/ (worker'[w].pc = "running" /\ StageEvent(m))
        /\ \A r \in RunIds :
             status'[r] = status[r] \/ (r = worker[w].run /\ worker[w].eng # "legacy" /\ status[r] = "RUNNING")
        /\ m.kind = "finished_ok" =>
             /\ m.what \in {"needs_user", "no_changes"} => status'[worker[w].run] # "RUNNING"
             /\ m.what = "cancelled" => status'[worker[w].run] = "CANCELLED" \/ worker[w].follow

\* A step that leaves threads, signals and Runs alone is quiet.
LEMMA NothingIsQuiet ==
  ASSUME UNCHANGED <<worker, queue, ui, exe, status>>
  PROVE  Quiet
BY DEF Quiet

\* run.start and run.followUp are quiet.
LEMMA StartIsQuiet ==
  ASSUME IInv, NEW e \in Engines, NEW s \in Sessions, Start(e, s) \/ StartFails(e, s)
  PROVE  Quiet
<1>1. Typed /\ OneRun /\ OneWorker
  BY DEF IInv
<1>2. UNCHANGED exe
  BY DEF Start, StartFails, SessionAfter, Cleared, project, published
<1>3. CASE Start(e, s)
  <2>1. /\ FreeRun \in RunIds /\ status[FreeRun] = "none" /\ status'[FreeRun] = "RUNNING"
        /\ \A q \in RunIds : q # FreeRun => status'[q] = status[q]
        /\ FreeWorker \in WorkerIds /\ worker[FreeWorker].pc = "none"
        /\ worker'[FreeWorker].run = FreeRun
        /\ \A v \in WorkerIds : v # FreeWorker => worker'[v] = worker[v]
        /\ UNCHANGED <<queue, ui>>
    BY <1>1, <1>3, StartKeeps
  <2> QED BY <1>2, <2>1 DEF Quiet
<1>4. CASE StartFails(e, s)
  <2>1. /\ status[FreeRun] = "none" /\ \A q \in RunIds : q # FreeRun => status'[q] = status[q]
        /\ UNCHANGED <<worker, queue, ui>>
    BY <1>1, <1>4, StartFailsKeeps
  <2> QED BY <1>2, <2>1 DEF Quiet
<1> QED BY <1>3, <1>4

\* While a follow-up is started no report waits.
LEMMA NoReportAtFollowUp ==
  ASSUME IInv, main.pc = "follow", NEW i \in 1..Len(queue)
  PROVE  ~Reports(queue[i])
<1>1. Typed /\ OneWorker /\ Following /\ Signals
  BY DEF IInv
<1>2. queue[i].worker \in WorkerIds
  BY <1>1, PostedWorkers DEF Typed
<1>3. Reports(queue[i]) => ui[queue[i].worker] = "none" /\ worker[queue[i].worker].pc # "none"
  BY <1>1 DEF Signals, SignalOK
<1>4. ui[active.worker] # "none"
  BY <1>1 DEF Following
<1> QED BY <1>1, <1>2, <1>3, <1>4 DEF OneWorker

\* The start of a follow-up is quiet: its Run waits, and is no classic one.
LEMMA FollowUpIsQuiet ==
  ASSUME IInv, FollowUpStart
  PROVE  Quiet
<1>1. Typed /\ OneRun /\ Following
  BY DEF IInv
<1>2. /\ UNCHANGED <<queue, ui, exe>> /\ main.pc = "follow"
      /\ FreeWorker \in WorkerIds /\ worker[FreeWorker].pc = "none" /\ active.run \in RunIds
      /\ \A q \in RunIds : q # active.run => status'[q] = status[q]
  BY <1>1, FollowUpStartKeeps DEF FollowUpStart, project, published
<1>3. status[active.run] = "WAITING_USER" /\ active.engine # "legacy"
  BY <1>1, <1>2 DEF Following
<1>4. \A i \in 1..Len(queue) : ~Reports(queue[i])
  BY <1>2, NoReportAtFollowUp
<1>5. UNCHANGED worker \/ Follower(FreeWorker, active.run)
  BY <1>1, FollowUpStartKeeps
<1>6. /\ \A v \in WorkerIds : v # FreeWorker => worker'[v] = worker[v]
      /\ worker'[FreeWorker].eng # "legacy" \/ worker'[FreeWorker].pc = "none"
  BY <1>2, <1>3, <1>5 DEF Follower
<1> QED BY <1>2, <1>3, <1>4, <1>6 DEF Quiet

\* Resume, decisions and the cancel flag are quiet.
LEMMA DecisionsAreQuiet ==
  ASSUME IInv, Cancel \/ ShutdownAsk \/ RejectSettle \/ ApplySettle \/ \E w \in WorkerIds : Resume(w)
  PROVE  Quiet
<1>1. Typed /\ OneRun /\ OneWorker /\ Signals
  BY DEF IInv
<1>2. CASE Cancel \/ ShutdownAsk
  <2>1. UNCHANGED <<queue, ui, exe, status>>
    BY <1>2 DEF Cancel, ShutdownAsk, project, published
  <2>2. \A v \in WorkerIds : /\ worker'[v].run = worker[v].run /\ worker'[v].eng = worker[v].eng
                             /\ worker'[v].pc = worker[v].pc /\ worker'[v].follow = worker[v].follow
    <3>1. CASE Cancel
      BY <1>1, <3>1, ActiveFacts DEF Cancel, Alive, Typed, Threads
    <3>2. CASE ShutdownAsk
      BY <1>1, <3>2, ActiveFacts DEF ShutdownAsk, Alive, Typed, Threads
    <3> QED BY <1>2, <3>1, <3>2
  <2> QED BY <2>1, <2>2 DEF Quiet
<1>3. CASE RejectSettle
  <2>1. /\ UNCHANGED <<worker, queue, ui, exe>>
        /\ \/ UNCHANGED status
           \/ status[main.run] = "WAITING_USER" /\ status' = [status EXCEPT ![main.run] = "SUCCEEDED"]
    BY <1>3 DEF RejectSettle, project, published
  <2>2. \A r \in RunIds : status'[r] = status[r]
          \/ (status[r] = "WAITING_USER" /\ status'[r] = "SUCCEEDED")
    BY <1>1, <2>1 DEF Typed
  <2> QED BY <2>1, <2>2 DEF Quiet
<1>4. CASE ApplySettle
  <2>1. /\ UNCHANGED <<worker, queue, ui, exe>>
        /\ \/ UNCHANGED status
           \/ status[main.run] = "WAITING_USER" /\ status' = [status EXCEPT ![main.run] = "SUCCEEDED"]
    BY <1>4 DEF ApplySettle, ApplyFrame, published
  <2>2. \A r \in RunIds : status'[r] = status[r]
          \/ (status[r] = "WAITING_USER" /\ status'[r] = "SUCCEEDED")
    BY <1>1, <2>1 DEF Typed
  <2> QED BY <2>1, <2>2 DEF Quiet
<1>5. ASSUME NEW w \in WorkerIds, Resume(w) PROVE Quiet
  <2>1. /\ UNCHANGED <<queue, ui, exe>> /\ worker[w].pc = "running"
        /\ status[worker[w].run] = "WAITING_USER"
        /\ status' = [status EXCEPT ![worker[w].run] = "RUNNING"]
        /\ worker' = [worker EXCEPT ![w].follow = FALSE]
    BY <1>5 DEF Resume, WorkerOnly, project, published
  <2>2. \A r \in RunIds : status'[r] = status[r] \/ status[r] = "WAITING_USER"
    BY <1>1, <2>1 DEF Typed
  <2>3. \A i \in 1..Len(queue) : ~Reports(queue[i])
    BY <1>1, <2>1, NoReportYet
  <2>4. \A v \in WorkerIds : /\ worker'[v].run = worker[v].run /\ worker'[v].eng = worker[v].eng
                             /\ worker'[v].pc = worker[v].pc
                             /\ v # w => worker'[v].follow = worker[v].follow
    <3>1. worker \in [WorkerIds -> Threads]
      BY <1>1 DEF Typed
    <3>2. \A v \in WorkerIds : v # w => worker'[v] = worker[v]
      BY <2>1, <3>1
    <3>3. worker'[w] = [worker[w] EXCEPT !.follow = FALSE] /\ worker[w] \in Threads
      BY <1>5, <2>1, <3>1
    <3>4. /\ worker'[w].run = worker[w].run /\ worker'[w].eng = worker[w].eng
          /\ worker'[w].pc = worker[w].pc
      BY <3>3 DEF Threads
    <3> QED BY <3>2, <3>4
  <2>5. worker'[w].follow = FALSE
    BY <1>1, <2>1 DEF Typed, Threads
  <2> QED BY <2>1, <2>2, <2>3, <2>4, <2>5 DEF Quiet
<1> QED BY <1>2, <1>3, <1>4, <1>5

\* Reading and hashing the files is quiet.
LEMMA ReadsAreQuiet ==
  ASSUME IInv, NEW w \in WorkerIds, LegacyRead(w) \/ LegacyHash(w)
  PROVE  Quiet
<1>1. Typed
  BY DEF IInv
<1> QED BY <1>1, ReadsKeep DEF Quiet

\* A worker's other steps post one signal.
LEMMA WorkersSpeak ==
  ASSUME IInv, NEW w \in WorkerIds, WorkerNext(w), ~Resume(w), ~LegacyRead(w), ~LegacyHash(w)
  PROVE  \E m \in Posts : Speaks(w, m)
<1>1. Typed /\ OneRun /\ OneWorker /\ Signals /\ Recorded
  BY DEF IInv
<1>2. ASSUME NEW kind \in {"event", "failed", "cancelled", "finished_ok"},
             NEW what \in Emitted \cup Reportable \cup {"none"}, NEW x \in {"running", "settled"},
             Post(w, kind, what), UNCHANGED <<ui, exe>>,
             worker[w].pc = "running", worker' = [worker EXCEPT ![w].pc = x],
             x = "running" => kind = "event" /\ what = "stage",
             \A r \in RunIds :
               status'[r] = status[r] \/ (r = worker[w].run /\ worker[w].eng # "legacy" /\ status[r] = "RUNNING"),
             kind = "finished_ok" =>
               /\ what \in {"needs_user", "no_changes"} => status'[worker[w].run] # "RUNNING"
               /\ what = "cancelled" => status'[worker[w].run] = "CANCELLED" \/ worker[w].follow
      PROVE  \E m \in Posts : Speaks(w, m)
  <2> DEFINE m == [worker |-> w, kind |-> kind, what |-> what]
  <2>1. /\ m \in Posts /\ m.worker = w /\ m.kind = kind /\ m.what = what
        /\ queue' = Append(queue, m)
    BY <1>2 DEF Posts, Post, Emitted, Reportable
  <2>2. /\ worker'[w].pc = x
        /\ \A v \in WorkerIds : /\ worker'[v].run = worker[v].run /\ worker'[v].eng = worker[v].eng
                                /\ worker'[v].follow = worker[v].follow
                                /\ v # w => worker'[v] = worker[v]
    <3>1. Typed /\ worker' = [worker EXCEPT ![w].pc = x]
      BY <1>1, <1>2
    <3> QED BY <3>1, ThreadMoves, ZenonT(40)
  <2> HIDE DEF m
  <2>3. worker'[w].pc = "settled" \/ (worker'[w].pc = "running" /\ StageEvent(m))
    BY <1>2, <2>1, <2>2 DEF StageEvent
  <2>4. /\ m.kind # "finished" /\ worker[w].pc = "running"
        /\ \A r \in RunIds :
             status'[r] = status[r] \/ (r = worker[w].run /\ worker[w].eng # "legacy" /\ status[r] = "RUNNING")
    BY <1>2, <2>1
  <2>5. m.kind = "finished_ok" =>
          /\ m.what \in {"needs_user", "no_changes"} => status'[worker[w].run] # "RUNNING"
          /\ m.what = "cancelled" => status'[worker[w].run] = "CANCELLED" \/ worker[w].follow
    BY <1>2, <2>1
  <2>6. Speaks(w, m)
    BY <1>2, <2>1, <2>2, <2>3, <2>4, <2>5 DEF Speaks
  <2> QED BY <2>1, <2>6
<1>3. ASSUME NEW o \in Reportable, Report(w, o) PROVE \E m \in Posts : Speaks(w, m)
  <2>1. /\ Post(w, "finished_ok", o) /\ UNCHANGED <<ui, exe>> /\ worker[w].pc = "running"
        /\ worker' = [worker EXCEPT ![w].pc = "settled"] /\ worker[w].eng # "legacy"
        /\ worker[w].follow => o = "cancelled"
    BY <1>3 DEF Report, WorkerOnly, project, published
  <2>2. /\ worker[w].run \in RunIds
        /\ status'[worker[w].run] = Reported(worker[w].run, o)
        /\ status[worker[w].run] # "RUNNING" => UNCHANGED status
        /\ \A r \in RunIds : r # worker[w].run => status'[r] = status[r]
    BY <1>1, <1>3, ReportKeeps
  <2>3. ~worker[w].follow => status[worker[w].run] = "RUNNING"
    BY <1>1, <2>1 DEF Recorded, Working
  <2>4. /\ o \in {"needs_user", "no_changes"} => status'[worker[w].run] # "RUNNING"
        /\ o = "cancelled" => status'[worker[w].run] = "CANCELLED" \/ worker[w].follow
    BY <2>1, <2>2, <2>3 DEF Reported
  <2>5. \A r \in RunIds :
          status'[r] = status[r] \/ (r = worker[w].run /\ worker[w].eng # "legacy" /\ status[r] = "RUNNING")
    BY <2>1, <2>2
  <2> QED BY <1>2, <2>1, <2>4, <2>5
<1>4. CASE Raise(w)
  <2>1. /\ Post(w, "failed", "none") /\ UNCHANGED <<ui, exe, status>> /\ worker[w].pc = "running"
        /\ worker' = [worker EXCEPT ![w].pc = "settled"]
    BY <1>4 DEF Raise, WorkerOnly, project, published
  <2> QED BY <1>2, <2>1
<1>5. ASSUME NEW what \in Emitted, LegacyEmit(w, what) PROVE \E m \in Posts : Speaks(w, m)
  <2>1. PICK x \in {"running", "settled"} :
          worker' = [worker EXCEPT ![w].pc = x] /\ (x = "running" => what = "stage")
    BY <1>5 DEF LegacyEmit, Emitted
  <2>2. Post(w, "event", what) /\ UNCHANGED <<ui, exe, status>> /\ worker[w].pc = "running"
    BY <1>5 DEF LegacyEmit, WorkerOnly, project, published
  <2> QED BY <1>2, <2>1, <2>2
<1>6. CASE LegacyCancelled(w)
  <2>1. /\ Post(w, "cancelled", "none") /\ UNCHANGED <<ui, exe, status>> /\ worker[w].pc = "running"
        /\ worker' = [worker EXCEPT ![w].pc = "settled"]
    BY <1>6 DEF LegacyCancelled, WorkerOnly, project, published
  <2> QED BY <1>2, <2>1
<1>7. CASE Exit(w)
  <2> DEFINE m == [worker |-> w, kind |-> "finished", what |-> "none"]
  <2>1. /\ m \in Posts /\ m.worker = w /\ m.kind = "finished" /\ queue' = Append(queue, m)
        /\ UNCHANGED <<ui, exe, status>> /\ worker[w].pc = "settled"
    BY <1>7 DEF Posts, Post, Exit, WorkerOnly, project, published
  <2>2. /\ worker'[w].pc = "exited"
        /\ \A v \in WorkerIds : /\ worker'[v].run = worker[v].run /\ worker'[v].eng = worker[v].eng
                                /\ worker'[v].follow = worker[v].follow
                                /\ v # w => worker'[v] = worker[v]
    BY <1>1, <1>7, ThreadMoves, ZenonT(40) DEF Exit
  <2> HIDE DEF m
  <2>3. Speaks(w, m)
    BY <2>1, <2>2 DEF Speaks
  <2> QED BY <2>1, <2>3
<1> QED BY <1>3, <1>4, <1>5, <1>6, <1>7 DEF WorkerNext, Reportable, Emitted

\* Every step is quiet, a thread's, or a slot.
LEMMA StepShapes ==
  ASSUME IInv, [Orderly]_vars
  PROVE  Quiet \/ SlotNext \/ \E w \in WorkerIds, m \in Posts : Speaks(w, m)
<1>1. CASE UserNext
  <2>1. CASE \E e \in Engines, s \in Sessions : Start(e, s) \/ StartFails(e, s)
    BY <2>1, StartIsQuiet
  <2>2. CASE Cancel \/ ShutdownAsk
    BY <2>2, DecisionsAreQuiet
  <2>3. CASE \/ OldTreeKept \/ FollowUpCheck \/ Reject \/ \E wanted \in SUBSET Paths : ApplyCheck(wanted)
             \/ \E r \in RunIds : Undo(r)
             \/ \E p \in Paths : Edit(p)
    BY <2>3, NothingIsQuiet DEF OldTreeKept, FollowUpCheck, Reject, ApplyCheck, Undo, Edit, project, published
  <2> QED BY <1>1, <2>1, <2>2, <2>3 DEF UserNext
<1>2. CASE ApplyNext
  <2>1. CASE ApplySettle \/ RejectSettle
    BY <2>1, DecisionsAreQuiet
  <2>2. CASE Checkpoint \/ (\E p \in Paths : Write(p)) \/ DecisionRelease \/ Restore
    BY <2>2, NothingIsQuiet DEF Checkpoint, Write, DecisionRelease, Restore, ApplyFrame, project, published
  <2> QED BY <1>2, <2>1, <2>2 DEF ApplyNext
<1>3. CASE FollowUpStart
  BY <1>3, FollowUpIsQuiet
<1>4. CASE ShutdownRelease
  BY <1>4, NothingIsQuiet DEF ShutdownRelease, project, published
<1>5. CASE \E w \in WorkerIds : WorkerNext(w)
  BY <1>5, WorkersSpeak, DecisionsAreQuiet, ReadsAreQuiet
<1>6. CASE \E d \in Deliveries : DeliveryNext(d)
  BY <1>6, NothingIsQuiet DEF DeliveryNext, Capture, Lease, Validate, Return, DeliveryStep, project, published
<1>7. CASE \E r \in RunIds : DrainBegin(r) \/ DrainEnd(r)
  BY <1>7, NothingIsQuiet DEF DrainBegin, DrainEnd, project, published
<1>8. CASE UNCHANGED vars
  BY <1>8, NothingIsQuiet DEF vars
<1> QED BY <1>1, <1>2, <1>3, <1>4, <1>5, <1>6, <1>7, <1>8 DEF Orderly

\* Failures are counted.
LEMMA FaultsCounted ==
  ASSUME IInv, [Orderly]_vars
  PROVE  NoFault \/ Fault
<1>1. CASE UserNext
  BY <1>1 DEF UserNext, Start, StartFails, OldTreeKept, FollowUpCheck, Cancel, Reject, ShutdownAsk,
              ApplyCheck, Undo, Edit, NoFault
<1>2. CASE ApplyNext
  BY <1>2 DEF ApplyNext, Checkpoint, Write, ApplySettle, RejectSettle, DecisionRelease, Release, Restore, NoFault
<1>3. CASE SlotNext
  <2>1. CASE OnEvent
    BY <2>1 DEF OnEvent
  <2>2. CASE OnLegacyEnd
    <3>1. Head(queue).kind \in {"failed", "cancelled", "finished"}
      BY <2>2 DEF OnLegacyEnd, Posted
    <3> QED BY <2>2, <3>1 DEF OnLegacyEnd, SettleOrFail, NoFault
  <2>3. CASE OnPipelineFinished
    <3> DEFINE w == Src
               r == worker[Src].run
               o == Head(queue).what
    <3>1. Typed /\ Signals /\ queue # <<>> /\ Head(queue).kind = "finished_ok"
      BY <2>3 DEF IInv, OnPipelineFinished, Posted
    <3>2. o \in Reportable
      BY <3>1, HeadOfQueue DEF Signals, SignalOK, Typed
    <3>3. FinishReport(w, r, o) => NoFault \/ Fault
      <4>1. o = "cancelled" \/ o \in {"failed", "failed_with_changes"} \/ o \in {"needs_user", "no_changes"}
        BY <3>2 DEF Reportable
      <4> HIDE DEF o
      <4> QED BY <4>1 DEF FinishReport, SettleOrFail
    <3>4. UNCHANGED faults \/ Published(w, r, o) \/ ReportLost(w, r, o)
      BY <2>3 DEF OnPipelineFinished
    <3> QED BY <3>3, <3>4 DEF Published, ReportLost, Misread, NoFault
  <2>4. CASE OnPipelineFailed \/ OnAgentFailed \/ OnAgentComplete \/ OnThreadFinished
    BY <2>4 DEF OnPipelineFailed, OnAgentFailed, OnAgentComplete, OnThreadFinished, DisposeWhenQuiet,
                DisposeAgent, AgentReportLost
  <2> QED BY <1>3, <2>1, <2>2, <2>3, <2>4 DEF SlotNext
<1>4. CASE FollowUpStart \/ ShutdownRelease
  BY <1>4 DEF FollowUpStart, ShutdownRelease, DisposeAgent, NoFault
<1>5. ASSUME NEW w \in WorkerIds, WorkerNext(w) PROVE NoFault \/ Fault
  BY <1>5 DEF WorkerNext, Resume, Raise, LegacyRead, LegacyHash, LegacyCancelled, Exit, Report, LegacyEmit
<1>6. ASSUME NEW d \in Deliveries, DeliveryNext(d) PROVE NoFault \/ Fault
  BY <1>6 DEF DeliveryNext, Capture, Lease, Validate, Return, DeliveryStep
<1>7. ASSUME NEW r \in RunIds, DrainBegin(r) \/ DrainEnd(r) PROVE NoFault \/ Fault
  BY <1>7 DEF DrainBegin, DrainEnd
<1>8. CASE UNCHANGED vars
  BY <1>8 DEF vars, NoFault
<1> QED BY <1>1, <1>2, <1>3, <1>4, <1>5, <1>6, <1>7, <1>8 DEF Orderly
-----------------------------------------------------------------------------
(* What the slots do to executions, Runs and the user's view               *)

\* Closing the execution the adapter knows to be open leaves none; a stage opens one.
LEMMA OneExecution ==
  ASSUME NEW x \in Consistent
  PROVE  /\ (IF x.cur THEN [open |-> x.open - 1, cur |-> FALSE] ELSE x) = NoExecution
         /\ x.cur \in BOOLEAN /\ NoExecution \in Consistent
         /\ [open |-> NoExecution.open + 1, cur |-> TRUE] \in Consistent
<1>1. NoExecution.open = 0 /\ NoExecution.cur = FALSE
  BY DEF NoExecution
<1>2. /\ [open |-> NoExecution.open + 1, cur |-> TRUE] = [open |-> 1, cur |-> TRUE]
      /\ NoExecution \in Consistent
  BY <1>1 DEF Consistent
<1>3. CASE x = NoExecution
  BY <1>1, <1>2, <1>3 DEF Consistent
<1>4. CASE x = [open |-> 1, cur |-> TRUE]
  <2>1. x.cur = TRUE /\ x.open - 1 = 0
    BY <1>4
  <2>2. [open |-> x.open - 1, cur |-> FALSE] = NoExecution
    BY <2>1 DEF NoExecution
  <2> QED BY <1>2, <2>1, <2>2 DEF Consistent
<1> QED BY <1>3, <1>4 DEF Consistent

\* What settle_canonical_failure leaves.
LEMMA SettleFailedEffects ==
  ASSUME Typed, exe \in [RunIds -> Consistent], NEW r \in RunIds, SettleFailed(r)
  PROVE  /\ exe' \in [RunIds -> Consistent]
         /\ \A q \in RunIds : q # r => exe'[q] = exe[q]
         /\ exe'[r] \in {exe[r], NoExecution}
         /\ status'[r] \in {status[r], "FAILED"}
         /\ status'[r] # status[r] => exe'[r] = NoExecution
<1>1. CASE UNCHANGED <<status, exe>>
  BY <1>1
<1>2. CASE CloseExecution(r) /\ status' \in {Ended(r, "FAILED"), status}
  <2>1. exe[r] \in Consistent
    OBVIOUS
  <2>2. exe' = [exe EXCEPT ![r] = NoExecution]
    BY <1>2, <2>1, OneExecution DEF CloseExecution
  <2>3. status'[r] \in {status[r], "FAILED"}
    BY <1>2 DEF Ended, Typed
  <2> QED BY <2>2, <2>3 DEF Consistent
<1> QED BY <1>1, <1>2 DEF SettleFailed

\* What finish_normal and finish_cancelled leave.
LEMMA SettledEffects ==
  ASSUME Typed, exe \in [RunIds -> Consistent], NEW r \in RunIds,
         NEW as \in {"SUCCEEDED", "CANCELLED"}, Settled(r, as)
  PROVE  /\ exe' \in [RunIds -> Consistent]
         /\ \A q \in RunIds : q # r => exe'[q] = exe[q]
         /\ exe'[r] \in {exe[r], NoExecution}
         /\ as = "CANCELLED" =>
              /\ status'[r] = IF status[r] \in Terminal THEN status[r] ELSE "CANCELLED"
              /\ status[r] \notin Terminal => exe'[r] = NoExecution
         /\ as = "SUCCEEDED" => status'[r] = IF status[r] = "RUNNING" THEN "SUCCEEDED" ELSE status[r]
<1>1. exe[r] \in Consistent
  OBVIOUS
<1>2. CASE as = "CANCELLED" /\ status[r] \notin Terminal
  <2>1. exe' = [exe EXCEPT ![r] = NoExecution]
    BY <1>1, <1>2, OneExecution DEF Settled, CloseExecution
  <2>2. status'[r] = "CANCELLED"
    BY <1>2 DEF Settled, Ended, Typed
  <2> QED BY <1>2, <2>1, <2>2 DEF Consistent
<1>3. CASE as = "CANCELLED" /\ status[r] \in Terminal
  BY <1>3 DEF Settled, Ended, Typed
<1>4. CASE as = "SUCCEEDED"
  BY <1>4 DEF Settled, Ended, Typed, Terminal
<1> QED BY <1>2, <1>3, <1>4

\* finish() says it to the user once.
LEMMA FinishSays ==
  ASSUME Typed, NEW w \in WorkerIds, NEW said, Finish(w, said)
  PROVE  /\ \A v \in WorkerIds : v # w => ui'[v] = ui[v]
         /\ ui'[w] = IF ui[w] = "none" THEN said ELSE ui[w]
BY DEF Finish, Typed

\* The slot's own Run and thread; the rest is as it was.
Elsewhere(w, r) ==
  /\ exe' \in [RunIds -> Consistent]
  /\ \A q \in RunIds : q # r => exe'[q] = exe[q]
  /\ \A v \in WorkerIds : v # w => ui'[v] = ui[v]

\* What the translation of an event, or its first events, leave of the executions.
LEMMA HandledEffects ==
  ASSUME exe \in [RunIds -> Consistent], NEW r \in RunIds, NEW what \in Emitted,
         NEW k \in 0..Translate(exe[r].cur, what)
  PROVE  /\ Handled(r, what, k).exe \in Consistent
         /\ k < Translate(exe[r].cur, what) =>
              /\ Handled(r, what, k).status = status[r]
              /\ Handled(r, what, k).exe \in {exe[r], NoExecution}
         /\ k = Translate(exe[r].cur, what) =>
              /\ Handled(r, what, k).status = IF what = "proposal" THEN "WAITING_USER" ELSE status[r]
              /\ what # "stage" => Handled(r, what, k).exe = NoExecution
<1>1. exe[r] \in Consistent
  OBVIOUS
<1> DEFINE x == exe[r]
           n == Translate(x.cur, what)
           left == IF x.cur /\ k > 0 THEN [open |-> x.open - 1, cur |-> FALSE] ELSE x
<1>2. /\ Handled(r, what, k).status = IF what = "proposal" /\ k = n THEN "WAITING_USER" ELSE status[r]
      /\ Handled(r, what, k).exe =
           IF what = "stage" /\ k = n THEN [open |-> left.open + 1, cur |-> TRUE] ELSE left
  BY DEF Handled
<1>3. left \in {x, NoExecution} /\ (k > 0 => left = NoExecution) /\ (k = n => k > 0)
  <2>1. k = n => k > 0
    BY DEF Translate
  <2> QED BY <1>1, <2>1, OneExecution
<1>4. CASE what = "stage" /\ k = n
  <2> HIDE DEF left
  <2>1. left = NoExecution
    BY <1>3, <1>4
  <2>2. Handled(r, what, k).exe = [open |-> NoExecution.open + 1, cur |-> TRUE]
    BY <1>2, <1>4, <2>1
  <2>3. ~(k < n)
    BY <1>4 DEF Translate
  <2>4. Handled(r, what, k).status = status[r]
    BY <1>2, <1>4
  <2> QED BY <1>1, <1>4, <2>2, <2>3, <2>4, OneExecution
<1>5. CASE ~(what = "stage" /\ k = n)
  <2>1. Handled(r, what, k).exe = left
    BY <1>2, <1>5
  <2> HIDE DEF left
  <2> QED BY <1>1, <1>2, <1>3, <1>5, <2>1, OneExecution
<1> QED BY <1>4, <1>5

\* on_event: the event is recorded, or broken off and, the first time, the user told.
EventRecorded(w, r, what) ==
  /\ UNCHANGED ui
  /\ status'[r] = IF what = "proposal" THEN "WAITING_USER" ELSE status[r]
  /\ what # "stage" => exe'[r] = NoExecution
EventBroken(w, r) ==
  /\ Fault /\ ui'[w] # "none"
  /\ ui[w] # "none" => UNCHANGED ui /\ status'[r] = status[r]
  /\ ui[w] = "none" =>
       /\ ui'[w] = "failed" /\ status'[r] \in {status[r], "FAILED"}
       /\ status'[r] # status[r] => status[r] \notin Terminal /\ exe'[r] = NoExecution

\* on_event in these terms.
LEMMA EventEffects ==
  ASSUME IInv, exe \in [RunIds -> Consistent], OnEvent
  PROVE  /\ worker[Src].eng = "legacy" /\ Head(queue).kind = "event" /\ Head(queue).what \in Emitted
         /\ Elsewhere(Src, worker[Src].run)
         /\ \/ EventRecorded(Src, worker[Src].run, Head(queue).what)
            \/ EventBroken(Src, worker[Src].run)
<1> DEFINE w == Src
           r == worker[Src].run
           what == Head(queue).what
           n == Translate(exe[r].cur, what)
<1>1. /\ Typed /\ OneWorker /\ Signals /\ queue # <<>> /\ Head(queue).kind = "event"
  BY DEF IInv, OnEvent, Posted
<1>2. /\ w \in WorkerIds /\ r \in RunIds /\ worker[w].eng = "legacy" /\ what \in Emitted
  BY <1>1, SrcFacts, HeadOfQueue DEF Signals, SignalOK, Typed, Src
<1>3. n \in Nat /\ n > 0
  BY DEF Translate
<1>4. CASE /\ status' = [status EXCEPT ![r] = Handled(r, what, n).status]
           /\ exe' = [exe EXCEPT ![r] = Handled(r, what, n).exe]
           /\ UNCHANGED ui
  <2>1. /\ Handled(r, what, n).exe \in Consistent
        /\ Handled(r, what, n).status = IF what = "proposal" THEN "WAITING_USER" ELSE status[r]
        /\ what # "stage" => Handled(r, what, n).exe = NoExecution
    BY <1>2, <1>3, HandledEffects
  <2>2. /\ exe'[r] = Handled(r, what, n).exe /\ status'[r] = Handled(r, what, n).status
        /\ exe' \in [RunIds -> Consistent] /\ \A q \in RunIds : q # r => exe'[q] = exe[q]
    BY <1>1, <1>2, <1>4, <2>1 DEF Typed
  <2> HIDE DEF n, what, r, w
  <2>3. EventRecorded(w, r, what) /\ Elsewhere(w, r)
    BY <1>4, <2>1, <2>2 DEF EventRecorded, Elsewhere
  <2> QED BY <1>1, <1>2, <2>3 DEF w, r, what
<1>5. ASSUME NEW k \in 0..(n - 1), Fault,
             IF ui[w] = "none"
             THEN FailedAfter(r, Handled(r, what, k)) /\ Finish(w, "failed")
             ELSE /\ status' = [status EXCEPT ![r] = Handled(r, what, k).status]
                  /\ exe' = [exe EXCEPT ![r] = Handled(r, what, k).exe]
                  /\ UNCHANGED ui
      PROVE  EventBroken(w, r) /\ Elsewhere(w, r)
  <2>1. k \in 0..n /\ k < n
    BY <1>3
  <2>2. /\ Handled(r, what, k).exe \in Consistent
        /\ Handled(r, what, k).status = status[r]
    BY <1>2, <2>1, HandledEffects
  <2> DEFINE h == Handled(r, what, k)
  <2> HIDE DEF n, what, r, w, h
  <2>3. h.exe \in Consistent /\ h.status = status[r]
    BY <2>2 DEF h
  <2>4. CASE ui[w] = "none"
    <3>1. FailedAfter(r, h) /\ Finish(w, "failed")
      BY <1>5, <2>4 DEF h
    <3>2. PICK st \in {h.status, IF h.status \in Terminal THEN h.status ELSE "FAILED"}, closes \in BOOLEAN :
            /\ st # h.status => closes
            /\ status' = [status EXCEPT ![r] = st]
            /\ exe' = [exe EXCEPT ![r] = IF closes /\ h.exe.cur THEN [open |-> h.exe.open - 1, cur |-> FALSE] ELSE h.exe]
      BY <3>1 DEF FailedAfter
    <3>3. (IF closes /\ h.exe.cur THEN [open |-> h.exe.open - 1, cur |-> FALSE] ELSE h.exe) =
            (IF closes THEN NoExecution ELSE h.exe)
      BY <2>3, OneExecution
    <3>4. exe' = [exe EXCEPT ![r] = IF closes THEN NoExecution ELSE h.exe]
      BY <3>2, <3>3
    <3>5. /\ exe' \in [RunIds -> Consistent] /\ \A q \in RunIds : q # r => exe'[q] = exe[q]
          /\ closes => exe'[r] = NoExecution
      BY <1>2, <2>3, <3>4 DEF Consistent
    <3>6. /\ status'[r] = st
      BY <1>1, <1>2, <3>2 DEF Typed
    <3>7. /\ \A v \in WorkerIds : v # w => ui'[v] = ui[v]
          /\ ui'[w] = "failed"
      BY <1>1, <1>2, <2>4, <3>1, FinishSays
    <3> QED BY <1>5, <2>3, <2>4, <3>2, <3>5, <3>6, <3>7 DEF EventBroken, Elsewhere
  <2>5. CASE ui[w] # "none"
    <3>1. /\ status' = [status EXCEPT ![r] = h.status] /\ exe' = [exe EXCEPT ![r] = h.exe] /\ UNCHANGED ui
      BY <1>5, <2>5 DEF h
    <3>2. /\ status'[r] = status[r] /\ exe' \in [RunIds -> Consistent]
          /\ \A q \in RunIds : q # r => exe'[q] = exe[q]
      BY <1>1, <1>2, <2>3, <3>1 DEF Typed
    <3> QED BY <1>5, <2>5, <3>1, <3>2 DEF EventBroken, Elsewhere
  <2> QED BY <2>4, <2>5
<1> QED BY <1>1, <1>2, <1>4, <1>5 DEF OnEvent

\* A settlement a slot asks for, or its fallback: what it leaves and what the user hears.
Told(w, r) ==
  /\ ui'[w] = "failed" =>
       /\ status'[r] \in {status[r], "FAILED"}
       /\ status'[r] # status[r] => exe'[r] = NoExecution
  /\ ui'[w] = "cancelled" =>
       /\ status'[r] = IF status[r] \in Terminal THEN status[r] ELSE "CANCELLED"
       /\ status[r] \notin Terminal => exe'[r] = NoExecution
  /\ ui'[w] = "done" => status'[r] = IF status[r] = "RUNNING" THEN "SUCCEEDED" ELSE status[r]

\* A settlement with its fallback in these terms.
LEMMA SettleOrFailTold ==
  ASSUME Typed, exe \in [RunIds -> Consistent], NEW r \in RunIds, NEW w \in WorkerIds, ui[w] = "none",
         \/ SettleOrFail(w, r, "CANCELLED", "cancelled")
         \/ SettleOrFail(w, r, "SUCCEEDED", "done")
         \/ SettleFailed(r) /\ Finish(w, "failed")
  PROVE  /\ Elsewhere(w, r) /\ exe'[r] \in {exe[r], NoExecution} /\ Told(w, r)
         /\ ui'[w] # "cancelled" \/ SettleOrFail(w, r, "CANCELLED", "cancelled")
<1>1. CASE SettleFailed(r) /\ Finish(w, "failed")
  <2>1. /\ \A v \in WorkerIds : v # w => ui'[v] = ui[v]
        /\ ui'[w] = "failed"
    BY <1>1, FinishSays
  <2> QED BY <1>1, <2>1, SettleFailedEffects DEF Told, Elsewhere
<1>2. CASE Settled(r, "CANCELLED") /\ Finish(w, "cancelled") /\ NoFault
  <2>1. /\ \A v \in WorkerIds : v # w => ui'[v] = ui[v]
        /\ ui'[w] = "cancelled"
    BY <1>2, FinishSays
  <2>2. SettleOrFail(w, r, "CANCELLED", "cancelled")
    BY <1>2 DEF SettleOrFail
  <2> QED BY <1>2, <2>1, <2>2, SettledEffects DEF Told, Elsewhere
<1>3. CASE Settled(r, "SUCCEEDED") /\ Finish(w, "done") /\ NoFault
  <2>1. /\ \A v \in WorkerIds : v # w => ui'[v] = ui[v]
        /\ ui'[w] = "done"
    BY <1>3, FinishSays
  <2> QED BY <1>3, <2>1, SettledEffects DEF Told, Elsewhere
<1> QED BY <1>1, <1>2, <1>3 DEF SettleOrFail

\* on_worker_failed, on_worker_cancelled, on_worker_finished.
LEMMA LegacyEndEffects ==
  ASSUME IInv, exe \in [RunIds -> Consistent], OnLegacyEnd
  PROVE  /\ worker[Src].eng = "legacy" /\ Head(queue).kind \in {"failed", "cancelled", "finished"}
         /\ Elsewhere(Src, worker[Src].run) /\ RunSettles(worker[Src].run)
         /\ \/ ui[Src] # "none" /\ UNCHANGED <<status, exe, ui>>
            \/ /\ ui[Src] = "none" /\ ui'[Src] # "none" /\ Told(Src, worker[Src].run)
               /\ exe'[worker[Src].run] \in {exe[worker[Src].run], NoExecution}
               /\ ui'[Src] = "cancelled" => Head(queue).kind = "cancelled"
<1> DEFINE w == Src
           r == worker[Src].run
<1>1. /\ Typed /\ OneWorker /\ Signals /\ queue # <<>> /\ worker[w].eng = "legacy"
      /\ Head(queue).kind \in {"failed", "cancelled", "finished"}
  BY DEF IInv, OnLegacyEnd, Posted
<1>2. w \in WorkerIds /\ r \in RunIds /\ status[r] # "none"
  BY <1>1, SrcFacts
<1>3. CASE ui[w] # "none"
  <2>1. UNCHANGED <<status, exe, ui>>
    BY <1>3 DEF OnLegacyEnd
  <2> QED BY <1>1, <1>2, <1>3, <2>1, StatusSame DEF Elsewhere
<1>4. CASE ui[w] = "none"
  <2>1. /\ Head(queue).kind = "failed" => SettleFailed(r) /\ Finish(w, "failed")
        /\ Head(queue).kind = "cancelled" => SettleOrFail(w, r, "CANCELLED", "cancelled")
        /\ Head(queue).kind = "finished" => SettleOrFail(w, r, "SUCCEEDED", "done")
    BY <1>1, <1>4 DEF OnLegacyEnd
  <2> HIDE DEF w, r
  <2>2. Elsewhere(w, r) /\ exe'[r] \in {exe[r], NoExecution} /\ Told(w, r)
    BY <1>1, <1>2, <1>4, <2>1, SettleOrFailTold
  <2>3. RunSettles(r)
    BY <1>1, <1>2, <2>1, SettleFailedMoves, SettleOrFailMoves
  <2>4. /\ Head(queue).kind = "failed" => ui'[w] = "failed"
        /\ Head(queue).kind = "finished" => ui'[w] \in {"done", "failed"}
        /\ Head(queue).kind = "cancelled" => ui'[w] \in {"cancelled", "failed"}
    BY <1>1, <1>2, <1>4, <2>1, FinishSays DEF SettleOrFail
  <2> QED BY <1>1, <1>4, <2>2, <2>3, <2>4 DEF w, r
<1> QED BY <1>3, <1>4

\* Only a classic Run has executions of its own here.
LEMMA NoneOfOthers ==
  ASSUME Typed, OneWorker, Adapter, NEW w \in WorkerIds, worker[w].pc # "none", worker[w].eng # "legacy"
  PROVE  exe[worker[w].run] = NoExecution
<1>1. worker[w].run \in RunIds
  BY RunOfThread
<1>2. ~exe[worker[w].run].cur
  BY <1>1 DEF Adapter, Classic, OneWorker
<1>3. exe[worker[w].run] \in Consistent
  BY <1>1 DEF Adapter
<1> QED BY <1>2, <1>3 DEF Consistent

\* A settlement of a Run without an execution leaves the executions alone.
LEMMA ExeStays ==
  ASSUME exe \in [RunIds -> Consistent], NEW r \in RunIds, exe[r] = NoExecution,
         \/ SettleFailed(r) \/ \E as : Settled(r, as) \/ UNCHANGED exe
  PROVE  UNCHANGED exe
<1>1. CloseExecution(r) => UNCHANGED exe
  BY DEF CloseExecution, NoExecution
<1> QED BY <1>1 DEF SettleFailed, Settled

\* The slots of the pipeline and the agent: they leave the executions alone, settle the Run
\* at most once, and tell the user what the ledger says.
ReportHeard(w, r) ==
  /\ UNCHANGED exe
  /\ \A v \in WorkerIds : v # w => ui'[v] = ui[v]
  /\ ui'[w] # ui[w] /\ ui'[w] = "done" => status'[r] # "RUNNING"
  /\ ui'[w] # ui[w] /\ ui'[w] = "cancelled" => status'[r] = "CANCELLED"

\* What on_pipeline_finished says of a report that is true.
LEMMA FinishReportHeard ==
  ASSUME IInv, Adapter, NEW w \in WorkerIds, worker[w].pc # "none", worker[w].eng # "legacy",
         NEW r \in RunIds, r = worker[w].run, NEW o \in Reportable,
         o \in {"needs_user", "no_changes"} => status[r] # "RUNNING",
         o = "cancelled" => status[r] \in {"CANCELLED", "WAITING_USER"},
         ui[w] = "none",
         FinishReport(w, r, o) \/ Misread(w, r, o) \/ (SettleFailed(r) /\ Finish(w, "failed"))
  PROVE  ReportHeard(w, r)
<1>1. Typed /\ OneWorker /\ exe \in [RunIds -> Consistent] /\ exe[r] = NoExecution
  BY NoneOfOthers DEF IInv, Adapter
<1>2. CASE SettleFailed(r) /\ Finish(w, "failed")
  BY <1>1, <1>2, ExeStays, FinishSays DEF ReportHeard
<1>3. CASE o = "cancelled" /\ Settled(r, "CANCELLED") /\ Finish(w, "cancelled")
  <2>1. UNCHANGED exe
    BY <1>1, <1>3, ExeStays
  <2>2. status'[r] = IF status[r] \in Terminal THEN status[r] ELSE "CANCELLED"
    BY <1>1, <1>3, SettledEffects
  <2>3. status'[r] = "CANCELLED"
    BY <1>3, <2>2 DEF Terminal
  <2> QED BY <1>1, <1>3, <2>1, <2>3, FinishSays DEF ReportHeard
<1>4. CASE o \in {"failed", "failed_with_changes"} /\ Finish(w, "failed") /\ UNCHANGED <<status, exe>>
  BY <1>1, <1>4, FinishSays DEF ReportHeard
<1>5. CASE o \in {"needs_user", "no_changes"} /\ Finish(w, "done") /\ UNCHANGED <<status, exe>>
  BY <1>1, <1>5, FinishSays DEF ReportHeard
<1>6. CASE FinishReport(w, r, o)
  BY <1>2, <1>3, <1>4, <1>5, <1>6 DEF FinishReport, SettleOrFail, Reportable
<1>7. CASE Misread(w, r, o)
  <2>1. CASE o = "cancelled"
    BY <1>3, <1>7, <2>1 DEF Misread
  <2>2. CASE o # "cancelled"
    <3>1. status[r] = "WAITING_USER" /\ Finish(w, "done") /\ UNCHANGED <<status, exe>>
      BY <1>7, <2>2 DEF Misread
    <3> QED BY <1>1, <3>1, FinishSays DEF ReportHeard
  <2> QED BY <2>1, <2>2
<1> QED BY <1>2, <1>6, <1>7

\* The slots of the pipeline and the agent in these terms.
LEMMA ReportEffects ==
  ASSUME IInv, Adapter, Truthful, Undecided,
         \/ OnPipelineFailed \/ OnPipelineFinished \/ OnAgentFailed \/ OnAgentComplete \/ OnThreadFinished
  PROVE  worker[Src].eng # "legacy" /\ ReportHeard(Src, worker[Src].run)
<1> DEFINE w == Src
           r == worker[Src].run
           o == Head(queue).what
<1>1. /\ Typed /\ OneWorker /\ Signals /\ queue # <<>> /\ worker[w].eng # "legacy"
      /\ Head(queue).kind \in {"failed", "finished", "finished_ok"}
  BY DEF IInv, OnPipelineFailed, OnPipelineFinished, OnAgentFailed, OnAgentComplete, OnThreadFinished, Posted
<1>2. /\ w \in WorkerIds /\ r \in RunIds /\ status[r] # "none" /\ worker[w].pc # "none"
      /\ Head(queue) = queue[1] /\ 1 \in 1..Len(queue) /\ w = queue[1].worker
  BY <1>1, SrcFacts, HeadOfQueue DEF Src, Typed
<1>3. exe[r] = NoExecution /\ exe \in [RunIds -> Consistent]
  BY <1>1, <1>2, NoneOfOthers DEF Adapter
<1>4. Head(queue).kind \in {"failed", "finished_ok"} => ui[w] = "none"
  BY <1>1, <1>2 DEF Signals, SignalOK, Reports
<1>5. Head(queue).kind = "finished_ok" =>
        /\ o \in Reportable
        /\ o \in {"needs_user", "no_changes"} => status[r] # "RUNNING"
        /\ o = "cancelled" => status[r] = "CANCELLED" \/ (status[r] = "WAITING_USER" /\ worker[w].eng = "pipeline")
  BY <1>1, <1>2, <1>4 DEF Truthful, Signals, SignalOK, Undecided
<1>6. CASE OnPipelineFailed
  <2>1. UNCHANGED <<status, exe, ui>> \/ (SettleFailed(r) /\ Finish(w, "failed"))
    BY <1>6 DEF OnPipelineFailed
  <2> HIDE DEF w, r
  <2>2. SettleFailed(r) /\ Finish(w, "failed") => ReportHeard(w, r)
    BY <1>1, <1>2, <1>3, ExeStays, FinishSays DEF ReportHeard
  <2>3. UNCHANGED <<status, exe, ui>> => ReportHeard(w, r)
    BY DEF ReportHeard
  <2>4. ReportHeard(w, r)
    BY <2>1, <2>2, <2>3
  <2> QED BY <1>1, <2>4 DEF w, r
<1>7. CASE OnPipelineFinished
  <2>1. /\ Head(queue).kind = "finished_ok"
        /\ \/ UNCHANGED <<exe, ui>>
           \/ FinishReport(w, r, o) \/ Misread(w, r, o) \/ (SettleFailed(r) /\ Finish(w, "failed"))
    BY <1>7 DEF OnPipelineFinished, Posted, Published, ReportLost
  <2>2. CASE UNCHANGED <<exe, ui>>
    BY <1>1, <2>2 DEF ReportHeard
  <2>3. CASE FinishReport(w, r, o) \/ Misread(w, r, o) \/ (SettleFailed(r) /\ Finish(w, "failed"))
    <3>1. o \in Reportable /\ ui[w] = "none" /\ r = worker[w].run
      BY <1>4, <1>5, <2>1
    <3> HIDE DEF w, r, o
    <3>2. ReportHeard(w, r)
      BY <1>1, <1>2, <1>5, <2>1, <2>3, <3>1, FinishReportHeard
    <3> QED BY <1>1, <3>2 DEF w, r
  <2> QED BY <2>1, <2>2, <2>3
<1>8. CASE OnAgentFailed
  <2>1. UNCHANGED exe /\ (Finish(w, "failed") \/ UNCHANGED ui)
    BY <1>8 DEF OnAgentFailed, AgentSlotFrame
  <2> HIDE DEF w, r
  <2>2. ReportHeard(w, r)
    BY <1>1, <1>2, <2>1, FinishSays DEF ReportHeard
  <2> QED BY <1>1, <2>2 DEF w, r
<1>9. CASE OnAgentComplete
  <2>1. UNCHANGED exe /\ Head(queue).kind = "finished_ok" /\ worker[w].eng = "agent"
    BY <1>9 DEF OnAgentComplete, AgentSlotFrame, Posted
  <2>2. \/ Finish(w, "failed") \/ UNCHANGED ui
        \/ o \in {"needs_user", "no_changes"} /\ Finish(w, "done") /\ UNCHANGED status
        \/ o = "cancelled" /\ Finish(w, "cancelled") /\ UNCHANGED status
    BY <1>9 DEF OnAgentComplete, AgentReportLost
  <2> HIDE DEF w, r, o
  <2>3. ReportHeard(w, r)
    BY <1>1, <1>2, <1>5, <2>1, <2>2, FinishSays DEF ReportHeard
  <2> QED BY <1>1, <2>3 DEF w, r
<1>10. CASE OnThreadFinished
  <2>1. UNCHANGED <<exe, ui>>
    BY <1>10 DEF OnThreadFinished, project, published
  <2> QED BY <1>1, <2>1 DEF ReportHeard
<1> QED BY <1>6, <1>7, <1>8, <1>9, <1>10

-----------------------------------------------------------------------------
(* Each part of the invariant and the three kinds of steps                 *)

\* The queue a slot leaves.
LEMMA Taken ==
  ASSUME IInv, SlotNext
  PROVE  /\ Typed /\ OneWorker /\ Signals /\ queue # <<>> /\ queue' = Tail(queue)
         /\ Src \in WorkerIds /\ worker[Src].run \in RunIds /\ worker[Src].pc # "none"
         /\ Head(queue) = queue[1] /\ 1 \in 1..Len(queue) /\ Src = queue[1].worker
         /\ \A i \in 1..Len(queue') : i + 1 \in 1..Len(queue) /\ queue'[i] = queue[i + 1]
         /\ \A i \in 1..Len(queue) : queue[i].worker \in WorkerIds /\ worker[queue[i].worker].pc # "none"
         /\ \A v \in WorkerIds : /\ worker'[v].pc = worker[v].pc /\ worker'[v].run = worker[v].run
                                 /\ worker'[v].eng = worker[v].eng /\ worker'[v].follow = worker[v].follow
         /\ \A r \in RunIds : r # worker[Src].run => status'[r] = status[r]
<1>1. Typed /\ OneWorker /\ Signals /\ Recorded
  BY DEF IInv
<1>2. /\ Slot(Src) /\ queue # <<>> /\ queue' = Tail(queue)
  BY <1>1, SlotShapes DEF Slot
<1>3. /\ Src \in WorkerIds /\ worker[Src].run \in RunIds /\ worker[Src].pc # "none"
  BY <1>1, <1>2, SrcFacts
<1>4. /\ Head(queue) = queue[1] /\ 1 \in 1..Len(queue) /\ Src = queue[1].worker
      /\ \A i \in 1..Len(queue') : i + 1 \in 1..Len(queue) /\ queue'[i] = queue[i + 1]
  BY <1>1, <1>2, HeadOfQueue DEF Typed, Src
<1>5. \A i \in 1..Len(queue) : queue[i].worker \in WorkerIds /\ worker[queue[i].worker].pc # "none"
  BY <1>1, PostedWorkers DEF Typed, Signals, SignalOK
<1>6. /\ \A v \in WorkerIds : /\ worker'[v].pc = worker[v].pc /\ worker'[v].run = worker[v].run
                              /\ worker'[v].eng = worker[v].eng /\ worker'[v].follow = worker[v].follow
      /\ \A r \in RunIds : r # worker[Src].run => status'[r] = status[r]
  BY <1>1, SlotKeeps
<1> QED BY <1>1, <1>2, <1>3, <1>4, <1>5, <1>6

\* The queue after a thread has posted.
LEMMA Spoken ==
  ASSUME IInv, NEW w \in WorkerIds, NEW m \in Posts, Speaks(w, m)
  PROVE  /\ Typed /\ OneWorker /\ Signals
         /\ Len(queue') = Len(queue) + 1 /\ Len(queue) \in Nat
         /\ \A i \in 1..Len(queue') : \/ i \in 1..Len(queue) /\ queue'[i] = queue[i]
                                      \/ i = Len(queue) + 1 /\ queue'[i] = m
         /\ \A i \in 1..Len(queue) : queue[i].worker \in WorkerIds /\ worker[queue[i].worker].pc # "none"
         /\ worker[w].pc # "none" /\ worker'[w].pc # "none"
         /\ \A v \in WorkerIds : worker'[v].pc # "none" <=> worker[v].pc # "none"
<1>1. Typed /\ OneWorker /\ Signals
  BY DEF IInv
<1>2. /\ Len(queue') = Len(queue) + 1 /\ Len(queue) \in Nat
      /\ \A i \in 1..Len(queue') : \/ i \in 1..Len(queue) /\ queue'[i] = queue[i]
                                   \/ i = Len(queue) + 1 /\ queue'[i] = m
  BY <1>1, QueueAppended DEF Speaks, Typed
<1>3. \A i \in 1..Len(queue) : queue[i].worker \in WorkerIds /\ worker[queue[i].worker].pc # "none"
  BY <1>1, PostedWorkers DEF Typed, Signals, SignalOK
<1>4. worker[w].pc # "none" /\ worker'[w].pc # "none"
  BY DEF Speaks
<1>5. \A v \in WorkerIds : worker'[v].pc # "none" <=> worker[v].pc # "none"
  BY <1>4 DEF Speaks
<1> QED BY <1>1, <1>2, <1>3, <1>4, <1>5

\* The queue and the threads of a quiet step.
LEMMA Hushed ==
  ASSUME IInv, Quiet
  PROVE  /\ Typed /\ OneWorker /\ Signals /\ UNCHANGED <<queue, ui, exe>>
         /\ \A i \in 1..Len(queue) : queue[i].worker \in WorkerIds /\ worker[queue[i].worker].pc # "none"
         /\ \A v \in WorkerIds : worker[v].pc # "none" =>
              /\ worker[v].run \in RunIds /\ status[worker[v].run] # "none"
              /\ worker'[v].run = worker[v].run /\ worker'[v].eng = worker[v].eng
              /\ worker'[v].pc = worker[v].pc
              /\ status[worker[v].run] = "RUNNING" => status'[worker[v].run] = "RUNNING"
<1>1. Typed /\ OneWorker /\ Signals
  BY DEF IInv
<1>2. \A i \in 1..Len(queue) : queue[i].worker \in WorkerIds /\ worker[queue[i].worker].pc # "none"
  BY <1>1, PostedWorkers DEF Typed, Signals, SignalOK
<1>3. \A v \in WorkerIds : worker[v].pc # "none" => worker[v].run \in RunIds /\ status[worker[v].run] # "none"
  BY <1>1, RunOfThread DEF OneWorker
<1> QED BY <1>1, <1>2, <1>3 DEF Quiet

\* Every step keeps a thread's signals in turn.
LEMMA InTurnStep ==
  ASSUME IInv, InTurn, [Orderly]_vars
  PROVE  InTurn'
<1>1. CASE Quiet
  <2>1. /\ UNCHANGED queue
        /\ \A i \in 1..Len(queue) : worker'[queue[i].worker].pc = worker[queue[i].worker].pc
    BY <1>1, Hushed
  <2> QED BY <2>1 DEF InTurn, StageEvent
<1>2. ASSUME NEW w \in WorkerIds, NEW m \in Posts, Speaks(w, m) PROVE InTurn'
  <2>1. /\ Len(queue') = Len(queue) + 1 /\ Len(queue) \in Nat
        /\ \A i \in 1..Len(queue') : \/ i \in 1..Len(queue) /\ queue'[i] = queue[i]
                                     \/ i = Len(queue) + 1 /\ queue'[i] = m
        /\ \A i \in 1..Len(queue) : queue[i].worker \in WorkerIds
    BY <1>2, Spoken
  <2>2. /\ m.worker = w /\ (m.kind # "finished" => worker[w].pc = "running")
        /\ worker'[w].pc = "running" => StageEvent(m) /\ worker[w].pc = "running"
        /\ \A v \in WorkerIds : v # w => worker'[v] = worker[v]
    BY <1>2 DEF Speaks
  <2>3. ASSUME NEW i \in 1..Len(queue'), NEW j \in 1..Len(queue'), i < j,
               queue'[i].worker = queue'[j].worker, queue'[j].kind # "finished"
        PROVE  StageEvent(queue'[i])
    <3>1. i \in 1..Len(queue) /\ queue'[i] = queue[i]
      BY <2>1, <2>3
    <3>2. CASE j \in 1..Len(queue) /\ queue'[j] = queue[j]
      BY <2>3, <3>1, <3>2 DEF InTurn
    <3>3. CASE queue'[j] = m
      BY <2>2, <2>3, <3>1, <3>3 DEF InTurn
    <3> QED BY <2>1, <3>2, <3>3
  <2>4. ASSUME NEW k \in 1..Len(queue'), worker'[queue'[k].worker].pc = "running"
        PROVE  StageEvent(queue'[k])
    <3>1. CASE k \in 1..Len(queue) /\ queue'[k] = queue[k]
      BY <2>1, <2>2, <2>4, <3>1 DEF InTurn
    <3>2. CASE queue'[k] = m
      BY <2>2, <2>4, <3>2
    <3> QED BY <2>1, <3>1, <3>2
  <2> QED BY <2>3, <2>4 DEF InTurn, StageEvent
<1>3. CASE SlotNext
  <2>1. /\ \A i \in 1..Len(queue') : i + 1 \in 1..Len(queue) /\ queue'[i] = queue[i + 1]
        /\ \A i \in 1..Len(queue) : queue[i].worker \in WorkerIds
        /\ \A v \in WorkerIds : worker'[v].pc = worker[v].pc
    BY <1>3, Taken
  <2>2. \A i, j \in 1..Len(queue') : i < j => i + 1 < j + 1
    OBVIOUS
  <2> QED BY <2>1, <2>2, ZenonT(40) DEF InTurn, StageEvent
<1> QED BY <1>1, <1>2, <1>3, StepShapes

\* Every step keeps one thread per classic Run.
LEMMA OneThreadStep ==
  ASSUME IInv, OneThread, [Orderly]_vars
  PROVE  OneThread'
<1>1. CASE Quiet
  <2>1. \A v \in WorkerIds : worker[v].pc # "none" =>
          /\ worker[v].run \in RunIds /\ status[worker[v].run] # "none"
          /\ worker'[v].run = worker[v].run /\ worker'[v].eng = worker[v].eng
          /\ worker'[v].pc = worker[v].pc
    BY <1>1, Hushed
  <2>2. \A v \in WorkerIds : worker[v].pc = "none" /\ worker'[v].pc # "none" =>
          /\ worker'[v].eng = "legacy" => status[worker'[v].run] = "none"
          /\ \A u \in WorkerIds : worker[u].pc = "none" /\ worker'[u].pc # "none" => u = v
    BY <1>1 DEF Quiet
  <2> QED BY <2>1, <2>2 DEF OneThread, Classic
<1>2. ASSUME NEW w \in WorkerIds, NEW m \in Posts, Speaks(w, m) PROVE OneThread'
  <2>1. \A v \in WorkerIds : /\ worker'[v].pc # "none" <=> worker[v].pc # "none"
                             /\ worker'[v].run = worker[v].run /\ worker'[v].eng = worker[v].eng
    BY <1>2, Spoken DEF Speaks
  <2> QED BY <2>1 DEF OneThread, Classic
<1>3. CASE SlotNext
  <2>1. \A v \in WorkerIds : /\ worker'[v].pc = worker[v].pc /\ worker'[v].run = worker[v].run
                             /\ worker'[v].eng = worker[v].eng
    BY <1>3, Taken
  <2> QED BY <2>1 DEF OneThread, Classic
<1> QED BY <1>1, <1>2, <1>3, StepShapes

\* After its last word a thread has nothing left to say but its end.
LEMMA LastWord ==
  ASSUME IInv, InTurn, SlotNext, ~StageEvent(Head(queue)), NEW w \in WorkerIds, w = Src
  PROVE  ~Unfinished(w)'
<1>1. /\ Head(queue) = queue[1] /\ 1 \in 1..Len(queue) /\ w = queue[1].worker
      /\ \A i \in 1..Len(queue') : i + 1 \in 1..Len(queue) /\ queue'[i] = queue[i + 1]
      /\ worker'[w].pc = worker[w].pc
  BY Taken
<1>2. worker[w].pc # "running"
  BY <1>1 DEF InTurn
<1>3. \A i \in 1..Len(queue') : queue'[i].worker = w => queue'[i].kind = "finished"
  <2>1. \A i \in 1..Len(queue') : 1 < i + 1
    OBVIOUS
  <2> QED BY <1>1, <2>1 DEF InTurn
<1> QED BY <1>1, <1>2, <1>3 DEF Unfinished

\* A thread that is unfinished after a slot was so before.
LEMMA UnfinishedBefore ==
  ASSUME IInv, SlotNext, NEW v \in WorkerIds, Unfinished(v)'
  PROVE  Unfinished(v)
<1>1. /\ \A i \in 1..Len(queue') : i + 1 \in 1..Len(queue) /\ queue'[i] = queue[i + 1]
      /\ worker'[v].pc = worker[v].pc
  BY Taken
<1> QED BY <1>1 DEF Unfinished

\* The slot of one Run leaves the classic threads of the others alone.
LEMMA OtherClassic ==
  ASSUME IInv, OneThread, SlotNext, NEW v \in WorkerIds, Classic(v), v # Src
  PROVE  worker[v].run \in RunIds /\ worker[v].run # worker[Src].run
<1>1. Typed /\ OneWorker /\ Src \in WorkerIds /\ worker[Src].pc # "none"
  BY Taken
<1>2. worker[v].run \in RunIds
  BY <1>1, RunOfThread DEF Classic
<1> QED BY <1>1, <1>2 DEF OneThread, OneWorker, Classic

\* The three kinds of slots.
LEMMA SlotKinds ==
  ASSUME IInv, Adapter, Truthful, Undecided, SlotNext
  PROVE  /\ exe' \in [RunIds -> Consistent]
         /\ \A q \in RunIds : q # worker[Src].run => exe'[q] = exe[q]
         /\ \A v \in WorkerIds : v # Src => ui'[v] = ui[v]
         /\ worker[Src].eng = "legacy" \/ UNCHANGED exe
<1>1. exe \in [RunIds -> Consistent]
  BY DEF Adapter
<1>2. CASE OnEvent
  BY <1>1, <1>2, EventEffects DEF Elsewhere
<1>3. CASE OnLegacyEnd
  BY <1>1, <1>3, LegacyEndEffects DEF Elsewhere
<1>4. CASE \/ OnPipelineFailed \/ OnPipelineFinished \/ OnAgentFailed \/ OnAgentComplete \/ OnThreadFinished
  BY <1>1, <1>4, ReportEffects DEF ReportHeard
<1> QED BY <1>2, <1>3, <1>4 DEF SlotNext

\* A slot tells the user of its own thread only.
LEMMA SlotUi ==
  ASSUME IInv, SlotNext, NEW v \in WorkerIds, v # Src
  PROVE  ui'[v] = ui[v]
<1>1. Typed /\ Slot(Src)
  BY SlotShapes DEF IInv
<1> QED BY <1>1 DEF Slot, LegacySlot, PipelineSlot, AgentSlot, ThreadSlot, OnThreadFinished, Heard, Typed

\* A classic thread of which the user has heard nothing after its slot: its event was recorded.
LEMMA StillUnheard ==
  ASSUME IInv, Adapter, SlotNext, NEW w \in WorkerIds, w = Src, worker[w].eng = "legacy", ui'[w] = "none"
  PROVE  /\ ui[w] = "none" /\ Unfinished(w)
         /\ StageEvent(Head(queue)) => status'[worker[w].run] = status[worker[w].run]
         /\ ~StageEvent(Head(queue)) => exe'[worker[w].run] = NoExecution
<1>1. /\ exe \in [RunIds -> Consistent] /\ 1 \in 1..Len(queue) /\ Head(queue) = queue[1] /\ w = queue[1].worker
  BY Taken DEF Adapter
<1>2. CASE OnEvent
  <2>1. /\ Head(queue).kind = "event" /\ EventRecorded(w, worker[w].run, Head(queue).what)
    BY <1>1, <1>2, EventEffects DEF EventBroken
  <2> QED BY <1>1, <2>1 DEF EventRecorded, StageEvent, Unfinished
<1>3. CASE OnLegacyEnd
  BY <1>1, <1>3, LegacyEndEffects
<1>4. CASE \/ OnPipelineFailed \/ OnPipelineFinished \/ OnAgentFailed \/ OnAgentComplete \/ OnThreadFinished
  BY <1>4 DEF OnPipelineFailed, OnPipelineFinished, OnAgentFailed, OnAgentComplete, OnThreadFinished
<1> QED BY <1>2, <1>3, <1>4 DEF SlotNext

\* The user hears of a classic thread that is not at its last word only when a write failed.
LEMMA HeardEarly ==
  ASSUME IInv, Adapter, Budgeted, SlotNext, NEW w \in WorkerIds, w = Src, worker[w].eng = "legacy",
         StageEvent(Head(queue)), ui[w] = "none", ui'[w] # "none"
  PROVE  faults' > 0
<1>1. exe \in [RunIds -> Consistent] /\ Head(queue).kind = "event"
  BY DEF Adapter, StageEvent
<1>2. OnEvent
  BY <1>1 DEF SlotNext, OnLegacyEnd, OnPipelineFailed, OnPipelineFinished, OnAgentFailed,
              OnAgentComplete, OnThreadFinished, Posted
<1>3. Fault
  BY <1>1, <1>2, EventEffects DEF EventRecorded, EventBroken
<1> QED BY <1>3, HostAssumption DEF Fault, Budgeted

\* The failures counted only grow.
LEMMA FaultsGrow ==
  ASSUME IInv, Budgeted, [Orderly]_vars
  PROVE  faults' \in 0..MaxFaults /\ (faults > 0 => faults' > 0)
BY FaultsCounted, HostAssumption DEF Budgeted, Fault, NoFault

\* Every step keeps the Runs of unfinished classic threads running.
LEMMA TimelyStep ==
  ASSUME IInv, InTurn, OneThread, Timely, Adapter, Budgeted, [Orderly]_vars
  PROVE  Timely'
<1>0. faults > 0 => faults' > 0
  BY FaultsGrow
<1>1. CASE Quiet
  <2>1. SUFFICES ASSUME NEW v \in WorkerIds, Classic(v)', Unfinished(v)'
                 PROVE  IF ui'[v] = "none" THEN status'[worker'[v].run] = "RUNNING" ELSE faults' > 0
    BY DEF Timely
  <2>2. CASE worker[v].pc # "none"
    <3>1. /\ UNCHANGED <<queue, ui>> /\ worker'[v].run = worker[v].run /\ worker'[v].eng = worker[v].eng
          /\ worker'[v].pc = worker[v].pc
          /\ status[worker[v].run] = "RUNNING" => status'[worker[v].run] = "RUNNING"
      BY <1>1, <2>2, Hushed
    <3>2. Classic(v) /\ Unfinished(v)
      BY <2>1, <2>2, <3>1 DEF Classic, Unfinished
    <3> QED BY <1>0, <3>1, <3>2 DEF Timely
  <2>3. CASE worker[v].pc = "none"
    <3>1. status'[worker'[v].run] = "RUNNING"
      BY <1>1, <2>1, <2>3 DEF Quiet, Classic
    <3>2. ui'[v] = "none"
      BY <1>1, <2>3, Hushed DEF OneWorker
    <3> QED BY <3>1, <3>2
  <2> QED BY <2>2, <2>3
<1>2. ASSUME NEW w \in WorkerIds, NEW m \in Posts, Speaks(w, m) PROVE Timely'
  <2>1. SUFFICES ASSUME NEW v \in WorkerIds, Classic(v)', Unfinished(v)'
                 PROVE  IF ui'[v] = "none" THEN status'[worker'[v].run] = "RUNNING" ELSE faults' > 0
    BY DEF Timely
  <2>2. /\ Typed /\ OneWorker /\ UNCHANGED ui /\ worker'[v].run = worker[v].run /\ worker'[v].eng = worker[v].eng
        /\ worker[v].pc # "none" /\ worker[w].pc # "none" /\ m.worker = w
        /\ \A i \in 1..Len(queue') : \/ i \in 1..Len(queue) /\ queue'[i] = queue[i]
                                     \/ i = Len(queue) + 1 /\ queue'[i] = m
    <3>1. worker'[v].pc # "none"
      BY <2>1 DEF Classic
    <3>2. /\ UNCHANGED ui /\ m.worker = w
          /\ worker'[v].run = worker[v].run /\ worker'[v].eng = worker[v].eng
      BY <1>2 DEF Speaks
    <3> QED BY <1>2, <3>1, <3>2, Spoken
  <2>3. Classic(v)
    BY <2>1, <2>2 DEF Classic
  <2>4. Unfinished(v)
    <3>1. CASE v = w
      <4>1. \/ m.kind = "finished" /\ worker'[w].pc # "running"
            \/ worker[w].pc = "running"
        BY <1>2 DEF Speaks
      <4> QED BY <2>1, <2>2, <3>1, <4>1 DEF Unfinished
    <3>2. CASE v # w
      <4>1. worker'[v] = worker[v]
        BY <1>2, <3>2 DEF Speaks
      <4> QED BY <2>1, <2>2, <3>2, <4>1 DEF Unfinished
    <3> QED BY <3>1, <3>2
  <2>5. worker[v].run \in RunIds
    BY <2>2, RunOfThread
  <2>6. status'[worker[v].run] = status[worker[v].run]
    <3>1. UNCHANGED status \/ \A r \in RunIds : status'[r] = status[r] \/ (r = worker[w].run /\ worker[w].eng # "legacy")
      BY <1>2 DEF Speaks
    <3>2. worker[v].run = worker[w].run => worker[w].eng = "legacy"
      BY <2>2, <2>3 DEF OneWorker, Classic
    <3> QED BY <2>5, <3>1, <3>2
  <2> QED BY <1>0, <2>2, <2>3, <2>4, <2>6 DEF Timely
<1>3. CASE SlotNext
  <2>1. SUFFICES ASSUME NEW v \in WorkerIds, Classic(v)', Unfinished(v)'
                 PROVE  IF ui'[v] = "none" THEN status'[worker'[v].run] = "RUNNING" ELSE faults' > 0
    BY DEF Timely
  <2>2. /\ worker'[v].pc = worker[v].pc /\ worker'[v].run = worker[v].run /\ worker'[v].eng = worker[v].eng
        /\ \A r \in RunIds : r # worker[Src].run => status'[r] = status[r]
    BY <1>3, Taken
  <2>3. Classic(v) /\ Unfinished(v)
    BY <1>3, <2>1, <2>2, UnfinishedBefore DEF Classic
  <2>4. CASE v # Src
    BY <1>0, <1>3, <2>2, <2>3, <2>4, OtherClassic, SlotUi DEF Timely
  <2>5. CASE v = Src
    <3>1. StageEvent(Head(queue))
      BY <1>3, <2>1, <2>5, LastWord
    <3>2. CASE ui'[v] = "none"
      BY <1>3, <2>2, <2>3, <2>5, <3>1, <3>2, StillUnheard DEF Timely, Classic
    <3>3. CASE ui'[v] # "none"
      <4>1. CASE ui[v] = "none"
        BY <1>3, <2>3, <2>5, <3>1, <3>3, <4>1, HeardEarly DEF Classic
      <4>2. CASE ui[v] # "none"
        BY <1>0, <2>3, <3>3, <4>2 DEF Timely
      <4> QED BY <4>1, <4>2
    <3> QED BY <3>2, <3>3
  <2> QED BY <2>4, <2>5
<1> QED BY <1>1, <1>2, <1>3, StepShapes

\* Every step keeps the adapter's idea of the open execution.
LEMMA AdapterStep ==
  ASSUME IInv, OneThread, Timely, Adapter, Truthful, Undecided, [Orderly]_vars
  PROVE  Adapter'
<1>1. CASE Quiet
  <2>1. /\ Typed /\ OneWorker /\ UNCHANGED <<ui, exe>>
        /\ \A v \in WorkerIds : worker[v].pc # "none" =>
             /\ worker'[v].run = worker[v].run /\ worker'[v].eng = worker[v].eng
             /\ worker'[v].pc = worker[v].pc
             /\ status[worker[v].run] = "RUNNING" => status'[worker[v].run] = "RUNNING"
    BY <1>1, Hushed
  <2>2. \A v \in WorkerIds : worker[v].pc = "none" /\ Classic(v)' => status'[worker'[v].run] = "RUNNING"
    BY <1>1 DEF Quiet, Classic
  <2>3. \A v \in WorkerIds : Classic(v) => Classic(v)' /\ worker'[v].run = worker[v].run
    BY <2>1 DEF Classic
  <2>4. ASSUME NEW v \in WorkerIds, Classic(v)', ui'[v] = "none", exe'[worker'[v].run].cur
        PROVE  status'[worker'[v].run] = "RUNNING"
    <3>1. CASE worker[v].pc = "none"
      BY <2>2, <2>4, <3>1
    <3>2. CASE worker[v].pc # "none"
      BY <2>1, <2>4, <3>2 DEF Adapter, Classic
    <3> QED BY <3>1, <3>2
  <2> QED BY <2>1, <2>3, <2>4 DEF Adapter
<1>2. ASSUME NEW w \in WorkerIds, NEW m \in Posts, Speaks(w, m) PROVE Adapter'
  <2>1. /\ Typed /\ OneWorker /\ UNCHANGED <<ui, exe>> /\ worker[w].pc # "none"
        /\ \A v \in WorkerIds : /\ worker'[v].pc # "none" <=> worker[v].pc # "none"
                                /\ worker'[v].run = worker[v].run /\ worker'[v].eng = worker[v].eng
    BY <1>2, Spoken DEF Speaks
  <2>2. UNCHANGED status \/ \A r \in RunIds : status'[r] = status[r] \/ (r = worker[w].run /\ worker[w].eng # "legacy")
    BY <1>2 DEF Speaks
  <2>3. \A v \in WorkerIds : Classic(v)' <=> Classic(v)
    BY <2>1 DEF Classic
  <2>4. ASSUME NEW v \in WorkerIds, Classic(v) PROVE status'[worker[v].run] = status[worker[v].run]
    <3>1. worker[v].run \in RunIds
      BY <2>1, <2>4, RunOfThread DEF Classic
    <3>2. worker[v].run = worker[w].run => worker[w].eng = "legacy"
      BY <2>1, <2>4 DEF OneWorker, Classic
    <3> QED BY <2>2, <3>1, <3>2
  <2> QED BY <2>1, <2>3, <2>4 DEF Adapter
<1>3. CASE SlotNext
  <2>1. /\ Src \in WorkerIds /\ worker[Src].pc # "none" /\ worker[Src].run \in RunIds
        /\ \A v \in WorkerIds : /\ worker'[v].pc = worker[v].pc
                                /\ worker'[v].run = worker[v].run /\ worker'[v].eng = worker[v].eng
        /\ \A r \in RunIds : r # worker[Src].run => status'[r] = status[r]
    BY <1>3, Taken
  <2>2. /\ exe' \in [RunIds -> Consistent]
        /\ \A q \in RunIds : q # worker[Src].run => exe'[q] = exe[q]
        /\ worker[Src].eng = "legacy" \/ UNCHANGED exe
    BY <1>3, SlotKinds
  <2>3. \A v \in WorkerIds : Classic(v)' <=> Classic(v)
    BY <2>1 DEF Classic
  <2>4. ASSUME NEW q \in RunIds, exe'[q].cur PROVE \E v \in WorkerIds : Classic(v)' /\ worker'[v].run = q
    <3>1. CASE exe'[q] = exe[q]
      BY <2>1, <2>3, <2>4, <3>1 DEF Adapter
    <3>2. CASE exe'[q] # exe[q]
      <4>1. q = worker[Src].run /\ Classic(Src)
        BY <2>1, <2>2, <3>2 DEF Classic
      <4> QED BY <2>1, <2>3, <4>1
    <3> QED BY <3>1, <3>2
  <2>5. ASSUME NEW v \in WorkerIds, Classic(v), ui'[v] = "none", exe'[worker[v].run].cur
        PROVE  status'[worker[v].run] = "RUNNING"
    <3>1. CASE v # Src
      <4>1. worker[v].run \in RunIds /\ worker[v].run # worker[Src].run
        BY <1>3, <2>5, <3>1, OtherClassic
      <4>2. ui[v] = "none"
        BY <1>3, <2>5, <3>1, SlotUi
      <4> QED BY <2>1, <2>2, <2>5, <4>1, <4>2 DEF Adapter
    <3>2. CASE v = Src
      <4>1. ~NoExecution.cur
        BY DEF NoExecution
      <4>2. /\ ui[v] = "none" /\ Unfinished(v) /\ StageEvent(Head(queue))
            /\ status'[worker[v].run] = status[worker[v].run]
        BY <1>3, <2>5, <3>2, <4>1, StillUnheard DEF Classic
      <4> QED BY <2>5, <4>2 DEF Timely
    <3> QED BY <3>1, <3>2
  <2> QED BY <2>1, <2>2, <2>3, <2>4, <2>5 DEF Adapter
<1> QED BY <1>1, <1>2, <1>3, StepShapes

\* What a report in the next state says.
TruthNext(m) ==
  m.kind = "finished_ok" =>
    /\ m.what \in {"needs_user", "no_changes"} => status'[worker'[m.worker].run] # "RUNNING"
    /\ m.what = "cancelled" => status'[worker'[m.worker].run] = "CANCELLED" \/ worker'[m.worker].follow

\* Every step keeps the waiting reports true.
LEMMA TruthfulStep ==
  ASSUME IInv, Truthful, [Orderly]_vars
  PROVE  Truthful'
<1>0. SUFFICES \A i \in 1..Len(queue') : TruthNext(queue'[i])
  BY DEF Truthful, TruthNext
<1>1. CASE Quiet
  <2>1. /\ Signals /\ UNCHANGED queue
        /\ \A i \in 1..Len(queue) : queue[i].worker \in WorkerIds /\ worker[queue[i].worker].pc # "none"
        /\ \A v \in WorkerIds : worker[v].pc # "none" =>
             /\ worker[v].run \in RunIds /\ status[worker[v].run] # "none"
             /\ worker'[v].run = worker[v].run
    BY <1>1, Hushed
  <2>2. SUFFICES ASSUME NEW i \in 1..Len(queue), queue[i].kind = "finished_ok" PROVE TruthNext(queue[i])
    BY <2>1 DEF TruthNext
  <2>3. Reports(queue[i]) /\ worker[queue[i].worker].pc # "running"
    BY <2>1, <2>2 DEF Signals, SignalOK, Reports
  <2> DEFINE v == queue[i].worker
             r == worker[v].run
  <2>4. /\ v \in WorkerIds /\ r \in RunIds /\ status[r] # "none" /\ worker'[v].run = r
        /\ worker'[v].follow = worker[v].follow
    BY <1>1, <2>1, <2>3 DEF Quiet
  <2>5. /\ status'[r] = status[r] \/ status[r] \in {"none", "WAITING_USER"}
        /\ status'[r] = "RUNNING" => status[r] = "RUNNING"
    BY <1>1, <2>3, <2>4 DEF Quiet
  <2> QED BY <2>2, <2>4, <2>5 DEF Truthful, TruthNext
<1>2. ASSUME NEW w \in WorkerIds, NEW m \in Posts, Speaks(w, m) PROVE \A i \in 1..Len(queue') : TruthNext(queue'[i])
  <2>1. /\ Typed /\ OneWorker /\ Signals
        /\ \A i \in 1..Len(queue') : \/ i \in 1..Len(queue) /\ queue'[i] = queue[i]
                                     \/ i = Len(queue) + 1 /\ queue'[i] = m
        /\ \A i \in 1..Len(queue) : queue[i].worker \in WorkerIds
    BY <1>2, Spoken
  <2>2. /\ m.worker = w
        /\ UNCHANGED status \/ worker[w].pc = "running"
        /\ \A v \in WorkerIds : worker'[v].run = worker[v].run /\ worker'[v].follow = worker[v].follow
    BY <1>2 DEF Speaks
  <2>3. TruthNext(m)
    BY <1>2, <2>2 DEF Speaks, TruthNext
  <2>4. ASSUME NEW i \in 1..Len(queue) PROVE TruthNext(queue[i])
    <3>1. CASE UNCHANGED status
      BY <2>1, <2>2, <3>1 DEF Truthful, TruthNext
    <3>2. CASE worker[w].pc = "running"
      <4>1. ~Reports(queue[i])
        BY <2>1, <3>2, NoReportYet
      <4>2. queue[i].kind # "finished_ok"
        BY <2>1, <4>1 DEF Signals, SignalOK, Reports
      <4> QED BY <4>2 DEF TruthNext
    <3> QED BY <2>2, <3>1, <3>2
  <2> QED BY <2>1, <2>3, <2>4
<1>3. CASE SlotNext
  <2>1. /\ Typed /\ OneWorker /\ Signals /\ Head(queue) = queue[1] /\ 1 \in 1..Len(queue)
        /\ \A i \in 1..Len(queue') : i + 1 \in 1..Len(queue) /\ queue'[i] = queue[i + 1]
        /\ \A i \in 1..Len(queue) : queue[i].worker \in WorkerIds /\ worker[queue[i].worker].pc # "none"
        /\ \A v \in WorkerIds : worker'[v].run = worker[v].run /\ worker'[v].follow = worker[v].follow
    BY <1>3, Taken
  <2>2. SUFFICES ASSUME NEW i \in 1..Len(queue'), queue'[i].kind = "finished_ok" PROVE TruthNext(queue'[i])
    BY DEF TruthNext
  <2> DEFINE j == i + 1
             v == queue[j].worker
  <2>3. /\ j \in 1..Len(queue) /\ j # 1 /\ queue'[i] = queue[j] /\ queue[j].kind = "finished_ok"
        /\ v \in WorkerIds /\ worker[v].pc # "none"
    BY <2>1, <2>2
  <2> HIDE DEF j
  <2>4. Reports(queue[j]) /\ worker[v].eng # "legacy"
    BY <2>1, <2>3 DEF Signals, SignalOK, Reports
  <2>5. ~Reports(Head(queue))
    BY <2>1, <2>3, <2>4, OneReport
  <2>6. status'[worker[v].run] = status[worker[v].run]
    BY <1>3, <2>3, <2>4, <2>5, SlotStatus DEF IInv
  <2> QED BY <2>1, <2>3, <2>6 DEF Truthful, TruthNext
<1> QED BY <1>1, <1>2, <1>3, StepShapes

\* While the user has not heard of the active thread and there is nothing to decide on, no
\* request starts or decides anything: only the thread itself moves its Run.
LEMMA NothingDecided ==
  ASSUME IInv, [Orderly]_vars, ~SlotNext, active.worker # 0, ui[active.worker] = "none",
         active.props = {}, main.pc \notin DecisionSteps
  PROVE  /\ active'.props = {} /\ main'.pc \notin DecisionSteps
         /\ UNCHANGED status \/ \E w \in WorkerIds : WorkerNext(w)
         /\ \A v \in WorkerIds : worker[v].pc = "none" => worker'[v].pc = "none"
<1>1. Typed /\ OneRun /\ OneWorker /\ Following
  BY DEF IInv
<1>2. ~UiQuiet
  BY DEF UiQuiet
<1>3. CASE UserNext
  <2>1. ~\E e \in Engines, s \in Sessions : Start(e, s) \/ StartFails(e, s)
    BY <1>2 DEF Start, StartFails, StartAdmitted
  <2>2. ~(OldTreeKept \/ FollowUpCheck)
    BY <1>2 DEF OldTreeKept, StartAdmitted, FollowUpCheck
  <2>3. ~(Reject \/ \E wanted \in SUBSET Paths : ApplyCheck(wanted))
    BY DEF Reject, ApplyCheck, Deciding
  <2>4. CASE Cancel \/ ShutdownAsk
    <3>1. UNCHANGED <<active, status>> /\ (UNCHANGED main \/ main' = [Idle EXCEPT !.pc = "stopping"])
      BY <2>4 DEF Cancel, ShutdownAsk
    <3>2. \A v \in WorkerIds : worker'[v].pc = worker[v].pc
      <4>1. CASE Cancel
        BY <1>1, <4>1, ActiveFacts DEF Cancel, Alive, Typed, Threads
      <4>2. CASE ShutdownAsk
        BY <1>1, <4>2, ActiveFacts DEF ShutdownAsk, Alive, Typed, Threads
      <4> QED BY <2>4, <4>1, <4>2
    <3> QED BY <3>1, <3>2 DEF Idle, DecisionSteps
  <2>5. CASE (\E r \in RunIds : Undo(r)) \/ \E p \in Paths : Edit(p)
    BY <2>5 DEF Undo, Edit
  <2> QED BY <1>3, <2>1, <2>2, <2>3, <2>4, <2>5 DEF UserNext
<1>4. ~ApplyNext
  BY DEF ApplyNext, Checkpoint, Write, ApplySettle, Restore, RejectSettle, DecisionRelease, DecisionSteps
<1>5. ~FollowUpStart
  BY <1>1 DEF FollowUpStart, Following
<1>6. CASE ShutdownRelease
  BY <1>1, <1>6, ShutdownReleaseKeeps DEF DecisionSteps
<1>7. ASSUME NEW w \in WorkerIds, WorkerNext(w)
      PROVE  UNCHANGED <<active, main>> /\ \A v \in WorkerIds : worker[v].pc = "none" => worker'[v].pc = "none"
  <2>1. UNCHANGED <<active, main>>
    BY <1>7 DEF WorkerNext, Resume, Raise, LegacyRead, LegacyHash, LegacyCancelled, Exit, Report, LegacyEmit, WorkerOnly
  <2>2. worker[w].pc # "none" /\ \A v \in WorkerIds : v # w => worker'[v] = worker[v]
    BY <1>1, <1>7 DEF WorkerNext, Resume, Raise, LegacyRead, LegacyHash, LegacyCancelled, Exit, Report, LegacyEmit, Typed
  <2> QED BY <2>1, <2>2
<1>8. CASE \E d \in Deliveries : DeliveryNext(d)
  BY <1>8 DEF DeliveryNext, Capture, Lease, Validate, Return, DeliveryStep
<1>9. ASSUME NEW r \in RunIds, DrainBegin(r) \/ DrainEnd(r)
      PROVE  active'.props = {} /\ UNCHANGED <<main, status, worker>>
  BY <1>1, <1>9, DrainEndKeeps DEF DrainBegin
<1>10. CASE UNCHANGED vars
  BY <1>10 DEF vars
<1> QED BY <1>3, <1>4, <1>5, <1>6, <1>7, <1>8, <1>9, <1>10 DEF Orderly

\* Only a pipeline's follow-up starts as one.
LEMMA Newcomer ==
  ASSUME IInv, [Orderly]_vars, NEW w \in WorkerIds, worker[w].pc = "none", worker'[w].pc # "none", worker'[w].follow
  PROVE  /\ worker'[w].run = active.run /\ worker'[w].eng = "pipeline" /\ active.run \in RunIds
         /\ status'[active.run] = "WAITING_USER" /\ active'.props = {} /\ main'.pc \notin DecisionSteps
         /\ UNCHANGED queue /\ \A i \in 1..Len(queue) : queue[i].kind # "event"
<1>1. Typed /\ OneRun /\ OneWorker /\ Signals /\ Recorded /\ Following
  BY DEF IInv
<1>2. CASE UserNext
  <2>1. ASSUME NEW e \in Engines, NEW s \in Sessions, Start(e, s) PROVE FALSE
    BY <1>1, <2>1, StartKeeps
  <2>2. CASE Cancel \/ ShutdownAsk
    <3>1. worker'[w].pc = worker[w].pc
      <4>1. CASE Cancel
        BY <1>1, <4>1, ActiveFacts DEF Cancel, Alive, Typed, Threads
      <4>2. CASE ShutdownAsk
        BY <1>1, <4>2, ActiveFacts DEF ShutdownAsk, Alive, Typed, Threads
      <4> QED BY <2>2, <4>1, <4>2
    <3> QED BY <3>1
  <2>3. CASE \/ OldTreeKept \/ FollowUpCheck \/ Reject \/ \E wanted \in SUBSET Paths : ApplyCheck(wanted)
             \/ \E r \in RunIds : Undo(r)
             \/ \E p \in Paths : Edit(p)
             \/ \E e \in Engines, s \in Sessions : StartFails(e, s)
    <3>1. UNCHANGED worker
      BY <2>3 DEF OldTreeKept, FollowUpCheck, Reject, ApplyCheck, Undo, Edit, StartFails
    <3> QED BY <3>1
  <2> QED BY <1>2, <2>1, <2>2, <2>3 DEF UserNext
<1>3. CASE ApplyNext
  <2>1. UNCHANGED worker
    BY <1>3 DEF ApplyNext, Checkpoint, Write, ApplySettle, Restore, RejectSettle, DecisionRelease, ApplyFrame
  <2> QED BY <2>1
<1>4. CASE SlotNext
  BY <1>1, <1>4, SlotKeeps
<1>5. CASE FollowUpStart
  <2>1. /\ active.run \in RunIds /\ main.pc = "follow" /\ main' = Idle /\ UNCHANGED queue
        /\ FreeWorker \in WorkerIds /\ Follower(FreeWorker, active.run)
        /\ active'.props = {}
        /\ status'[active.run] = IF active.engine = "agent" THEN "RUNNING" ELSE status[active.run]
    BY <1>1, <1>5, FollowUpStartKeeps
  <2>2. w = FreeWorker
    BY <2>1 DEF Follower
  <2>3. worker'[w].run = active.run /\ worker'[w].eng = active.engine /\ active.engine = "pipeline"
    BY <2>1, <2>2 DEF Follower
  <2>4. status[active.run] = "WAITING_USER" /\ active.worker # 0 /\ ui[active.worker] # "none"
    BY <1>1, <2>1 DEF Following
  <2>5. \A i \in 1..Len(queue) : queue[i].kind # "event"
    BY <1>1, <2>3, <2>4 DEF Signals, NoEventLeft
  <2> QED BY <2>1, <2>3, <2>4, <2>5 DEF Idle, DecisionSteps
<1>6. CASE ShutdownRelease
  BY <1>1, <1>6, ShutdownReleaseKeeps
<1>7. ASSUME NEW v \in WorkerIds, WorkerNext(v) PROVE FALSE
  <2>1. worker[v].pc # "none" /\ (v # w => worker'[w] = worker[w])
    BY <1>1, <1>7 DEF WorkerNext, Resume, Raise, LegacyRead, LegacyHash, LegacyCancelled, Exit, Report, LegacyEmit, Typed
  <2> QED BY <2>1
<1>8. CASE \E d \in Deliveries : DeliveryNext(d)
  <2>1. UNCHANGED worker
    BY <1>8 DEF DeliveryNext, Capture, Lease, Validate, Return, DeliveryStep
  <2> QED BY <2>1
<1>9. CASE \E r \in RunIds : DrainBegin(r) \/ DrainEnd(r)
  <2>1. UNCHANGED worker
    BY <1>9 DEF DrainBegin, DrainEnd
  <2> QED BY <2>1
<1>10. CASE UNCHANGED vars
  BY <1>10 DEF vars
<1> QED BY <1>2, <1>3, <1>4, <1>5, <1>6, <1>7, <1>8, <1>9, <1>10 DEF Orderly

\* What is said of a thread in the next state.
UndecidedNext(w) ==
  /\ status'[worker'[w].run] = "WAITING_USER" /\ worker'[w].eng = "pipeline"
  /\ active'.props = {} /\ main'.pc \notin DecisionSteps
  /\ \A i \in 1..Len(queue') : queue'[i].kind # "event"

\* A slot, and a follow-up that has not been heard of.
LEMMA UndecidedSlot ==
  ASSUME IInv, Undecided, SlotNext, NEW w \in WorkerIds, worker[w].pc # "none", worker[w].follow, ui'[w] = "none"
  PROVE  UndecidedNext(w)
<1>1. Typed /\ OneRun /\ OneWorker /\ Signals /\ Recorded
  BY DEF IInv
<1>2. /\ Src \in WorkerIds /\ worker[Src].pc # "none" /\ worker[Src].run \in RunIds
      /\ 1 \in 1..Len(queue) /\ Head(queue) = queue[1] /\ Src = queue[1].worker
      /\ \A i \in 1..Len(queue') : i + 1 \in 1..Len(queue) /\ queue'[i] = queue[i + 1]
  BY Taken
<1>3. /\ worker'[w].run = worker[w].run /\ worker'[w].eng = worker[w].eng /\ main'.pc = "idle"
      /\ ui[w] = "none"
  BY <1>1, SlotKeeps DEF Idle
<1>4. /\ status[worker[w].run] = "WAITING_USER" /\ worker[w].eng = "pipeline"
      /\ active.props = {} /\ w = active.worker
      /\ \A i \in 1..Len(queue) : queue[i].kind # "event"
  BY <1>1, <1>3 DEF Undecided, OneWorker
<1>5. ~Reports(Head(queue))
  <2>1. SUFFICES ASSUME Reports(Head(queue)) PROVE FALSE
    OBVIOUS
  <2>2. ui[Src] = "none"
    BY <1>1, <1>2, <2>1 DEF Signals, SignalOK
  <2>3. Src = w
    BY <1>1, <1>2, <1>4, <2>2 DEF OneWorker
  <2>4. worker[Src].eng = "pipeline" /\ active.run = worker[Src].run
    BY <1>1, <1>2, <1>4, <2>3, Bounds DEF OneRun
  <2>5. CASE OnPipelineFailed \/ OnPipelineFinished
    <3>1. ~Overtaken(worker[Src].run)
      BY <2>4 DEF Overtaken
    <3>2. \E said \in {"done", "failed", "cancelled"} : Finish(Src, said)
      <4>1. CASE OnPipelineFailed
        BY <3>1, <4>1 DEF OnPipelineFailed
      <4>2. CASE OnPipelineFinished
        <5>1. Head(queue).what \in Reportable
          BY <1>1, <1>2, <4>2 DEF OnPipelineFinished, Posted, Signals, SignalOK
        <5>2. \/ FinishReport(Src, worker[Src].run, Head(queue).what)
              \/ Misread(Src, worker[Src].run, Head(queue).what) \/ Finish(Src, "failed")
          BY <3>1, <4>2 DEF OnPipelineFinished, Published, ReportLost
        <5> QED BY <5>1, <5>2 DEF FinishReport, Misread, SettleOrFail, Reportable
      <4> QED BY <2>5, <4>1, <4>2
    <3> QED BY <1>1, <1>2, <1>3, <2>3, <3>2, FinishSays
  <2>6. CASE OnEvent \/ OnLegacyEnd \/ OnAgentFailed \/ OnAgentComplete \/ OnThreadFinished
    BY <1>2, <1>4, <2>1, <2>4, <2>6
       DEF OnEvent, OnLegacyEnd, OnAgentFailed, OnAgentComplete, OnThreadFinished, Posted, Reports
  <2> QED BY <2>5, <2>6 DEF SlotNext
<1>6. active'.props = {}
  BY <1>1, <1>2, <1>4, <1>5, SlotProps
<1>7. status'[worker[w].run] = status[worker[w].run]
  BY <1>1, <1>4, <1>5, SlotStatus
<1>8. \A i \in 1..Len(queue') : queue'[i].kind # "event"
  BY <1>2, <1>4
<1> QED BY <1>3, <1>4, <1>6, <1>7, <1>8 DEF UndecidedNext, DecisionSteps

\* Every step keeps a follow-up that has not been heard of undecided.
LEMMA UndecidedStep ==
  ASSUME IInv, Undecided, [Orderly]_vars
  PROVE  Undecided'
<1>1. Typed /\ OneRun /\ OneWorker /\ Signals /\ Recorded
  BY DEF IInv
<1>2. SUFFICES ASSUME NEW w \in WorkerIds, worker'[w].pc # "none", worker'[w].follow, ui'[w] = "none"
               PROVE  UndecidedNext(w)
  BY DEF Undecided, UndecidedNext
<1>3. CASE worker[w].pc = "none"
  BY <1>2, <1>3, Newcomer DEF UndecidedNext
<1>4. CASE worker[w].pc # "none" /\ SlotNext
  <2>1. worker[w].follow
    BY <1>1, <1>2, <1>4, SlotKeeps
  <2> QED BY <1>2, <1>4, <2>1, UndecidedSlot
<1>5. CASE worker[w].pc # "none" /\ ~SlotNext
  <2>1. /\ worker'[w].run = worker[w].run /\ worker'[w].eng = worker[w].eng
        /\ UNCHANGED ui
    BY <1>5, StepShapes DEF Quiet, Speaks
  <2>2. worker[w].follow
    BY <1>2, <1>5, StepShapes DEF Quiet, Speaks
  <2>3. /\ status[worker[w].run] = "WAITING_USER" /\ worker[w].eng = "pipeline"
        /\ active.props = {} /\ main.pc \notin DecisionSteps /\ ui[w] = "none"
        /\ w = active.worker /\ w # 0 /\ worker[w].run \in RunIds
        /\ \A i \in 1..Len(queue) : queue[i].kind # "event"
    BY <1>1, <1>2, <1>5, <2>1, <2>2, RunOfThread, Bounds DEF Undecided, OneWorker
  <2>4. active'.props = {} /\ main'.pc \notin DecisionSteps
    BY <1>5, <2>3, NothingDecided
  <2>5. status'[worker[w].run] = "WAITING_USER"
    <3>1. CASE UNCHANGED status
      BY <2>3, <3>1
    <3>2. ASSUME NEW v \in WorkerIds, WorkerNext(v) PROVE status'[worker[w].run] = "WAITING_USER"
      <4>1. CASE Resume(v)
        <5>1. v # w
          BY <1>1, <1>2, <4>1 DEF Resume, Typed, Threads
        <5> QED BY <1>1, <2>3, <4>1, <5>1 DEF Resume, OneWorker
      <4>2. CASE LegacyRead(v) \/ LegacyHash(v)
        BY <2>3, <4>2 DEF LegacyRead, LegacyHash
      <4>3. CASE \E m \in Posts : Speaks(v, m)
        BY <2>3, <4>3 DEF Speaks
      <4> QED BY <3>2, <4>1, <4>2, <4>3, WorkersSpeak
    <3> QED BY <1>5, <2>3, <3>1, <3>2, NothingDecided
  <2>6. \A i \in 1..Len(queue') : queue'[i].kind # "event"
    <3>1. CASE Quiet
      BY <2>3, <3>1 DEF Quiet
    <3>2. ASSUME NEW v \in WorkerIds, NEW m \in Posts, Speaks(v, m)
          PROVE  \A i \in 1..Len(queue') : queue'[i].kind # "event"
      <4>1. /\ Len(queue') = Len(queue) + 1 /\ Len(queue) \in Nat
            /\ \A i \in 1..Len(queue') : \/ i \in 1..Len(queue) /\ queue'[i] = queue[i]
                                         \/ i = Len(queue) + 1 /\ queue'[i] = m
        BY <3>2, Spoken
      <4>2. m.kind # "event"
        <5>1. SUFFICES ASSUME m.kind = "event" PROVE FALSE
          OBVIOUS
        <5>2. v = w
          BY <1>1, <2>3, <3>2, <5>1 DEF Speaks, OneWorker
        <5>3. queue'[Len(queue) + 1] = m /\ Len(queue) + 1 \in 1..Len(queue')
          BY <4>1
        <5>4. \A i \in 1..Len(queue') : queue'[i].kind = "event" => worker'[queue'[i].worker].eng = "legacy"
          BY NextIInv DEF IInv, Signals, SignalOK
        <5>5. worker'[w].eng = "legacy"
          BY <3>2, <5>1, <5>2, <5>3, <5>4 DEF Speaks
        <5> QED BY <2>1, <2>3, <5>5
      <4> QED BY <2>3, <4>1, <4>2
    <3> QED BY <1>5, <3>1, <3>2, StepShapes
  <2> QED BY <2>1, <2>3, <2>4, <2>5, <2>6 DEF UndecidedNext
<1> QED BY <1>3, <1>4, <1>5

\* Every step keeps the rest of the types.
LEMMA BudgetStep ==
  ASSUME IInv, Budgeted, [Orderly]_vars
  PROVE  Budgeted'
<1>0. faults' \in 0..MaxFaults
  BY FaultsGrow
<1>1. broken' \in {broken, TRUE}
  <2>1. CASE UserNext
    BY <2>1 DEF UserNext, Start, StartFails, OldTreeKept, FollowUpCheck, Cancel, Reject, ShutdownAsk, ApplyCheck,
                Undo, Edit, project, published
  <2>2. CASE ApplyNext
    BY <2>2 DEF ApplyNext, Checkpoint, Write, ApplySettle, DecisionRelease, RejectSettle, Restore, project, published
  <2>3. CASE SlotNext
    BY <2>3, SlotShapes DEF IInv, Slot, SlotFrame
  <2>4. CASE FollowUpStart \/ ShutdownRelease
    BY <2>4 DEF FollowUpStart, ShutdownRelease, project, published
  <2>5. ASSUME NEW w \in WorkerIds, WorkerNext(w) PROVE UNCHANGED broken
    BY <2>5 DEF WorkerNext, Resume, Raise, LegacyRead, LegacyHash, LegacyCancelled, Exit, Report, LegacyEmit, WorkerOnly, project, published
  <2>6. ASSUME NEW d \in Deliveries, DeliveryNext(d) PROVE UNCHANGED broken
    BY <2>6 DEF DeliveryNext, Capture, Lease, Validate, Return, DeliveryStep, project, published
  <2>7. ASSUME NEW r \in RunIds, DrainBegin(r) \/ DrainEnd(r) PROVE UNCHANGED broken
    BY <2>7 DEF DrainBegin, DrainEnd, project, published
  <2>8. CASE UNCHANGED vars
    BY <2>8 DEF vars
  <2> QED BY <2>1, <2>2, <2>3, <2>4, <2>5, <2>6, <2>7, <2>8 DEF Orderly
<1> QED BY <1>0, <1>1 DEF Budgeted

-----------------------------------------------------------------------------
(* How Runs end                                                            *)

EndInv == IInv /\ InTurn /\ OneThread /\ Timely /\ Adapter /\ Truthful /\ Undecided /\ Budgeted

\* The second invariant holds at the start.
LEMMA InitEndInv == Init => EndInv
<1> SUFFICES ASSUME Init PROVE EndInv
  OBVIOUS
<1>1. \A w \in WorkerIds : worker[w].pc = "none"
  BY DEF Init, NoWorker
<1>2. queue = <<>> /\ InTurn /\ Truthful
  BY DEF Init, InTurn, Truthful
<1>3. OneThread /\ Timely /\ Undecided
  BY <1>1 DEF OneThread, Timely, Undecided, Classic
<1>4. Adapter
  <2>1. exe = [r \in RunIds |-> NoExecution] /\ ~NoExecution.cur
    BY DEF Init, NoExecution
  <2> QED BY <1>1, <2>1 DEF Adapter, Classic, Consistent
<1>5. Budgeted
  <2>1. faults = 0 /\ broken = FALSE
    BY DEF Init
  <2>2. faults \in 0..MaxFaults
    BY <2>1, HostAssumption
  <2>3. broken \in BOOLEAN
    BY <2>1
  <2> QED BY <2>2, <2>3 DEF Budgeted
<1> QED BY <1>2, <1>3, <1>4, <1>5, InitIInv DEF EndInv

\* Every step keeps the second invariant.
LEMMA NextEndInv == EndInv /\ [Orderly]_vars => EndInv'
<1> SUFFICES ASSUME EndInv, [Orderly]_vars PROVE EndInv'
  OBVIOUS
<1>1. IInv /\ InTurn /\ OneThread /\ Timely /\ Adapter /\ Truthful /\ Undecided /\ Budgeted
  BY DEF EndInv
<1>2. IInv'
  BY <1>1, NextIInv
<1>3. InTurn' /\ OneThread' /\ Timely' /\ Adapter' /\ Truthful' /\ Undecided' /\ Budgeted'
  BY <1>1, InTurnStep, OneThreadStep, TimelyStep, AdapterStep, TruthfulStep, UndecidedStep, BudgetStep
<1> QED BY <1>2, <1>3 DEF EndInv

\* The second invariant holds throughout.
LEMMA EndInvariance == Spec => [](strayed \/ EndInv)
<1>1. Init => strayed \/ EndInv
  BY InitEndInv
<1>2. (strayed \/ EndInv) /\ [Next]_vars => (strayed \/ EndInv)'
  <2> SUFFICES ASSUME strayed \/ EndInv, [Next]_vars PROVE (strayed \/ EndInv)'
    OBVIOUS
  <2>1. CASE strayed
    <3>1. strayed'
      BY <2>1 DEF Next, vars
    <3> QED BY <3>1
  <2>2. CASE EndInv
    <3>1. CASE Straying /\ strayed' = TRUE
      BY <3>1
    <3>2. CASE [Orderly]_vars
      BY <2>2, <3>2, NextEndInv
    <3> QED BY <3>1, <3>2 DEF Next
  <2> QED BY <2>1, <2>2
<1> QED BY <1>1, <1>2, PTL DEF Spec

\* The mark of a stray thread is a Boolean.
LEMMA StrayedTyped == Spec => [](strayed \in BOOLEAN)
<1>1. Init => strayed \in BOOLEAN
  BY DEF Init
<1>2. strayed \in BOOLEAN /\ [Next]_vars => (strayed \in BOOLEAN)'
  BY DEF Next, vars
<1> QED BY <1>1, <1>2, PTL DEF Spec

\* Every variable of the host has its type, as long as no thread strays.
THEOREM HostTypes == Spec => [](~strayed => TypeOK)
<1>1. (strayed \/ EndInv) /\ strayed \in BOOLEAN => (~strayed => TypeOK)
  <2> SUFFICES ASSUME EndInv, strayed \in BOOLEAN PROVE TypeOK
    OBVIOUS
  <2>1. Typed /\ Safe /\ Adapter /\ Budgeted
    BY DEF EndInv, IInv
  <2>2. Consistent \subseteq Executions
    BY DEF Consistent, NoExecution, Executions
  <2>3. exe \in [RunIds -> Executions]
    BY <2>1, <2>2 DEF Adapter
  <2>4. lost \subseteq Contents
    BY <2>1 DEF Safe, Typed
  <2> QED BY <2>1, <2>3, <2>4 DEF TypeOK, Typed, Budgeted
<1> QED BY <1>1, EndInvariance, StrayedTyped, PTL

\* The slot of a Run that has ended leaves it, unless it is an event of the classic engine that
\* was posted before a failed write was told to the user.
LEMMA EndedBySlot ==
  ASSUME EndInv, SlotNext, NEW r \in RunIds, status[r] \in Terminal, status'[r] # status[r]
  PROVE  faults > 0 /\ \E w \in WorkerIds : worker[w].run = r /\ worker[w].eng = "legacy"
<1>1. /\ IInv /\ Timely /\ Adapter /\ Typed /\ OneWorker /\ Signals /\ Recorded
      /\ exe \in [RunIds -> Consistent]
  BY DEF EndInv, IInv, Adapter
<1>2. /\ Src \in WorkerIds /\ r = worker[Src].run /\ worker[Src].pc # "none"
      /\ 1 \in 1..Len(queue) /\ Head(queue) = queue[1] /\ Src = queue[1].worker
  BY <1>1, Taken
<1>3. CASE OnEvent
  <2>1. /\ worker[Src].eng = "legacy" /\ Head(queue).kind = "event"
        /\ EventRecorded(Src, r, Head(queue).what) \/ EventBroken(Src, r)
    BY <1>1, <1>2, <1>3, EventEffects
  <2>2. Classic(Src) /\ Unfinished(Src)
    BY <1>2, <2>1 DEF Classic, Unfinished
  <2>3. status[r] # "RUNNING"
    BY DEF Terminal
  <2>4. faults > 0
    BY <1>1, <1>2, <2>2, <2>3 DEF Timely
  <2> QED BY <1>2, <2>1, <2>4
<1>4. CASE OnLegacyEnd
  BY <1>1, <1>2, <1>4, LegacyEndEffects DEF RunSettles
<1>5. CASE \/ OnPipelineFailed \/ OnPipelineFinished \/ OnAgentFailed \/ OnAgentComplete \/ OnThreadFinished
  <2>1. worker[Src].eng # "legacy"
    BY <1>5 DEF OnPipelineFailed, OnPipelineFinished, OnAgentFailed, OnAgentComplete, OnThreadFinished
  <2>2. Slot(Src)
    BY <1>1, SlotShapes
  <2>3. RunSettles(r) \/ UNCHANGED status
    BY <1>2, <2>1, <2>2 DEF Slot, LegacySlot, PipelineSlot, AgentSlot, ThreadSlot, OnThreadFinished
  <2> QED BY <2>3 DEF RunSettles
<1> QED BY <1>3, <1>4, <1>5 DEF SlotNext

\* A Run that ended stays as it ended, whatever order slots, decisions and workers come in
\* (finish_normal, finish_failed, finish_cancelled, record_proposal_applied, the recorders'
\* guards), but for the classic engine's events after a failed write.
THEOREM EndedRunsStay == Spec => SettledStays
<1>1. ASSUME EndInv, [Orderly]_vars
      PROVE  \A r \in RunIds :
               status[r] \in Terminal =>
                 \/ status'[r] = status[r]
                 \/ faults > 0 /\ \E w \in WorkerIds : worker[w].run = r /\ worker[w].eng = "legacy"
  <2>1. CASE Quiet
    BY <2>1 DEF Quiet, Terminal
  <2>2. ASSUME NEW w \in WorkerIds, NEW m \in Posts, Speaks(w, m)
        PROVE  \A r \in RunIds : status[r] \in Terminal => status'[r] = status[r]
    BY <2>2 DEF Speaks, Terminal
  <2>3. CASE SlotNext
    BY <1>1, <2>3, EndedBySlot
  <2>4. IInv
    BY <1>1 DEF EndInv
  <2> QED BY <1>1, <2>1, <2>2, <2>3, <2>4, StepShapes
<1>2. ASSUME EndInv, Straying
      PROVE  \A r \in RunIds : status[r] \in Terminal => status'[r] = status[r]
  <2>1. CASE FollowUpStrays
    BY <2>1 DEF FollowUpStrays
  <2>2. ASSUME NEW s \in Sessions, StartStrays(s)
        PROVE  \A r \in RunIds : status[r] \in Terminal => status'[r] = status[r]
    <3>1. FreeRun \in RunIds /\ status[FreeRun] = "none"
      BY <2>2, FreeRunIsFree DEF StartStrays, StartAdmitted
    <3>2. \E st \in {"FAILED", "RUNNING"} : status' = [status EXCEPT ![FreeRun] = st]
      BY <2>2 DEF StartStrays
    <3>3. Typed
      BY <1>2 DEF EndInv, IInv
    <3> QED BY <3>1, <3>2, <3>3 DEF Typed, Terminal
  <2> QED BY <1>2, <2>1, <2>2 DEF Straying
<1>3. ASSUME strayed \/ EndInv, [Next]_vars
      PROVE  \A r \in RunIds :
               ~strayed /\ status[r] \in Terminal =>
                 \/ status'[r] = status[r]
                 \/ faults > 0 /\ \E w \in WorkerIds : worker[w].run = r /\ worker[w].eng = "legacy"
  BY <1>1, <1>2, <1>3 DEF Next
<1> QED BY <1>3, EndInvariance, PTL DEF Spec, SettledStays

\* What the user may hear.
LEMMA NextUi ==
  ASSUME IInv, [Orderly]_vars, NEW w \in WorkerIds, ui'[w] # "none"
  PROVE  ui'[w] \in {"done", "failed", "cancelled"}
<1>1. ui' \in [WorkerIds -> {"none", "done", "failed", "cancelled"}]
  BY NextIInv DEF IInv, Typed
<1> QED BY <1>1

\* What the user is told when a slot ends a thread's Run.
LEMMA ToldBySlot ==
  ASSUME EndInv, SlotNext, NEW w \in WorkerIds, ui'[w] # ui[w]
  PROVE  /\ ui'[w] = "done" => status'[worker[w].run] # "RUNNING"
         /\ ui'[w] = "cancelled" => status'[worker[w].run] = "CANCELLED"
         /\ status'[worker[w].run] \in {"FAILED", "CANCELLED", "WAITING_USER"} => exe'[worker[w].run].open = 0
<1> DEFINE r == worker[w].run
<1>1. /\ IInv /\ Timely /\ Adapter /\ Truthful /\ Undecided /\ Typed /\ OneWorker
      /\ exe \in [RunIds -> Consistent]
  BY DEF EndInv, IInv, Adapter
<1>2. w = Src
  BY <1>1, SlotUi
<1>3. /\ r \in RunIds /\ worker[w].pc # "none"
      /\ 1 \in 1..Len(queue) /\ Head(queue) = queue[1] /\ w = queue[1].worker
  BY <1>1, <1>2, Taken
<1>4. NoExecution.open = 0 /\ ~NoExecution.cur
  BY DEF NoExecution
<1>5. worker[w].eng = "legacy" /\ ui[w] = "none" /\ status[r] # "RUNNING" => exe[r] = NoExecution
  <2>1. exe[r] \in Consistent
    BY <1>1, <1>3
  <2>2. worker[w].eng = "legacy" /\ ui[w] = "none" /\ status[r] # "RUNNING" => ~exe[r].cur
    BY <1>1, <1>3 DEF Adapter, Classic
  <2> QED BY <2>1, <2>2 DEF Consistent
<1>6. worker[w].eng = "legacy" /\ ui[w] = "none" /\ Head(queue).kind \in {"event", "cancelled"} => status[r] = "RUNNING"
  BY <1>1, <1>3 DEF Timely, Classic, Unfinished
<1>7. CASE OnEvent
  <2>1. /\ worker[w].eng = "legacy" /\ Head(queue).kind = "event" /\ EventBroken(w, r)
    BY <1>1, <1>2, <1>3, <1>7, EventEffects DEF EventRecorded
  <2>2. /\ ui[w] = "none" /\ ui'[w] = "failed" /\ status'[r] \in {status[r], "FAILED"}
        /\ status'[r] # status[r] => exe'[r] = NoExecution
    BY <2>1 DEF EventBroken
  <2> HIDE DEF r
  <2>3. /\ status[r] = "RUNNING"
    BY <1>6, <2>1, <2>2
  <2>4. status'[r] \in {"FAILED", "CANCELLED", "WAITING_USER"} => exe'[r].open = 0
    BY <1>4, <2>2, <2>3
  <2> QED BY <2>2, <2>4 DEF r
<1>8. CASE OnLegacyEnd
  <2>1. /\ worker[w].eng = "legacy" /\ ui[w] = "none" /\ ui'[w] # "none" /\ Told(w, r)
        /\ exe'[r] \in {exe[r], NoExecution}
        /\ ui'[w] = "cancelled" => Head(queue).kind = "cancelled"
        /\ Head(queue).kind \in {"failed", "cancelled", "finished"}
    BY <1>1, <1>2, <1>8, LegacyEndEffects
  <2>2. ui'[w] \in {"done", "failed", "cancelled"}
    BY <1>1, <2>1, NextUi DEF Orderly
  <2> HIDE DEF r
  <2>3. ui'[w] = "cancelled" => status'[r] = "CANCELLED"
    BY <1>6, <2>1 DEF Told, Terminal
  <2>4. ui'[w] = "done" => status'[r] # "RUNNING"
    BY <2>1 DEF Told
  <2>5. status'[r] = status[r] /\ status[r] # "RUNNING" => exe'[r] = NoExecution
    BY <1>5, <2>1
  <2>6. status'[r] \in {"FAILED", "CANCELLED", "WAITING_USER"} => exe'[r] = NoExecution
    BY <2>1, <2>2, <2>5 DEF Told, Terminal
  <2> QED BY <1>4, <2>3, <2>4, <2>6 DEF r
<1>9. CASE \/ OnPipelineFailed \/ OnPipelineFinished \/ OnAgentFailed \/ OnAgentComplete \/ OnThreadFinished
  <2>1. worker[w].eng # "legacy" /\ ReportHeard(w, r)
    BY <1>1, <1>2, <1>9, ReportEffects
  <2>2. exe'[r] = NoExecution
    BY <1>1, <1>3, <2>1, NoneOfOthers DEF ReportHeard
  <2> QED BY <1>4, <2>1, <2>2 DEF ReportHeard
<1> QED BY <1>7, <1>8, <1>9 DEF SlotNext

\* run.finished never claims more than the store knows (finish(), on_event, on_worker_*,
\* on_pipeline_*, the agent's complete and fail), and a Run that is then failed, cancelled or
\* waiting has no execution left open (LegacyEventAdapter).
THEOREM UserToldTheTruth == Spec => HonestFinish
<1>1. ASSUME EndInv, [Orderly]_vars
      PROVE  \A w \in WorkerIds :
               ui'[w] # ui[w] =>
                 /\ ui'[w] = "done" => status'[worker[w].run] # "RUNNING"
                 /\ ui'[w] = "cancelled" => status'[worker[w].run] = "CANCELLED"
                 /\ status'[worker[w].run] \in {"FAILED", "CANCELLED", "WAITING_USER"} => exe'[worker[w].run].open = 0
  <2>1. Quiet => UNCHANGED ui
    BY DEF Quiet
  <2>2. ASSUME NEW w \in WorkerIds, NEW m \in Posts, Speaks(w, m) PROVE UNCHANGED ui
    BY <2>2 DEF Speaks
  <2>3. IInv
    BY <1>1 DEF EndInv
  <2> QED BY <1>1, <2>1, <2>2, <2>3, StepShapes, ToldBySlot
<1>2. ASSUME Straying PROVE UNCHANGED ui
  BY <1>2 DEF Straying, StartStrays, FollowUpStrays
<1>3. ASSUME strayed \/ EndInv, [Next]_vars
      PROVE  \A w \in WorkerIds :
               ~strayed /\ ui'[w] # ui[w] =>
                 /\ ui'[w] = "done" => status'[worker[w].run] # "RUNNING"
                 /\ ui'[w] = "cancelled" => status'[worker[w].run] = "CANCELLED"
                 /\ status'[worker[w].run] \in {"FAILED", "CANCELLED", "WAITING_USER"} => exe'[worker[w].run].open = 0
  BY <1>1, <1>2, <1>3 DEF Next
<1> QED BY <1>3, EndInvariance, PTL DEF Spec, HonestFinish

=============================================================================
