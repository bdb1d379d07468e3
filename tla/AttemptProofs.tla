---------------------------- MODULE AttemptProofs ----------------------------
(***************************************************************************)
(* An attempt has one outcome, its tools run at most once and only with    *)
(* leave, its processes are gone, and a reader left the workspace alone:   *)
(* for every number of call ids, turns, calls, errors, updates and faults. *)
(*                                                                         *)
(* The three mechanisms share their variables but not their steps: the     *)
(* invariant keeps them apart (Apart), says where an attempt that has come *)
(* back must stand, so that no later step can touch its outcome (Ended),   *)
(* and follows a tool call (Once) and the processes (Reaped) on their way. *)
(***************************************************************************)
EXTENDS WorkerAttempt, SequenceTheorems, TLAPS

\* TypeOK, by the component that declares the variables, and the counters apart.
OutcomeTyped ==
  /\ kind \in Kinds /\ cancel \in BOOLEAN /\ broken \in BOOLEAN
  /\ record \in [completed : Nat, failed : Nat]
  /\ report \in {"none", "completed", "timeout", "cancelled", "failed"}

SessionTyped ==
  /\ state \in {"ready", "running", "waiting_approval", "completed", "failed"}
  /\ at \in {"idle", "respond", "model", "batch", "tool", "approval", "over"}
  /\ batch \in Seq(CallIds) /\ cur \in CallIds \cup {"none"}
  /\ DOMAIN prepared \subseteq CallIds /\ granted \subseteq CallIds
  /\ ran \in [CallIds -> Nat]

TreeTyped ==
  /\ procs \in [Names -> {"none", "alive", "dead"}]
  /\ targets \subseteq Names /\ owed \subseteq Names
  /\ primary \in {"none", "timeout", "cancelled", "failed"} /\ cleanup \in BOOLEAN

AcpTyped ==
  /\ fatal \in {"none", "protocol", "limit", "sink"}
  /\ prompt \in {"none", "pending", "done", "error", "cancelling"}
  /\ wrote \in {"no", "before", "after"}

Counted ==
  /\ faults \in 0..MaxFaults
  /\ turns \in 0..MaxTurns /\ calls \in 0..MaxCalls
  /\ errors \in 0..MaxErrors + 1 /\ updates \in 0..MaxUpdates + 1

Typed == OutcomeTyped /\ SessionTyped /\ TreeTyped /\ AcpTyped /\ Counted

\* The native session touches neither process nor connection, and the others not it.
Apart ==
  /\ kind # "native" => at = "idle"
  /\ kind = "native" => phase = "idle"

\* Nothing is recorded before the call comes back, and then whoever carried the
\* attempt out has stopped; a cancelled end was asked for, and only a supervised
\* process ends by its deadline.
Ended ==
  /\ report = "none" => record = [completed |-> 0, failed |-> 0]
  /\ report # "none" => IF kind = "native" THEN at = "over" ELSE phase = "done"
  /\ primary = "cancelled" => cancel
  /\ primary = "timeout" => kind = "process"
  /\ OneOutcome

\* The session goes on while its errors are within the limit, a tool that runs or
\* waits is a call of the batch, and updates are accepted up to the limit.
Limits ==
  /\ at # "over" => errors <= MaxErrors
  /\ at \in {"tool", "approval"} => batch # <<>>
  /\ fatal = "none" => updates <= MaxUpdates

\* What runs was prepared, and the user is asked for a call that has not run.
Once ==
  /\ at = "approval" =>
       cur \in CallIds /\ cur \in DOMAIN prepared /\ prepared[cur] = "ask" /\ ran[cur] = 0
  /\ \A c \in CallIds : ran[c] # 0 => c \in DOMAIN prepared
  /\ ApprovedOnce

\* Everything that was within reach is a target, and only what ever lived; the root
\* lives from the spawn on, the walk finds it if it still does, and after a kill
\* without a cleanup error no target lives.
Reaped ==
  /\ owed = targets
  /\ \A p \in owed : procs[p] # "none"
  /\ phase \in {"idle", "spawn"} => procs["root"] = "none"
  /\ phase \in {"idle", "spawn", "init", "session", "prompt", "settle", "cleanup", "wait"} => owed = {}
  /\ phase = "kill" => (procs["root"] = "alive" => "root" \in targets)
  /\ phase \in {"killed", "join", "record", "checked", "done"} /\ ~cleanup =>
       owed \cap Alive = {} /\ procs["root"] # "alive"
  /\ kind = "process" /\ phase = "done" /\ report \in {"completed", "timeout"} => ~PipeHeld

\* A reader whose workspace was looked at came back without an error and had not
\* written; only a process that escaped its cleanup writes after that.
Believed ==
  /\ phase = "checked" => kind = "reader" /\ ~cleanup /\ primary = "none" /\ wrote # "before"
  /\ wrote = "after" => phase \in {"checked", "done"} /\ Escaped
  /\ ReaderChangedNothing

\* The inductive invariant.
IInv == Typed /\ Apart /\ Ended /\ Limits /\ Once /\ Reaped /\ Believed

-----------------------------------------------------------------------------
(* Batches of tool calls                                                   *)

\* The calls that are left are a batch again.
LEMMA TailOfBatch ==
  ASSUME NEW s \in Seq(CallIds), s # <<>>
  PROVE  Tail(s) \in Seq(CallIds)
BY HeadTailProperties

\* What a model turn may ask for is a batch, and not an empty one.
LEMMA TurnsAreSequences ==
  ASSUME NEW s \in Batches
  PROVE  s \in Seq(CallIds) /\ s # <<>>
<1>1. PICK n \in 1..MaxBatch : s \in [1..n -> CallIds]
  BY DEF Batches
<1>2. n \in Nat /\ n >= 1
  BY SessionAssumption
<1>3. s \in Seq(CallIds)
  BY <1>1, <1>2, SeqDef
<1>4. Len(s) = n
  BY <1>1, <1>2, <1>3, LenProperties
<1> QED  BY <1>2, <1>3, <1>4, EmptySeq

\* _record_tool_error: the session goes on only within the limit.
LEMMA ToolErrorCounts ==
  ASSUME ToolError, errors \in Nat, MaxErrors \in Nat
  PROVE  /\ at' \in {"batch", "over"}
         /\ at' # "over" => errors' <= MaxErrors
<1>1. CASE errors + 1 > MaxErrors
  BY <1>1 DEF ToolError, Fail
<1>2. CASE ~(errors + 1 > MaxErrors)
  <2>1. errors' = errors + 1 /\ at' = "batch"
    BY <1>2 DEF ToolError
  <2> QED  BY <1>2, <2>1
<1> QED  BY <1>1, <1>2

-----------------------------------------------------------------------------
(* One lemma per step                                                      *)

\* SessionStart keeps the invariant.
LEMMA SessionStartStep ==
  ASSUME IInv, SessionStart, UNCHANGED <<treeVars, acpVars>>
  PROVE  IInv'
<1>1. OutcomeTyped'
  BY DEF IInv, Typed, OutcomeTyped, TreeTyped, Kinds, SessionStart, Fail, RecordFailed,
     attemptVars, sessionVars, treeVars, acpVars
<1>2. SessionTyped'
  BY SessionAssumption DEF IInv, Typed, SessionTyped, Apart, Limits, SessionStart, Fail,
     RecordFailed, attemptVars, sessionVars, treeVars, acpVars
<1>3. TreeTyped'
  BY DEF IInv, Typed, TreeTyped, Names, SessionStart, Fail, RecordFailed, attemptVars,
     sessionVars, treeVars, acpVars
<1>4. AcpTyped'
  BY DEF IInv, Typed, AcpTyped, SessionStart, Fail, RecordFailed, attemptVars, sessionVars,
     treeVars, acpVars
<1>5. Counted'
  BY AttemptAssumption, SessionAssumption, AcpAssumption DEF IInv, Typed, Counted, Limits,
     SessionStart, Fail, RecordFailed, attemptVars, sessionVars, treeVars, acpVars
<1>6. Apart'
  BY DEF IInv, Typed, OutcomeTyped, SessionTyped, TreeTyped, AcpTyped, Apart, SessionStart, Fail,
     RecordFailed, attemptVars, sessionVars, treeVars, acpVars
<1>7. Ended'
  BY DEF IInv, Typed, OutcomeTyped, SessionTyped, TreeTyped, AcpTyped, Kinds, Apart, Ended,
     OneOutcome, Once, SessionStart, Fail, RecordFailed, attemptVars,
     sessionVars, treeVars, acpVars
<1>8. Limits'
  BY SessionAssumption, AcpAssumption DEF IInv, Typed, OutcomeTyped, SessionTyped, TreeTyped,
     AcpTyped, Counted, Limits, Apart, SessionStart, Fail, RecordFailed, attemptVars, sessionVars,
     treeVars, acpVars
<1>9. Once'
  BY DEF IInv, Typed, OutcomeTyped, SessionTyped, TreeTyped, AcpTyped, Apart, Once, ApprovedOnce,
     SessionStart, Fail, RecordFailed, attemptVars, sessionVars, treeVars, acpVars
<1>10. Reaped'
  BY DEF IInv, Typed, OutcomeTyped, SessionTyped, TreeTyped, AcpTyped, Apart, Reaped, PipeHeld,
     Alive, Names, SessionStart, Fail, RecordFailed, attemptVars, sessionVars, treeVars, acpVars
<1>11. Believed'
  BY DEF IInv, Typed, OutcomeTyped, TreeTyped, AcpTyped, Apart, Ended, Reaped, Believed,
     ReaderChangedNothing, Escaped, Alive, Names, SessionStart, Fail, RecordFailed, attemptVars,
     sessionVars, treeVars, acpVars
<1> QED  BY <1>1, <1>2, <1>3, <1>4, <1>5, <1>6, <1>7, <1>8, <1>9, <1>10, <1>11 DEF IInv, Typed

\* Respond keeps the invariant.
LEMMA RespondStep ==
  ASSUME IInv, Respond, UNCHANGED <<treeVars, acpVars>>
  PROVE  IInv'
<1>1. OutcomeTyped'
  BY DEF IInv, Typed, OutcomeTyped, TreeTyped, Kinds, Respond, Fail, RecordFailed, attemptVars,
     sessionVars, treeVars, acpVars
<1>2. SessionTyped'
  BY SessionAssumption DEF IInv, Typed, SessionTyped, Apart, Limits, Respond, Fail, RecordFailed,
     attemptVars, sessionVars, treeVars, acpVars
<1>3. TreeTyped'
  BY DEF IInv, Typed, TreeTyped, Names, Respond, Fail, RecordFailed, attemptVars, sessionVars,
     treeVars, acpVars
<1>4. AcpTyped'
  BY DEF IInv, Typed, AcpTyped, Respond, Fail, RecordFailed, attemptVars, sessionVars, treeVars,
     acpVars
<1>5. Counted'
  BY AttemptAssumption, SessionAssumption, AcpAssumption DEF IInv, Typed, Counted, Limits,
     Respond, Fail, RecordFailed, attemptVars, sessionVars, treeVars, acpVars
<1>6. Apart'
  BY DEF IInv, Typed, OutcomeTyped, SessionTyped, TreeTyped, AcpTyped, Apart, Respond, Fail,
     RecordFailed, attemptVars, sessionVars, treeVars, acpVars
<1>7. Ended'
  BY DEF IInv, Typed, OutcomeTyped, SessionTyped, TreeTyped, AcpTyped, Kinds, Apart, Ended,
     OneOutcome, Once, Respond, Fail, RecordFailed, attemptVars,
     sessionVars, treeVars, acpVars
<1>8. Limits'
  BY SessionAssumption, AcpAssumption DEF IInv, Typed, OutcomeTyped, SessionTyped, TreeTyped,
     AcpTyped, Counted, Limits, Apart, Respond, Fail, RecordFailed, attemptVars, sessionVars,
     treeVars, acpVars
<1>9. Once'
  BY DEF IInv, Typed, OutcomeTyped, SessionTyped, TreeTyped, AcpTyped, Apart, Once, ApprovedOnce,
     Respond, Fail, RecordFailed, attemptVars, sessionVars, treeVars, acpVars
<1>10. Reaped'
  BY DEF IInv, Typed, OutcomeTyped, SessionTyped, TreeTyped, AcpTyped, Apart, Reaped, PipeHeld,
     Alive, Names, Respond, Fail, RecordFailed, attemptVars, sessionVars, treeVars, acpVars
<1>11. Believed'
  BY DEF IInv, Typed, OutcomeTyped, TreeTyped, AcpTyped, Apart, Ended, Reaped, Believed,
     ReaderChangedNothing, Escaped, Alive, Names, Respond, Fail, RecordFailed, attemptVars,
     sessionVars, treeVars, acpVars
<1> QED  BY <1>1, <1>2, <1>3, <1>4, <1>5, <1>6, <1>7, <1>8, <1>9, <1>10, <1>11 DEF IInv, Typed

\* ModelCallsTools keeps the invariant.
LEMMA ModelCallsToolsStep ==
  ASSUME IInv, ModelCallsTools, UNCHANGED <<treeVars, acpVars>>
  PROVE  IInv'
<1>0. batch' \in Seq(CallIds) /\ batch' # <<>>
  BY TurnsAreSequences DEF ModelCallsTools
<1>1. OutcomeTyped'
  BY DEF IInv, Typed, OutcomeTyped, TreeTyped, Kinds, ModelCallsTools, attemptVars, sessionVars,
     treeVars, acpVars
<1>2. SessionTyped'
  BY <1>0, SessionAssumption DEF IInv, Typed, SessionTyped, Apart, Limits, ModelCallsTools,
     attemptVars, sessionVars, treeVars, acpVars
<1>3. TreeTyped'
  BY DEF IInv, Typed, TreeTyped, Names, ModelCallsTools, attemptVars, sessionVars, treeVars,
     acpVars
<1>4. AcpTyped'
  BY DEF IInv, Typed, AcpTyped, ModelCallsTools, attemptVars, sessionVars, treeVars, acpVars
<1>5. Counted'
  BY AttemptAssumption, SessionAssumption, AcpAssumption DEF IInv, Typed, Counted, Limits,
     ModelCallsTools, attemptVars, sessionVars, treeVars, acpVars
<1>6. Apart'
  BY DEF IInv, Typed, OutcomeTyped, SessionTyped, TreeTyped, AcpTyped, Apart, ModelCallsTools,
     attemptVars, sessionVars, treeVars, acpVars
<1>7. Ended'
  BY DEF IInv, Typed, OutcomeTyped, SessionTyped, TreeTyped, AcpTyped, Kinds, Apart, Ended,
     OneOutcome, Once, ModelCallsTools, attemptVars, sessionVars, treeVars,
     acpVars
<1>8. Limits'
  BY <1>0, SessionAssumption, AcpAssumption DEF IInv, Typed, OutcomeTyped, SessionTyped,
     TreeTyped, AcpTyped, Counted, Limits, Apart, ModelCallsTools, attemptVars, sessionVars,
     treeVars, acpVars
<1>9. Once'
  BY DEF IInv, Typed, OutcomeTyped, SessionTyped, TreeTyped, AcpTyped, Apart, Once, ApprovedOnce,
     ModelCallsTools, attemptVars, sessionVars, treeVars, acpVars
<1>10. Reaped'
  BY DEF IInv, Typed, OutcomeTyped, SessionTyped, TreeTyped, AcpTyped, Apart, Reaped, PipeHeld,
     Alive, Names, ModelCallsTools, attemptVars, sessionVars, treeVars, acpVars
<1>11. Believed'
  BY DEF IInv, Typed, OutcomeTyped, TreeTyped, AcpTyped, Apart, Ended, Reaped, Believed,
     ReaderChangedNothing, Escaped, Alive, Names, ModelCallsTools, attemptVars, sessionVars,
     treeVars, acpVars
<1> QED  BY <1>1, <1>2, <1>3, <1>4, <1>5, <1>6, <1>7, <1>8, <1>9, <1>10, <1>11 DEF IInv, Typed

\* ModelCompletes keeps the invariant.
LEMMA ModelCompletesStep ==
  ASSUME IInv, ModelCompletes, UNCHANGED <<treeVars, acpVars>>
  PROVE  IInv'
<1>1. OutcomeTyped'
  BY DEF IInv, Typed, OutcomeTyped, TreeTyped, Kinds, ModelCompletes, RecordCompleted,
     attemptVars, sessionVars, treeVars, acpVars
<1>2. SessionTyped'
  BY SessionAssumption DEF IInv, Typed, SessionTyped, Apart, Limits, ModelCompletes,
     RecordCompleted, attemptVars, sessionVars, treeVars, acpVars
<1>3. TreeTyped'
  BY DEF IInv, Typed, TreeTyped, Names, ModelCompletes, RecordCompleted, attemptVars, sessionVars,
     treeVars, acpVars
<1>4. AcpTyped'
  BY DEF IInv, Typed, AcpTyped, ModelCompletes, RecordCompleted, attemptVars, sessionVars,
     treeVars, acpVars
<1>5. Counted'
  BY AttemptAssumption, SessionAssumption, AcpAssumption DEF IInv, Typed, Counted, Limits,
     ModelCompletes, RecordCompleted, attemptVars, sessionVars, treeVars, acpVars
<1>6. Apart'
  BY DEF IInv, Typed, OutcomeTyped, SessionTyped, TreeTyped, AcpTyped, Apart, ModelCompletes,
     RecordCompleted, attemptVars, sessionVars, treeVars, acpVars
<1>7. Ended'
  BY DEF IInv, Typed, OutcomeTyped, SessionTyped, TreeTyped, AcpTyped, Kinds, Apart, Ended,
     OneOutcome, Once, ModelCompletes, RecordCompleted, attemptVars,
     sessionVars, treeVars, acpVars
<1>8. Limits'
  BY SessionAssumption, AcpAssumption DEF IInv, Typed, OutcomeTyped, SessionTyped, TreeTyped,
     AcpTyped, Counted, Limits, Apart, ModelCompletes, RecordCompleted, attemptVars, sessionVars,
     treeVars, acpVars
<1>9. Once'
  BY DEF IInv, Typed, OutcomeTyped, SessionTyped, TreeTyped, AcpTyped, Apart, Once, ApprovedOnce,
     ModelCompletes, RecordCompleted, attemptVars, sessionVars, treeVars, acpVars
<1>10. Reaped'
  BY DEF IInv, Typed, OutcomeTyped, SessionTyped, TreeTyped, AcpTyped, Apart, Reaped, PipeHeld,
     Alive, Names, ModelCompletes, RecordCompleted, attemptVars, sessionVars, treeVars, acpVars
<1>11. Believed'
  BY DEF IInv, Typed, OutcomeTyped, TreeTyped, AcpTyped, Apart, Ended, Reaped, Believed,
     ReaderChangedNothing, Escaped, Alive, Names, ModelCompletes, RecordCompleted, attemptVars,
     sessionVars, treeVars, acpVars
<1> QED  BY <1>1, <1>2, <1>3, <1>4, <1>5, <1>6, <1>7, <1>8, <1>9, <1>10, <1>11 DEF IInv, Typed

\* ModelFails keeps the invariant.
LEMMA ModelFailsStep ==
  ASSUME IInv, ModelFails, UNCHANGED <<treeVars, acpVars>>
  PROVE  IInv'
<1>1. OutcomeTyped'
  BY DEF IInv, Typed, OutcomeTyped, TreeTyped, Kinds, ModelFails, Fail, RecordFailed, attemptVars,
     sessionVars, treeVars, acpVars
<1>2. SessionTyped'
  BY SessionAssumption DEF IInv, Typed, SessionTyped, Apart, Limits, ModelFails, Fail,
     RecordFailed, attemptVars, sessionVars, treeVars, acpVars
<1>3. TreeTyped'
  BY DEF IInv, Typed, TreeTyped, Names, ModelFails, Fail, RecordFailed, attemptVars, sessionVars,
     treeVars, acpVars
<1>4. AcpTyped'
  BY DEF IInv, Typed, AcpTyped, ModelFails, Fail, RecordFailed, attemptVars, sessionVars,
     treeVars, acpVars
<1>5. Counted'
  BY AttemptAssumption, SessionAssumption, AcpAssumption DEF IInv, Typed, Counted, Limits,
     ModelFails, Fail, RecordFailed, attemptVars, sessionVars, treeVars, acpVars
<1>6. Apart'
  BY DEF IInv, Typed, OutcomeTyped, SessionTyped, TreeTyped, AcpTyped, Apart, ModelFails, Fail,
     RecordFailed, attemptVars, sessionVars, treeVars, acpVars
<1>7. Ended'
  BY DEF IInv, Typed, OutcomeTyped, SessionTyped, TreeTyped, AcpTyped, Kinds, Apart, Ended,
     OneOutcome, Once, ModelFails, Fail, RecordFailed, attemptVars,
     sessionVars, treeVars, acpVars
<1>8. Limits'
  BY SessionAssumption, AcpAssumption DEF IInv, Typed, OutcomeTyped, SessionTyped, TreeTyped,
     AcpTyped, Counted, Limits, Apart, ModelFails, Fail, RecordFailed, attemptVars, sessionVars,
     treeVars, acpVars
<1>9. Once'
  BY DEF IInv, Typed, OutcomeTyped, SessionTyped, TreeTyped, AcpTyped, Apart, Once, ApprovedOnce,
     ModelFails, Fail, RecordFailed, attemptVars, sessionVars, treeVars, acpVars
<1>10. Reaped'
  BY DEF IInv, Typed, OutcomeTyped, SessionTyped, TreeTyped, AcpTyped, Apart, Reaped, PipeHeld,
     Alive, Names, ModelFails, Fail, RecordFailed, attemptVars, sessionVars, treeVars, acpVars
<1>11. Believed'
  BY DEF IInv, Typed, OutcomeTyped, TreeTyped, AcpTyped, Apart, Ended, Reaped, Believed,
     ReaderChangedNothing, Escaped, Alive, Names, ModelFails, Fail, RecordFailed, attemptVars,
     sessionVars, treeVars, acpVars
<1> QED  BY <1>1, <1>2, <1>3, <1>4, <1>5, <1>6, <1>7, <1>8, <1>9, <1>10, <1>11 DEF IInv, Typed

\* RefuseCall keeps the invariant.
LEMMA RefuseCallStep ==
  ASSUME IInv, RefuseCall, UNCHANGED <<treeVars, acpVars>>
  PROVE  IInv'
<1>1. OutcomeTyped'
  BY DEF IInv, Typed, OutcomeTyped, TreeTyped, Kinds, RefuseCall, Fail, RecordFailed, InHand,
     attemptVars, sessionVars, treeVars, acpVars
<1>2. SessionTyped'
  BY SessionAssumption DEF IInv, Typed, SessionTyped, Apart, Limits, RefuseCall, Fail,
     RecordFailed, InHand, attemptVars, sessionVars, treeVars, acpVars
<1>3. TreeTyped'
  BY DEF IInv, Typed, TreeTyped, Names, RefuseCall, Fail, RecordFailed, InHand, attemptVars,
     sessionVars, treeVars, acpVars
<1>4. AcpTyped'
  BY DEF IInv, Typed, AcpTyped, RefuseCall, Fail, RecordFailed, InHand, attemptVars, sessionVars,
     treeVars, acpVars
<1>5. Counted'
  BY AttemptAssumption, SessionAssumption, AcpAssumption DEF IInv, Typed, Counted, Limits,
     RefuseCall, Fail, RecordFailed, InHand, attemptVars, sessionVars, treeVars, acpVars
<1>6. Apart'
  BY DEF IInv, Typed, OutcomeTyped, SessionTyped, TreeTyped, AcpTyped, Apart, RefuseCall, Fail,
     RecordFailed, InHand, attemptVars, sessionVars, treeVars, acpVars
<1>7. Ended'
  BY DEF IInv, Typed, OutcomeTyped, SessionTyped, TreeTyped, AcpTyped, Kinds, Apart, Ended,
     OneOutcome, Once, RefuseCall, Fail, RecordFailed, InHand, attemptVars,
     sessionVars, treeVars, acpVars
<1>8. Limits'
  BY SessionAssumption, AcpAssumption DEF IInv, Typed, OutcomeTyped, SessionTyped, TreeTyped,
     AcpTyped, Counted, Limits, Apart, RefuseCall, Fail, RecordFailed, InHand, attemptVars,
     sessionVars, treeVars, acpVars
<1>9. Once'
  BY DEF IInv, Typed, OutcomeTyped, SessionTyped, TreeTyped, AcpTyped, Apart, Once, ApprovedOnce,
     RefuseCall, Fail, RecordFailed, InHand, attemptVars, sessionVars, treeVars, acpVars
<1>10. Reaped'
  BY DEF IInv, Typed, OutcomeTyped, SessionTyped, TreeTyped, AcpTyped, Apart, Reaped, PipeHeld,
     Alive, Names, RefuseCall, Fail, RecordFailed, InHand, attemptVars, sessionVars, treeVars,
     acpVars
<1>11. Believed'
  BY DEF IInv, Typed, OutcomeTyped, TreeTyped, AcpTyped, Apart, Ended, Reaped, Believed,
     ReaderChangedNothing, Escaped, Alive, Names, RefuseCall, Fail, RecordFailed, InHand,
     attemptVars, sessionVars, treeVars, acpVars
<1> QED  BY <1>1, <1>2, <1>3, <1>4, <1>5, <1>6, <1>7, <1>8, <1>9, <1>10, <1>11 DEF IInv, Typed

\* ToolReturns keeps the invariant.
LEMMA ToolReturnsStep ==
  ASSUME IInv, ToolReturns, UNCHANGED <<treeVars, acpVars>>
  PROVE  IInv'
<1>0. Tail(batch) \in Seq(CallIds)
  BY TailOfBatch DEF IInv, Typed, SessionTyped, Limits, ToolReturns
<1>1. OutcomeTyped'
  BY DEF IInv, Typed, OutcomeTyped, TreeTyped, Kinds, ToolReturns, attemptVars, sessionVars,
     treeVars, acpVars
<1>2. SessionTyped'
  BY <1>0, SessionAssumption DEF IInv, Typed, SessionTyped, Apart, Limits, ToolReturns,
     attemptVars, sessionVars, treeVars, acpVars
<1>3. TreeTyped'
  BY DEF IInv, Typed, TreeTyped, Names, ToolReturns, attemptVars, sessionVars, treeVars, acpVars
<1>4. AcpTyped'
  BY DEF IInv, Typed, AcpTyped, ToolReturns, attemptVars, sessionVars, treeVars, acpVars
<1>5. Counted'
  BY AttemptAssumption, SessionAssumption, AcpAssumption DEF IInv, Typed, Counted, Limits,
     ToolReturns, attemptVars, sessionVars, treeVars, acpVars
<1>6. Apart'
  BY DEF IInv, Typed, OutcomeTyped, SessionTyped, TreeTyped, AcpTyped, Apart, ToolReturns,
     attemptVars, sessionVars, treeVars, acpVars
<1>7. Ended'
  BY DEF IInv, Typed, OutcomeTyped, SessionTyped, TreeTyped, AcpTyped, Kinds, Apart, Ended,
     OneOutcome, Once, ToolReturns, attemptVars, sessionVars, treeVars,
     acpVars
<1>8. Limits'
  BY <1>0, SessionAssumption, AcpAssumption DEF IInv, Typed, OutcomeTyped, SessionTyped,
     TreeTyped, AcpTyped, Counted, Limits, Apart, ToolReturns, attemptVars, sessionVars, treeVars,
     acpVars
<1>9. Once'
  BY DEF IInv, Typed, OutcomeTyped, SessionTyped, TreeTyped, AcpTyped, Apart, Once, ApprovedOnce,
     ToolReturns, attemptVars, sessionVars, treeVars, acpVars
<1>10. Reaped'
  BY DEF IInv, Typed, OutcomeTyped, SessionTyped, TreeTyped, AcpTyped, Apart, Reaped, PipeHeld,
     Alive, Names, ToolReturns, attemptVars, sessionVars, treeVars, acpVars
<1>11. Believed'
  BY DEF IInv, Typed, OutcomeTyped, TreeTyped, AcpTyped, Apart, Ended, Reaped, Believed,
     ReaderChangedNothing, Escaped, Alive, Names, ToolReturns, attemptVars, sessionVars, treeVars,
     acpVars
<1> QED  BY <1>1, <1>2, <1>3, <1>4, <1>5, <1>6, <1>7, <1>8, <1>9, <1>10, <1>11 DEF IInv, Typed

\* ToolRaises keeps the invariant.
LEMMA ToolRaisesStep ==
  ASSUME IInv, ToolRaises, UNCHANGED <<treeVars, acpVars>>
  PROVE  IInv'
<1>0. Tail(batch) \in Seq(CallIds)
  BY TailOfBatch DEF IInv, Typed, SessionTyped, Limits, ToolRaises, ToolError, Fail, RecordFailed, InHand
<1>1. OutcomeTyped'
  BY DEF IInv, Typed, OutcomeTyped, TreeTyped, Kinds, ToolRaises, ToolError, Fail, RecordFailed,
     InHand, attemptVars, sessionVars, treeVars, acpVars
<1>2. SessionTyped'
  BY <1>0, SessionAssumption DEF IInv, Typed, SessionTyped, Apart, Limits, ToolRaises, ToolError,
     Fail, RecordFailed, InHand, attemptVars, sessionVars, treeVars, acpVars
<1>3. TreeTyped'
  BY DEF IInv, Typed, TreeTyped, Names, ToolRaises, ToolError, Fail, RecordFailed, InHand,
     attemptVars, sessionVars, treeVars, acpVars
<1>4. AcpTyped'
  BY DEF IInv, Typed, AcpTyped, ToolRaises, ToolError, Fail, RecordFailed, InHand, attemptVars,
     sessionVars, treeVars, acpVars
<1>5. Counted'
  BY AttemptAssumption, SessionAssumption, AcpAssumption DEF IInv, Typed, Counted, Limits,
     ToolRaises, ToolError, Fail, RecordFailed, InHand, attemptVars, sessionVars, treeVars,
     acpVars
<1>6. Apart'
  BY DEF IInv, Typed, OutcomeTyped, SessionTyped, TreeTyped, AcpTyped, Apart, ToolRaises,
     ToolError, Fail, RecordFailed, InHand, attemptVars, sessionVars, treeVars, acpVars
<1>7. Ended'
  BY DEF IInv, Typed, OutcomeTyped, SessionTyped, TreeTyped, AcpTyped, Kinds, Apart, Ended,
     OneOutcome, Once, ToolRaises, ToolError, Fail, RecordFailed, InHand,
     attemptVars, sessionVars, treeVars, acpVars
<1>8. Limits'
  <2>1. errors \in Nat /\ MaxErrors \in Nat
    BY SessionAssumption DEF IInv, Typed, Counted
  <2>2. ToolError
    BY DEF ToolRaises
  <2> HIDE DEF ToolError
  <2>3. fatal' = fatal /\ updates' = updates
    BY DEF acpVars
  <2> QED  BY <2>1, <2>2, <2>3, ToolErrorCounts DEF IInv, Limits
<1>9. Once'
  BY DEF IInv, Typed, OutcomeTyped, SessionTyped, TreeTyped, AcpTyped, Apart, Once, ApprovedOnce,
     ToolRaises, ToolError, Fail, RecordFailed, InHand, attemptVars, sessionVars, treeVars,
     acpVars
<1>10. Reaped'
  BY DEF IInv, Typed, OutcomeTyped, SessionTyped, TreeTyped, AcpTyped, Apart, Reaped, PipeHeld,
     Alive, Names, ToolRaises, ToolError, Fail, RecordFailed, InHand, attemptVars, sessionVars,
     treeVars, acpVars
<1>11. Believed'
  BY DEF IInv, Typed, OutcomeTyped, TreeTyped, AcpTyped, Apart, Ended, Reaped, Believed,
     ReaderChangedNothing, Escaped, Alive, Names, ToolRaises, ToolError, Fail, RecordFailed,
     InHand, attemptVars, sessionVars, treeVars, acpVars
<1> QED  BY <1>1, <1>2, <1>3, <1>4, <1>5, <1>6, <1>7, <1>8, <1>9, <1>10, <1>11 DEF IInv, Typed

\* BatchDone keeps the invariant.
LEMMA BatchDoneStep ==
  ASSUME IInv, BatchDone, UNCHANGED <<treeVars, acpVars>>
  PROVE  IInv'
<1>1. OutcomeTyped'
  BY DEF IInv, Typed, OutcomeTyped, TreeTyped, Kinds, BatchDone, attemptVars, sessionVars,
     treeVars, acpVars
<1>2. SessionTyped'
  BY SessionAssumption DEF IInv, Typed, SessionTyped, Apart, Limits, BatchDone, attemptVars,
     sessionVars, treeVars, acpVars
<1>3. TreeTyped'
  BY DEF IInv, Typed, TreeTyped, Names, BatchDone, attemptVars, sessionVars, treeVars, acpVars
<1>4. AcpTyped'
  BY DEF IInv, Typed, AcpTyped, BatchDone, attemptVars, sessionVars, treeVars, acpVars
<1>5. Counted'
  BY AttemptAssumption, SessionAssumption, AcpAssumption DEF IInv, Typed, Counted, Limits,
     BatchDone, attemptVars, sessionVars, treeVars, acpVars
<1>6. Apart'
  BY DEF IInv, Typed, OutcomeTyped, SessionTyped, TreeTyped, AcpTyped, Apart, BatchDone,
     attemptVars, sessionVars, treeVars, acpVars
<1>7. Ended'
  BY DEF IInv, Typed, OutcomeTyped, SessionTyped, TreeTyped, AcpTyped, Kinds, Apart, Ended,
     OneOutcome, Once, BatchDone, attemptVars, sessionVars, treeVars,
     acpVars
<1>8. Limits'
  BY SessionAssumption, AcpAssumption DEF IInv, Typed, OutcomeTyped, SessionTyped, TreeTyped,
     AcpTyped, Counted, Limits, Apart, BatchDone, attemptVars, sessionVars, treeVars, acpVars
<1>9. Once'
  BY DEF IInv, Typed, OutcomeTyped, SessionTyped, TreeTyped, AcpTyped, Apart, Once, ApprovedOnce,
     BatchDone, attemptVars, sessionVars, treeVars, acpVars
<1>10. Reaped'
  BY DEF IInv, Typed, OutcomeTyped, SessionTyped, TreeTyped, AcpTyped, Apart, Reaped, PipeHeld,
     Alive, Names, BatchDone, attemptVars, sessionVars, treeVars, acpVars
<1>11. Believed'
  BY DEF IInv, Typed, OutcomeTyped, TreeTyped, AcpTyped, Apart, Ended, Reaped, Believed,
     ReaderChangedNothing, Escaped, Alive, Names, BatchDone, attemptVars, sessionVars, treeVars,
     acpVars
<1> QED  BY <1>1, <1>2, <1>3, <1>4, <1>5, <1>6, <1>7, <1>8, <1>9, <1>10, <1>11 DEF IInv, Typed

\* ResumeCancelled keeps the invariant.
LEMMA ResumeCancelledStep ==
  ASSUME IInv, ResumeCancelled, UNCHANGED <<treeVars, acpVars>>
  PROVE  IInv'
<1>1. OutcomeTyped'
  BY DEF IInv, Typed, OutcomeTyped, TreeTyped, Kinds, ResumeCancelled, Fail, RecordFailed,
     attemptVars, sessionVars, treeVars, acpVars
<1>2. SessionTyped'
  BY SessionAssumption DEF IInv, Typed, SessionTyped, Apart, Limits, ResumeCancelled, Fail,
     RecordFailed, attemptVars, sessionVars, treeVars, acpVars
<1>3. TreeTyped'
  BY DEF IInv, Typed, TreeTyped, Names, ResumeCancelled, Fail, RecordFailed, attemptVars,
     sessionVars, treeVars, acpVars
<1>4. AcpTyped'
  BY DEF IInv, Typed, AcpTyped, ResumeCancelled, Fail, RecordFailed, attemptVars, sessionVars,
     treeVars, acpVars
<1>5. Counted'
  BY AttemptAssumption, SessionAssumption, AcpAssumption DEF IInv, Typed, Counted, Limits,
     ResumeCancelled, Fail, RecordFailed, attemptVars, sessionVars, treeVars, acpVars
<1>6. Apart'
  BY DEF IInv, Typed, OutcomeTyped, SessionTyped, TreeTyped, AcpTyped, Apart, ResumeCancelled,
     Fail, RecordFailed, attemptVars, sessionVars, treeVars, acpVars
<1>7. Ended'
  BY DEF IInv, Typed, OutcomeTyped, SessionTyped, TreeTyped, AcpTyped, Kinds, Apart, Ended,
     OneOutcome, Once, ResumeCancelled, Fail, RecordFailed, attemptVars,
     sessionVars, treeVars, acpVars
<1>8. Limits'
  BY SessionAssumption, AcpAssumption DEF IInv, Typed, OutcomeTyped, SessionTyped, TreeTyped,
     AcpTyped, Counted, Limits, Apart, ResumeCancelled, Fail, RecordFailed, attemptVars,
     sessionVars, treeVars, acpVars
<1>9. Once'
  BY DEF IInv, Typed, OutcomeTyped, SessionTyped, TreeTyped, AcpTyped, Apart, Once, ApprovedOnce,
     ResumeCancelled, Fail, RecordFailed, attemptVars, sessionVars, treeVars, acpVars
<1>10. Reaped'
  BY DEF IInv, Typed, OutcomeTyped, SessionTyped, TreeTyped, AcpTyped, Apart, Reaped, PipeHeld,
     Alive, Names, ResumeCancelled, Fail, RecordFailed, attemptVars, sessionVars, treeVars,
     acpVars
<1>11. Believed'
  BY DEF IInv, Typed, OutcomeTyped, TreeTyped, AcpTyped, Apart, Ended, Reaped, Believed,
     ReaderChangedNothing, Escaped, Alive, Names, ResumeCancelled, Fail, RecordFailed, attemptVars,
     sessionVars, treeVars, acpVars
<1> QED  BY <1>1, <1>2, <1>3, <1>4, <1>5, <1>6, <1>7, <1>8, <1>9, <1>10, <1>11 DEF IInv, Typed

\* SessionSinkFails keeps the invariant.
LEMMA SessionSinkFailsStep ==
  ASSUME IInv, SessionSinkFails, UNCHANGED <<treeVars, acpVars>>
  PROVE  IInv'
<1>1. OutcomeTyped'
  BY DEF IInv, Typed, OutcomeTyped, TreeTyped, Kinds, SessionSinkFails, attemptVars, sessionVars,
     treeVars, acpVars
<1>2. SessionTyped'
  BY SessionAssumption DEF IInv, Typed, SessionTyped, Apart, Limits, SessionSinkFails,
     attemptVars, sessionVars, treeVars, acpVars
<1>3. TreeTyped'
  BY DEF IInv, Typed, TreeTyped, Names, SessionSinkFails, attemptVars, sessionVars, treeVars,
     acpVars
<1>4. AcpTyped'
  BY DEF IInv, Typed, AcpTyped, SessionSinkFails, attemptVars, sessionVars, treeVars, acpVars
<1>5. Counted'
  BY AttemptAssumption, SessionAssumption, AcpAssumption DEF IInv, Typed, Counted, Limits,
     SessionSinkFails, attemptVars, sessionVars, treeVars, acpVars
<1>6. Apart'
  BY DEF IInv, Typed, OutcomeTyped, SessionTyped, TreeTyped, AcpTyped, Apart, SessionSinkFails,
     attemptVars, sessionVars, treeVars, acpVars
<1>7. Ended'
  BY DEF IInv, Typed, OutcomeTyped, SessionTyped, TreeTyped, AcpTyped, Kinds, Apart, Ended,
     OneOutcome, Once, SessionSinkFails, attemptVars, sessionVars, treeVars,
     acpVars
<1>8. Limits'
  BY SessionAssumption, AcpAssumption DEF IInv, Typed, OutcomeTyped, SessionTyped, TreeTyped,
     AcpTyped, Counted, Limits, Apart, SessionSinkFails, attemptVars, sessionVars, treeVars,
     acpVars
<1>9. Once'
  BY DEF IInv, Typed, OutcomeTyped, SessionTyped, TreeTyped, AcpTyped, Apart, Once, ApprovedOnce,
     SessionSinkFails, attemptVars, sessionVars, treeVars, acpVars
<1>10. Reaped'
  BY DEF IInv, Typed, OutcomeTyped, SessionTyped, TreeTyped, AcpTyped, Apart, Reaped, PipeHeld,
     Alive, Names, SessionSinkFails, attemptVars, sessionVars, treeVars, acpVars
<1>11. Believed'
  BY DEF IInv, Typed, OutcomeTyped, TreeTyped, AcpTyped, Apart, Ended, Reaped, Believed,
     ReaderChangedNothing, Escaped, Alive, Names, SessionSinkFails, attemptVars, sessionVars,
     treeVars, acpVars
<1> QED  BY <1>1, <1>2, <1>3, <1>4, <1>5, <1>6, <1>7, <1>8, <1>9, <1>10, <1>11 DEF IInv, Typed

\* PrepareFails keeps the invariant.
LEMMA PrepareFailsStep ==
  ASSUME NEW c \in CallIds, IInv, PrepareFails(c), UNCHANGED <<treeVars, acpVars>>
  PROVE  IInv'
<1>0. Tail(batch) \in Seq(CallIds)
  BY TailOfBatch DEF IInv, Typed, SessionTyped, Limits, PrepareFails, ToolError, Fail, RecordFailed, InHand
<1>1. OutcomeTyped'
  BY DEF IInv, Typed, OutcomeTyped, TreeTyped, Kinds, PrepareFails, ToolError, Fail, RecordFailed,
     InHand, attemptVars, sessionVars, treeVars, acpVars
<1>2. SessionTyped'
  BY <1>0, SessionAssumption DEF IInv, Typed, SessionTyped, Apart, Limits, PrepareFails,
     ToolError, Fail, RecordFailed, InHand, attemptVars, sessionVars, treeVars, acpVars
<1>3. TreeTyped'
  BY DEF IInv, Typed, TreeTyped, Names, PrepareFails, ToolError, Fail, RecordFailed, InHand,
     attemptVars, sessionVars, treeVars, acpVars
<1>4. AcpTyped'
  BY DEF IInv, Typed, AcpTyped, PrepareFails, ToolError, Fail, RecordFailed, InHand, attemptVars,
     sessionVars, treeVars, acpVars
<1>5. Counted'
  BY AttemptAssumption, SessionAssumption, AcpAssumption, SMTT(30) DEF IInv, Typed, Counted, Limits,
     PrepareFails, ToolError, Fail, RecordFailed, InHand, attemptVars, sessionVars, treeVars,
     acpVars
<1>6. Apart'
  BY DEF IInv, Typed, OutcomeTyped, SessionTyped, TreeTyped, AcpTyped, Apart, PrepareFails,
     ToolError, Fail, RecordFailed, InHand, attemptVars, sessionVars, treeVars, acpVars
<1>7. Ended'
  BY DEF IInv, Typed, OutcomeTyped, SessionTyped, TreeTyped, AcpTyped, Kinds, Apart, Ended,
     OneOutcome, Once, PrepareFails, ToolError, Fail, RecordFailed, InHand,
     attemptVars, sessionVars, treeVars, acpVars
<1>8. Limits'
  <2>1. errors \in Nat /\ MaxErrors \in Nat
    BY SessionAssumption DEF IInv, Typed, Counted
  <2>2. ToolError
    BY DEF PrepareFails
  <2> HIDE DEF ToolError
  <2>3. fatal' = fatal /\ updates' = updates
    BY DEF acpVars
  <2> QED  BY <2>1, <2>2, <2>3, ToolErrorCounts DEF IInv, Limits
<1>9. Once'
  BY DEF IInv, Typed, OutcomeTyped, SessionTyped, TreeTyped, AcpTyped, Apart, Once, ApprovedOnce,
     PrepareFails, ToolError, Fail, RecordFailed, InHand, attemptVars, sessionVars, treeVars,
     acpVars
<1>10. Reaped'
  BY DEF IInv, Typed, OutcomeTyped, SessionTyped, TreeTyped, AcpTyped, Apart, Reaped, PipeHeld,
     Alive, Names, PrepareFails, ToolError, Fail, RecordFailed, InHand, attemptVars, sessionVars,
     treeVars, acpVars
<1>11. Believed'
  BY DEF IInv, Typed, OutcomeTyped, TreeTyped, AcpTyped, Apart, Ended, Reaped, Believed,
     ReaderChangedNothing, Escaped, Alive, Names, PrepareFails, ToolError, Fail, RecordFailed,
     InHand, attemptVars, sessionVars, treeVars, acpVars
<1> QED  BY <1>1, <1>2, <1>3, <1>4, <1>5, <1>6, <1>7, <1>8, <1>9, <1>10, <1>11 DEF IInv, Typed

\* PrepareAgain keeps the invariant.
LEMMA PrepareAgainStep ==
  ASSUME NEW c \in CallIds, IInv, PrepareAgain(c), UNCHANGED <<treeVars, acpVars>>
  PROVE  IInv'
<1>1. OutcomeTyped'
  BY DEF IInv, Typed, OutcomeTyped, TreeTyped, Kinds, PrepareAgain, Fail, RecordFailed,
     attemptVars, sessionVars, treeVars, acpVars
<1>2. SessionTyped'
  BY SessionAssumption DEF IInv, Typed, SessionTyped, Apart, Limits, PrepareAgain, Fail,
     RecordFailed, attemptVars, sessionVars, treeVars, acpVars
<1>3. TreeTyped'
  BY DEF IInv, Typed, TreeTyped, Names, PrepareAgain, Fail, RecordFailed, attemptVars,
     sessionVars, treeVars, acpVars
<1>4. AcpTyped'
  BY DEF IInv, Typed, AcpTyped, PrepareAgain, Fail, RecordFailed, attemptVars, sessionVars,
     treeVars, acpVars
<1>5. Counted'
  BY AttemptAssumption, SessionAssumption, AcpAssumption DEF IInv, Typed, Counted, Limits,
     PrepareAgain, Fail, RecordFailed, attemptVars, sessionVars, treeVars, acpVars
<1>6. Apart'
  BY DEF IInv, Typed, OutcomeTyped, SessionTyped, TreeTyped, AcpTyped, Apart, PrepareAgain, Fail,
     RecordFailed, attemptVars, sessionVars, treeVars, acpVars
<1>7. Ended'
  BY DEF IInv, Typed, OutcomeTyped, SessionTyped, TreeTyped, AcpTyped, Kinds, Apart, Ended,
     OneOutcome, Once, PrepareAgain, Fail, RecordFailed, attemptVars,
     sessionVars, treeVars, acpVars
<1>8. Limits'
  BY SessionAssumption, AcpAssumption DEF IInv, Typed, OutcomeTyped, SessionTyped, TreeTyped,
     AcpTyped, Counted, Limits, Apart, PrepareAgain, Fail, RecordFailed, attemptVars, sessionVars,
     treeVars, acpVars
<1>9. Once'
  BY DEF IInv, Typed, OutcomeTyped, SessionTyped, TreeTyped, AcpTyped, Apart, Once, ApprovedOnce,
     PrepareAgain, Fail, RecordFailed, attemptVars, sessionVars, treeVars, acpVars
<1>10. Reaped'
  BY DEF IInv, Typed, OutcomeTyped, SessionTyped, TreeTyped, AcpTyped, Apart, Reaped, PipeHeld,
     Alive, Names, PrepareAgain, Fail, RecordFailed, attemptVars, sessionVars, treeVars, acpVars
<1>11. Believed'
  BY DEF IInv, Typed, OutcomeTyped, TreeTyped, AcpTyped, Apart, Ended, Reaped, Believed,
     ReaderChangedNothing, Escaped, Alive, Names, PrepareAgain, Fail, RecordFailed, attemptVars,
     sessionVars, treeVars, acpVars
<1> QED  BY <1>1, <1>2, <1>3, <1>4, <1>5, <1>6, <1>7, <1>8, <1>9, <1>10, <1>11 DEF IInv, Typed

\* ResumeApproved keeps the invariant.
LEMMA ResumeApprovedStep ==
  ASSUME NEW c \in CallIds, IInv, ResumeApproved(c), UNCHANGED <<treeVars, acpVars>>
  PROVE  IInv'
<1>1. OutcomeTyped'
  BY DEF IInv, Typed, OutcomeTyped, TreeTyped, Kinds, ResumeApproved, attemptVars, sessionVars,
     treeVars, acpVars
<1>2. SessionTyped'
  BY SessionAssumption DEF IInv, Typed, SessionTyped, Apart, Limits, ResumeApproved, attemptVars,
     sessionVars, treeVars, acpVars
<1>3. TreeTyped'
  BY DEF IInv, Typed, TreeTyped, Names, ResumeApproved, attemptVars, sessionVars, treeVars,
     acpVars
<1>4. AcpTyped'
  BY DEF IInv, Typed, AcpTyped, ResumeApproved, attemptVars, sessionVars, treeVars, acpVars
<1>5. Counted'
  BY AttemptAssumption, SessionAssumption, AcpAssumption DEF IInv, Typed, Counted, Limits,
     ResumeApproved, attemptVars, sessionVars, treeVars, acpVars
<1>6. Apart'
  BY DEF IInv, Typed, OutcomeTyped, SessionTyped, TreeTyped, AcpTyped, Apart, ResumeApproved,
     attemptVars, sessionVars, treeVars, acpVars
<1>7. Ended'
  BY DEF IInv, Typed, OutcomeTyped, SessionTyped, TreeTyped, AcpTyped, Kinds, Apart, Ended,
     OneOutcome, Once, ResumeApproved, attemptVars, sessionVars, treeVars,
     acpVars
<1>8. Limits'
  BY SessionAssumption, AcpAssumption DEF IInv, Typed, OutcomeTyped, SessionTyped, TreeTyped,
     AcpTyped, Counted, Limits, Apart, ResumeApproved, attemptVars, sessionVars, treeVars, acpVars
<1>9. Once'
  BY DEF IInv, Typed, OutcomeTyped, SessionTyped, TreeTyped, AcpTyped, Apart, Once, ApprovedOnce,
     ResumeApproved, attemptVars, sessionVars, treeVars, acpVars
<1>10. Reaped'
  BY DEF IInv, Typed, OutcomeTyped, SessionTyped, TreeTyped, AcpTyped, Apart, Reaped, PipeHeld,
     Alive, Names, ResumeApproved, attemptVars, sessionVars, treeVars, acpVars
<1>11. Believed'
  BY DEF IInv, Typed, OutcomeTyped, TreeTyped, AcpTyped, Apart, Ended, Reaped, Believed,
     ReaderChangedNothing, Escaped, Alive, Names, ResumeApproved, attemptVars, sessionVars,
     treeVars, acpVars
<1> QED  BY <1>1, <1>2, <1>3, <1>4, <1>5, <1>6, <1>7, <1>8, <1>9, <1>10, <1>11 DEF IInv, Typed

\* ResumeDenied keeps the invariant.
LEMMA ResumeDeniedStep ==
  ASSUME NEW c \in CallIds, IInv, ResumeDenied(c), UNCHANGED <<treeVars, acpVars>>
  PROVE  IInv'
<1>0. Tail(batch) \in Seq(CallIds)
  BY TailOfBatch DEF IInv, Typed, SessionTyped, Limits, ResumeDenied, ToolError, Fail, RecordFailed, InHand
<1>1. OutcomeTyped'
  BY DEF IInv, Typed, OutcomeTyped, TreeTyped, Kinds, ResumeDenied, ToolError, Fail, RecordFailed,
     InHand, attemptVars, sessionVars, treeVars, acpVars
<1>2. SessionTyped'
  BY <1>0, SessionAssumption DEF IInv, Typed, SessionTyped, Apart, Limits, ResumeDenied,
     ToolError, Fail, RecordFailed, InHand, attemptVars, sessionVars, treeVars, acpVars
<1>3. TreeTyped'
  BY DEF IInv, Typed, TreeTyped, Names, ResumeDenied, ToolError, Fail, RecordFailed, InHand,
     attemptVars, sessionVars, treeVars, acpVars
<1>4. AcpTyped'
  BY DEF IInv, Typed, AcpTyped, ResumeDenied, ToolError, Fail, RecordFailed, InHand, attemptVars,
     sessionVars, treeVars, acpVars
<1>5. Counted'
  BY AttemptAssumption, SessionAssumption, AcpAssumption DEF IInv, Typed, Counted, Limits,
     ResumeDenied, ToolError, Fail, RecordFailed, InHand, attemptVars, sessionVars, treeVars,
     acpVars
<1>6. Apart'
  BY DEF IInv, Typed, OutcomeTyped, SessionTyped, TreeTyped, AcpTyped, Apart, ResumeDenied,
     ToolError, Fail, RecordFailed, InHand, attemptVars, sessionVars, treeVars, acpVars
<1>7. Ended'
  BY DEF IInv, Typed, OutcomeTyped, SessionTyped, TreeTyped, AcpTyped, Kinds, Apart, Ended,
     OneOutcome, Once, ResumeDenied, ToolError, Fail, RecordFailed, InHand,
     attemptVars, sessionVars, treeVars, acpVars
<1>8. Limits'
  <2>1. errors \in Nat /\ MaxErrors \in Nat
    BY SessionAssumption DEF IInv, Typed, Counted
  <2>2. ToolError
    BY DEF ResumeDenied
  <2> HIDE DEF ToolError
  <2>3. fatal' = fatal /\ updates' = updates
    BY DEF acpVars
  <2> QED  BY <2>1, <2>2, <2>3, ToolErrorCounts DEF IInv, Limits
<1>9. Once'
  BY DEF IInv, Typed, OutcomeTyped, SessionTyped, TreeTyped, AcpTyped, Apart, Once, ApprovedOnce,
     ResumeDenied, ToolError, Fail, RecordFailed, InHand, attemptVars, sessionVars, treeVars,
     acpVars
<1>10. Reaped'
  BY DEF IInv, Typed, OutcomeTyped, SessionTyped, TreeTyped, AcpTyped, Apart, Reaped, PipeHeld,
     Alive, Names, ResumeDenied, ToolError, Fail, RecordFailed, InHand, attemptVars, sessionVars,
     treeVars, acpVars
<1>11. Believed'
  BY DEF IInv, Typed, OutcomeTyped, TreeTyped, AcpTyped, Apart, Ended, Reaped, Believed,
     ReaderChangedNothing, Escaped, Alive, Names, ResumeDenied, ToolError, Fail, RecordFailed,
     InHand, attemptVars, sessionVars, treeVars, acpVars
<1> QED  BY <1>1, <1>2, <1>3, <1>4, <1>5, <1>6, <1>7, <1>8, <1>9, <1>10, <1>11 DEF IInv, Typed

\* Prepare keeps the invariant.
LEMMA PrepareStep ==
  ASSUME NEW c \in CallIds, NEW e \in Effects, IInv, Prepare(c, e), UNCHANGED <<treeVars, acpVars>>
  PROVE  IInv'
<1>0. Tail(batch) \in Seq(CallIds)
  BY TailOfBatch DEF IInv, Typed, SessionTyped, Limits, Prepare, ToolError, Fail, RecordFailed, InHand, Fresh, Effects
<1>1. OutcomeTyped'
  BY DEF IInv, Typed, OutcomeTyped, TreeTyped, Kinds, Prepare, ToolError, Fail, RecordFailed,
     InHand, Fresh, Effects, attemptVars, sessionVars, treeVars, acpVars
<1>2. SessionTyped'
  <2>1. DOMAIN prepared' \subseteq CallIds /\ cur' = c /\ granted' = granted
    BY DEF IInv, Typed, SessionTyped, Prepare
  <2>2. ran' \in [CallIds -> Nat]
    BY DEF IInv, Typed, SessionTyped, Prepare
  <2>3. batch' \in {batch, Tail(batch)}
    BY DEF Prepare, ToolError
  <2>4. /\ state' \in {state, "failed", "running", "waiting_approval"}
        /\ at' \in {"tool", "approval", "batch", "over"}
    BY DEF Prepare, ToolError, Fail
  <2> QED  BY <1>0, <2>1, <2>2, <2>3, <2>4 DEF IInv, Typed, SessionTyped
<1>3. TreeTyped'
  BY DEF IInv, Typed, TreeTyped, Names, Prepare, ToolError, Fail, RecordFailed, InHand, Fresh,
     Effects, attemptVars, sessionVars, treeVars, acpVars
<1>4. AcpTyped'
  BY DEF IInv, Typed, AcpTyped, Prepare, ToolError, Fail, RecordFailed, InHand, Fresh, Effects,
     attemptVars, sessionVars, treeVars, acpVars
<1>5. Counted'
  <2>1. errors' \in {errors, errors + 1}
    BY DEF Prepare, ToolError
  <2>2. errors <= MaxErrors
    BY DEF IInv, Limits, Prepare
  <2>3. calls < MaxCalls /\ calls' = calls + 1 /\ UNCHANGED <<faults, turns, updates>>
    BY DEF Prepare, acpVars
  <2> QED  BY <2>1, <2>2, <2>3, SessionAssumption DEF IInv, Typed, Counted
<1>6. Apart'
  BY DEF IInv, Typed, OutcomeTyped, SessionTyped, TreeTyped, AcpTyped, Apart, Prepare, ToolError,
     Fail, RecordFailed, InHand, Fresh, Effects, attemptVars, sessionVars, treeVars, acpVars
<1>7. Ended'
  BY DEF IInv, Typed, OutcomeTyped, SessionTyped, TreeTyped, AcpTyped, Kinds, Apart, Ended,
     OneOutcome, Once, Prepare, ToolError, Fail, RecordFailed, InHand,
     Fresh, Effects, attemptVars, sessionVars, treeVars, acpVars
<1>8. Limits'
  <2>1. errors \in Nat /\ MaxErrors \in Nat /\ errors <= MaxErrors
    BY SessionAssumption DEF IInv, Typed, Counted, Limits, Prepare
  <2>2. fatal' = fatal /\ updates' = updates /\ batch # <<>>
    BY DEF acpVars, Prepare, InHand
  <2>3. CASE e = "deny"
    <3>1. ToolError
      BY <2>3 DEF Prepare
    <3> QED  BY <2>1, <2>2, <3>1, ToolErrorCounts DEF IInv, Limits
  <2>4. CASE e # "deny"
    <3>1. errors' = errors /\ batch' = batch
      BY <2>4 DEF Prepare
    <3> QED  BY <2>1, <2>2, <3>1 DEF IInv, Limits
  <2> QED  BY <2>3, <2>4
<1>9. Once'
  BY DEF IInv, Typed, OutcomeTyped, SessionTyped, TreeTyped, AcpTyped, Apart, Once, ApprovedOnce,
     Prepare, ToolError, Fail, RecordFailed, InHand, Fresh, Effects, attemptVars, sessionVars,
     treeVars, acpVars
<1>10. Reaped'
  BY DEF IInv, Typed, OutcomeTyped, SessionTyped, TreeTyped, AcpTyped, Apart, Reaped, PipeHeld,
     Alive, Names, Prepare, ToolError, Fail, RecordFailed, InHand, Fresh, Effects, attemptVars,
     sessionVars, treeVars, acpVars
<1>11. Believed'
  BY DEF IInv, Typed, OutcomeTyped, TreeTyped, AcpTyped, Apart, Ended, Reaped, Believed,
     ReaderChangedNothing, Escaped, Alive, Names, Prepare, ToolError, Fail, RecordFailed, InHand,
     Fresh, Effects, attemptVars, sessionVars, treeVars, acpVars
<1> QED  BY <1>1, <1>2, <1>3, <1>4, <1>5, <1>6, <1>7, <1>8, <1>9, <1>10, <1>11 DEF IInv, Typed

\* Walk keeps the invariant.
LEMMA WalkStep ==
  ASSUME IInv, Walk, UNCHANGED <<sessionVars, acpVars>>, kind # "native"
  PROVE  IInv'
<1>1. OutcomeTyped'
  BY DEF IInv, Typed, OutcomeTyped, TreeTyped, Kinds, Walk, Reach, Alive, attemptVars,
     sessionVars, treeVars, acpVars
<1>2. SessionTyped'
  BY SessionAssumption DEF IInv, Typed, SessionTyped, Apart, Limits, Walk, Reach, Alive,
     attemptVars, sessionVars, treeVars, acpVars
<1>3. TreeTyped'
  BY DEF IInv, Typed, TreeTyped, Names, Walk, Reach, Alive, attemptVars, sessionVars, treeVars,
     acpVars
<1>4. AcpTyped'
  BY DEF IInv, Typed, AcpTyped, Walk, Reach, Alive, attemptVars, sessionVars, treeVars, acpVars
<1>5. Counted'
  BY AttemptAssumption, SessionAssumption, AcpAssumption DEF IInv, Typed, Counted, Limits, Walk,
     Reach, Alive, attemptVars, sessionVars, treeVars, acpVars
<1>6. Apart'
  BY DEF IInv, Typed, OutcomeTyped, SessionTyped, TreeTyped, AcpTyped, Apart, Walk, Reach, Alive,
     attemptVars, sessionVars, treeVars, acpVars
<1>7. Ended'
  BY DEF IInv, Typed, OutcomeTyped, SessionTyped, TreeTyped, AcpTyped, Kinds, Apart, Ended,
     OneOutcome, Once, Walk, Reach, Alive, attemptVars, sessionVars,
     treeVars, acpVars
<1>8. Limits'
  BY SessionAssumption, AcpAssumption DEF IInv, Typed, OutcomeTyped, SessionTyped, TreeTyped,
     AcpTyped, Counted, Limits, Apart, Walk, Reach, Alive, attemptVars, sessionVars, treeVars,
     acpVars
<1>9. Once'
  BY DEF IInv, Typed, OutcomeTyped, SessionTyped, TreeTyped, AcpTyped, Apart, Once, ApprovedOnce,
     Walk, Reach, Alive, attemptVars, sessionVars, treeVars, acpVars
<1>10. Reaped'
  BY DEF IInv, Typed, OutcomeTyped, SessionTyped, TreeTyped, AcpTyped, Apart, Reaped, PipeHeld,
     Alive, Names, Walk, Reach, attemptVars, sessionVars, treeVars, acpVars
<1>11. Believed'
  BY DEF IInv, Typed, OutcomeTyped, TreeTyped, AcpTyped, Apart, Ended, Reaped, Believed,
     ReaderChangedNothing, Escaped, Names, Walk, Reach, Alive, attemptVars, sessionVars, treeVars,
     acpVars
<1> QED  BY <1>1, <1>2, <1>3, <1>4, <1>5, <1>6, <1>7, <1>8, <1>9, <1>10, <1>11 DEF IInv, Typed

\* Kill keeps the invariant.
LEMMA KillStep ==
  ASSUME IInv, Kill, UNCHANGED <<sessionVars, acpVars>>, kind # "native"
  PROVE  IInv'
<1>1. OutcomeTyped'
  BY DEF IInv, Typed, OutcomeTyped, TreeTyped, Kinds, Kill, Dead, Alive, attemptVars, sessionVars,
     treeVars, acpVars
<1>2. SessionTyped'
  BY SessionAssumption DEF IInv, Typed, SessionTyped, Apart, Limits, Kill, Dead, Alive,
     attemptVars, sessionVars, treeVars, acpVars
<1>3. TreeTyped'
  <2>1. PICK S : procs' = Dead(S) /\ S \subseteq targets
    BY DEF Kill
  <2>2. \A p \in Names : procs'[p] \in {"none", "alive", "dead"}
    BY <2>1 DEF Dead, Names, IInv, Typed, TreeTyped
  <2>3. procs' \in [Names -> {"none", "alive", "dead"}]
    BY <2>1, <2>2 DEF Dead
  <2>4. cleanup' \in BOOLEAN
    BY DEF Kill, IInv, Typed, TreeTyped
  <2> QED  BY <2>3, <2>4 DEF IInv, Typed, TreeTyped, Kill
<1>4. AcpTyped'
  BY DEF IInv, Typed, AcpTyped, Kill, Dead, Alive, attemptVars, sessionVars, treeVars, acpVars
<1>5. Counted'
  BY AttemptAssumption, SessionAssumption, AcpAssumption DEF IInv, Typed, Counted, Limits, Kill,
     Dead, Alive, attemptVars, sessionVars, treeVars, acpVars
<1>6. Apart'
  BY DEF IInv, Typed, OutcomeTyped, SessionTyped, TreeTyped, AcpTyped, Apart, Kill, Dead, Alive,
     attemptVars, sessionVars, treeVars, acpVars
<1>7. Ended'
  BY DEF IInv, Typed, OutcomeTyped, SessionTyped, TreeTyped, AcpTyped, Kinds, Apart, Ended,
     OneOutcome, Once, Kill, Dead, Alive, attemptVars, sessionVars,
     treeVars, acpVars
<1>8. Limits'
  BY SessionAssumption, AcpAssumption DEF IInv, Typed, OutcomeTyped, SessionTyped, TreeTyped,
     AcpTyped, Counted, Limits, Apart, Kill, Dead, Alive, attemptVars, sessionVars, treeVars,
     acpVars
<1>9. Once'
  BY DEF IInv, Typed, OutcomeTyped, SessionTyped, TreeTyped, AcpTyped, Apart, Once, ApprovedOnce,
     Kill, Dead, Alive, attemptVars, sessionVars, treeVars, acpVars
<1>10. Reaped'
  <2>1. /\ owed' = targets' /\ targets' = targets /\ phase' = "killed" /\ kind' = kind
        /\ targets \subseteq Names /\ ("root" \in Alive => "root" \in targets)
    BY DEF IInv, Reaped, Kill, Typed, TreeTyped, Alive
  <2>2. PICK S : procs' = Dead(S) /\ S \subseteq targets
    BY DEF Kill
  <2>3. \A p \in owed' : procs'[p] # "none"
    BY <2>1, <2>2 DEF Dead, Names, IInv, Reaped
  <2>4. ~cleanup' => procs' = Dead(targets)
    BY DEF Kill
  <2>5. ~cleanup' => owed' \cap Alive' = {} /\ procs'["root"] # "alive"
    BY <2>1, <2>4 DEF Dead, Alive, Names
  <2> QED  BY <2>1, <2>3, <2>5 DEF Reaped
<1>11. Believed'
  BY DEF IInv, Typed, OutcomeTyped, TreeTyped, AcpTyped, Apart, Ended, Reaped, Believed,
     ReaderChangedNothing, Escaped, Names, Kill, Dead, Alive, attemptVars, sessionVars, treeVars,
     acpVars
<1> QED  BY <1>1, <1>2, <1>3, <1>4, <1>5, <1>6, <1>7, <1>8, <1>9, <1>10, <1>11 DEF IInv, Typed

\* Spawn keeps the invariant.
LEMMA SpawnStep ==
  ASSUME IInv, Spawn, UNCHANGED <<sessionVars, acpVars>>, kind # "native"
  PROVE  IInv'
<1>1. OutcomeTyped'
  BY DEF IInv, Typed, OutcomeTyped, TreeTyped, Kinds, Spawn, attemptVars, sessionVars, treeVars,
     acpVars
<1>2. SessionTyped'
  BY SessionAssumption DEF IInv, Typed, SessionTyped, Apart, Limits, Spawn, attemptVars,
     sessionVars, treeVars, acpVars
<1>3. TreeTyped'
  BY DEF IInv, Typed, TreeTyped, Names, Spawn, attemptVars, sessionVars, treeVars, acpVars
<1>4. AcpTyped'
  BY DEF IInv, Typed, AcpTyped, Spawn, attemptVars, sessionVars, treeVars, acpVars
<1>5. Counted'
  BY AttemptAssumption, SessionAssumption, AcpAssumption DEF IInv, Typed, Counted, Limits, Spawn,
     attemptVars, sessionVars, treeVars, acpVars
<1>6. Apart'
  BY DEF IInv, Typed, OutcomeTyped, SessionTyped, TreeTyped, AcpTyped, Apart, Spawn, attemptVars,
     sessionVars, treeVars, acpVars
<1>7. Ended'
  BY DEF IInv, Typed, OutcomeTyped, SessionTyped, TreeTyped, AcpTyped, Kinds, Apart, Ended,
     OneOutcome, Once, Spawn, attemptVars, sessionVars, treeVars, acpVars
<1>8. Limits'
  BY SessionAssumption, AcpAssumption DEF IInv, Typed, OutcomeTyped, SessionTyped, TreeTyped,
     AcpTyped, Counted, Limits, Apart, Spawn, attemptVars, sessionVars, treeVars, acpVars
<1>9. Once'
  BY DEF IInv, Typed, OutcomeTyped, SessionTyped, TreeTyped, AcpTyped, Apart, Once, ApprovedOnce,
     Spawn, attemptVars, sessionVars, treeVars, acpVars
<1>10. Reaped'
  BY DEF IInv, Typed, OutcomeTyped, SessionTyped, TreeTyped, AcpTyped, Apart, Reaped, PipeHeld,
     Alive, Names, Spawn, attemptVars, sessionVars, treeVars, acpVars
<1>11. Believed'
  BY DEF IInv, Typed, OutcomeTyped, TreeTyped, AcpTyped, Apart, Ended, Reaped, Believed,
     ReaderChangedNothing, Escaped, Alive, Names, Spawn, attemptVars, sessionVars, treeVars,
     acpVars
<1> QED  BY <1>1, <1>2, <1>3, <1>4, <1>5, <1>6, <1>7, <1>8, <1>9, <1>10, <1>11 DEF IInv, Typed

\* StopWaiting keeps the invariant.
LEMMA StopWaitingStep ==
  ASSUME IInv, StopWaiting, UNCHANGED <<sessionVars, acpVars>>, kind # "native"
  PROVE  IInv'
<1>1. OutcomeTyped'
  BY DEF IInv, Typed, OutcomeTyped, TreeTyped, Kinds, StopWaiting, attemptVars, sessionVars,
     treeVars, acpVars
<1>2. SessionTyped'
  BY SessionAssumption DEF IInv, Typed, SessionTyped, Apart, Limits, StopWaiting, attemptVars,
     sessionVars, treeVars, acpVars
<1>3. TreeTyped'
  BY DEF IInv, Typed, TreeTyped, Names, StopWaiting, attemptVars, sessionVars, treeVars, acpVars
<1>4. AcpTyped'
  BY DEF IInv, Typed, AcpTyped, StopWaiting, attemptVars, sessionVars, treeVars, acpVars
<1>5. Counted'
  BY AttemptAssumption, SessionAssumption, AcpAssumption DEF IInv, Typed, Counted, Limits,
     StopWaiting, attemptVars, sessionVars, treeVars, acpVars
<1>6. Apart'
  BY DEF IInv, Typed, OutcomeTyped, SessionTyped, TreeTyped, AcpTyped, Apart, StopWaiting,
     attemptVars, sessionVars, treeVars, acpVars
<1>7. Ended'
  BY DEF IInv, Typed, OutcomeTyped, SessionTyped, TreeTyped, AcpTyped, Kinds, Apart, Ended,
     OneOutcome, Once, StopWaiting, attemptVars, sessionVars, treeVars,
     acpVars
<1>8. Limits'
  BY SessionAssumption, AcpAssumption DEF IInv, Typed, OutcomeTyped, SessionTyped, TreeTyped,
     AcpTyped, Counted, Limits, Apart, StopWaiting, attemptVars, sessionVars, treeVars, acpVars
<1>9. Once'
  BY DEF IInv, Typed, OutcomeTyped, SessionTyped, TreeTyped, AcpTyped, Apart, Once, ApprovedOnce,
     StopWaiting, attemptVars, sessionVars, treeVars, acpVars
<1>10. Reaped'
  BY DEF IInv, Typed, OutcomeTyped, SessionTyped, TreeTyped, AcpTyped, Apart, Reaped, PipeHeld,
     Alive, Names, StopWaiting, attemptVars, sessionVars, treeVars, acpVars
<1>11. Believed'
  BY DEF IInv, Typed, OutcomeTyped, TreeTyped, AcpTyped, Apart, Ended, Reaped, Believed,
     ReaderChangedNothing, Escaped, Alive, Names, StopWaiting, attemptVars, sessionVars, treeVars,
     acpVars
<1> QED  BY <1>1, <1>2, <1>3, <1>4, <1>5, <1>6, <1>7, <1>8, <1>9, <1>10, <1>11 DEF IInv, Typed

\* NoticeExit keeps the invariant.
LEMMA NoticeExitStep ==
  ASSUME IInv, NoticeExit, UNCHANGED <<sessionVars, acpVars>>, kind # "native"
  PROVE  IInv'
<1>1. OutcomeTyped'
  BY DEF IInv, Typed, OutcomeTyped, TreeTyped, Kinds, NoticeExit, attemptVars, sessionVars,
     treeVars, acpVars
<1>2. SessionTyped'
  BY SessionAssumption DEF IInv, Typed, SessionTyped, Apart, Limits, NoticeExit, attemptVars,
     sessionVars, treeVars, acpVars
<1>3. TreeTyped'
  BY DEF IInv, Typed, TreeTyped, Names, NoticeExit, attemptVars, sessionVars, treeVars, acpVars
<1>4. AcpTyped'
  BY DEF IInv, Typed, AcpTyped, NoticeExit, attemptVars, sessionVars, treeVars, acpVars
<1>5. Counted'
  BY AttemptAssumption, SessionAssumption, AcpAssumption DEF IInv, Typed, Counted, Limits,
     NoticeExit, attemptVars, sessionVars, treeVars, acpVars
<1>6. Apart'
  BY DEF IInv, Typed, OutcomeTyped, SessionTyped, TreeTyped, AcpTyped, Apart, NoticeExit,
     attemptVars, sessionVars, treeVars, acpVars
<1>7. Ended'
  BY DEF IInv, Typed, OutcomeTyped, SessionTyped, TreeTyped, AcpTyped, Kinds, Apart, Ended,
     OneOutcome, Once, NoticeExit, attemptVars, sessionVars, treeVars,
     acpVars
<1>8. Limits'
  BY SessionAssumption, AcpAssumption DEF IInv, Typed, OutcomeTyped, SessionTyped, TreeTyped,
     AcpTyped, Counted, Limits, Apart, NoticeExit, attemptVars, sessionVars, treeVars, acpVars
<1>9. Once'
  BY DEF IInv, Typed, OutcomeTyped, SessionTyped, TreeTyped, AcpTyped, Apart, Once, ApprovedOnce,
     NoticeExit, attemptVars, sessionVars, treeVars, acpVars
<1>10. Reaped'
  BY DEF IInv, Typed, OutcomeTyped, SessionTyped, TreeTyped, AcpTyped, Apart, Reaped, PipeHeld,
     Alive, Names, NoticeExit, attemptVars, sessionVars, treeVars, acpVars
<1>11. Believed'
  BY DEF IInv, Typed, OutcomeTyped, TreeTyped, AcpTyped, Apart, Ended, Reaped, Believed,
     ReaderChangedNothing, Escaped, Alive, Names, NoticeExit, attemptVars, sessionVars, treeVars,
     acpVars
<1> QED  BY <1>1, <1>2, <1>3, <1>4, <1>5, <1>6, <1>7, <1>8, <1>9, <1>10, <1>11 DEF IInv, Typed

\* Reap keeps the invariant.
LEMMA ReapStep ==
  ASSUME IInv, Reap, UNCHANGED <<sessionVars, acpVars>>, kind # "native"
  PROVE  IInv'
<1>1. OutcomeTyped'
  BY DEF IInv, Typed, OutcomeTyped, TreeTyped, Kinds, Reap, Alive, attemptVars, sessionVars,
     treeVars, acpVars
<1>2. SessionTyped'
  BY SessionAssumption DEF IInv, Typed, SessionTyped, Apart, Limits, Reap, Alive, attemptVars,
     sessionVars, treeVars, acpVars
<1>3. TreeTyped'
  BY DEF IInv, Typed, TreeTyped, Names, Reap, Alive, attemptVars, sessionVars, treeVars, acpVars
<1>4. AcpTyped'
  BY DEF IInv, Typed, AcpTyped, Reap, Alive, attemptVars, sessionVars, treeVars, acpVars
<1>5. Counted'
  BY AttemptAssumption, SessionAssumption, AcpAssumption DEF IInv, Typed, Counted, Limits, Reap,
     Alive, attemptVars, sessionVars, treeVars, acpVars
<1>6. Apart'
  BY DEF IInv, Typed, OutcomeTyped, SessionTyped, TreeTyped, AcpTyped, Apart, Reap, Alive,
     attemptVars, sessionVars, treeVars, acpVars
<1>7. Ended'
  BY DEF IInv, Typed, OutcomeTyped, SessionTyped, TreeTyped, AcpTyped, Kinds, Apart, Ended,
     OneOutcome, Once, Reap, Alive, attemptVars, sessionVars, treeVars,
     acpVars
<1>8. Limits'
  BY SessionAssumption, AcpAssumption DEF IInv, Typed, OutcomeTyped, SessionTyped, TreeTyped,
     AcpTyped, Counted, Limits, Apart, Reap, Alive, attemptVars, sessionVars, treeVars, acpVars
<1>9. Once'
  BY DEF IInv, Typed, OutcomeTyped, SessionTyped, TreeTyped, AcpTyped, Apart, Once, ApprovedOnce,
     Reap, Alive, attemptVars, sessionVars, treeVars, acpVars
<1>10. Reaped'
  BY DEF IInv, Typed, OutcomeTyped, SessionTyped, TreeTyped, AcpTyped, Apart, Reaped, PipeHeld,
     Alive, Names, Reap, attemptVars, sessionVars, treeVars, acpVars
<1>11. Believed'
  BY DEF IInv, Typed, OutcomeTyped, TreeTyped, AcpTyped, Apart, Ended, Reaped, Believed,
     ReaderChangedNothing, Escaped, Names, Reap, Alive, attemptVars, sessionVars, treeVars, acpVars
<1> QED  BY <1>1, <1>2, <1>3, <1>4, <1>5, <1>6, <1>7, <1>8, <1>9, <1>10, <1>11 DEF IInv, Typed

\* Join keeps the invariant.
LEMMA JoinStep ==
  ASSUME IInv, Join, UNCHANGED <<sessionVars, acpVars>>, kind # "native"
  PROVE  IInv'
<1>1. OutcomeTyped'
  BY DEF IInv, Typed, OutcomeTyped, TreeTyped, Kinds, Join, PipeHeld, Alive, attemptVars,
     sessionVars, treeVars, acpVars
<1>2. SessionTyped'
  BY SessionAssumption DEF IInv, Typed, SessionTyped, Apart, Limits, Join, PipeHeld, Alive,
     attemptVars, sessionVars, treeVars, acpVars
<1>3. TreeTyped'
  BY DEF IInv, Typed, TreeTyped, Names, Join, PipeHeld, Alive, attemptVars, sessionVars, treeVars,
     acpVars
<1>4. AcpTyped'
  BY DEF IInv, Typed, AcpTyped, Join, PipeHeld, Alive, attemptVars, sessionVars, treeVars, acpVars
<1>5. Counted'
  BY AttemptAssumption, SessionAssumption, AcpAssumption DEF IInv, Typed, Counted, Limits, Join,
     PipeHeld, Alive, attemptVars, sessionVars, treeVars, acpVars
<1>6. Apart'
  BY DEF IInv, Typed, OutcomeTyped, SessionTyped, TreeTyped, AcpTyped, Apart, Join, PipeHeld,
     Alive, attemptVars, sessionVars, treeVars, acpVars
<1>7. Ended'
  BY DEF IInv, Typed, OutcomeTyped, SessionTyped, TreeTyped, AcpTyped, Kinds, Apart, Ended,
     OneOutcome, Once, Join, PipeHeld, Alive, attemptVars, sessionVars,
     treeVars, acpVars
<1>8. Limits'
  BY SessionAssumption, AcpAssumption DEF IInv, Typed, OutcomeTyped, SessionTyped, TreeTyped,
     AcpTyped, Counted, Limits, Apart, Join, PipeHeld, Alive, attemptVars, sessionVars, treeVars,
     acpVars
<1>9. Once'
  BY DEF IInv, Typed, OutcomeTyped, SessionTyped, TreeTyped, AcpTyped, Apart, Once, ApprovedOnce,
     Join, PipeHeld, Alive, attemptVars, sessionVars, treeVars, acpVars
<1>10. Reaped'
  BY DEF IInv, Typed, OutcomeTyped, SessionTyped, TreeTyped, AcpTyped, Apart, Reaped, PipeHeld,
     Alive, Names, Join, attemptVars, sessionVars, treeVars, acpVars
<1>11. Believed'
  BY DEF IInv, Typed, OutcomeTyped, TreeTyped, AcpTyped, Apart, Ended, Reaped, Believed,
     ReaderChangedNothing, Escaped, Names, Join, PipeHeld, Alive, attemptVars, sessionVars,
     treeVars, acpVars
<1> QED  BY <1>1, <1>2, <1>3, <1>4, <1>5, <1>6, <1>7, <1>8, <1>9, <1>10, <1>11 DEF IInv, Typed

\* Fork keeps the invariant.
LEMMA ForkStep ==
  ASSUME IInv, Fork, UNCHANGED <<sessionVars, acpVars>>, kind # "native"
  PROVE  IInv'
<1>1. OutcomeTyped'
  BY DEF IInv, Typed, OutcomeTyped, TreeTyped, Kinds, Fork, attemptVars, sessionVars, treeVars,
     acpVars
<1>2. SessionTyped'
  BY SessionAssumption DEF IInv, Typed, SessionTyped, Apart, Limits, Fork, attemptVars,
     sessionVars, treeVars, acpVars
<1>3. TreeTyped'
  BY DEF IInv, Typed, TreeTyped, Names, Fork, attemptVars, sessionVars, treeVars, acpVars
<1>4. AcpTyped'
  BY DEF IInv, Typed, AcpTyped, Fork, attemptVars, sessionVars, treeVars, acpVars
<1>5. Counted'
  BY AttemptAssumption, SessionAssumption, AcpAssumption DEF IInv, Typed, Counted, Limits, Fork,
     attemptVars, sessionVars, treeVars, acpVars
<1>6. Apart'
  BY DEF IInv, Typed, OutcomeTyped, SessionTyped, TreeTyped, AcpTyped, Apart, Fork, attemptVars,
     sessionVars, treeVars, acpVars
<1>7. Ended'
  BY DEF IInv, Typed, OutcomeTyped, SessionTyped, TreeTyped, AcpTyped, Kinds, Apart, Ended,
     OneOutcome, Once, Fork, attemptVars, sessionVars, treeVars, acpVars
<1>8. Limits'
  BY SessionAssumption, AcpAssumption DEF IInv, Typed, OutcomeTyped, SessionTyped, TreeTyped,
     AcpTyped, Counted, Limits, Apart, Fork, attemptVars, sessionVars, treeVars, acpVars
<1>9. Once'
  BY DEF IInv, Typed, OutcomeTyped, SessionTyped, TreeTyped, AcpTyped, Apart, Once, ApprovedOnce,
     Fork, attemptVars, sessionVars, treeVars, acpVars
<1>10. Reaped'
  BY DEF IInv, Typed, OutcomeTyped, SessionTyped, TreeTyped, AcpTyped, Apart, Reaped, PipeHeld,
     Alive, Names, Fork, attemptVars, sessionVars, treeVars, acpVars
<1>11. Believed'
  BY DEF IInv, Typed, OutcomeTyped, TreeTyped, AcpTyped, Apart, Ended, Reaped, Believed,
     ReaderChangedNothing, Escaped, Alive, Names, Fork, attemptVars, sessionVars, treeVars, acpVars
<1> QED  BY <1>1, <1>2, <1>3, <1>4, <1>5, <1>6, <1>7, <1>8, <1>9, <1>10, <1>11 DEF IInv, Typed

\* Exits keeps the invariant.
LEMMA ExitsStep ==
  ASSUME NEW p \in Names, IInv, Exits(p), UNCHANGED <<sessionVars, acpVars>>, kind # "native"
  PROVE  IInv'
<1>1. OutcomeTyped'
  BY DEF IInv, Typed, OutcomeTyped, TreeTyped, Kinds, Exits, Dead, Alive, attemptVars,
     sessionVars, treeVars, acpVars
<1>2. SessionTyped'
  BY SessionAssumption DEF IInv, Typed, SessionTyped, Apart, Limits, Exits, Dead, Alive,
     attemptVars, sessionVars, treeVars, acpVars
<1>3. TreeTyped'
  BY DEF IInv, Typed, TreeTyped, Names, Exits, Dead, Alive, attemptVars, sessionVars, treeVars,
     acpVars
<1>4. AcpTyped'
  BY DEF IInv, Typed, AcpTyped, Exits, Dead, Alive, attemptVars, sessionVars, treeVars, acpVars
<1>5. Counted'
  BY AttemptAssumption, SessionAssumption, AcpAssumption DEF IInv, Typed, Counted, Limits, Exits,
     Dead, Alive, attemptVars, sessionVars, treeVars, acpVars
<1>6. Apart'
  BY DEF IInv, Typed, OutcomeTyped, SessionTyped, TreeTyped, AcpTyped, Apart, Exits, Dead, Alive,
     attemptVars, sessionVars, treeVars, acpVars
<1>7. Ended'
  BY DEF IInv, Typed, OutcomeTyped, SessionTyped, TreeTyped, AcpTyped, Kinds, Apart, Ended,
     OneOutcome, Once, Exits, Dead, Alive, attemptVars, sessionVars,
     treeVars, acpVars
<1>8. Limits'
  BY SessionAssumption, AcpAssumption DEF IInv, Typed, OutcomeTyped, SessionTyped, TreeTyped,
     AcpTyped, Counted, Limits, Apart, Exits, Dead, Alive, attemptVars, sessionVars, treeVars,
     acpVars
<1>9. Once'
  BY DEF IInv, Typed, OutcomeTyped, SessionTyped, TreeTyped, AcpTyped, Apart, Once, ApprovedOnce,
     Exits, Dead, Alive, attemptVars, sessionVars, treeVars, acpVars
<1>10. Reaped'
  BY DEF IInv, Typed, OutcomeTyped, SessionTyped, TreeTyped, AcpTyped, Apart, Reaped, PipeHeld,
     Alive, Names, Exits, Dead, attemptVars, sessionVars, treeVars, acpVars
<1>11. Believed'
  BY DEF IInv, Typed, OutcomeTyped, TreeTyped, AcpTyped, Apart, Ended, Reaped, Believed,
     ReaderChangedNothing, Escaped, Names, Exits, Dead, Alive, attemptVars, sessionVars, treeVars,
     acpVars
<1> QED  BY <1>1, <1>2, <1>3, <1>4, <1>5, <1>6, <1>7, <1>8, <1>9, <1>10, <1>11 DEF IInv, Typed

\* SinkStart keeps the invariant.
LEMMA SinkStartStep ==
  ASSUME IInv, SinkStart, UNCHANGED sessionVars, kind # "native"
  PROVE  IInv'
<1>1. OutcomeTyped'
  BY DEF IInv, Typed, OutcomeTyped, TreeTyped, Kinds, SinkStart, IsAcp, attemptVars, sessionVars,
     treeVars, acpVars
<1>2. SessionTyped'
  BY SessionAssumption DEF IInv, Typed, SessionTyped, Apart, Limits, SinkStart, IsAcp,
     attemptVars, sessionVars, treeVars, acpVars
<1>3. TreeTyped'
  BY DEF IInv, Typed, TreeTyped, Names, SinkStart, IsAcp, attemptVars, sessionVars, treeVars,
     acpVars
<1>4. AcpTyped'
  BY DEF IInv, Typed, AcpTyped, SinkStart, IsAcp, attemptVars, sessionVars, treeVars, acpVars
<1>5. Counted'
  BY AttemptAssumption, SessionAssumption, AcpAssumption DEF IInv, Typed, Counted, Limits,
     SinkStart, IsAcp, attemptVars, sessionVars, treeVars, acpVars
<1>6. Apart'
  BY DEF IInv, Typed, OutcomeTyped, SessionTyped, TreeTyped, AcpTyped, Apart, SinkStart, IsAcp,
     attemptVars, sessionVars, treeVars, acpVars
<1>7. Ended'
  BY DEF IInv, Typed, OutcomeTyped, SessionTyped, TreeTyped, AcpTyped, Kinds, Apart, Ended,
     OneOutcome, Once, SinkStart, IsAcp, attemptVars, sessionVars, treeVars,
     acpVars
<1>8. Limits'
  BY SessionAssumption, AcpAssumption DEF IInv, Typed, OutcomeTyped, SessionTyped, TreeTyped,
     AcpTyped, Counted, Limits, Apart, SinkStart, IsAcp, attemptVars, sessionVars, treeVars,
     acpVars
<1>9. Once'
  BY DEF IInv, Typed, OutcomeTyped, SessionTyped, TreeTyped, AcpTyped, Apart, Once, ApprovedOnce,
     SinkStart, IsAcp, attemptVars, sessionVars, treeVars, acpVars
<1>10. Reaped'
  BY DEF IInv, Typed, OutcomeTyped, SessionTyped, TreeTyped, AcpTyped, Apart, Reaped, PipeHeld,
     Alive, Names, SinkStart, IsAcp, attemptVars, sessionVars, treeVars, acpVars
<1>11. Believed'
  BY DEF IInv, Typed, OutcomeTyped, TreeTyped, AcpTyped, Apart, Ended, Reaped, Believed,
     ReaderChangedNothing, Escaped, Alive, Names, SinkStart, IsAcp, attemptVars, sessionVars,
     treeVars, acpVars
<1> QED  BY <1>1, <1>2, <1>3, <1>4, <1>5, <1>6, <1>7, <1>8, <1>9, <1>10, <1>11 DEF IInv, Typed

\* SpawnAgent keeps the invariant.
LEMMA SpawnAgentStep ==
  ASSUME IInv, SpawnAgent, UNCHANGED sessionVars, kind # "native"
  PROVE  IInv'
<1>1. OutcomeTyped'
  BY DEF IInv, Typed, OutcomeTyped, TreeTyped, Kinds, SpawnAgent, IsAcp, attemptVars, sessionVars,
     treeVars, acpVars
<1>2. SessionTyped'
  BY SessionAssumption DEF IInv, Typed, SessionTyped, Apart, Limits, SpawnAgent, IsAcp,
     attemptVars, sessionVars, treeVars, acpVars
<1>3. TreeTyped'
  BY DEF IInv, Typed, TreeTyped, Names, SpawnAgent, IsAcp, attemptVars, sessionVars, treeVars,
     acpVars
<1>4. AcpTyped'
  BY DEF IInv, Typed, AcpTyped, SpawnAgent, IsAcp, attemptVars, sessionVars, treeVars, acpVars
<1>5. Counted'
  BY AttemptAssumption, SessionAssumption, AcpAssumption DEF IInv, Typed, Counted, Limits,
     SpawnAgent, IsAcp, attemptVars, sessionVars, treeVars, acpVars
<1>6. Apart'
  BY DEF IInv, Typed, OutcomeTyped, SessionTyped, TreeTyped, AcpTyped, Apart, SpawnAgent, IsAcp,
     attemptVars, sessionVars, treeVars, acpVars
<1>7. Ended'
  BY DEF IInv, Typed, OutcomeTyped, SessionTyped, TreeTyped, AcpTyped, Kinds, Apart, Ended,
     OneOutcome, Once, SpawnAgent, IsAcp, attemptVars, sessionVars,
     treeVars, acpVars
<1>8. Limits'
  BY SessionAssumption, AcpAssumption DEF IInv, Typed, OutcomeTyped, SessionTyped, TreeTyped,
     AcpTyped, Counted, Limits, Apart, SpawnAgent, IsAcp, attemptVars, sessionVars, treeVars,
     acpVars
<1>9. Once'
  BY DEF IInv, Typed, OutcomeTyped, SessionTyped, TreeTyped, AcpTyped, Apart, Once, ApprovedOnce,
     SpawnAgent, IsAcp, attemptVars, sessionVars, treeVars, acpVars
<1>10. Reaped'
  BY DEF IInv, Typed, OutcomeTyped, SessionTyped, TreeTyped, AcpTyped, Apart, Reaped, PipeHeld,
     Alive, Names, SpawnAgent, IsAcp, attemptVars, sessionVars, treeVars, acpVars
<1>11. Believed'
  BY DEF IInv, Typed, OutcomeTyped, TreeTyped, AcpTyped, Apart, Ended, Reaped, Believed,
     ReaderChangedNothing, Escaped, Alive, Names, SpawnAgent, IsAcp, attemptVars, sessionVars,
     treeVars, acpVars
<1> QED  BY <1>1, <1>2, <1>3, <1>4, <1>5, <1>6, <1>7, <1>8, <1>9, <1>10, <1>11 DEF IInv, Typed

\* Handshake keeps the invariant.
LEMMA HandshakeStep ==
  ASSUME IInv, Handshake, UNCHANGED sessionVars, kind # "native"
  PROVE  IInv'
<1>1. OutcomeTyped'
  BY DEF IInv, Typed, OutcomeTyped, TreeTyped, Kinds, Handshake, attemptVars, sessionVars,
     treeVars, acpVars
<1>2. SessionTyped'
  BY SessionAssumption DEF IInv, Typed, SessionTyped, Apart, Limits, Handshake, attemptVars,
     sessionVars, treeVars, acpVars
<1>3. TreeTyped'
  BY DEF IInv, Typed, TreeTyped, Names, Handshake, attemptVars, sessionVars, treeVars, acpVars
<1>4. AcpTyped'
  BY DEF IInv, Typed, AcpTyped, Handshake, attemptVars, sessionVars, treeVars, acpVars
<1>5. Counted'
  BY AttemptAssumption, SessionAssumption, AcpAssumption DEF IInv, Typed, Counted, Limits,
     Handshake, attemptVars, sessionVars, treeVars, acpVars
<1>6. Apart'
  BY DEF IInv, Typed, OutcomeTyped, SessionTyped, TreeTyped, AcpTyped, Apart, Handshake,
     attemptVars, sessionVars, treeVars, acpVars
<1>7. Ended'
  BY DEF IInv, Typed, OutcomeTyped, SessionTyped, TreeTyped, AcpTyped, Kinds, Apart, Ended,
     OneOutcome, Once, Handshake, attemptVars, sessionVars, treeVars,
     acpVars
<1>8. Limits'
  BY SessionAssumption, AcpAssumption DEF IInv, Typed, OutcomeTyped, SessionTyped, TreeTyped,
     AcpTyped, Counted, Limits, Apart, Handshake, attemptVars, sessionVars, treeVars, acpVars
<1>9. Once'
  BY DEF IInv, Typed, OutcomeTyped, SessionTyped, TreeTyped, AcpTyped, Apart, Once, ApprovedOnce,
     Handshake, attemptVars, sessionVars, treeVars, acpVars
<1>10. Reaped'
  BY DEF IInv, Typed, OutcomeTyped, SessionTyped, TreeTyped, AcpTyped, Apart, Reaped, PipeHeld,
     Alive, Names, Handshake, attemptVars, sessionVars, treeVars, acpVars
<1>11. Believed'
  BY DEF IInv, Typed, OutcomeTyped, TreeTyped, AcpTyped, Apart, Ended, Reaped, Believed,
     ReaderChangedNothing, Escaped, Alive, Names, Handshake, attemptVars, sessionVars, treeVars,
     acpVars
<1> QED  BY <1>1, <1>2, <1>3, <1>4, <1>5, <1>6, <1>7, <1>8, <1>9, <1>10, <1>11 DEF IInv, Typed

\* SessionUpdate keeps the invariant.
LEMMA SessionUpdateStep ==
  ASSUME IInv, SessionUpdate, UNCHANGED sessionVars, kind # "native"
  PROVE  IInv'
<1>1. OutcomeTyped'
  BY DEF IInv, Typed, OutcomeTyped, TreeTyped, Kinds, SessionUpdate, Connected, EmitFails, Alive,
     attemptVars, sessionVars, treeVars, acpVars
<1>2. SessionTyped'
  BY SessionAssumption DEF IInv, Typed, SessionTyped, Apart, Limits, SessionUpdate, Connected,
     EmitFails, Alive, attemptVars, sessionVars, treeVars, acpVars
<1>3. TreeTyped'
  BY DEF IInv, Typed, TreeTyped, Names, SessionUpdate, Connected, EmitFails, Alive, attemptVars,
     sessionVars, treeVars, acpVars
<1>4. AcpTyped'
  BY DEF IInv, Typed, AcpTyped, SessionUpdate, Connected, EmitFails, Alive, attemptVars,
     sessionVars, treeVars, acpVars
<1>5. Counted'
  BY AttemptAssumption, SessionAssumption, AcpAssumption DEF IInv, Typed, Counted, Limits,
     SessionUpdate, Connected, EmitFails, Alive, attemptVars, sessionVars, treeVars, acpVars
<1>6. Apart'
  BY DEF IInv, Typed, OutcomeTyped, SessionTyped, TreeTyped, AcpTyped, Apart, SessionUpdate,
     Connected, EmitFails, Alive, attemptVars, sessionVars, treeVars, acpVars
<1>7. Ended'
  BY DEF IInv, Typed, OutcomeTyped, SessionTyped, TreeTyped, AcpTyped, Kinds, Apart, Ended,
     OneOutcome, Once, SessionUpdate, Connected, EmitFails, Alive,
     attemptVars, sessionVars, treeVars, acpVars
<1>8. Limits'
  BY SessionAssumption, AcpAssumption DEF IInv, Typed, OutcomeTyped, SessionTyped, TreeTyped,
     AcpTyped, Counted, Limits, Apart, SessionUpdate, Connected, EmitFails, Alive, attemptVars,
     sessionVars, treeVars, acpVars
<1>9. Once'
  BY DEF IInv, Typed, OutcomeTyped, SessionTyped, TreeTyped, AcpTyped, Apart, Once, ApprovedOnce,
     SessionUpdate, Connected, EmitFails, Alive, attemptVars, sessionVars, treeVars, acpVars
<1>10. Reaped'
  BY DEF IInv, Typed, OutcomeTyped, SessionTyped, TreeTyped, AcpTyped, Apart, Reaped, PipeHeld,
     Alive, Names, SessionUpdate, Connected, EmitFails, attemptVars, sessionVars, treeVars,
     acpVars
<1>11. Believed'
  BY DEF IInv, Typed, OutcomeTyped, TreeTyped, AcpTyped, Apart, Ended, Reaped, Believed,
     ReaderChangedNothing, Escaped, Names, SessionUpdate, Connected, EmitFails, Alive, attemptVars,
     sessionVars, treeVars, acpVars
<1> QED  BY <1>1, <1>2, <1>3, <1>4, <1>5, <1>6, <1>7, <1>8, <1>9, <1>10, <1>11 DEF IInv, Typed

\* RequestPermission keeps the invariant.
LEMMA RequestPermissionStep ==
  ASSUME IInv, RequestPermission, UNCHANGED sessionVars, kind # "native"
  PROVE  IInv'
<1>1. OutcomeTyped'
  BY DEF IInv, Typed, OutcomeTyped, TreeTyped, Kinds, RequestPermission, Connected, EmitFails,
     Grants, Alive, attemptVars, sessionVars, treeVars, acpVars
<1>2. SessionTyped'
  BY SessionAssumption DEF IInv, Typed, SessionTyped, Apart, Limits, RequestPermission, Connected,
     EmitFails, Grants, Alive, attemptVars, sessionVars, treeVars, acpVars
<1>3. TreeTyped'
  BY DEF IInv, Typed, TreeTyped, Names, RequestPermission, Connected, EmitFails, Grants, Alive,
     attemptVars, sessionVars, treeVars, acpVars
<1>4. AcpTyped'
  BY DEF IInv, Typed, AcpTyped, RequestPermission, Connected, EmitFails, Grants, Alive,
     attemptVars, sessionVars, treeVars, acpVars
<1>5. Counted'
  BY AttemptAssumption, SessionAssumption, AcpAssumption DEF IInv, Typed, Counted, Limits,
     RequestPermission, Connected, EmitFails, Grants, Alive, attemptVars, sessionVars, treeVars,
     acpVars
<1>6. Apart'
  BY DEF IInv, Typed, OutcomeTyped, SessionTyped, TreeTyped, AcpTyped, Apart, RequestPermission,
     Connected, EmitFails, Grants, Alive, attemptVars, sessionVars, treeVars, acpVars
<1>7. Ended'
  BY DEF IInv, Typed, OutcomeTyped, SessionTyped, TreeTyped, AcpTyped, Kinds, Apart, Ended,
     OneOutcome, Once, RequestPermission, Connected, EmitFails, Grants,
     Alive, attemptVars, sessionVars, treeVars, acpVars
<1>8. Limits'
  BY SessionAssumption, AcpAssumption DEF IInv, Typed, OutcomeTyped, SessionTyped, TreeTyped,
     AcpTyped, Counted, Limits, Apart, RequestPermission, Connected, EmitFails, Grants, Alive,
     attemptVars, sessionVars, treeVars, acpVars
<1>9. Once'
  BY DEF IInv, Typed, OutcomeTyped, SessionTyped, TreeTyped, AcpTyped, Apart, Once, ApprovedOnce,
     RequestPermission, Connected, EmitFails, Grants, Alive, attemptVars, sessionVars, treeVars,
     acpVars
<1>10. Reaped'
  BY DEF IInv, Typed, OutcomeTyped, SessionTyped, TreeTyped, AcpTyped, Apart, Reaped, PipeHeld,
     Alive, Names, RequestPermission, Connected, EmitFails, Grants, attemptVars, sessionVars,
     treeVars, acpVars
<1>11. Believed'
  BY DEF IInv, Typed, OutcomeTyped, TreeTyped, AcpTyped, Apart, Ended, Reaped, Believed,
     ReaderChangedNothing, Escaped, Names, RequestPermission, Connected, EmitFails, Grants, Alive,
     attemptVars, sessionVars, treeVars, acpVars
<1> QED  BY <1>1, <1>2, <1>3, <1>4, <1>5, <1>6, <1>7, <1>8, <1>9, <1>10, <1>11 DEF IInv, Typed

\* AgentWrites keeps the invariant.
LEMMA AgentWritesStep ==
  ASSUME IInv, AgentWrites, UNCHANGED sessionVars, kind # "native"
  PROVE  IInv'
<1>1. OutcomeTyped'
  BY DEF IInv, Typed, OutcomeTyped, TreeTyped, Kinds, AgentWrites, IsAcp, Alive, attemptVars,
     sessionVars, treeVars, acpVars
<1>2. SessionTyped'
  BY SessionAssumption DEF IInv, Typed, SessionTyped, Apart, Limits, AgentWrites, IsAcp, Alive,
     attemptVars, sessionVars, treeVars, acpVars
<1>3. TreeTyped'
  BY DEF IInv, Typed, TreeTyped, Names, AgentWrites, IsAcp, Alive, attemptVars, sessionVars,
     treeVars, acpVars
<1>4. AcpTyped'
  BY DEF IInv, Typed, AcpTyped, AgentWrites, IsAcp, Alive, attemptVars, sessionVars, treeVars,
     acpVars
<1>5. Counted'
  BY AttemptAssumption, SessionAssumption, AcpAssumption DEF IInv, Typed, Counted, Limits,
     AgentWrites, IsAcp, Alive, attemptVars, sessionVars, treeVars, acpVars
<1>6. Apart'
  BY DEF IInv, Typed, OutcomeTyped, SessionTyped, TreeTyped, AcpTyped, Apart, AgentWrites, IsAcp,
     Alive, attemptVars, sessionVars, treeVars, acpVars
<1>7. Ended'
  BY DEF IInv, Typed, OutcomeTyped, SessionTyped, TreeTyped, AcpTyped, Kinds, Apart, Ended,
     OneOutcome, Once, AgentWrites, IsAcp, Alive, attemptVars, sessionVars,
     treeVars, acpVars
<1>8. Limits'
  BY SessionAssumption, AcpAssumption DEF IInv, Typed, OutcomeTyped, SessionTyped, TreeTyped,
     AcpTyped, Counted, Limits, Apart, AgentWrites, IsAcp, Alive, attemptVars, sessionVars,
     treeVars, acpVars
<1>9. Once'
  BY DEF IInv, Typed, OutcomeTyped, SessionTyped, TreeTyped, AcpTyped, Apart, Once, ApprovedOnce,
     AgentWrites, IsAcp, Alive, attemptVars, sessionVars, treeVars, acpVars
<1>10. Reaped'
  BY DEF IInv, Typed, OutcomeTyped, SessionTyped, TreeTyped, AcpTyped, Apart, Reaped, PipeHeld,
     Alive, Names, AgentWrites, IsAcp, attemptVars, sessionVars, treeVars, acpVars
<1>11. Believed'
  BY DEF IInv, Typed, OutcomeTyped, TreeTyped, AcpTyped, Apart, Ended, Reaped, Believed,
     ReaderChangedNothing, Escaped, Names, AgentWrites, IsAcp, Alive, attemptVars, sessionVars,
     treeVars, acpVars
<1> QED  BY <1>1, <1>2, <1>3, <1>4, <1>5, <1>6, <1>7, <1>8, <1>9, <1>10, <1>11 DEF IInv, Typed

\* PromptReturns keeps the invariant.
LEMMA PromptReturnsStep ==
  ASSUME IInv, PromptReturns, UNCHANGED sessionVars, kind # "native"
  PROVE  IInv'
<1>1. OutcomeTyped'
  BY DEF IInv, Typed, OutcomeTyped, TreeTyped, Kinds, PromptReturns, Connected, Alive,
     attemptVars, sessionVars, treeVars, acpVars
<1>2. SessionTyped'
  BY SessionAssumption DEF IInv, Typed, SessionTyped, Apart, Limits, PromptReturns, Connected,
     Alive, attemptVars, sessionVars, treeVars, acpVars
<1>3. TreeTyped'
  BY DEF IInv, Typed, TreeTyped, Names, PromptReturns, Connected, Alive, attemptVars, sessionVars,
     treeVars, acpVars
<1>4. AcpTyped'
  BY DEF IInv, Typed, AcpTyped, PromptReturns, Connected, Alive, attemptVars, sessionVars,
     treeVars, acpVars
<1>5. Counted'
  BY AttemptAssumption, SessionAssumption, AcpAssumption DEF IInv, Typed, Counted, Limits,
     PromptReturns, Connected, Alive, attemptVars, sessionVars, treeVars, acpVars
<1>6. Apart'
  BY DEF IInv, Typed, OutcomeTyped, SessionTyped, TreeTyped, AcpTyped, Apart, PromptReturns,
     Connected, Alive, attemptVars, sessionVars, treeVars, acpVars
<1>7. Ended'
  BY DEF IInv, Typed, OutcomeTyped, SessionTyped, TreeTyped, AcpTyped, Kinds, Apart, Ended,
     OneOutcome, Once, PromptReturns, Connected, Alive, attemptVars,
     sessionVars, treeVars, acpVars
<1>8. Limits'
  BY SessionAssumption, AcpAssumption DEF IInv, Typed, OutcomeTyped, SessionTyped, TreeTyped,
     AcpTyped, Counted, Limits, Apart, PromptReturns, Connected, Alive, attemptVars, sessionVars,
     treeVars, acpVars
<1>9. Once'
  BY DEF IInv, Typed, OutcomeTyped, SessionTyped, TreeTyped, AcpTyped, Apart, Once, ApprovedOnce,
     PromptReturns, Connected, Alive, attemptVars, sessionVars, treeVars, acpVars
<1>10. Reaped'
  BY DEF IInv, Typed, OutcomeTyped, SessionTyped, TreeTyped, AcpTyped, Apart, Reaped, PipeHeld,
     Alive, Names, PromptReturns, Connected, attemptVars, sessionVars, treeVars, acpVars
<1>11. Believed'
  BY DEF IInv, Typed, OutcomeTyped, TreeTyped, AcpTyped, Apart, Ended, Reaped, Believed,
     ReaderChangedNothing, Escaped, Names, PromptReturns, Connected, Alive, attemptVars,
     sessionVars, treeVars, acpVars
<1> QED  BY <1>1, <1>2, <1>3, <1>4, <1>5, <1>6, <1>7, <1>8, <1>9, <1>10, <1>11 DEF IInv, Typed

\* StopPrompt keeps the invariant.
LEMMA StopPromptStep ==
  ASSUME IInv, StopPrompt, UNCHANGED sessionVars, kind # "native"
  PROVE  IInv'
<1>1. OutcomeTyped'
  BY DEF IInv, Typed, OutcomeTyped, TreeTyped, Kinds, StopPrompt, attemptVars, sessionVars,
     treeVars, acpVars
<1>2. SessionTyped'
  BY SessionAssumption DEF IInv, Typed, SessionTyped, Apart, Limits, StopPrompt, attemptVars,
     sessionVars, treeVars, acpVars
<1>3. TreeTyped'
  BY DEF IInv, Typed, TreeTyped, Names, StopPrompt, attemptVars, sessionVars, treeVars, acpVars
<1>4. AcpTyped'
  BY DEF IInv, Typed, AcpTyped, StopPrompt, attemptVars, sessionVars, treeVars, acpVars
<1>5. Counted'
  BY AttemptAssumption, SessionAssumption, AcpAssumption DEF IInv, Typed, Counted, Limits,
     StopPrompt, attemptVars, sessionVars, treeVars, acpVars
<1>6. Apart'
  BY DEF IInv, Typed, OutcomeTyped, SessionTyped, TreeTyped, AcpTyped, Apart, StopPrompt,
     attemptVars, sessionVars, treeVars, acpVars
<1>7. Ended'
  BY DEF IInv, Typed, OutcomeTyped, SessionTyped, TreeTyped, AcpTyped, Kinds, Apart, Ended,
     OneOutcome, Once, StopPrompt, attemptVars, sessionVars, treeVars,
     acpVars
<1>8. Limits'
  BY SessionAssumption, AcpAssumption DEF IInv, Typed, OutcomeTyped, SessionTyped, TreeTyped,
     AcpTyped, Counted, Limits, Apart, StopPrompt, attemptVars, sessionVars, treeVars, acpVars
<1>9. Once'
  BY DEF IInv, Typed, OutcomeTyped, SessionTyped, TreeTyped, AcpTyped, Apart, Once, ApprovedOnce,
     StopPrompt, attemptVars, sessionVars, treeVars, acpVars
<1>10. Reaped'
  BY DEF IInv, Typed, OutcomeTyped, SessionTyped, TreeTyped, AcpTyped, Apart, Reaped, PipeHeld,
     Alive, Names, StopPrompt, attemptVars, sessionVars, treeVars, acpVars
<1>11. Believed'
  BY DEF IInv, Typed, OutcomeTyped, TreeTyped, AcpTyped, Apart, Ended, Reaped, Believed,
     ReaderChangedNothing, Escaped, Alive, Names, StopPrompt, attemptVars, sessionVars, treeVars,
     acpVars
<1> QED  BY <1>1, <1>2, <1>3, <1>4, <1>5, <1>6, <1>7, <1>8, <1>9, <1>10, <1>11 DEF IInv, Typed

\* TakeResult keeps the invariant.
LEMMA TakeResultStep ==
  ASSUME IInv, TakeResult, UNCHANGED sessionVars, kind # "native"
  PROVE  IInv'
<1>1. OutcomeTyped'
  BY DEF IInv, Typed, OutcomeTyped, TreeTyped, Kinds, TakeResult, attemptVars, sessionVars,
     treeVars, acpVars
<1>2. SessionTyped'
  BY SessionAssumption DEF IInv, Typed, SessionTyped, Apart, Limits, TakeResult, attemptVars,
     sessionVars, treeVars, acpVars
<1>3. TreeTyped'
  BY DEF IInv, Typed, TreeTyped, Names, TakeResult, attemptVars, sessionVars, treeVars, acpVars
<1>4. AcpTyped'
  BY DEF IInv, Typed, AcpTyped, TakeResult, attemptVars, sessionVars, treeVars, acpVars
<1>5. Counted'
  BY AttemptAssumption, SessionAssumption, AcpAssumption DEF IInv, Typed, Counted, Limits,
     TakeResult, attemptVars, sessionVars, treeVars, acpVars
<1>6. Apart'
  BY DEF IInv, Typed, OutcomeTyped, SessionTyped, TreeTyped, AcpTyped, Apart, TakeResult,
     attemptVars, sessionVars, treeVars, acpVars
<1>7. Ended'
  BY DEF IInv, Typed, OutcomeTyped, SessionTyped, TreeTyped, AcpTyped, Kinds, Apart, Ended,
     OneOutcome, Once, TakeResult, attemptVars, sessionVars, treeVars,
     acpVars
<1>8. Limits'
  BY SessionAssumption, AcpAssumption DEF IInv, Typed, OutcomeTyped, SessionTyped, TreeTyped,
     AcpTyped, Counted, Limits, Apart, TakeResult, attemptVars, sessionVars, treeVars, acpVars
<1>9. Once'
  BY DEF IInv, Typed, OutcomeTyped, SessionTyped, TreeTyped, AcpTyped, Apart, Once, ApprovedOnce,
     TakeResult, attemptVars, sessionVars, treeVars, acpVars
<1>10. Reaped'
  BY DEF IInv, Typed, OutcomeTyped, SessionTyped, TreeTyped, AcpTyped, Apart, Reaped, PipeHeld,
     Alive, Names, TakeResult, attemptVars, sessionVars, treeVars, acpVars
<1>11. Believed'
  BY DEF IInv, Typed, OutcomeTyped, TreeTyped, AcpTyped, Apart, Ended, Reaped, Believed,
     ReaderChangedNothing, Escaped, Alive, Names, TakeResult, attemptVars, sessionVars, treeVars,
     acpVars
<1> QED  BY <1>1, <1>2, <1>3, <1>4, <1>5, <1>6, <1>7, <1>8, <1>9, <1>10, <1>11 DEF IInv, Typed

\* Settle keeps the invariant.
LEMMA SettleStep ==
  ASSUME IInv, Settle, UNCHANGED sessionVars, kind # "native"
  PROVE  IInv'
<1>1. OutcomeTyped'
  BY DEF IInv, Typed, OutcomeTyped, TreeTyped, Kinds, Settle, attemptVars, sessionVars, treeVars,
     acpVars
<1>2. SessionTyped'
  BY SessionAssumption DEF IInv, Typed, SessionTyped, Apart, Limits, Settle, attemptVars,
     sessionVars, treeVars, acpVars
<1>3. TreeTyped'
  BY DEF IInv, Typed, TreeTyped, Names, Settle, attemptVars, sessionVars, treeVars, acpVars
<1>4. AcpTyped'
  BY DEF IInv, Typed, AcpTyped, Settle, attemptVars, sessionVars, treeVars, acpVars
<1>5. Counted'
  BY AttemptAssumption, SessionAssumption, AcpAssumption DEF IInv, Typed, Counted, Limits, Settle,
     attemptVars, sessionVars, treeVars, acpVars
<1>6. Apart'
  BY DEF IInv, Typed, OutcomeTyped, SessionTyped, TreeTyped, AcpTyped, Apart, Settle, attemptVars,
     sessionVars, treeVars, acpVars
<1>7. Ended'
  BY DEF IInv, Typed, OutcomeTyped, SessionTyped, TreeTyped, AcpTyped, Kinds, Apart, Ended,
     OneOutcome, Once, Settle, attemptVars, sessionVars, treeVars, acpVars
<1>8. Limits'
  BY SessionAssumption, AcpAssumption DEF IInv, Typed, OutcomeTyped, SessionTyped, TreeTyped,
     AcpTyped, Counted, Limits, Apart, Settle, attemptVars, sessionVars, treeVars, acpVars
<1>9. Once'
  BY DEF IInv, Typed, OutcomeTyped, SessionTyped, TreeTyped, AcpTyped, Apart, Once, ApprovedOnce,
     Settle, attemptVars, sessionVars, treeVars, acpVars
<1>10. Reaped'
  BY DEF IInv, Typed, OutcomeTyped, SessionTyped, TreeTyped, AcpTyped, Apart, Reaped, PipeHeld,
     Alive, Names, Settle, attemptVars, sessionVars, treeVars, acpVars
<1>11. Believed'
  BY DEF IInv, Typed, OutcomeTyped, TreeTyped, AcpTyped, Apart, Ended, Reaped, Believed,
     ReaderChangedNothing, Escaped, Alive, Names, Settle, attemptVars, sessionVars, treeVars,
     acpVars
<1> QED  BY <1>1, <1>2, <1>3, <1>4, <1>5, <1>6, <1>7, <1>8, <1>9, <1>10, <1>11 DEF IInv, Typed

\* Snapshot keeps the invariant.
LEMMA SnapshotStep ==
  ASSUME IInv, Snapshot, UNCHANGED sessionVars, kind # "native"
  PROVE  IInv'
<1>1. OutcomeTyped'
  BY DEF IInv, Typed, OutcomeTyped, TreeTyped, Kinds, Snapshot, Reach, Alive, attemptVars,
     sessionVars, treeVars, acpVars
<1>2. SessionTyped'
  BY SessionAssumption DEF IInv, Typed, SessionTyped, Apart, Limits, Snapshot, Reach, Alive,
     attemptVars, sessionVars, treeVars, acpVars
<1>3. TreeTyped'
  BY DEF IInv, Typed, TreeTyped, Names, Snapshot, Reach, Alive, attemptVars, sessionVars,
     treeVars, acpVars
<1>4. AcpTyped'
  BY DEF IInv, Typed, AcpTyped, Snapshot, Reach, Alive, attemptVars, sessionVars, treeVars,
     acpVars
<1>5. Counted'
  BY AttemptAssumption, SessionAssumption, AcpAssumption DEF IInv, Typed, Counted, Limits,
     Snapshot, Reach, Alive, attemptVars, sessionVars, treeVars, acpVars
<1>6. Apart'
  BY DEF IInv, Typed, OutcomeTyped, SessionTyped, TreeTyped, AcpTyped, Apart, Snapshot, Reach,
     Alive, attemptVars, sessionVars, treeVars, acpVars
<1>7. Ended'
  BY DEF IInv, Typed, OutcomeTyped, SessionTyped, TreeTyped, AcpTyped, Kinds, Apart, Ended,
     OneOutcome, Once, Snapshot, Reach, Alive, attemptVars, sessionVars,
     treeVars, acpVars
<1>8. Limits'
  BY SessionAssumption, AcpAssumption DEF IInv, Typed, OutcomeTyped, SessionTyped, TreeTyped,
     AcpTyped, Counted, Limits, Apart, Snapshot, Reach, Alive, attemptVars, sessionVars, treeVars,
     acpVars
<1>9. Once'
  BY DEF IInv, Typed, OutcomeTyped, SessionTyped, TreeTyped, AcpTyped, Apart, Once, ApprovedOnce,
     Snapshot, Reach, Alive, attemptVars, sessionVars, treeVars, acpVars
<1>10. Reaped'
  BY DEF IInv, Typed, OutcomeTyped, SessionTyped, TreeTyped, AcpTyped, Apart, Reaped, PipeHeld,
     Alive, Names, Snapshot, Reach, attemptVars, sessionVars, treeVars, acpVars
<1>11. Believed'
  BY DEF IInv, Typed, OutcomeTyped, TreeTyped, AcpTyped, Apart, Ended, Reaped, Believed,
     ReaderChangedNothing, Escaped, Names, Snapshot, Reach, Alive, attemptVars, sessionVars,
     treeVars, acpVars
<1> QED  BY <1>1, <1>2, <1>3, <1>4, <1>5, <1>6, <1>7, <1>8, <1>9, <1>10, <1>11 DEF IInv, Typed

\* CloseConnection keeps the invariant.
LEMMA CloseConnectionStep ==
  ASSUME IInv, CloseConnection, UNCHANGED sessionVars, kind # "native"
  PROVE  IInv'
<1>1. OutcomeTyped'
  BY DEF IInv, Typed, OutcomeTyped, TreeTyped, Kinds, CloseConnection, attemptVars, sessionVars,
     treeVars, acpVars
<1>2. SessionTyped'
  BY SessionAssumption DEF IInv, Typed, SessionTyped, Apart, Limits, CloseConnection, attemptVars,
     sessionVars, treeVars, acpVars
<1>3. TreeTyped'
  BY DEF IInv, Typed, TreeTyped, Names, CloseConnection, attemptVars, sessionVars, treeVars,
     acpVars
<1>4. AcpTyped'
  BY DEF IInv, Typed, AcpTyped, CloseConnection, attemptVars, sessionVars, treeVars, acpVars
<1>5. Counted'
  BY AttemptAssumption, SessionAssumption, AcpAssumption DEF IInv, Typed, Counted, Limits,
     CloseConnection, attemptVars, sessionVars, treeVars, acpVars
<1>6. Apart'
  BY DEF IInv, Typed, OutcomeTyped, SessionTyped, TreeTyped, AcpTyped, Apart, CloseConnection,
     attemptVars, sessionVars, treeVars, acpVars
<1>7. Ended'
  BY DEF IInv, Typed, OutcomeTyped, SessionTyped, TreeTyped, AcpTyped, Kinds, Apart, Ended,
     OneOutcome, Once, CloseConnection, attemptVars, sessionVars, treeVars,
     acpVars
<1>8. Limits'
  BY SessionAssumption, AcpAssumption DEF IInv, Typed, OutcomeTyped, SessionTyped, TreeTyped,
     AcpTyped, Counted, Limits, Apart, CloseConnection, attemptVars, sessionVars, treeVars,
     acpVars
<1>9. Once'
  BY DEF IInv, Typed, OutcomeTyped, SessionTyped, TreeTyped, AcpTyped, Apart, Once, ApprovedOnce,
     CloseConnection, attemptVars, sessionVars, treeVars, acpVars
<1>10. Reaped'
  BY DEF IInv, Typed, OutcomeTyped, SessionTyped, TreeTyped, AcpTyped, Apart, Reaped, PipeHeld,
     Alive, Names, CloseConnection, attemptVars, sessionVars, treeVars, acpVars
<1>11. Believed'
  BY DEF IInv, Typed, OutcomeTyped, TreeTyped, AcpTyped, Apart, Ended, Reaped, Believed,
     ReaderChangedNothing, Escaped, Alive, Names, CloseConnection, attemptVars, sessionVars,
     treeVars, acpVars
<1> QED  BY <1>1, <1>2, <1>3, <1>4, <1>5, <1>6, <1>7, <1>8, <1>9, <1>10, <1>11 DEF IInv, Typed

\* Drain keeps the invariant.
LEMMA DrainStep ==
  ASSUME IInv, Drain, UNCHANGED sessionVars, kind # "native"
  PROVE  IInv'
<1>1. OutcomeTyped'
  BY DEF IInv, Typed, OutcomeTyped, TreeTyped, Kinds, Drain, IsAcp, attemptVars, sessionVars,
     treeVars, acpVars
<1>2. SessionTyped'
  BY SessionAssumption DEF IInv, Typed, SessionTyped, Apart, Limits, Drain, IsAcp, attemptVars,
     sessionVars, treeVars, acpVars
<1>3. TreeTyped'
  BY DEF IInv, Typed, TreeTyped, Names, Drain, IsAcp, attemptVars, sessionVars, treeVars, acpVars
<1>4. AcpTyped'
  BY DEF IInv, Typed, AcpTyped, Drain, IsAcp, attemptVars, sessionVars, treeVars, acpVars
<1>5. Counted'
  BY AttemptAssumption, SessionAssumption, AcpAssumption DEF IInv, Typed, Counted, Limits, Drain,
     IsAcp, attemptVars, sessionVars, treeVars, acpVars
<1>6. Apart'
  BY DEF IInv, Typed, OutcomeTyped, SessionTyped, TreeTyped, AcpTyped, Apart, Drain, IsAcp,
     attemptVars, sessionVars, treeVars, acpVars
<1>7. Ended'
  BY DEF IInv, Typed, OutcomeTyped, SessionTyped, TreeTyped, AcpTyped, Kinds, Apart, Ended,
     OneOutcome, Once, Drain, IsAcp, attemptVars, sessionVars, treeVars,
     acpVars
<1>8. Limits'
  BY SessionAssumption, AcpAssumption DEF IInv, Typed, OutcomeTyped, SessionTyped, TreeTyped,
     AcpTyped, Counted, Limits, Apart, Drain, IsAcp, attemptVars, sessionVars, treeVars, acpVars
<1>9. Once'
  BY DEF IInv, Typed, OutcomeTyped, SessionTyped, TreeTyped, AcpTyped, Apart, Once, ApprovedOnce,
     Drain, IsAcp, attemptVars, sessionVars, treeVars, acpVars
<1>10. Reaped'
  BY DEF IInv, Typed, OutcomeTyped, SessionTyped, TreeTyped, AcpTyped, Apart, Reaped, PipeHeld,
     Alive, Names, Drain, IsAcp, attemptVars, sessionVars, treeVars, acpVars
<1>11. Believed'
  BY DEF IInv, Typed, OutcomeTyped, TreeTyped, AcpTyped, Apart, Ended, Reaped, Believed,
     ReaderChangedNothing, Escaped, Alive, Names, Drain, IsAcp, attemptVars, sessionVars, treeVars,
     acpVars
<1> QED  BY <1>1, <1>2, <1>3, <1>4, <1>5, <1>6, <1>7, <1>8, <1>9, <1>10, <1>11 DEF IInv, Typed

\* CheckWorkspace keeps the invariant.
LEMMA CheckWorkspaceStep ==
  ASSUME IInv, CheckWorkspace, UNCHANGED sessionVars, kind # "native"
  PROVE  IInv'
<1>1. OutcomeTyped'
  BY DEF IInv, Typed, OutcomeTyped, TreeTyped, Kinds, CheckWorkspace, Raised, attemptVars, sessionVars,
     treeVars, acpVars
<1>2. SessionTyped'
  BY SessionAssumption DEF IInv, Typed, SessionTyped, Apart, Limits, CheckWorkspace, Raised, attemptVars,
     sessionVars, treeVars, acpVars
<1>3. TreeTyped'
  BY DEF IInv, Typed, TreeTyped, Names, CheckWorkspace, Raised, attemptVars, sessionVars, treeVars, acpVars
<1>4. AcpTyped'
  BY DEF IInv, Typed, AcpTyped, CheckWorkspace, Raised, attemptVars, sessionVars, treeVars, acpVars
<1>5. Counted'
  BY AttemptAssumption, SessionAssumption, AcpAssumption DEF IInv, Typed, Counted, Limits, CheckWorkspace,
     Raised, attemptVars, sessionVars, treeVars, acpVars
<1>6. Apart'
  BY DEF IInv, Typed, OutcomeTyped, SessionTyped, TreeTyped, AcpTyped, Apart, CheckWorkspace, Raised,
     attemptVars, sessionVars, treeVars, acpVars
<1>7. Ended'
  BY DEF IInv, Typed, OutcomeTyped, SessionTyped, TreeTyped, AcpTyped, Kinds, Apart, Ended,
     OneOutcome, Once, CheckWorkspace, Raised, attemptVars, sessionVars, treeVars,
     acpVars
<1>8. Limits'
  BY SessionAssumption, AcpAssumption DEF IInv, Typed, OutcomeTyped, SessionTyped, TreeTyped,
     AcpTyped, Counted, Limits, Apart, CheckWorkspace, Raised, attemptVars, sessionVars, treeVars, acpVars
<1>9. Once'
  BY DEF IInv, Typed, OutcomeTyped, SessionTyped, TreeTyped, AcpTyped, Apart, Once, ApprovedOnce,
     CheckWorkspace, Raised, attemptVars, sessionVars, treeVars, acpVars
<1>10. Reaped'
  BY DEF IInv, Typed, OutcomeTyped, SessionTyped, TreeTyped, AcpTyped, Apart, Reaped, PipeHeld,
     Alive, Names, CheckWorkspace, Raised, attemptVars, sessionVars, treeVars, acpVars
<1>11. Believed'
  BY DEF IInv, Typed, OutcomeTyped, TreeTyped, AcpTyped, Apart, Ended, Reaped, Believed,
     ReaderChangedNothing, Escaped, Alive, Names, CheckWorkspace, Raised, attemptVars, sessionVars, treeVars,
     acpVars
<1> QED  BY <1>1, <1>2, <1>3, <1>4, <1>5, <1>6, <1>7, <1>8, <1>9, <1>10, <1>11 DEF IInv, Typed

\* RecordOutcome keeps the invariant.
LEMMA RecordOutcomeStep ==
  ASSUME IInv, RecordOutcome, UNCHANGED sessionVars, kind # "native"
  PROVE  IInv'
<1>1. OutcomeTyped'
  <2>1. report' \in {"completed", "timeout", "cancelled", "failed"}
    BY DEF IInv, Typed, TreeTyped, RecordOutcome, RecordFailure, RecordWorkerResult,
           RecordReading, Recorded, Raised
  <2>2. record' = record \/ RecordCompleted \/ RecordFailed
    BY DEF RecordOutcome, RecordFailure, RecordWorkerResult, RecordReading, Recorded
  <2>3. record' \in [completed : Nat, failed : Nat]
    BY <2>2 DEF RecordCompleted, RecordFailed, IInv, Typed, OutcomeTyped
  <2>4. broken' \in BOOLEAN
    BY DEF IInv, Typed, OutcomeTyped, RecordOutcome, RecordFailure, RecordWorkerResult,
           RecordReading, Recorded
  <2> QED  BY <2>1, <2>3, <2>4 DEF IInv, Typed, OutcomeTyped, RecordOutcome
<1>2. SessionTyped'
  BY SessionAssumption DEF IInv, Typed, SessionTyped, Apart, Limits, RecordOutcome, IsAcp,
     RecordFailure, RecordWorkerResult, RecordReading, Recorded, Raised, RecordCompleted,
     RecordFailed, attemptVars, sessionVars, treeVars, acpVars
<1>3. TreeTyped'
  BY DEF IInv, Typed, TreeTyped, Names, RecordOutcome, IsAcp, RecordFailure, RecordWorkerResult,
     RecordReading, Recorded, Raised, RecordCompleted, RecordFailed, attemptVars, sessionVars,
     treeVars, acpVars
<1>4. AcpTyped'
  BY DEF IInv, Typed, AcpTyped, RecordOutcome, IsAcp, RecordFailure, RecordWorkerResult,
     RecordReading, Recorded, Raised, RecordCompleted, RecordFailed, attemptVars, sessionVars,
     treeVars, acpVars
<1>5. Counted'
  <2>1. faults' = faults \/ (faults < MaxFaults /\ faults' = faults + 1)
    BY DEF RecordOutcome, RecordFailure, RecordWorkerResult, RecordReading, Recorded
  <2>2. UNCHANGED <<turns, calls, errors, updates>>
    BY DEF RecordOutcome, sessionVars, acpVars
  <2> QED  BY <2>1, <2>2, AttemptAssumption DEF IInv, Typed, Counted
<1>6. Apart'
  BY DEF IInv, Typed, OutcomeTyped, SessionTyped, TreeTyped, AcpTyped, Apart, RecordOutcome,
     IsAcp, RecordFailure, RecordWorkerResult, RecordReading, Recorded, Raised, RecordCompleted,
     RecordFailed, attemptVars, sessionVars, treeVars, acpVars
<1>7. Ended'
  BY DEF IInv, Typed, OutcomeTyped, SessionTyped, TreeTyped, AcpTyped, Kinds, Apart, Ended,
     OneOutcome, Once, RecordOutcome, IsAcp, RecordFailure,
     RecordWorkerResult, RecordReading, Recorded, Raised, RecordCompleted, RecordFailed,
     attemptVars, sessionVars, treeVars, acpVars
<1>8. Limits'
  BY SessionAssumption, AcpAssumption DEF IInv, Typed, OutcomeTyped, SessionTyped, TreeTyped,
     AcpTyped, Counted, Limits, Apart, RecordOutcome, IsAcp, RecordFailure, RecordWorkerResult,
     RecordReading, Recorded, Raised, RecordCompleted, RecordFailed, attemptVars, sessionVars,
     treeVars, acpVars
<1>9. Once'
  BY DEF IInv, Typed, OutcomeTyped, SessionTyped, TreeTyped, AcpTyped, Apart, Once, ApprovedOnce,
     RecordOutcome, IsAcp, RecordFailure, RecordWorkerResult, RecordReading, Recorded, Raised,
     RecordCompleted, RecordFailed, attemptVars, sessionVars, treeVars, acpVars
<1>10. Reaped'
  BY DEF IInv, Typed, OutcomeTyped, SessionTyped, TreeTyped, AcpTyped, Apart, Reaped, PipeHeld,
     Alive, Names, RecordOutcome, IsAcp, RecordFailure, RecordWorkerResult, RecordReading,
     Recorded, Raised, RecordCompleted, RecordFailed, attemptVars, sessionVars, treeVars, acpVars
<1>11. Believed'
  BY DEF IInv, Typed, OutcomeTyped, TreeTyped, AcpTyped, Apart, Ended, Reaped, Believed,
     ReaderChangedNothing, Escaped, Alive, Names, RecordOutcome, IsAcp, RecordFailure,
     RecordWorkerResult, RecordReading, Recorded, Raised, RecordCompleted, RecordFailed,
     attemptVars, sessionVars, treeVars, acpVars
<1> QED  BY <1>1, <1>2, <1>3, <1>4, <1>5, <1>6, <1>7, <1>8, <1>9, <1>10, <1>11 DEF IInv, Typed

\* Cancel keeps the invariant.
LEMMA CancelStep ==
  ASSUME IInv, Cancel, UNCHANGED <<sessionVars, treeVars, acpVars>>
  PROVE  IInv'
<1>1. OutcomeTyped'
  BY DEF IInv, Typed, OutcomeTyped, TreeTyped, Kinds, Cancel, attemptVars, sessionVars, treeVars,
     acpVars
<1>2. SessionTyped'
  BY SessionAssumption DEF IInv, Typed, SessionTyped, Apart, Limits, Cancel, attemptVars,
     sessionVars, treeVars, acpVars
<1>3. TreeTyped'
  BY DEF IInv, Typed, TreeTyped, Names, Cancel, attemptVars, sessionVars, treeVars, acpVars
<1>4. AcpTyped'
  BY DEF IInv, Typed, AcpTyped, Cancel, attemptVars, sessionVars, treeVars, acpVars
<1>5. Counted'
  BY AttemptAssumption, SessionAssumption, AcpAssumption DEF IInv, Typed, Counted, Limits, Cancel,
     attemptVars, sessionVars, treeVars, acpVars
<1>6. Apart'
  BY DEF IInv, Typed, OutcomeTyped, SessionTyped, TreeTyped, AcpTyped, Apart, Cancel, attemptVars,
     sessionVars, treeVars, acpVars
<1>7. Ended'
  BY DEF IInv, Typed, OutcomeTyped, SessionTyped, TreeTyped, AcpTyped, Kinds, Apart, Ended,
     OneOutcome, Once, Cancel, attemptVars, sessionVars, treeVars, acpVars
<1>8. Limits'
  BY SessionAssumption, AcpAssumption DEF IInv, Typed, OutcomeTyped, SessionTyped, TreeTyped,
     AcpTyped, Counted, Limits, Apart, Cancel, attemptVars, sessionVars, treeVars, acpVars
<1>9. Once'
  BY DEF IInv, Typed, OutcomeTyped, SessionTyped, TreeTyped, AcpTyped, Apart, Once, ApprovedOnce,
     Cancel, attemptVars, sessionVars, treeVars, acpVars
<1>10. Reaped'
  BY DEF IInv, Typed, OutcomeTyped, SessionTyped, TreeTyped, AcpTyped, Apart, Reaped, PipeHeld,
     Alive, Names, Cancel, attemptVars, sessionVars, treeVars, acpVars
<1>11. Believed'
  BY DEF IInv, Typed, OutcomeTyped, TreeTyped, AcpTyped, Apart, Ended, Reaped, Believed,
     ReaderChangedNothing, Escaped, Alive, Names, Cancel, attemptVars, sessionVars, treeVars,
     acpVars
<1> QED  BY <1>1, <1>2, <1>3, <1>4, <1>5, <1>6, <1>7, <1>8, <1>9, <1>10, <1>11 DEF IInv, Typed

-----------------------------------------------------------------------------
(* The invariant                                                           *)

\* It holds before the first step.
LEMMA InvInit == Init => IInv
<1> SUFFICES ASSUME Init PROVE IInv
  OBVIOUS
<1> USE DEF Init, AttemptInit, SessionInit, TreeInit, AcpInit
<1>1. Typed
  <2>1. OutcomeTyped /\ TreeTyped /\ AcpTyped
    BY DEF OutcomeTyped, TreeTyped, AcpTyped, Kinds, Names
  <2>2. SessionTyped
    BY EmptySeq DEF SessionTyped
  <2>3. Counted
    BY AttemptAssumption, SessionAssumption, AcpAssumption DEF Counted
  <2> QED  BY <2>1, <2>2, <2>3 DEF Typed
<1>2. Apart /\ Limits
  BY SessionAssumption, AcpAssumption DEF Apart, Limits
<1>3. Ended
  BY DEF Ended, OneOutcome
<1>4. Once
  BY DEF Once, ApprovedOnce
<1>5. Reaped
  BY DEF Reaped, Alive, PipeHeld, Names
<1>6. Believed
  BY DEF Believed, ReaderChangedNothing
<1> QED  BY <1>1, <1>2, <1>3, <1>4, <1>5, <1>6 DEF IInv

\* Every step of a session, a process, an agent, the user and the host keeps it.
LEMMA InvStep == IInv /\ [Next]_vars => IInv'
<1> SUFFICES ASSUME IInv, [Next]_vars PROVE IInv'
  OBVIOUS
<1>1. CASE Session
  BY <1>1, SessionStartStep, RespondStep, ModelCallsToolsStep, ModelCompletesStep, ModelFailsStep,
     RefuseCallStep, ToolReturnsStep, ToolRaisesStep, BatchDoneStep, ResumeCancelledStep,
     SessionSinkFailsStep, PrepareFailsStep, PrepareAgainStep, PrepareStep DEF Session, SessionStep
<1>2. CASE Asked
  BY <1>2, ResumeApprovedStep, ResumeDeniedStep DEF Asked, SessionUser
<1>3. CASE Tree
  BY <1>3, WalkStep, KillStep, SpawnStep, StopWaitingStep, NoticeExitStep, ReapStep, JoinStep DEF
     Tree, TreeStep, Running
<1>4. CASE World
  BY <1>4, ForkStep, ExitsStep, SessionUpdateStep, RequestPermissionStep, AgentWritesStep,
     PromptReturnsStep DEF World, TreeWorld, AcpWorld, Running
<1>5. CASE Acp
  BY <1>5, StopPromptStep, TakeResultStep, SettleStep, SnapshotStep, CloseConnectionStep, DrainStep,
     CheckWorkspaceStep, RecordOutcomeStep DEF Acp, AcpStep, Running
<1>6. CASE Starting
  BY <1>6, SinkStartStep, SpawnAgentStep, HandshakeStep DEF Starting, AcpStarting, Running
<1>7. CASE HostCancels
  BY <1>7, CancelStep DEF HostCancels
<1>8. CASE UNCHANGED vars
  <2> USE <1>8 DEF vars, attemptVars, sessionVars, treeVars, acpVars
  <2>1. Typed'
    BY DEF IInv, Typed, OutcomeTyped, SessionTyped, TreeTyped, AcpTyped, Counted
  <2>2. (Apart /\ Limits)'
    BY DEF IInv, Apart, Limits
  <2>3. Ended'
    BY DEF IInv, Ended, OneOutcome
  <2>4. Once'
    BY DEF IInv, Once, ApprovedOnce
  <2>5. Reaped'
    BY DEF IInv, Reaped, Alive, PipeHeld
  <2>6. Believed'
    BY DEF IInv, Believed, ReaderChangedNothing, Escaped
  <2> QED  BY <2>1, <2>2, <2>3, <2>4, <2>5, <2>6 DEF IInv
<1> QED  BY <1>1, <1>2, <1>3, <1>4, <1>5, <1>6, <1>7, <1>8 DEF Next

\* The invariant holds in every state the attempt reaches.
THEOREM Invariance == Spec => []IInv
<1>1. Init => IInv
  BY InvInit
<1>2. IInv /\ [Next]_vars => IInv'
  BY InvStep
<1> QED  BY <1>1, <1>2, PTL DEF Spec

-----------------------------------------------------------------------------
(* The theorems                                                            *)

\* The variables keep their types and the session its limits: no more turns, tool
\* calls, consecutive errors and session updates than the limits allow.
THEOREM TypeCorrect == Spec => []TypeOK
<1>1. IInv => TypeOK
  BY DEF IInv, Typed, OutcomeTyped, SessionTyped, TreeTyped, AcpTyped, Counted, TypeOK
<1> QED  BY <1>1, Invariance, PTL

\* Ledger and pipeline hear the same end of an attempt, whatever the order of prompt,
\* fatal signal, token, timeout, teardown and ledger failure (_record_execution_failure,
\* AcpWorkerAttemptAdapter, the readers' _fail).
THEOREM EndsHaveOneOutcome == Spec => []OneOutcome
<1>1. IInv => OneOutcome
  BY DEF IInv, Ended
<1> QED  BY <1>1, Invariance, PTL

\* A tool's executor is entered at most once for a call id and never without leave
\* (Dispatcher.prepare and execute, AgentSession.resume).
THEOREM ToolsRunOnce == Spec => []ApprovedOnce
<1>1. IInv => ApprovedOnce
  BY DEF IInv, Once
<1> QED  BY <1>1, Invariance, PTL

\* A call that came back without a cleanup error left nothing running that could be
\* found when its cleanup began (capture_process_tree, terminate_process_tree,
\* ProcessRunner.run).
THEOREM NothingSurvives == Spec => []NoSilentSurvivor
<1>1. IInv => NoSilentSurvivor
  <2> SUFFICES ASSUME IInv, report # "none", kind # "native", ~cleanup
               PROVE  /\ owed \cap Alive = {}
                      /\ "root" \notin Alive
                      /\ kind = "process" /\ report \in {"completed", "timeout"} => ~PipeHeld
    BY DEF NoSilentSurvivor
  <2>1. phase = "done"
    BY DEF IInv, Ended
  <2> QED  BY <2>1 DEF IInv, Reaped, Alive
<1> QED  BY <1>1, Invariance, PTL

\* A Planner or Reviewer that had changed the workspace when its session was over is
\* not believed, and later only a process that escaped the cleanup can change it
\* (run_acp_semantic_prompt).
THEOREM ReadersOnlyRead == Spec => []ReaderChangedNothing
<1>1. IInv => ReaderChangedNothing
  BY DEF IInv, Believed
<1> QED  BY <1>1, Invariance, PTL
=============================================================================
