------------------------------ MODULE Recovery ------------------------------
(***************************************************************************)
(* recover_running_runs: a process that finds the Run RUNNING settles it   *)
(* as interrupted.  It writes a terminal event for everything the history  *)
(* shows as unfinished and then run.interrupted, in one batch, under the   *)
(* seq of its scan.  There is no lease: the writer it takes for dead may   *)
(* still be alive, and only the seq protects the Run from both.            *)
(***************************************************************************)
EXTENDS RunLedger, FiniteSets

\* Events recovery writes on behalf of the event at seq n.
Interrupted(n, kind) == [log[n] EXCEPT !.kind = kind, !.src = "recovery", !.res = "none"]

\* tool.started of the plan, execution and review sessions.
ToolStart(n) == log[n].fam \in {"plan", "execution", "review"} /\ log[n].kind = "item_started"

\* started_items keeps the last start of an item_id, terminal_items every
\* item_id that ever ended; an item_id belongs to one session.
UnfinishedTool(n) ==
  /\ ToolStart(n)
  /\ \A m \in DOMAIN log :
       log[m].id = log[n].id /\ log[m].ref = log[n].ref
         => log[m].kind # "item_ended" /\ (m > n => log[m].kind # "item_started")

AttemptStart(fam, n) == log[n].fam = fam /\ log[n].kind = "started"

\* Event n belongs to the attempt started at s: before a later start of its id.
InAttempt(s, n) ==
  /\ n > s /\ log[n].fam = log[s].fam /\ log[n].id = log[s].id
  /\ \A m \in DOMAIN log :
       (m > s /\ AttemptStart(log[s].fam, m) /\ log[m].id = log[s].id) => n < m

Finished(s) ==
  \E n \in DOMAIN log :
    InAttempt(s, n) /\ log[n].kind \in {"completed", "exhausted", "failed", "interrupted"}

\* Checks (or fix attempts) of the attempt started at s that have not ended
\* since their own start.
UnfinishedItem(s, n) ==
  /\ InAttempt(s, n) /\ log[n].kind = "item_started"
  /\ ~ \E m \in DOMAIN log : /\ InAttempt(s, m) /\ m > n
                            /\ log[m].kind = "item_ended" /\ log[m].ref = log[n].ref

\* Still to be ended of the attempt started at s: the item started at n or, under the
\* seq after the history and so last, the attempt itself.  The tools of a plan or a
\* review are dealt with before.
Unsettled(s, n) ==
  IF n \in DOMAIN log
  THEN log[s].fam \in {"verification", "fix_loop"} /\ UnfinishedItem(s, n)
  ELSE ~Finished(s)

\* The families recovery settles, in its order.
Rank == [plan |-> 1, verification |-> 2, review |-> 3, fix_loop |-> 4]

\* Mutation: recovery looks at verifications only.
OwedVerificationsOnly ==
  {o \in (1..Len(log)) \X (1..Len(log) + 1) :
     AttemptStart("verification", o[1]) /\ Unsettled(o[1], o[2])}

\* Everything recovery ends: the tool started at n as <<0, n>>, and <<s, n>> of the
\* attempt started at s.
Owed ==
  {o \in (0..Len(log)) \X (1..Len(log) + 1) :
     IF o[1] = 0 THEN o[2] \in DOMAIN log /\ UnfinishedTool(o[2])
     ELSE (\E fam \in DOMAIN Rank : AttemptStart(fam, o[1])) /\ Unsettled(o[1], o[2])}

Ending(o) == IF o[2] \in DOMAIN log THEN Interrupted(o[2], "item_ended")
             ELSE Interrupted(o[1], "interrupted")

\* Tools before everything else, family by family, attempt by attempt.
Precedes(o, p) ==
  LET rank(s) == IF s = 0 THEN 0 ELSE Rank[log[s].fam] IN
  \/ rank(o[1]) < rank(p[1])
  \/ rank(o[1]) = rank(p[1]) /\ (o[1] < p[1] \/ (o[1] = p[1] /\ o[2] < p[2]))

\* All of S from the first to the last: one sequence.
InOrder(S) ==
  {q \in [1..Cardinality(S) -> S] :
     /\ \A i, j \in DOMAIN q : i < j => Precedes(q[i], q[j])
     /\ \A o \in S : \E i \in DOMAIN q : q[i] = o}

\* The batch.
RecoverySpecs ==
  {[i \in DOMAIN q |-> Ending(q[i])] \o <<RunEvent("interrupted", "recovery")>> :
     q \in InOrder(Owed)}

\* Mutation: a Run waiting for the user is a candidate too.
RecoverAnyActive(w) ==
  \E s \in {"RUNNING", "WAITING_USER"} :
    status = s /\ \E specs \in RecoverySpecs : Decides(w, s, specs)

\* The scan (active_runs) and the history it decides on.
Recover(w) == status = "RUNNING" /\ \E specs \in RecoverySpecs : Decides(w, "RUNNING", specs)
=============================================================================
