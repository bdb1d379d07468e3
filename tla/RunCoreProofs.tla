--------------------------- MODULE RunCoreProofs ----------------------------
(***************************************************************************)
(* Proofs about one canonical Run and everybody who writes its history, of *)
(* any number of attempts, gates, hosts and recovering processes.  The     *)
(* argument is that of the code: a seq that has not moved since it was     *)
(* read means that what was read still holds.  Recorder(a) says what a     *)
(* recorder whose expectation is current may rely on, Decided(w) what a    *)
(* writer that has read and decided may; every append makes the            *)
(* expectations of all others stale, so both are re-established only by    *)
(* the one who appends.                                                    *)
(***************************************************************************)
EXTENDS RunCore, FiniteSetTheorems, SequenceTheorems, WellFoundedInduction, TLAPS

\* The families of attempts; project_run and the gate tell them by the event type.
Families == {"plan", "execution", "verification", "review", "fix_loop"}

ItemKinds == {"item_started", "item_ended"}

\* Event n starts attempt a.
StartOf(n, a) == log[n].fam = Fam(a) /\ log[n].kind = "started" /\ log[n].id = a

\* Event n is one of attempt a, or a run event that came with an attempt's own.
Own(n, a) == log[n].id = a \/ (log[n].src = "sink" /\ log[n].fam = "run")

\* Whose an event is: every event of an attempt follows a start of that attempt, only
\* recorders write starts, and recovery's events are found in a settled Run only.
Belongs ==
  \A n \in DOMAIN log :
    /\ log[n].fam \in Families =>
         /\ log[n].id \in Attempts /\ log[n].fam = Fam(log[n].id)
         /\ log[n].src \in {"sink", "recovery"}
         /\ \E b \in 1..n : StartOf(b, log[n].id)
    /\ log[n].src = "sink" /\ log[n].id \in Attempts => log[n].fam \in Families
    /\ log[n].kind = "started" => IF log[n].fam \in Families THEN log[n].src = "sink"
                                 ELSE log[n].id = NoId
    /\ log[n].kind \in ItemKinds => log[n].fam \in Families
    /\ log[n].src = "recovery" => status \in Life!Terminal

\* A tool or permission event of an execution comes after the start of an execution that
\* has not ended since.
ToolsInside ==
  \A n \in DOMAIN log :
    (log[n].fam = "execution" /\ log[n].src = "sink" /\ n \notin ExecutionLifecycle)
      => \E b \in 1..n :
           /\ log[b].fam = "execution" /\ log[b].kind = "started"
           /\ \A m \in (b + 1)..n : ~(log[m].fam = "execution" /\ log[m].kind \in {"completed", "failed"})

\* The recorder of a is at work and nothing was appended since its last append.
Current(a) == sink[a].pc \in {"open", "live", "asked"} /\ sink[a].expected = Len(log)

\* What the recorder of a may rely on: while nothing was appended behind its back the Run
\* is in the status it left it in and, but for a loop, all events since its first are its
\* own; and if somebody else ended its attempt, the Run is over.
Recorder(a) ==
  /\ sink[a].expected <= Len(log)
  /\ (sink[a].pc = "none" \/ (sink[a].pc = "open" /\ a \in Executions))
       => \A n \in DOMAIN log : ~(log[n].fam \in Families /\ log[n].id = a)
  /\ sink[a].pc \in {"live", "asked"} =>
       /\ \E b \in DOMAIN log : StartOf(b, a)
       /\ \A n \in DOMAIN log : AttemptTerminal(n) /\ log[n].id = a => status \in Life!Terminal
  /\ sink[a].pc = "asked" => a \in Executions
  /\ a \in Fenced /\ Current(a) =>
       status = IF sink[a].pc = "asked" THEN "WAITING_USER" ELSE "RUNNING"
  /\ a \in Fenced \ Loops /\ Current(a) /\ sink[a].pc # "open" =>
       \A i \in DOMAIN log : log[i].id = a /\ log[i].src = "sink"
         => \A m \in i..Len(log) : Own(m, a)

\* The evidence for a settlement x that would be recorded at seq n.
VerifiedFor(x, n) ==
  \E e, s, t \in 1..(n - 1) :
    /\ e < s /\ s < t
    /\ log[e].fam = "execution" /\ log[e].kind = "completed" /\ log[e].id = x.id
    /\ log[s].fam = "verification" /\ log[s].kind = "started" /\ log[s].id = x.ref
    /\ log[t].fam = "verification" /\ log[t].kind = "completed" /\ log[t].id = x.ref
    /\ log[t].res = "pass"
    /\ \A m \in (e + 1)..(n - 1) : log[m].fam # "execution"
    /\ \A m \in (s + 1)..(n - 1) : ~(log[m].fam = "verification" /\ log[m].kind = "started")

\* The same for the review a settlement names ...
ReviewedFor(x, n) ==
  \E t, s, r \in 1..(n - 1) :
    /\ t < s /\ s < r
    /\ log[t].fam = "verification" /\ log[t].res = "pass" /\ log[t].id = x.ref
    /\ log[s].fam = "review" /\ log[s].kind = "started"
    /\ log[r].fam = "review" /\ log[r].id = log[s].id /\ log[r].res = "APPROVED"
    /\ log[r].ref = x.ref /\ log[r].diff = x.diff
    /\ \A m \in (s + 1)..(n - 1) : ~(log[m].fam = "review" /\ log[m].kind = "started")
    /\ \A m \in (r + 1)..(n - 1) :
         ~(/\ log[m].fam = "review" /\ log[m].id = log[s].id
           /\ log[m].kind \in {"completed", "failed", "interrupted"})

\* ... and for a failure.
FailedFor(x, n) ==
  \E t \in 1..(n - 1) :
    /\ log[t].id = x.id /\ log[t].fam = x.res
    /\ log[t].kind \in {"failed", "exhausted"} \/ log[t].res = "fail"
    /\ \A m \in (t + 1)..(n - 1) : ~(/\ log[m].fam = "execution"
                                      /\ log[m].kind \in {"started", "completed", "failed"})
    /\ x.res # "execution" =>
         \A m \in (t + 1)..(n - 1) : ~(log[m].fam = x.res /\ log[m].kind = "started")

\* What FailedOnEvidence says of event n.
FailedAt(n) == FailedFor(log[n], n)

\* What the gate vouches for when it records x after the history.
Vouched(x) ==
  /\ x.res \in {"verified", "reviewed"} => VerifiedFor(x, Len(log) + 1)
  /\ x.res = "reviewed" => ReviewedFor(x, Len(log) + 1)
  /\ x.src = "gate" /\ x.kind = "failed" => FailedFor(x, Len(log) + 1)

\* An event that neither belongs to an attempt nor interrupts the Run.
Outside(x) ==
  /\ x.fam \notin Families /\ x.src \notin {"sink", "recovery"}
  /\ x.kind \notin {"started"} \cup ItemKinds
  /\ ~(x.fam = "run" /\ x.kind = "interrupted")

\* An event that needs no evidence.
Unmarked(x) == x.res \notin {"verified", "reviewed"} /\ ~(x.src = "gate" /\ x.kind = "failed")

\* An event that may be attributed to its attempt.
Attributed(x) ==
  /\ x.fam \in Families =>
       /\ x.id \in Attempts /\ x.fam = Fam(x.id) /\ x.src \in {"sink", "recovery"}
       /\ x.kind = "started" \/ \E b \in DOMAIN log : StartOf(b, x.id)
  /\ x.src = "sink" /\ x.id \in Attempts => x.fam \in Families
  /\ x.kind = "started" => IF x.fam \in Families THEN x.src = "sink" ELSE x.id = NoId
  /\ x.kind \in ItemKinds => x.fam \in Families

\* A batch that may follow the history: nothing but its first event needs evidence.
Sound(specs) ==
  \/ specs \in RecoverySpecs
  \/ /\ \A k \in DOMAIN specs : Outside(specs[k])
     /\ \A k \in DOMAIN specs : k # 1 => Unmarked(specs[k])
     /\ Vouched(specs[1])

\* Where a batch may lead a Run, as RunLifecycle says.
Leads(from, to) ==
  \/ from = "RUNNING" /\ to \in {"WAITING_USER"} \cup Life!Terminal
  \/ from = "WAITING_USER" /\ to \in {"RUNNING", "SUCCEEDED", "FAILED", "CANCELLED"}

\* What w read still holds as long as the seq has not moved.
Decided(w) ==
  pend[w].specs # <<>> =>
    /\ pend[w].seq <= Len(log)
    /\ pend[w].seq = Len(log) =>
         /\ status = pend[w].from
         /\ Leads(pend[w].from, StatusAfter(pend[w].from, pend[w].specs))
         /\ Sound(pend[w].specs)

\* What has to be closed before a recovery, and that it is.
Opens(i) ==
  \/ log[i].kind = "started" /\ log[i].fam \in {"plan", "verification", "review", "fix_loop"}
  \/ log[i].kind = "item_started" /\ log[i].fam \in {"verification", "fix_loop"}
  \/ FreshTool(i)

ClosedBefore(n) == \A i \in 1..(n - 1) : Opens(i) => \E j \in (i + 1)..(n - 1) : Ends(i, j)

\* The inductive invariant.
IInv ==
  /\ TypeOK /\ Belongs /\ ToolsInside
  /\ \A a \in Attempts : Recorder(a)
  /\ \A w \in Writers : Decided(w)
  /\ SettledOnEvidence /\ FailedOnEvidence
  /\ AttemptUninterleaved /\ EndsOnce /\ RecoveredIsClosed

-----------------------------------------------------------------------------
(* Seqs: the greatest of some                                              *)

\* Less than, as a relation.
Below == {p \in Nat \X Nat : p[1] < p[2]}

\* There is no endless descent among seqs.
LEMMA BelowWellFounded == IsWellFoundedOn(Below, Nat)
<1>1. OpToRel(<, Nat) = Below
  BY DEF OpToRel, Below
<1> QED  BY <1>1, NatLessThanWellFounded

\* Some of the seqs of a history have a last one.
LEMMA Greatest ==
  ASSUME NEW N \in Nat, NEW S \in SUBSET (1..N), S # {}
  PROVE  \E m \in S : \A k \in S : k <= m
<1> DEFINE T == {k \in 0..N : N - k \in S}
<1>1. \A m \in S : N - m \in T
  <2> SUFFICES ASSUME NEW m \in S PROVE N - m \in T
    OBVIOUS
  <2>1. m \in 1..N
    OBVIOUS
  <2>2. N - m \in 0..N /\ N - (N - m) = m
    BY <2>1
  <2> QED  BY <2>2
<1>2. T \subseteq Nat /\ \A k \in T : N - k \in S
  OBVIOUS
<1>3. T # {}
  BY <1>1
<1> HIDE DEF T
<1>4. PICK x \in T : \A y \in T : ~ (<<y, x>> \in Below)
  BY <1>2, <1>3, BelowWellFounded, WFMin
<1>5. \A y \in T : x <= y
  <2> SUFFICES ASSUME NEW y \in T PROVE x <= y
    OBVIOUS
  <2>1. x \in Nat /\ y \in Nat
    BY <1>2
  <2>2. ~(y < x)
    BY <1>4, <2>1 DEF Below
  <2> QED  BY <2>1, <2>2
<1>6. \A k \in S : k <= N - x
  <2> SUFFICES ASSUME NEW k \in S PROVE k <= N - x
    OBVIOUS
  <2>1. x <= N - k /\ x \in Nat /\ k \in 1..N
    BY <1>1, <1>2, <1>5
  <2> QED  BY <2>1
<1> QED  BY <1>2, <1>6

-----------------------------------------------------------------------------
(* The projector                                                           *)

\* The events of a batch that have an effect on the status.
Hits(specs) == {k \in 1..Len(specs) : StatusOf(specs[k]) # "same"}

\* A batch without an event that has an effect leaves the status alone.
LEMMA StatusKept ==
  ASSUME NEW s, NEW specs, \A k \in 1..Len(specs) : StatusOf(specs[k]) = "same"
  PROVE  StatusAfter(s, specs) = s
BY DEF StatusAfter

\* The last event with an effect decides.
LEMMA StatusSet ==
  ASSUME NEW s, NEW specs, Len(specs) \in Nat, NEW m \in Hits(specs), \A k \in Hits(specs) : k <= m
  PROVE  StatusAfter(s, specs) = StatusOf(specs[m])
<1> DEFINE c == CHOOSE k \in Hits(specs) : \A j \in Hits(specs) : j <= k
<1>1. c \in Hits(specs) /\ \A j \in Hits(specs) : j <= c
  OBVIOUS
<1>2. \A k \in Hits(specs) : k \in Nat
  BY DEF Hits
<1>3. c = m
  <2> HIDE DEF c
  <2>1. c <= m /\ m <= c /\ c \in Nat /\ m \in Nat
    BY <1>1, <1>2
  <2> QED  BY <2>1
<1>4. StatusAfter(s, specs) = StatusOf(specs[c])
  BY DEF StatusAfter, Hits
<1> QED  BY <1>3, <1>4

\* In particular the last event of the batch, if it has an effect.
LEMMA StatusLast ==
  ASSUME NEW s, NEW specs, Len(specs) \in Nat \ {0}, StatusOf(specs[Len(specs)]) # "same"
  PROVE  StatusAfter(s, specs) = StatusOf(specs[Len(specs)])
<1>1. Len(specs) \in Hits(specs) /\ \A k \in Hits(specs) : k <= Len(specs)
  BY DEF Hits
<1> QED  BY <1>1, StatusSet

\* Projecting a history and then a batch is projecting both together.
LEMMA StatusConcat ==
  ASSUME NEW s, NEW l \in Seq(Events), NEW b \in Seq(Events)
  PROVE  StatusAfter(s, l \o b) = StatusAfter(StatusAfter(s, l), b)
<1>1. /\ Len(l) \in Nat /\ Len(b) \in Nat /\ Len(l \o b) = Len(l) + Len(b)
      /\ \A k \in 1..Len(l) : (l \o b)[k] = l[k]
      /\ \A k \in 1..Len(b) : (l \o b)[Len(l) + k] = b[k]
  OBVIOUS
<1> DEFINE lb == l \o b
<1> HIDE DEF lb
<1>2. \A k \in 1..Len(lb) : k \in 1..Len(l) \/ \E j \in 1..Len(b) : k = Len(l) + j
  <2> SUFFICES ASSUME NEW k \in 1..Len(lb), ~(k \in 1..Len(l))
               PROVE  \E j \in 1..Len(b) : k = Len(l) + j
    OBVIOUS
  <2>1. k - Len(l) \in 1..Len(b) /\ k = Len(l) + (k - Len(l))
    BY <1>1 DEF lb
  <2> QED  BY <2>1
<1>0. Len(lb) \in Nat
  BY <1>1 DEF lb
<1>3. CASE Hits(b) = {}
  <2>1. StatusAfter(StatusAfter(s, l), b) = StatusAfter(s, l)
    BY <1>3, StatusKept DEF Hits
  <2>2. Hits(lb) = Hits(l)
    <3>1. \A k \in Hits(lb) : k \in Hits(l)
      <4> SUFFICES ASSUME NEW k \in Hits(lb) PROVE k \in Hits(l)
        OBVIOUS
      <4>1. k \in 1..Len(l)
        <5>1. \A j \in 1..Len(b) : StatusOf(b[j]) = "same"
          BY <1>3 DEF Hits
        <5>2. \A j \in 1..Len(b) : StatusOf(lb[Len(l) + j]) = "same"
          BY <1>1, <5>1 DEF lb
        <5>3. k \in 1..Len(lb) /\ StatusOf(lb[k]) # "same"
          BY DEF Hits
        <5> QED  BY <1>2, <5>2, <5>3
      <4> QED  BY <1>1, <4>1 DEF Hits, lb
    <3>2. \A k \in Hits(l) : k \in Hits(lb)
      BY <1>1 DEF Hits, lb
    <3> QED  BY <3>1, <3>2
  <2>3. CASE Hits(l) = {}
    <3>1. StatusAfter(s, lb) = s
      BY <2>2, <2>3, StatusKept DEF Hits
    <3>2. StatusAfter(s, l) = s
      BY <2>3, StatusKept DEF Hits
    <3> QED  BY <2>1, <3>1, <3>2 DEF lb
  <2>4. CASE Hits(l) # {}
    <3>1. PICK m \in Hits(l) : \A k \in Hits(l) : k <= m
      BY <1>1, <2>4, Greatest DEF Hits
    <3>2. StatusAfter(s, l) = StatusOf(l[m])
      BY <1>1, <3>1, StatusSet
    <3>3. StatusAfter(s, lb) = StatusOf(lb[m])
      <4>1. m \in Hits(lb) /\ \A k \in Hits(lb) : k <= m
        BY <2>2, <3>1
      <4> QED  BY <1>0, <4>1, StatusSet
    <3>4. lb[m] = l[m]
      BY <1>1, <3>1 DEF Hits, lb
    <3> QED  BY <2>1, <3>2, <3>3, <3>4 DEF lb
  <2> QED  BY <2>3, <2>4
<1>4. CASE Hits(b) # {}
  <2>1. PICK m \in Hits(b) : \A k \in Hits(b) : k <= m
    BY <1>1, <1>4, Greatest DEF Hits
  <2>2. StatusAfter(StatusAfter(s, l), b) = StatusOf(b[m])
    BY <1>1, <2>1, StatusSet
  <2>3. m \in 1..Len(b) /\ lb[Len(l) + m] = b[m] /\ Len(l) + m \in Hits(lb)
    BY <1>1, <2>1 DEF Hits, lb
  <2>4. \A k \in Hits(lb) : k <= Len(l) + m
    <3> SUFFICES ASSUME NEW k \in Hits(lb) PROVE k <= Len(l) + m
      OBVIOUS
    <3>1. CASE k \in 1..Len(l)
      BY <1>1, <2>3, <3>1
    <3>2. CASE \E j \in 1..Len(b) : k = Len(l) + j
      <4>1. PICK j \in 1..Len(b) : k = Len(l) + j
        BY <3>2
      <4>2. j \in Hits(b)
        BY <1>1, <4>1 DEF Hits, lb
      <4> QED  BY <1>1, <2>1, <2>3, <4>1, <4>2
    <3> QED  BY <1>2, <3>1, <3>2 DEF Hits
  <2>5. StatusAfter(s, lb) = StatusOf(lb[Len(l) + m])
    BY <1>0, <2>3, <2>4, StatusSet
  <2> QED  BY <2>2, <2>3, <2>5 DEF lb
<1> QED  BY <1>3, <1>4

\* What an event projects is a status.
LEMMA StatusOfType ==
  ASSUME NEW e
  PROVE  StatusOf(e) \in Statuses \cup {"same"}
BY DEF StatusOf, Statuses

\* So is what a batch projects.
LEMMA StatusAfterType ==
  ASSUME NEW s \in Statuses, NEW specs \in Seq(Events)
  PROVE  StatusAfter(s, specs) \in Statuses
<1>1. Len(specs) \in Nat
  OBVIOUS
<1>2. CASE Hits(specs) = {}
  BY <1>2, StatusKept DEF Hits
<1>3. CASE Hits(specs) # {}
  <2>1. PICK m \in Hits(specs) : \A k \in Hits(specs) : k <= m
    BY <1>1, <1>3, Greatest DEF Hits
  <2>2. StatusAfter(s, specs) = StatusOf(specs[m]) /\ StatusOf(specs[m]) # "same"
    BY <1>1, <2>1, StatusSet DEF Hits
  <2> QED  BY <2>2, StatusOfType
<1> QED  BY <1>2, <1>3

-----------------------------------------------------------------------------
(* Appending                                                               *)

\* The history only grows, its projection stays its status.
LEMMA AppendFacts ==
  ASSUME TypeOK, NEW specs \in Seq(Events), Appended(specs)
  PROVE  /\ Len(log) \in Nat /\ Len(specs) \in Nat /\ Len(log') = Len(log) + Len(specs)
         /\ DOMAIN log = 1..Len(log) /\ DOMAIN log' = 1..Len(log')
         /\ \A k \in 1..Len(log) : log'[k] = log[k]
         /\ \A k \in 1..Len(specs) : log'[Len(log) + k] = specs[k]
         /\ \A n \in DOMAIN log' : n \in 1..Len(log) \/ \E k \in 1..Len(specs) : n = Len(log) + k
         /\ log' \in Seq(Events)
         /\ status' = StatusAfter(status, specs)
         /\ status' = StatusAfter("CREATED", log')
         /\ status' \in Statuses
<1>1. log \in Seq(Events) /\ log' = log \o specs /\ status' = StatusAfter(status, specs)
  BY DEF TypeOK, Appended
<1>2. /\ Len(log) \in Nat /\ Len(specs) \in Nat /\ Len(log') = Len(log) + Len(specs)
      /\ DOMAIN log = 1..Len(log) /\ DOMAIN log' = 1..Len(log')
      /\ \A k \in 1..Len(log) : log'[k] = log[k]
      /\ \A k \in 1..Len(specs) : log'[Len(log) + k] = specs[k]
      /\ log' \in Seq(Events)
  BY <1>1
<1>3. \A n \in DOMAIN log' : n \in 1..Len(log) \/ \E k \in 1..Len(specs) : n = Len(log) + k
  <2> SUFFICES ASSUME NEW n \in DOMAIN log', ~(n \in 1..Len(log))
               PROVE  \E k \in 1..Len(specs) : n = Len(log) + k
    OBVIOUS
  <2>1. n - Len(log) \in 1..Len(specs) /\ n = Len(log) + (n - Len(log))
    BY <1>2
  <2> QED  BY <2>1
<1>4. status' = StatusAfter("CREATED", log')
  BY <1>1, StatusConcat DEF TypeOK
<1>5. status' \in Statuses
  BY <1>1, StatusAfterType DEF TypeOK
<1> QED  BY <1>1, <1>2, <1>3, <1>4, <1>5

\* The family of an attempt.
LEMMA FamFacts ==
  ASSUME NEW a \in Attempts
  PROVE  /\ Fam(a) \in Families
         /\ Fam(a) = "execution" <=> a \in Executions
         /\ Fam(a) = "verification" <=> a \in Verifications
         /\ Fam(a) = "review" <=> a \in Reviews
         /\ Fam(a) = "plan" <=> a \in Plans
         /\ Fam(a) = "fix_loop" <=> a \in Loops
         /\ a # NoId
BY LedgerAssumption DEF Fam, Families, Attempts

\* ACP sessions are neither executions nor verifications nor fix loops.
LEMMA AcpFacts ==
  ASSUME NEW a \in AcpSessions
  PROVE  a \in Attempts /\ a \notin Executions /\ a \notin Loops /\ a \notin Verifications
BY LedgerAssumption DEF Attempts

-----------------------------------------------------------------------------
(* Evidence: a statement about the events before n does not change         *)

\* Evidence for x before n is evidence for the event n, once x is that event.
LEMMA EvidenceAt ==
  ASSUME NEW n \in Nat, n >= 1, NEW x, log'[n] = x, \A k \in 1..(n - 1) : log'[k] = log[k]
  PROVE  /\ VerifiedFor(x, n) => VerifiedAt(n)'
         /\ ReviewedFor(x, n) => ReviewedAt(n)'
         /\ FailedFor(x, n) => FailedAt(n)'
<1>1. VerifiedFor(x, n) => VerifiedAt(n)'
  <2> SUFFICES ASSUME VerifiedFor(x, n) PROVE VerifiedAt(n)'
    OBVIOUS
  <2>1. PICK e, s, t \in 1..(n - 1) :
      /\ e < s /\ s < t
      /\ log[e].fam = "execution" /\ log[e].kind = "completed" /\ log[e].id = x.id
      /\ log[s].fam = "verification" /\ log[s].kind = "started" /\ log[s].id = x.ref
      /\ log[t].fam = "verification" /\ log[t].kind = "completed" /\ log[t].id = x.ref
      /\ log[t].res = "pass"
      /\ \A m \in (e + 1)..(n - 1) : log[m].fam # "execution"
      /\ \A m \in (s + 1)..(n - 1) : ~(log[m].fam = "verification" /\ log[m].kind = "started")
    BY DEF VerifiedFor
  <2>2. log'[e] = log[e] /\ log'[s] = log[s] /\ log'[t] = log[t]
    BY <2>1
  <2>3. \A m \in (e + 1)..(n - 1) : log'[m] = log[m]
    OBVIOUS
  <2>4. \A m \in (s + 1)..(n - 1) : log'[m] = log[m]
    OBVIOUS
  <2> QED  BY <2>1, <2>2, <2>3, <2>4 DEF VerifiedAt
<1>2. ReviewedFor(x, n) => ReviewedAt(n)'
  <2> SUFFICES ASSUME ReviewedFor(x, n) PROVE ReviewedAt(n)'
    OBVIOUS
  <2>1. PICK t, s, r \in 1..(n - 1) :
      /\ t < s /\ s < r
      /\ log[t].fam = "verification" /\ log[t].res = "pass" /\ log[t].id = x.ref
      /\ log[s].fam = "review" /\ log[s].kind = "started"
      /\ log[r].fam = "review" /\ log[r].id = log[s].id /\ log[r].res = "APPROVED"
      /\ log[r].ref = x.ref /\ log[r].diff = x.diff
      /\ \A m \in (s + 1)..(n - 1) : ~(log[m].fam = "review" /\ log[m].kind = "started")
      /\ \A m \in (r + 1)..(n - 1) :
           ~(/\ log[m].fam = "review" /\ log[m].id = log[s].id
             /\ log[m].kind \in {"completed", "failed", "interrupted"})
    BY DEF ReviewedFor
  <2>2. log'[t] = log[t] /\ log'[s] = log[s] /\ log'[r] = log[r]
    BY <2>1
  <2>3. \A m \in (s + 1)..(n - 1) : log'[m] = log[m]
    OBVIOUS
  <2>4. \A m \in (r + 1)..(n - 1) : log'[m] = log[m]
    OBVIOUS
  <2> QED  BY <2>1, <2>2, <2>3, <2>4 DEF ReviewedAt
<1>3. FailedFor(x, n) => FailedAt(n)'
  <2> SUFFICES ASSUME FailedFor(x, n) PROVE FailedAt(n)'
    OBVIOUS
  <2>1. PICK t \in 1..(n - 1) :
      /\ log[t].id = x.id /\ log[t].fam = x.res
      /\ log[t].kind \in {"failed", "exhausted"} \/ log[t].res = "fail"
      /\ \A m \in (t + 1)..(n - 1) : ~(/\ log[m].fam = "execution"
                                        /\ log[m].kind \in {"started", "completed", "failed"})
      /\ x.res # "execution" =>
           \A m \in (t + 1)..(n - 1) : ~(log[m].fam = x.res /\ log[m].kind = "started")
    BY DEF FailedFor
  <2>2. log'[t] = log[t]
    BY <2>1
  <2>3. \A m \in (t + 1)..(n - 1) : log'[m] = log[m]
    OBVIOUS
  <2> QED  BY <2>1, <2>2, <2>3 DEF FailedAt, FailedFor
<1> QED  BY <1>1, <1>2, <1>3

\* The gate's events, old and new, rest on evidence: of the new ones only the first
\* needs any.
LEMMA EvidenceKept ==
  ASSUME TypeOK, SettledOnEvidence, FailedOnEvidence,
         NEW specs \in Seq(Events), specs # <<>>, Appended(specs),
         Vouched(specs[1]), \A k \in 1..Len(specs) : k # 1 => Unmarked(specs[k])
  PROVE  SettledOnEvidence' /\ FailedOnEvidence'
<1>1. /\ Len(log) \in Nat /\ Len(specs) \in Nat /\ Len(log') = Len(log) + Len(specs)
      /\ DOMAIN log = 1..Len(log) /\ DOMAIN log' = 1..Len(log')
      /\ \A k \in 1..Len(log) : log'[k] = log[k]
      /\ \A k \in 1..Len(specs) : log'[Len(log) + k] = specs[k]
      /\ \A n \in DOMAIN log' : n \in 1..Len(log) \/ \E k \in 1..Len(specs) : n = Len(log) + k
  BY AppendFacts
<1>2. ASSUME NEW n \in DOMAIN log'
      PROVE  /\ log'[n].res \in {"verified", "reviewed"} =>
                  VerifiedAt(n)' /\ (log'[n].res = "reviewed" => ReviewedAt(n)')
             /\ log'[n].src = "gate" /\ log'[n].kind = "failed" => FailedAt(n)'
  <2>1. CASE n \in 1..Len(log)
    <3>1. n \in Nat /\ n >= 1 /\ log'[n] = log[n] /\ \A k \in 1..(n - 1) : log'[k] = log[k]
      BY <1>1, <2>1
    <3>2. PICK x : x = log[n]
      OBVIOUS
    <3>3. /\ x.res \in {"verified", "reviewed"} => VerifiedFor(x, n)
          /\ x.res = "reviewed" => ReviewedFor(x, n)
      <4>1. /\ x.res \in {"verified", "reviewed"} => VerifiedAt(n)
            /\ x.res = "reviewed" => ReviewedAt(n)
        BY <1>1, <2>1, <3>2 DEF SettledOnEvidence, Settlements
      <4>2. VerifiedAt(n) => VerifiedFor(x, n)
        BY <3>2, Zenon DEF VerifiedAt, VerifiedFor
      <4>3. ReviewedAt(n) => ReviewedFor(x, n)
        BY <3>2, ZenonT(40) DEF ReviewedAt, ReviewedFor
      <4> QED  BY <4>1, <4>2, <4>3
    <3>4. x.src = "gate" /\ x.kind = "failed" => FailedFor(x, n)
      BY <1>1, <2>1, <3>2 DEF FailedOnEvidence, FailedFor
    <3>5. /\ VerifiedFor(x, n) => VerifiedAt(n)'
          /\ ReviewedFor(x, n) => ReviewedAt(n)'
          /\ FailedFor(x, n) => FailedAt(n)'
      BY <3>1, <3>2, EvidenceAt
    <3> QED  BY <3>1, <3>2, <3>3, <3>4, <3>5
  <2>2. CASE n = Len(log) + 1
    <3>1. 1 \in 1..Len(specs)
      BY <1>1, EmptySeq
    <3>2. n \in Nat /\ n >= 1 /\ log'[n] = specs[1] /\ \A k \in 1..(n - 1) : log'[k] = log[k]
      BY <1>1, <2>2, <3>1
    <3>3. /\ VerifiedFor(specs[1], n) => VerifiedAt(n)'
          /\ ReviewedFor(specs[1], n) => ReviewedAt(n)'
          /\ FailedFor(specs[1], n) => FailedAt(n)'
      BY <3>2, EvidenceAt
    <3> QED  BY <2>2, <3>2, <3>3 DEF Vouched
  <2>3. CASE ~(n \in 1..Len(log)) /\ n # Len(log) + 1
    <3>1. PICK k \in 1..Len(specs) : n = Len(log) + k
      BY <1>1, <2>3
    <3>2. k # 1 /\ log'[n] = specs[k]
      BY <1>1, <2>3, <3>1
    <3> QED  BY <3>1, <3>2 DEF Unmarked
  <2> QED  BY <2>1, <2>2, <2>3
<1>3. SettledOnEvidence'
  BY <1>2 DEF SettledOnEvidence, Settlements
<1>4. FailedOnEvidence'
  BY <1>2 DEF FailedOnEvidence, FailedAt, FailedFor
<1> QED  BY <1>3, <1>4

-----------------------------------------------------------------------------
(* What an append keeps of the history                                     *)

\* The history grows by specs, and nothing else is said of it.
Grows(specs) ==
  /\ Len(log) \in Nat /\ Len(specs) \in Nat /\ Len(log') = Len(log) + Len(specs)
  /\ DOMAIN log = 1..Len(log) /\ DOMAIN log' = 1..Len(log')
  /\ \A k \in 1..Len(log) : log'[k] = log[k]
  /\ \A k \in 1..Len(specs) : log'[Len(log) + k] = specs[k]
  /\ \A n \in DOMAIN log' : n \in 1..Len(log) \/ \E k \in 1..Len(specs) : n = Len(log) + k

\* An append is such a growth.
LEMMA AppendGrows ==
  ASSUME TypeOK, NEW specs \in Seq(Events), Appended(specs)
  PROVE  Grows(specs)
BY AppendFacts DEF Grows

\* What was closed stays closed.
LEMMA ClosedKept ==
  ASSUME NEW specs, Grows(specs), NEW n \in 1..Len(log), ClosedBefore(n)
  PROVE  ClosedBefore(n)'
<1> SUFFICES ASSUME NEW i \in 1..(n - 1), Opens(i)'
             PROVE  \E j \in (i + 1)..(n - 1) : Ends(i, j)'
  BY DEF ClosedBefore
<1>1. /\ n \in Nat /\ i \in Nat /\ i \in 1..Len(log) /\ log'[i] = log[i]
      /\ \A j \in 1..(i - 1) : log'[j] = log[j]
  BY DEF Grows
<1>2. Opens(i)
  BY <1>1 DEF Opens, FreshTool, ToolStart
<1>3. PICK j \in (i + 1)..(n - 1) : Ends(i, j)
  BY <1>2 DEF ClosedBefore
<1>4. log'[j] = log[j]
  BY <1>1 DEF Grows
<1>5. Ends(i, j)'
  BY <1>1, <1>3, <1>4 DEF Ends, AttemptTerminal
<1> QED  BY <1>5

\* A batch without run.interrupted leaves nothing open that recovery closed.
LEMMA RecoveredKept ==
  ASSUME RecoveredIsClosed, NEW specs, Grows(specs),
         \A k \in 1..Len(specs) : ~(specs[k].fam = "run" /\ specs[k].kind = "interrupted")
  PROVE  RecoveredIsClosed'
<1> SUFFICES ASSUME NEW n \in DOMAIN log', log'[n].fam = "run", log'[n].kind = "interrupted"
             PROVE  ClosedBefore(n)'
  BY DEF RecoveredIsClosed, ClosedBefore, Opens
<1>1. n \in 1..Len(log)
  BY DEF Grows
<1>2. ClosedBefore(n)
  BY <1>1 DEF Grows, RecoveredIsClosed, ClosedBefore, Opens
<1> QED  BY <1>1, <1>2, ClosedKept

\* Starts stay where they are.
LEMMA StartsKept ==
  ASSUME NEW specs, Grows(specs), NEW a, NEW b \in 1..Len(log), StartOf(b, a)
  PROVE  StartOf(b, a)'
BY DEF Grows, StartOf

\* Every event belongs to its attempt if the new ones do.
LEMMA BelongsKept ==
  ASSUME Belongs, NEW specs, Grows(specs),
         \A k \in 1..Len(specs) : Attributed(specs[k]),
         status \in Life!Terminal => status' \in Life!Terminal,
         \A k \in 1..Len(specs) : specs[k].src = "recovery" => status' \in Life!Terminal
  PROVE  Belongs'
<1> SUFFICES ASSUME NEW n \in DOMAIN log'
             PROVE  /\ log'[n].fam \in Families =>
                         /\ log'[n].id \in Attempts /\ log'[n].fam = Fam(log'[n].id)
                         /\ log'[n].src \in {"sink", "recovery"}
                         /\ \E b \in 1..n : StartOf(b, log[n].id)'
                    /\ log'[n].src = "sink" /\ log'[n].id \in Attempts => log'[n].fam \in Families
                    /\ log'[n].kind = "started" =>
                         IF log'[n].fam \in Families THEN log'[n].src = "sink" ELSE log'[n].id = NoId
                    /\ log'[n].kind \in ItemKinds => log'[n].fam \in Families
                    /\ log'[n].src = "recovery" => status' \in Life!Terminal
  BY DEF Belongs
<1>1. CASE n \in 1..Len(log)
  <2>1. log'[n] = log[n] /\ n \in DOMAIN log /\ n \in Nat
    BY <1>1 DEF Grows
  <2>2. ASSUME log[n].fam \in Families
        PROVE  \E b \in 1..n : StartOf(b, log[n].id)'
    <3>1. PICK b \in 1..n : StartOf(b, log[n].id)
      BY <2>1, <2>2 DEF Belongs
    <3>2. b \in 1..Len(log) /\ log'[b] = log[b]
      BY <1>1, <2>1 DEF Grows
    <3> QED  BY <2>1, <3>1, <3>2 DEF StartOf
  <2> QED  BY <2>1, <2>2 DEF Belongs
<1>2. CASE \E k \in 1..Len(specs) : n = Len(log) + k
  <2>1. PICK k \in 1..Len(specs) : n = Len(log) + k
    BY <1>2
  <2>2. log'[n] = specs[k] /\ Attributed(specs[k]) /\ n \in Nat /\ n > Len(log) /\ n \in 1..n
    BY <2>1 DEF Grows
  <2>3. ASSUME specs[k].fam \in Families
        PROVE  \E b \in 1..n : StartOf(b, log[n].id)'
    <3>1. CASE specs[k].kind = "started"
      BY <2>2, <2>3, <3>1 DEF StartOf, Attributed
    <3>2. CASE \E b \in DOMAIN log : StartOf(b, specs[k].id)
      <4>1. PICK b \in DOMAIN log : StartOf(b, specs[k].id)
        BY <3>2
      <4>2. b \in 1..n /\ log'[b] = log[b]
        BY <2>2 DEF Grows
      <4> QED  BY <2>2, <4>1, <4>2 DEF StartOf
    <3> QED  BY <2>2, <2>3, <3>1, <3>2 DEF Attributed
  <2> QED  BY <2>1, <2>2, <2>3 DEF Attributed
<1> QED  BY <1>1, <1>2 DEF Grows

\* Where the execution of a new tool event runs: it started, and none ended since.
Inside == \E b \in DOMAIN log :
            /\ log[b].fam = "execution" /\ log[b].kind = "started"
            /\ \A m \in (b + 1)..Len(log) :
                 ~(log[m].fam = "execution" /\ log[m].kind \in {"completed", "failed"})

\* Tool events lie within a running execution if a new one, the first, does.
LEMMA ToolsKept ==
  ASSUME ToolsInside, NEW specs, Grows(specs),
         \A k \in 1..Len(specs) :
           (/\ specs[k].fam = "execution" /\ specs[k].src = "sink"
            /\ specs[k].kind \notin {"started", "completed", "failed"})
             => k = 1 /\ Inside
  PROVE  ToolsInside'
<1> SUFFICES ASSUME NEW n \in DOMAIN log', log'[n].fam = "execution", log'[n].src = "sink",
                    log'[n].kind \notin {"started", "completed", "failed"}
             PROVE  \E b \in 1..n :
                      /\ log'[b].fam = "execution" /\ log'[b].kind = "started"
                      /\ \A m \in (b + 1)..n :
                           ~(log'[m].fam = "execution" /\ log'[m].kind \in {"completed", "failed"})
  BY DEF ToolsInside, ExecutionLifecycle
<1>1. CASE n \in 1..Len(log)
  <2>1. log'[n] = log[n] /\ n \in DOMAIN log /\ n \in Nat
    BY <1>1 DEF Grows
  <2>2. PICK b \in 1..n :
           /\ log[b].fam = "execution" /\ log[b].kind = "started"
           /\ \A m \in (b + 1)..n : ~(log[m].fam = "execution" /\ log[m].kind \in {"completed", "failed"})
    BY <2>1 DEF ToolsInside, ExecutionLifecycle
  <2>3. log'[b] = log[b] /\ \A m \in (b + 1)..n : log'[m] = log[m]
    BY <1>1, <2>1 DEF Grows
  <2> QED  BY <2>2, <2>3
<1>2. CASE \E k \in 1..Len(specs) : n = Len(log) + k
  <2>1. PICK k \in 1..Len(specs) : n = Len(log) + k
    BY <1>2
  <2>2. log'[n] = specs[k]
    BY <2>1 DEF Grows
  <2>3. k = 1 /\ Inside
    BY <2>2
  <2>4. n = Len(log) + 1 /\ Len(log) \in Nat
    BY <2>1, <2>3 DEF Grows
  <2>5. PICK b \in DOMAIN log :
            /\ log[b].fam = "execution" /\ log[b].kind = "started"
            /\ \A m \in (b + 1)..Len(log) :
                 ~(log[m].fam = "execution" /\ log[m].kind \in {"completed", "failed"})
    BY <2>3 DEF Inside
  <2>6. b \in 1..n /\ log'[b] = log[b] /\ \A m \in (b + 1)..Len(log) : log'[m] = log[m]
    BY <2>4 DEF Grows
  <2>7. \A m \in (b + 1)..n : m \in (b + 1)..Len(log) \/ m = n
    BY <2>4, <2>6
  <2> QED  BY <2>5, <2>6, <2>7
<1> QED  BY <1>1, <1>2 DEF Grows

\* An event that ends an attempt.
TerminalEvent(x) == x.fam \in Families /\ x.kind \in {"completed", "exhausted", "failed", "interrupted"}

\* Nothing starts or ends twice if the new events neither repeat an old start or end
\* nor one another.
LEMMA EndsOnceKept ==
  ASSUME EndsOnce, NEW specs, Grows(specs),
         \A k \in 1..Len(specs), n \in DOMAIN log :
           specs[k].id \in Fenced /\ log[n].id = specs[k].id /\ log[n].fam = specs[k].fam
             => /\ ~(specs[k].kind = "started" /\ log[n].kind = "started")
                /\ ~(TerminalEvent(specs[k]) /\ AttemptTerminal(n)),
         \A k, l \in 1..Len(specs) :
           specs[k].id \in Fenced /\ specs[l].id = specs[k].id /\ specs[l].fam = specs[k].fam
             => \/ k = l
                \/ /\ ~(specs[k].kind = "started" /\ specs[l].kind = "started")
                   /\ ~(TerminalEvent(specs[k]) /\ TerminalEvent(specs[l]))
  PROVE  EndsOnce'
<1>1. \A n \in 1..Len(log) : AttemptTerminal(n)' <=> AttemptTerminal(n)
  BY DEF Grows, AttemptTerminal
<1>2. \A n \in DOMAIN log', k \in 1..Len(specs) :
        log'[n] = specs[k] => (AttemptTerminal(n)' <=> TerminalEvent(specs[k]))
  BY DEF Grows, AttemptTerminal, TerminalEvent, Families
<1> SUFFICES ASSUME NEW i \in DOMAIN log', NEW j \in DOMAIN log',
                    log'[i].id = log'[j].id, log'[i].id \in Fenced, log'[i].fam = log'[j].fam, i # j
             PROVE  /\ ~(log'[i].kind = "started" /\ log'[j].kind = "started")
                    /\ ~(AttemptTerminal(i)' /\ AttemptTerminal(j)')
  BY DEF EndsOnce, Fenced
<1>3. CASE i \in 1..Len(log) /\ j \in 1..Len(log)
  <2>1. log'[i] = log[i] /\ log'[j] = log[j] /\ i \in DOMAIN log /\ j \in DOMAIN log
    BY <1>3 DEF Grows
  <2>2. /\ ~(log[i].kind = "started" /\ log[j].kind = "started")
        /\ ~(AttemptTerminal(i) /\ AttemptTerminal(j))
    BY <2>1 DEF EndsOnce
  <2> QED  BY <1>1, <1>3, <2>1, <2>2
<1>4. CASE i \in 1..Len(log) /\ j \notin 1..Len(log)
  <2>1. PICK k \in 1..Len(specs) : j = Len(log) + k
    BY <1>4 DEF Grows
  <2>2. log'[j] = specs[k] /\ log'[i] = log[i] /\ i \in DOMAIN log
    BY <1>4, <2>1 DEF Grows
  <2>3. AttemptTerminal(j)' <=> TerminalEvent(specs[k])
    BY <1>2, <2>2
  <2> QED  BY <1>1, <1>4, <2>2, <2>3
<1>5. CASE i \notin 1..Len(log) /\ j \in 1..Len(log)
  <2>1. PICK k \in 1..Len(specs) : i = Len(log) + k
    BY <1>5 DEF Grows
  <2>2. log'[i] = specs[k] /\ log'[j] = log[j] /\ j \in DOMAIN log
    BY <1>5, <2>1 DEF Grows
  <2>3. AttemptTerminal(i)' <=> TerminalEvent(specs[k])
    BY <1>2, <2>2
  <2> QED  BY <1>1, <1>5, <2>2, <2>3
<1>6. CASE i \notin 1..Len(log) /\ j \notin 1..Len(log)
  <2>1. PICK k \in 1..Len(specs) : i = Len(log) + k
    BY <1>6 DEF Grows
  <2>2. PICK l \in 1..Len(specs) : j = Len(log) + l
    BY <1>6 DEF Grows
  <2>3. log'[i] = specs[k] /\ log'[j] = specs[l] /\ k # l
    BY <2>1, <2>2 DEF Grows
  <2>4. (AttemptTerminal(i)' <=> TerminalEvent(specs[k])) /\ (AttemptTerminal(j)' <=> TerminalEvent(specs[l]))
    BY <1>2, <2>3
  <2> QED  BY <2>3, <2>4
<1> QED  BY <1>3, <1>4, <1>5, <1>6

\* No attempt is interleaved if at most the first new event is an attempt's own, and
\* everything since that attempt's first is its own.
LEMMA UninterleavedKept ==
  ASSUME AttemptUninterleaved, NEW specs, Grows(specs),
         \A k \in 1..Len(specs) :
           specs[k].src = "sink" /\ specs[k].id \in Fenced \ Loops =>
             /\ k = 1
             /\ \A i \in DOMAIN log : log[i].id = specs[k].id /\ log[i].src = "sink"
                  => \A m \in i..Len(log) : Own(m, specs[k].id)
  PROVE  AttemptUninterleaved'
<1> SUFFICES ASSUME NEW i \in DOMAIN log', NEW j \in DOMAIN log', i < j,
                    log'[i].id = log'[j].id, log'[i].src = "sink", log'[j].src = "sink",
                    log'[i].id \in Fenced \ Loops, NEW m \in i..j
             PROVE  log'[m].id = log'[i].id \/ (log'[m].src = "sink" /\ log'[m].fam = "run")
  BY DEF AttemptUninterleaved, Fenced
<1>1. i \in Nat /\ j \in Nat /\ m \in Nat /\ i >= 1 /\ Len(log) \in Nat
  BY DEF Grows
<1>2. CASE j \in 1..Len(log)
  <2>1. /\ i \in DOMAIN log /\ j \in DOMAIN log
        /\ log'[i] = log[i] /\ log'[j] = log[j] /\ log'[m] = log[m]
    BY <1>1, <1>2 DEF Grows
  <2> QED  BY <2>1 DEF AttemptUninterleaved
<1>3. CASE j \notin 1..Len(log)
  <2>1. PICK k \in 1..Len(specs) : j = Len(log) + k
    BY <1>3 DEF Grows
  <2>2. log'[j] = specs[k]
    BY <2>1 DEF Grows
  <2>3. /\ k = 1
        /\ \A h \in DOMAIN log : log[h].id = specs[k].id /\ log[h].src = "sink"
             => \A o \in h..Len(log) : Own(o, specs[k].id)
    BY <2>2
  <2>4. i \in DOMAIN log /\ log'[i] = log[i] /\ i \in 1..Len(log)
    BY <1>1, <2>1, <2>3 DEF Grows
  <2>5. CASE m = j
    BY <2>5
  <2>6. CASE m # j
    <3>1. m \in i..Len(log) /\ log'[m] = log[m]
      BY <1>1, <2>1, <2>3, <2>4, <2>6 DEF Grows
    <3>2. Own(m, specs[k].id)
      BY <2>2, <2>3, <2>4, <3>1
    <3> QED  BY <2>2, <3>1, <3>2 DEF Own
  <2> QED  BY <2>5, <2>6
<1> QED  BY <1>2, <1>3

-----------------------------------------------------------------------------
(* Status                                                                  *)

\* A step keeps the status or moves it along the lifecycle.
Moves == status' = status \/ Life!LifecycleNext

\* No step leaves a terminal status.
LEMMA TerminalStays ==
  ASSUME Moves
  PROVE  status \in Life!Terminal => status' \in Life!Terminal
BY DEF Moves, Life!LifecycleNext, Life!Start, Life!Stop, Life!Decide, Life!Terminal

\* The statuses a decision leads from and to.
LEMMA LeadsMove ==
  ASSUME Leads(status, status')
  PROVE  Moves /\ status \notin Life!Terminal
BY DEF Leads, Moves, Life!LifecycleNext, Life!Stop, Life!Decide, Life!Terminal

-----------------------------------------------------------------------------
(* Recorders and writers that an append of others leaves alone             *)

\* The recorder of b has nothing to say about the append of another.
LEMMA RecorderKept ==
  ASSUME NEW b \in Attempts, TypeOK, Recorder(b), NEW specs, Grows(specs), Len(specs) >= 1,
         sink'[b] = sink[b], status \in Life!Terminal => status' \in Life!Terminal,
         \A k \in 1..Len(specs) : specs[k].fam \in Families /\ specs[k].id = b =>
           /\ \E n \in DOMAIN log : log[n].fam \in Families /\ log[n].id = b
           /\ TerminalEvent(specs[k]) => status' \in Life!Terminal
  PROVE  Recorder(b)'
<1>1. /\ sink[b].expected \in Nat /\ sink[b].expected <= Len(log)
      /\ Len(log) \in Nat /\ Len(log') \in Nat /\ Len(log) < Len(log')
  BY DEF TypeOK, Recorder, Grows
<1>2. sink'[b].expected <= Len(log') /\ ~Current(b)'
  BY <1>1 DEF Current
<1>3. ASSUME sink[b].pc = "none" \/ (sink[b].pc = "open" /\ b \in Executions)
      PROVE  \A n \in DOMAIN log' : ~(log'[n].fam \in Families /\ log'[n].id = b)
  <2>1. \A n \in DOMAIN log : ~(log[n].fam \in Families /\ log[n].id = b)
    BY <1>3 DEF Recorder
  <2>2. \A k \in 1..Len(specs) : ~(specs[k].fam \in Families /\ specs[k].id = b)
    BY <2>1
  <2> QED  BY <2>1, <2>2 DEF Grows
<1>4. ASSUME sink[b].pc \in {"live", "asked"}
      PROVE  /\ \E n \in DOMAIN log' : StartOf(n, b)'
             /\ \A n \in DOMAIN log' : AttemptTerminal(n)' /\ log'[n].id = b => status' \in Life!Terminal
  <2>1. PICK n \in DOMAIN log : StartOf(n, b)
    BY <1>4 DEF Recorder
  <2>2. StartOf(n, b)' /\ n \in DOMAIN log'
    BY <2>1, StartsKept DEF Grows
  <2>3. ASSUME NEW m \in DOMAIN log', AttemptTerminal(m)', log'[m].id = b
        PROVE  status' \in Life!Terminal
    <3>1. CASE m \in 1..Len(log)
      <4>1. AttemptTerminal(m) /\ log[m].id = b /\ m \in DOMAIN log
        BY <2>3, <3>1 DEF Grows, AttemptTerminal
      <4> QED  BY <1>4, <4>1 DEF Recorder
    <3>2. CASE m \notin 1..Len(log)
      <4>1. PICK k \in 1..Len(specs) : m = Len(log) + k
        BY <3>2 DEF Grows
      <4>2. log'[m] = specs[k]
        BY <4>1 DEF Grows
      <4>3. specs[k].fam \in Families /\ TerminalEvent(specs[k]) /\ specs[k].id = b
        BY <2>3, <4>2 DEF AttemptTerminal, TerminalEvent, Families
      <4> QED  BY <4>3
    <3> QED  BY <3>1, <3>2
  <2> QED  BY <2>2, <2>3
<1>5. sink[b].pc = "asked" => b \in Executions
  BY DEF Recorder
<1> QED  BY <1>2, <1>3, <1>4, <1>5 DEF Recorder, Fenced

\* A decision that was made before an append cannot be carried out after it.
LEMMA DecidedKept ==
  ASSUME NEW w \in Writers, TypeOK, Decided(w), NEW specs, Grows(specs), Len(specs) >= 1,
         pend'[w] = pend[w] \/ pend'[w] = NothingPending
  PROVE  Decided(w)'
<1>1. CASE pend'[w] = NothingPending
  BY <1>1 DEF Decided, NothingPending
<1>2. CASE pend'[w] = pend[w]
  <2>1. pend[w].seq \in Nat /\ Len(log) \in Nat /\ Len(log') \in Nat /\ Len(log) < Len(log')
    BY DEF TypeOK, Grows
  <2> QED  BY <1>2, <2>1 DEF Decided
<1> QED  BY <1>1, <1>2

-----------------------------------------------------------------------------
(* What a recorder appends                                                 *)

\* The recorder of a, which is up to date, appends an event of a and perhaps a run event
\* that goes with it, and is then at pc.
Writes(a, specs, pc) ==
  /\ sink[a].pc \in {"open", "live", "asked"} /\ sink[a].expected = Len(log)
  /\ pc \in {"live", "asked", "ended"}
  /\ pc = "asked" => a \in Executions
  /\ specs \in Seq(Events) /\ Len(specs) \in {1, 2} /\ Appended(specs)
  /\ sink'[a].pc = pc /\ sink'[a].expected = Len(log) + Len(specs)
  /\ \A b \in Attempts : b # a => sink'[b] = sink[b]
  /\ pend' = pend
  /\ sink' \in [Attempts -> [pc : {"none", "open", "live", "asked", "ended", "dead"},
                             item : Items \cup {NoId}, expected : Nat]]
  /\ specs[1].fam = Fam(a) /\ specs[1].id = a /\ specs[1].src = "sink"
  /\ specs[1].res \notin {"verified", "reviewed"}
  /\ specs[1].kind = "started" => (a \in Executions \/ ~Reused(a))
  /\ (specs[1].kind = "started" /\ pc = "live" /\ sink[a].pc = "open")
       \/ (specs[1].kind # "started" /\ sink[a].pc # "open")
  /\ TerminalEvent(specs[1]) => pc = "ended" /\ sink[a].pc # "open"
  /\ Fam(a) = "execution" /\ specs[1].kind \in {"completed", "failed"} => pc = "ended"
  /\ Len(specs) = 2 => /\ a \in Executions
                       /\ specs[2].fam = "run" /\ specs[2].id = NoId /\ specs[2].src = "sink"
                       /\ specs[2].res = "none" /\ specs[2].kind \in {"waiting_user", "resumed"}
  /\ status' = IF pc = "asked" THEN "WAITING_USER"
               ELSE IF sink[a].pc = "asked" /\ pc = "live" THEN "RUNNING" ELSE status

\* A recorder writes after its own events and nobody else's, unless it is a loop's or an
\* ACP session's, and into a Run that is going on.
LEMMA RecorderAlone ==
  ASSUME IInv, NEW a \in Attempts, NEW specs, NEW pc, Writes(a, specs, pc)
  PROVE  /\ a \in Fenced => status = IF sink[a].pc = "asked" THEN "WAITING_USER" ELSE "RUNNING"
         /\ a \in Fenced => status \notin Life!Terminal
         /\ sink[a].pc = "open" => \A n \in DOMAIN log : ~(log[n].fam \in Families /\ log[n].id = a)
         /\ sink[a].pc # "open" => \E b \in DOMAIN log : StartOf(b, a)
         /\ a \in Fenced \ Loops =>
              \A i \in DOMAIN log : log[i].id = a /\ log[i].src = "sink"
                => \A m \in i..Len(log) : Own(m, a)
         /\ a \in Fenced /\ sink[a].pc # "open" => \A n \in DOMAIN log : ~(AttemptTerminal(n) /\ log[n].id = a)
<1>1. Recorder(a) /\ Current(a)
  BY DEF IInv, Writes, Current
<1>2. a \in Fenced => status = IF sink[a].pc = "asked" THEN "WAITING_USER" ELSE "RUNNING"
  BY <1>1 DEF Recorder
<1>3. a \in Fenced => status \notin Life!Terminal
  BY <1>2 DEF Life!Terminal
<1>4. ASSUME sink[a].pc = "open"
      PROVE  \A n \in DOMAIN log : ~(log[n].fam \in Families /\ log[n].id = a)
  <2>1. CASE a \in Executions
    BY <1>1, <1>4, <2>1 DEF Recorder
  <2>2. CASE ~Reused(a)
    <3> SUFFICES ASSUME NEW n \in DOMAIN log, log[n].fam \in Families, log[n].id = a
                 PROVE  FALSE
      OBVIOUS
    <3>1. PICK b \in 1..n : StartOf(b, a)
      BY DEF IInv, Belongs
    <3>2. b \in 1..Len(log)
      <4>1. n \in 1..Len(log) /\ Len(log) \in Nat
        BY DEF IInv, TypeOK
      <4> QED  BY <4>1
    <3> QED  BY <2>2, <3>1, <3>2 DEF Reused, StartOf
  <2> QED  BY <1>4, <2>1, <2>2 DEF Writes
<1>5. sink[a].pc # "open" => \E b \in DOMAIN log : StartOf(b, a)
  BY <1>1 DEF Recorder, Writes
<1>6. ASSUME a \in Fenced \ Loops, NEW i \in DOMAIN log, log[i].id = a, log[i].src = "sink"
      PROVE  \A m \in i..Len(log) : Own(m, a)
  <2>1. CASE sink[a].pc = "open"
    <3>1. log[i].fam \in Families
      BY <1>6 DEF IInv, Belongs
    <3> QED  BY <1>4, <1>6, <2>1, <3>1
  <2>2. CASE sink[a].pc # "open"
    BY <1>1, <1>6, <2>2 DEF Recorder
  <2> QED  BY <2>1, <2>2
<1>7. ASSUME a \in Fenced, sink[a].pc # "open"
      PROVE  \A n \in DOMAIN log : ~(AttemptTerminal(n) /\ log[n].id = a)
  BY <1>1, <1>3, <1>7 DEF Recorder, Writes
<1> QED  BY <1>2, <1>3, <1>4, <1>5, <1>6, <1>7

\* The tool events of an execution lie inside it.
LEMMA ToolWritten ==
  ASSUME IInv, NEW a \in Executions, NEW specs, NEW pc, Writes(a, specs, pc), sink[a].pc # "open"
  PROVE  Inside
<1>1. a \in Attempts /\ a \in Fenced \ Loops /\ Fam(a) = "execution"
  BY FamFacts, LedgerAssumption DEF Attempts, Fenced
<1>2. /\ \E b \in DOMAIN log : StartOf(b, a)
      /\ \A i \in DOMAIN log : log[i].id = a /\ log[i].src = "sink"
           => \A m \in i..Len(log) : Own(m, a)
      /\ \A n \in DOMAIN log : ~(AttemptTerminal(n) /\ log[n].id = a)
  BY <1>1, RecorderAlone
<1>3. PICK b \in DOMAIN log : StartOf(b, a)
  BY <1>2
<1>4. log[b].id = a /\ log[b].src = "sink" /\ log[b].fam = "execution" /\ log[b].kind = "started"
  BY <1>1, <1>3 DEF IInv, Belongs, StartOf, Families
<1>5. \A m \in b..Len(log) : Own(m, a)
  BY <1>2, <1>4
<1>6. ASSUME NEW m \in (b + 1)..Len(log), log[m].fam = "execution", log[m].kind \in {"completed", "failed"}
      PROVE  FALSE
  <2>1. m \in b..Len(log) /\ m \in DOMAIN log
    <3>1. DOMAIN log = 1..Len(log) /\ Len(log) \in Nat /\ b \in Nat /\ b >= 1
      BY DEF IInv, TypeOK
    <3> QED  BY <3>1
  <2>2. log[m].id = a
    BY <1>5, <1>6, <2>1 DEF Own
  <2>3. AttemptTerminal(m)
    BY <1>6 DEF AttemptTerminal
  <2> QED  BY <1>2, <2>1, <2>2, <2>3
<1> QED  BY <1>4, <1>6 DEF Inside

\* What an append by a recorder does to the status.
LEMMA WritesMoves ==
  ASSUME IInv, NEW a \in Attempts, NEW specs, NEW pc, Writes(a, specs, pc)
  PROVE  Moves
<1>1. a \in Executions => a \in Fenced
  BY LedgerAssumption DEF Attempts, Fenced
<1>2. sink[a].pc = "asked" => a \in Executions
  BY DEF IInv, Recorder
<1>3. a \in Fenced => status = IF sink[a].pc = "asked" THEN "WAITING_USER" ELSE "RUNNING"
  BY RecorderAlone
<1> QED  BY <1>1, <1>2, <1>3
     DEF Writes, Moves, Life!LifecycleNext, Life!Stop, Life!Decide, Life!Terminal

\* The recorder itself after its append.
LEMMA WriterRecorder ==
  ASSUME IInv, NEW a \in Attempts, NEW specs, NEW pc, Writes(a, specs, pc), Grows(specs)
  PROVE  Recorder(a)'
<1>1. /\ a \in Fenced => status = IF sink[a].pc = "asked" THEN "WAITING_USER" ELSE "RUNNING"
      /\ a \in Fenced => status \notin Life!Terminal
      /\ sink[a].pc = "open" => \A n \in DOMAIN log : ~(log[n].fam \in Families /\ log[n].id = a)
      /\ sink[a].pc # "open" => \E b \in DOMAIN log : StartOf(b, a)
      /\ a \in Fenced \ Loops =>
           \A i \in DOMAIN log : log[i].id = a /\ log[i].src = "sink"
             => \A m \in i..Len(log) : Own(m, a)
  BY RecorderAlone
<1>2. /\ Len(log) \in Nat /\ Len(specs) \in Nat /\ Len(specs) >= 1 /\ Len(log') = Len(log) + Len(specs)
      /\ sink'[a].pc = pc /\ sink'[a].expected = Len(log')
  BY DEF Grows, Writes
<1>3. Len(log) + 1 \in DOMAIN log' /\ log'[Len(log) + 1] = specs[1]
  BY <1>2 DEF Grows
<1>4. \A n \in DOMAIN log' : n \in 1..Len(log) \/ n = Len(log) + 1 \/ (n = Len(log) + 2 /\ Len(specs) = 2)
  <2>0. Len(specs) \in {1, 2}
    BY DEF Writes
  <2>1. \A k \in 1..Len(specs) : k = 1 \/ (k = 2 /\ Len(specs) = 2)
    <3>1. CASE Len(specs) = 1
      BY <3>1
    <3>2. CASE Len(specs) = 2
      BY <3>2
    <3> QED  BY <2>0, <3>1, <3>2
  <2> QED  BY <2>1 DEF Grows
<1>5. Len(specs) = 2 => log'[Len(log) + 2] = specs[2]
  BY <1>2 DEF Grows
<1>6. ASSUME pc \in {"live", "asked"}
      PROVE  /\ \E b \in DOMAIN log' : StartOf(b, a)'
             /\ \A n \in DOMAIN log' : AttemptTerminal(n)' /\ log'[n].id = a => status' \in Life!Terminal
  <2>1. \E b \in DOMAIN log' : StartOf(b, a)'
    <3>1. CASE sink[a].pc = "open"
      <4>1. specs[1].kind = "started" /\ specs[1].fam = Fam(a) /\ specs[1].id = a
        BY <3>1 DEF Writes
      <4> QED  BY <1>3, <4>1 DEF StartOf
    <3>2. CASE sink[a].pc # "open"
      <4>1. PICK b \in DOMAIN log : StartOf(b, a)
        BY <1>1, <3>2
      <4>2. b \in 1..Len(log) /\ b \in DOMAIN log'
        BY DEF Grows
      <4> QED  BY <4>1, <4>2, StartsKept
    <3> QED  BY <3>1, <3>2
  <2>2. ASSUME NEW n \in DOMAIN log', AttemptTerminal(n)', log'[n].id = a
        PROVE  status' \in Life!Terminal
    <3>1. n # Len(log) + 1
      BY <1>3, <1>6, <2>2 DEF Writes, AttemptTerminal, TerminalEvent, Families
    <3>2. ~(n = Len(log) + 2 /\ Len(specs) = 2)
      BY <1>5, <2>2 DEF Writes, AttemptTerminal
    <3>3. n \in 1..Len(log)
      BY <1>4, <3>1, <3>2
    <3>4. n \in DOMAIN log /\ AttemptTerminal(n) /\ log[n].id = a
      BY <2>2, <3>3 DEF Grows, AttemptTerminal
    <3>5. sink[a].pc # "open"
      BY <1>1, <3>4 DEF AttemptTerminal, Families
    <3>6. status \in Life!Terminal
      BY <3>4, <3>5 DEF IInv, Recorder, Writes
    <3> QED  BY <3>6, WritesMoves, TerminalStays
  <2> QED  BY <2>1, <2>2
<1>7. a \in Fenced /\ pc # "ended" => status' = IF pc = "asked" THEN "WAITING_USER" ELSE "RUNNING"
  BY <1>1 DEF Writes
<1>8. ASSUME a \in Fenced \ Loops, NEW i \in DOMAIN log', log'[i].id = a, log'[i].src = "sink",
             NEW m \in i..Len(log')
      PROVE  log'[m].id = a \/ (log'[m].src = "sink" /\ log'[m].fam = "run")
  <2>1. m \in DOMAIN log'
    BY <1>2 DEF Grows
  <2>2. CASE m = Len(log) + 1
    BY <1>3, <2>2 DEF Writes
  <2>3. CASE m = Len(log) + 2 /\ Len(specs) = 2
    BY <1>5, <2>3 DEF Writes
  <2>4. CASE m \in 1..Len(log)
    <3>1. i \in 1..Len(log) /\ i \in DOMAIN log /\ m \in i..Len(log)
      BY <1>2, <2>4 DEF Grows
    <3>2. log'[i] = log[i] /\ log'[m] = log[m]
      BY <2>4, <3>1 DEF Grows
    <3>3. Own(m, a)
      BY <1>1, <1>8, <3>1, <3>2
    <3> QED  BY <3>2, <3>3 DEF Own
  <2> QED  BY <1>4, <2>1, <2>2, <2>3, <2>4
<1>9. pc \in {"live", "asked", "ended"} /\ (pc = "asked" => a \in Executions)
  BY DEF Writes
<1>10. a \in Fenced \ Loops =>
         \A i \in DOMAIN log' : log'[i].id = a /\ log'[i].src = "sink"
           => \A m \in i..Len(log') : Own(m, a)'
  BY <1>8 DEF Own
<1>11. Current(a)' => pc # "ended"
  BY <1>2 DEF Current
<1>12. Fenced' = Fenced
  BY DEF Fenced
<1> QED
  <2>1. sink'[a].expected <= Len(log')
    BY <1>2
  <2>2. ~(sink'[a].pc = "none" \/ (sink'[a].pc = "open" /\ a \in Executions))
    BY <1>2, <1>9
  <2>3. sink'[a].pc = "asked" => a \in Executions
    BY <1>2, <1>9
  <2>4. a \in Fenced /\ Current(a)' => status' = IF sink'[a].pc = "asked" THEN "WAITING_USER" ELSE "RUNNING"
    BY <1>2, <1>7, <1>11
  <2> QED  BY <1>2, <1>6, <1>10, <1>12, <2>1, <2>2, <2>3, <2>4 DEF Recorder

\* A recorder's append keeps the invariant.
LEMMA WritesKeep ==
  ASSUME IInv, NEW a \in Attempts, NEW specs, NEW pc, Writes(a, specs, pc)
  PROVE  IInv'
<1>0. /\ TypeOK /\ Belongs /\ ToolsInside
      /\ SettledOnEvidence /\ FailedOnEvidence
      /\ AttemptUninterleaved /\ EndsOnce /\ RecoveredIsClosed
  BY DEF IInv
<1>1. specs \in Seq(Events) /\ Appended(specs) /\ Len(specs) \in {1, 2} /\ Len(specs) >= 1
  BY DEF Writes
<1>2. Grows(specs)
  BY <1>0, <1>1, AppendGrows
<1>3. status \in Life!Terminal => status' \in Life!Terminal
  BY WritesMoves, TerminalStays
<1>4. \A k \in 1..Len(specs) : k = 1 \/ (k = 2 /\ Len(specs) = 2)
  <2>1. CASE Len(specs) = 1
    BY <2>1
  <2>2. CASE Len(specs) = 2
    BY <2>2
  <2> QED  BY <1>1, <2>1, <2>2
<1>5. /\ specs[1].fam = Fam(a) /\ specs[1].id = a /\ specs[1].src = "sink"
      /\ specs[1].res \notin {"verified", "reviewed"}
      /\ Len(specs) = 2 => /\ specs[2].fam = "run" /\ specs[2].id = NoId /\ specs[2].src = "sink"
                           /\ specs[2].res = "none" /\ specs[2].kind \in {"waiting_user", "resumed"}
  BY DEF Writes
<1>6. Fam(a) \in Families /\ "run" \notin Families /\ NoId \notin Attempts
  BY FamFacts, LedgerAssumption DEF Families
<1>7. /\ a \in Fenced => status \notin Life!Terminal
      /\ sink[a].pc = "open" => \A n \in DOMAIN log : ~(log[n].fam \in Families /\ log[n].id = a)
      /\ sink[a].pc # "open" => \E b \in DOMAIN log : StartOf(b, a)
      /\ a \in Fenced \ Loops =>
           \A i \in DOMAIN log : log[i].id = a /\ log[i].src = "sink"
             => \A m \in i..Len(log) : Own(m, a)
      /\ a \in Fenced /\ sink[a].pc # "open" => \A n \in DOMAIN log : ~(AttemptTerminal(n) /\ log[n].id = a)
  BY RecorderAlone
<1>8. TypeOK'
  <2>1. log' \in Seq(Events) /\ status' = StatusAfter("CREATED", log') /\ status' \in Statuses
    BY <1>0, <1>1, AppendFacts
  <2>2. pend' = pend
    BY DEF Writes
  <2>3. sink' \in [Attempts -> [pc : {"none", "open", "live", "asked", "ended", "dead"},
                             item : Items \cup {NoId}, expected : Nat]]
    BY DEF Writes
  <2> QED  BY <1>0, <2>1, <2>2, <2>3, Zenon DEF TypeOK
<1>9. Belongs'
  <2>1. Attributed(specs[1])
    BY <1>5, <1>6, <1>7 DEF Attributed, Writes
  <2>2. Len(specs) = 2 => Attributed(specs[2])
    BY <1>5, <1>6 DEF Attributed, ItemKinds
  <2>3. \A k \in 1..Len(specs) : Attributed(specs[k]) /\ specs[k].src # "recovery"
    BY <1>4, <1>5, <2>1, <2>2
  <2> QED  BY <1>0, <1>2, <1>3, <2>3, BelongsKept
<1>10. ToolsInside'
  <2>1. ASSUME specs[1].fam = "execution", specs[1].kind \notin {"started", "completed", "failed"}
        PROVE  Inside
    <3>1. a \in Executions /\ sink[a].pc # "open"
      BY <1>5, <2>1, FamFacts DEF Writes
    <3> QED  BY <3>1, ToolWritten
  <2>2. \A k \in 1..Len(specs) :
           (/\ specs[k].fam = "execution" /\ specs[k].src = "sink"
            /\ specs[k].kind \notin {"started", "completed", "failed"})
             => k = 1 /\ Inside
    BY <1>4, <1>5, <2>1
  <2> QED  BY <1>0, <1>2, <2>2, ToolsKept
<1>11. \A b \in Attempts : Recorder(b)'
  <2> SUFFICES ASSUME NEW b \in Attempts, b # a PROVE Recorder(b)'
    BY <1>2, WriterRecorder
  <2>1. Recorder(b) /\ sink'[b] = sink[b]
    BY DEF IInv, Writes
  <2>2. \A k \in 1..Len(specs) : ~(specs[k].fam \in Families /\ specs[k].id = b)
    BY <1>4, <1>5, <1>6
  <2> QED  BY <1>0, <1>1, <1>2, <1>3, <2>1, <2>2, RecorderKept
<1>12. \A w \in Writers : Decided(w)'
  <2> SUFFICES ASSUME NEW w \in Writers PROVE Decided(w)'
    OBVIOUS
  <2>1. Decided(w) /\ pend'[w] = pend[w]
    BY DEF IInv, Writes
  <2> QED  BY <1>0, <1>1, <1>2, <2>1, DecidedKept
<1>13. SettledOnEvidence' /\ FailedOnEvidence'
  <2>1. Vouched(specs[1])
    BY <1>5 DEF Vouched
  <2>2. \A k \in 1..Len(specs) : k # 1 => Unmarked(specs[k])
    BY <1>4, <1>5 DEF Unmarked
  <2>3. specs # <<>>
    BY <1>1
  <2> QED  BY <1>0, <1>1, <2>1, <2>2, <2>3, EvidenceKept
<1>14. AttemptUninterleaved'
  <2>1. \A k \in 1..Len(specs) :
           specs[k].src = "sink" /\ specs[k].id \in Fenced \ Loops =>
             /\ k = 1
             /\ \A i \in DOMAIN log : log[i].id = specs[k].id /\ log[i].src = "sink"
                  => \A m \in i..Len(log) : Own(m, specs[k].id)
    BY <1>4, <1>5, <1>6, <1>7 DEF Fenced
  <2> QED  BY <1>0, <1>2, <2>1, UninterleavedKept
<1>15. EndsOnce'
  <2>1. ASSUME a \in Fenced, NEW n \in DOMAIN log, log[n].id = a, log[n].fam = Fam(a)
        PROVE  /\ ~(specs[1].kind = "started" /\ log[n].kind = "started")
               /\ ~(TerminalEvent(specs[1]) /\ AttemptTerminal(n))
    <3>1. specs[1].kind # "started"
      BY <1>6, <1>7, <2>1 DEF Writes
    <3>2. sink[a].pc # "open"
      BY <3>1 DEF Writes
    <3> QED  BY <1>7, <2>1, <3>1, <3>2
  <2>2. \A k \in 1..Len(specs), n \in DOMAIN log :
           specs[k].id \in Fenced /\ log[n].id = specs[k].id /\ log[n].fam = specs[k].fam
             => /\ ~(specs[k].kind = "started" /\ log[n].kind = "started")
                /\ ~(TerminalEvent(specs[k]) /\ AttemptTerminal(n))
    BY <1>4, <1>5, <1>6, <2>1 DEF Fenced
  <2>3. \A k, l \in 1..Len(specs) :
           specs[k].id \in Fenced /\ specs[l].id = specs[k].id /\ specs[l].fam = specs[k].fam
             => k = l
    BY <1>4, <1>5, <1>6 DEF Fenced
  <2> QED  BY <1>0, <1>2, <2>2, <2>3, EndsOnceKept
<1>16. RecoveredIsClosed'
  <2>1. \A k \in 1..Len(specs) : ~(specs[k].fam = "run" /\ specs[k].kind = "interrupted")
    BY <1>4, <1>5, <1>6
  <2> QED  BY <1>0, <1>2, <2>1, RecoveredKept
<1> QED  BY <1>8, <1>9, <1>10, <1>11, <1>12, <1>13, <1>14, <1>15, <1>16 DEF IInv

\* A recorder's events are events.
LEMMA AttemptEventType ==
  ASSUME NEW a \in Attempts, NEW kind
  PROVE  /\ AttemptEvent(a, kind).fam = Fam(a) /\ AttemptEvent(a, kind).kind = kind
         /\ AttemptEvent(a, kind).id = a /\ AttemptEvent(a, kind).src = "sink"
         /\ AttemptEvent(a, kind).res = "none"
         /\ AttemptEvent(a, kind) \in [fam : {Fam(a)}, kind : {kind}, id : {a}, src : {"sink"},
                                       res : {"none"}, ref : {NoId}, diff : {NoId}]
BY DEF AttemptEvent, Event

\* One event, or one with a run event, is a batch.
LEMMA Batches ==
  ASSUME NEW e \in Events
  PROVE  /\ <<e>> \in Seq(Events) /\ Len(<<e>>) = 1 /\ <<e>>[1] = e
         /\ \A f \in Events : /\ <<e, f>> \in Seq(Events) /\ Len(<<e, f>>) = 2
                              /\ <<e, f>>[1] = e /\ <<e, f>>[2] = f
OBVIOUS

\* What Emit does, spelled out.
LEMMA EmitFacts ==
  ASSUME TypeOK, NEW a \in Attempts, NEW specs \in Seq(Events),
         NEW pc \in {"live", "asked", "ended"}, NEW item \in Items \cup {NoId},
         Emit(a, specs, pc, item)
  PROVE  /\ sink[a].expected = Len(log) /\ Appended(specs)
         /\ sink'[a].pc = pc /\ sink'[a].expected = Len(log) + Len(specs)
         /\ \A b \in Attempts : b # a => sink'[b] = sink[b]
         /\ pend' = pend /\ status' = StatusAfter(status, specs)
         /\ sink' \in [Attempts -> [pc : {"none", "open", "live", "asked", "ended", "dead"},
                                    item : Items \cup {NoId}, expected : Nat]]
<1>1. Len(log) \in Nat /\ Len(specs) \in Nat
  BY DEF TypeOK
<1>2. PICK n \in Nat : n = Len(log) + Len(specs)
  BY <1>1
<1>3. sink' = [sink EXCEPT ![a] = [pc |-> pc, item |-> item, expected |-> n]]
  BY <1>2 DEF Emit
<1>4. sink \in [Attempts -> [pc : {"none", "open", "live", "asked", "ended", "dead"},
                             item : Items \cup {NoId}, expected : Nat]]
  BY DEF TypeOK
<1>5. sink' \in [Attempts -> [pc : {"none", "open", "live", "asked", "ended", "dead"},
                              item : Items \cup {NoId}, expected : Nat]]
  BY <1>3, <1>4
<1>6. sink'[a].pc = pc /\ sink'[a].expected = n /\ \A b \in Attempts : b # a => sink'[b] = sink[b]
  BY <1>3, <1>4
<1> QED  BY <1>2, <1>5, <1>6 DEF Emit, Appended

\* A batch of one recorder event has no effect on the status.
LEMMA OwnEventKeepsStatus ==
  ASSUME NEW e \in Events, e.fam \in Families, NEW s
  PROVE  StatusAfter(s, <<e>>) = s
<1>1. StatusOf(e) = "same"
  BY DEF StatusOf, Families
<1>2. \A k \in 1..Len(<<e>>) : StatusOf(<<e>>[k]) = "same"
  BY <1>1
<1> QED  BY <1>2, StatusKept

\* An append of one event of its own is a recorder's append.
LEMMA EmitOne ==
  ASSUME IInv, NEW a \in Attempts, NEW e \in Events,
         NEW pc \in {"live", "ended"}, NEW item \in Items \cup {NoId},
         Emit(a, <<e>>, pc, item), sink[a].pc \in {"open", "live", "asked"},
         sink[a].pc = "asked" => pc = "ended",
         e.fam = Fam(a), e.id = a, e.src = "sink", e.res \notin {"verified", "reviewed"},
         e.kind = "started" => (a \in Executions \/ ~Reused(a)),
         (e.kind = "started" /\ pc = "live" /\ sink[a].pc = "open")
           \/ (e.kind # "started" /\ sink[a].pc # "open"),
         e.kind \in {"completed", "exhausted", "failed", "interrupted"} => pc = "ended" /\ sink[a].pc # "open"
  PROVE  Writes(a, <<e>>, pc)
<1>1. TypeOK
  BY DEF IInv
<1>2. <<e>> \in Seq(Events) /\ Len(<<e>>) = 1 /\ <<e>>[1] = e
  BY Batches
<1>3. PICK specs : specs = <<e>>
  OBVIOUS
<1>4. /\ sink[a].expected = Len(log) /\ Appended(specs)
      /\ sink'[a].pc = pc /\ sink'[a].expected = Len(log) + Len(specs)
      /\ \A b \in Attempts : b # a => sink'[b] = sink[b]
      /\ pend' = pend /\ status' = StatusAfter(status, specs)
      /\ sink' \in [Attempts -> [pc : {"none", "open", "live", "asked", "ended", "dead"},
                                 item : Items \cup {NoId}, expected : Nat]]
  <2>1. specs \in Seq(Events) /\ pc \in {"live", "asked", "ended"} /\ Emit(a, specs, pc, item)
    BY <1>2, <1>3
  <2> QED  BY <1>1, <2>1, EmitFacts, Zenon
<1>5. status' = status
  BY <1>3, <1>4, OwnEventKeepsStatus, FamFacts
<1>6. TerminalEvent(e) => pc = "ended" /\ sink[a].pc # "open"
  BY DEF TerminalEvent
<1>7. Writes(a, specs, pc)
  BY <1>2, <1>3, <1>4, <1>5, <1>6 DEF Writes
<1> QED  BY <1>3, <1>7

\* *.started
LEMMA BeginWrites ==
  ASSUME IInv, NEW a \in Attempts, Begin(a)
  PROVE  \E specs, pc : Writes(a, specs, pc)
<1>1. PICK e : e = AttemptEvent(a, "started")
  OBVIOUS
<1>2. /\ e.fam = Fam(a) /\ e.kind = "started" /\ e.id = a /\ e.src = "sink" /\ e.res = "none"
      /\ e \in Events
  <2>1. e \in [fam : {Fam(a)}, kind : {"started"}, id : {a}, src : {"sink"},
               res : {"none"}, ref : {NoId}, diff : {NoId}]
    BY <1>1, AttemptEventType
  <2>2. Fam(a) \in Families
    BY FamFacts
  <2> QED  BY <2>1, <2>2 DEF Events, Families
<1>3. sink[a].pc = "open" /\ (a \in Executions \/ ~Reused(a)) /\ Emit(a, <<e>>, "live", NoId)
  BY <1>1 DEF Begin
<1>4. Writes(a, <<e>>, "live")
  BY <1>2, <1>3, EmitOne
<1> QED  BY <1>4

\* A tool, a check or a fix attempt starts.
LEMMA OpenItemWrites ==
  ASSUME IInv, NEW a \in Attempts, NEW i \in Items, OpenItem(a, i)
  PROVE  \E specs, pc : Writes(a, specs, pc)
<1>1. PICK e : e = [AttemptEvent(a, "item_started") EXCEPT !.ref = i]
  OBVIOUS
<1>2. /\ e.fam = Fam(a) /\ e.kind = "item_started" /\ e.id = a /\ e.src = "sink" /\ e.res = "none"
      /\ e \in Events
  <2>1. e \in [fam : {Fam(a)}, kind : {"item_started"}, id : {a}, src : {"sink"},
               res : {"none"}, ref : {i}, diff : {NoId}]
    BY <1>1, AttemptEventType
  <2>2. Fam(a) \in Families
    BY FamFacts
  <2> QED  BY <2>1, <2>2 DEF Events, Families
<1>3. sink[a].pc = "live" /\ Emit(a, <<e>>, "live", i)
  BY <1>1 DEF OpenItem
<1>4. Writes(a, <<e>>, "live")
  BY <1>2, <1>3, EmitOne
<1> QED  BY <1>4

\* It ends.
LEMMA CloseItemWrites ==
  ASSUME IInv, NEW a \in Attempts, CloseItem(a)
  PROVE  \E specs, pc : Writes(a, specs, pc)
<1>0. sink[a].item \in Items
  BY DEF CloseItem, IInv, TypeOK
<1>1. PICK e : e = [AttemptEvent(a, "item_ended") EXCEPT !.ref = sink[a].item]
  OBVIOUS
<1>2. /\ e.fam = Fam(a) /\ e.kind = "item_ended" /\ e.id = a /\ e.src = "sink" /\ e.res = "none"
      /\ e \in Events
  <2>1. e \in [fam : {Fam(a)}, kind : {"item_ended"}, id : {a}, src : {"sink"},
               res : {"none"}, ref : {sink[a].item}, diff : {NoId}]
    BY <1>1, AttemptEventType
  <2>2. Fam(a) \in Families
    BY FamFacts
  <2> QED  BY <1>0, <2>1, <2>2 DEF Events, Families
<1>3. sink[a].pc = "live" /\ Emit(a, <<e>>, "live", NoId)
  BY <1>1 DEF CloseItem
<1>4. Writes(a, <<e>>, "live")
  BY <1>2, <1>3, EmitOne
<1> QED  BY <1>4

\* tool.failed of a call that was refused or denied.
LEMMA RefuseItemWrites ==
  ASSUME IInv, NEW a \in Attempts, NEW i \in Items, RefuseItem(a, i)
  PROVE  \E specs, pc : Writes(a, specs, pc)
<1>1. PICK r \in {"none", "denied"} :
        Emit(a, <<[AttemptEvent(a, "item_ended") EXCEPT !.ref = i, !.res = r]>>, "live", NoId)
  BY DEF RefuseItem
<1>2. PICK e : e = [AttemptEvent(a, "item_ended") EXCEPT !.ref = i, !.res = r]
  OBVIOUS
<1>3. /\ e.fam = Fam(a) /\ e.kind = "item_ended" /\ e.id = a /\ e.src = "sink" /\ e.res = r
      /\ e \in Events
  <2>1. e \in [fam : {Fam(a)}, kind : {"item_ended"}, id : {a}, src : {"sink"},
               res : {r}, ref : {i}, diff : {NoId}]
    BY <1>2 DEF AttemptEvent, Event
  <2>2. Fam(a) \in Families
    BY FamFacts
  <2> QED  BY <1>1, <2>1, <2>2 DEF Events, Families
<1>4. sink[a].pc = "live" /\ Emit(a, <<e>>, "live", NoId)
  BY <1>1, <1>2 DEF RefuseItem
<1>5. Writes(a, <<e>>, "live")
  BY <1>1, <1>3, <1>4, EmitOne
<1> QED  BY <1>5

\* The terminal events of each recorder.
LEMMA OutcomeFacts ==
  ASSUME NEW a \in Attempts, NEW e \in Outcomes(a)
  PROVE  /\ e \in Events /\ e.fam = Fam(a) /\ e.id = a /\ e.src = "sink"
         /\ e.kind \in {"completed", "exhausted", "failed", "interrupted"}
         /\ e.res \in {"none", "pass", "fail", "APPROVED", "REVISE"}
<1> DEFINE Out == [fam : {Fam(a)}, kind : {"completed", "exhausted", "failed", "interrupted"},
                   id : {a}, src : {"sink"}, res : {"none", "pass", "fail", "APPROVED", "REVISE"},
                   ref : Verifications \cup {NoId}, diff : Diffs \cup {NoId}]
<1>1. \A kind \in {"completed", "exhausted", "failed", "interrupted"} : AttemptEvent(a, kind) \in Out
  BY DEF AttemptEvent, Event
<1>2. SessionOutcomes(a) \subseteq Out
  BY <1>1 DEF SessionOutcomes
<1>3. VerificationOutcomes(a) \subseteq Out
  BY <1>1 DEF VerificationOutcomes
<1>4. ReviewOutcomes(a) \subseteq Out
  <2> SUFFICES ASSUME NEW x \in ReviewOutcomes(a) PROVE x \in Out
    OBVIOUS
  <2>1. CASE x = AttemptEvent(a, "failed")
    BY <1>1, <2>1
  <2>2. CASE x # AttemptEvent(a, "failed")
    <3>1. PICK r \in {"APPROVED", "REVISE"}, v \in Verifications, d \in Diffs : x = Verdict(a, r, v, d)
      BY <2>2 DEF ReviewOutcomes
    <3>2. AttemptEvent(a, "completed") \in Out
      BY <1>1
    <3> QED  BY <3>1, <3>2 DEF Verdict
  <2> QED  BY <2>1, <2>2
<1>5. LoopOutcomes(a) \subseteq Out
  BY <1>1 DEF LoopOutcomes
<1>6. e \in SessionOutcomes(a) \/ e \in VerificationOutcomes(a) \/ e \in ReviewOutcomes(a) \/ e \in LoopOutcomes(a)
  <2>1. CASE a \in Plans \cup Executions
    BY <2>1 DEF Outcomes
  <2>2. CASE a \in Verifications
    BY <2>2, LedgerAssumption DEF Outcomes
  <2>3. CASE a \in Reviews
    BY <2>3, LedgerAssumption DEF Outcomes
  <2>4. CASE a \in Loops
    BY <2>4, LedgerAssumption DEF Outcomes
  <2> QED  BY <2>1, <2>2, <2>3, <2>4 DEF Attempts
<1>7. e \in Out
  BY <1>2, <1>3, <1>4, <1>5, <1>6
<1>8. Fam(a) \in Families
  BY FamFacts
<1> QED  BY <1>7, <1>8 DEF Events, Families

\* An attempt ends.
LEMMA EndWrites ==
  ASSUME IInv, NEW a \in Attempts, End(a)
  PROVE  \E specs, pc : Writes(a, specs, pc)
<1>1. PICK e \in Outcomes(a) : sink[a].pc \in {"live", "asked"} /\ Emit(a, <<e>>, "ended", NoId)
  BY DEF End
<1>2. /\ e \in Events /\ e.fam = Fam(a) /\ e.id = a /\ e.src = "sink"
      /\ e.kind \in {"completed", "exhausted", "failed", "interrupted"}
      /\ e.res \in {"none", "pass", "fail", "APPROVED", "REVISE"}
  BY OutcomeFacts
<1>3. Writes(a, <<e>>, "ended")
  BY <1>1, <1>2, EmitOne
<1> QED  BY <1>3

\* Run events are events.
LEMMA RunEventType ==
  ASSUME NEW kind \in {"created", "started", "waiting_user", "resumed", "completed", "failed",
                       "cancelled", "interrupted"},
         NEW src \in {"sink", "gate", "pipeline", "lifecycle", "recovery"}
  PROVE  /\ RunEvent(kind, src) \in Events
         /\ RunEvent(kind, src).fam = "run" /\ RunEvent(kind, src).kind = kind
         /\ RunEvent(kind, src).id = NoId /\ RunEvent(kind, src).src = src
         /\ RunEvent(kind, src).res = "none"
BY DEF RunEvent, Event, Events

\* A tool call asks for approval, or gets its answer.
LEMMA EmitTwo ==
  ASSUME IInv, NEW a \in Executions, NEW from \in {"live", "asked"}, sink[a].pc = from,
         NEW kind \in {"permission_requested", "permission_resolved"},
         NEW run \in {"waiting_user", "resumed"},
         NEW pc \in {"live", "asked"}, Emit(a, <<AttemptEvent(a, kind), RunEvent(run, "sink")>>, pc, NoId),
         (run = "waiting_user" /\ pc = "asked") \/ (run = "resumed" /\ pc = "live" /\ from = "asked")
  PROVE  \E specs : Writes(a, specs, pc)
<1>0. a \in Attempts /\ Fam(a) \in Families
  BY FamFacts DEF Attempts
<1>1. PICK e : e = AttemptEvent(a, kind)
  OBVIOUS
<1>2. PICK f : f = RunEvent(run, "sink")
  OBVIOUS
<1>3. /\ e.fam = Fam(a) /\ e.kind = kind /\ e.id = a /\ e.src = "sink" /\ e.res = "none"
      /\ e \in Events
  <2>1. e \in [fam : {Fam(a)}, kind : {kind}, id : {a}, src : {"sink"},
               res : {"none"}, ref : {NoId}, diff : {NoId}]
    BY <1>0, <1>1, AttemptEventType
  <2> QED  BY <1>0, <2>1 DEF Events, Families
<1>4. f \in Events /\ f.fam = "run" /\ f.kind = run /\ f.id = NoId /\ f.src = "sink" /\ f.res = "none"
  BY <1>2, RunEventType
<1>5. PICK specs : specs = <<e, f>>
  OBVIOUS
<1>6. specs \in Seq(Events) /\ Len(specs) = 2 /\ specs[1] = e /\ specs[2] = f
  BY <1>3, <1>4, <1>5, Batches
<1>7. TypeOK /\ Emit(a, specs, pc, NoId)
  BY <1>1, <1>2, <1>5 DEF IInv
<1>8. /\ sink[a].expected = Len(log) /\ Appended(specs)
      /\ sink'[a].pc = pc /\ sink'[a].expected = Len(log) + Len(specs)
      /\ \A b \in Attempts : b # a => sink'[b] = sink[b]
      /\ pend' = pend /\ status' = StatusAfter(status, specs)
      /\ sink' \in [Attempts -> [pc : {"none", "open", "live", "asked", "ended", "dead"},
                                 item : Items \cup {NoId}, expected : Nat]]
  <2>1. pc \in {"live", "asked", "ended"} /\ NoId \in Items \cup {NoId}
    OBVIOUS
  <2> QED  BY <1>0, <1>6, <1>7, <2>1, EmitFacts, Zenon
<1>9. StatusOf(f) = IF run = "waiting_user" THEN "WAITING_USER" ELSE "RUNNING"
  BY <1>4 DEF StatusOf
<1>10. status' = StatusOf(f)
  <2>1. StatusOf(specs[Len(specs)]) # "same" /\ Len(specs) \in Nat \ {0}
    BY <1>6, <1>9
  <2> QED  BY <1>6, <1>8, <2>1, StatusLast
<1>11. ~TerminalEvent(e)
  BY <1>3 DEF TerminalEvent
<1>12. Writes(a, specs, pc)
  BY <1>3, <1>4, <1>6, <1>8, <1>9, <1>10, <1>11 DEF Writes
<1> QED  BY <1>12

\* permission.requested
LEMMA AskWrites ==
  ASSUME IInv, NEW a \in Attempts, Ask(a)
  PROVE  \E specs, pc : Writes(a, specs, pc)
<1>1. /\ a \in Executions /\ sink[a].pc = "live"
      /\ Emit(a, <<AttemptEvent(a, "permission_requested"), RunEvent("waiting_user", "sink")>>, "asked", NoId)
  BY DEF Ask
<1>2. \E specs : Writes(a, specs, "asked")
  BY <1>1, EmitTwo
<1> QED  BY <1>2

\* permission.resolved
LEMMA AnswerWrites ==
  ASSUME IInv, NEW a \in Attempts, Answer(a)
  PROVE  \E specs, pc : Writes(a, specs, pc)
<1>1. /\ sink[a].pc = "asked"
      /\ Emit(a, <<AttemptEvent(a, "permission_resolved"), RunEvent("resumed", "sink")>>, "live", NoId)
  BY DEF Answer
<1>2. a \in Executions
  BY <1>1 DEF IInv, Recorder
<1>3. \E specs : Writes(a, specs, "live")
  BY <1>1, <1>2, EmitTwo
<1> QED  BY <1>3

-----------------------------------------------------------------------------
(* Appends that are not a recorder's                                       *)

\* An event that belongs to no attempt.
Foreign(x) ==
  /\ x.fam \notin Families /\ x.src \notin {"sink", "recovery"} /\ x.kind \notin ItemKinds
  /\ x.kind = "started" => x.id = NoId
  /\ ~(x.fam = "run" /\ x.kind = "interrupted")

\* An append of foreign events keeps the invariant if the first has its evidence.
LEMMA ForeignKeeps ==
  ASSUME IInv, NEW specs \in Seq(Events), specs # <<>>, Appended(specs), Moves,
         \A k \in 1..Len(specs) : Foreign(specs[k]),
         \A k \in 1..Len(specs) : k # 1 => Unmarked(specs[k]),
         Vouched(specs[1]),
         sink' \in [Attempts -> [pc : {"none", "open", "live", "asked", "ended", "dead"},
                                 item : Items \cup {NoId}, expected : Nat]],
         pend' \in [Writers -> [seq : Nat, specs : Seq(Events), from : Statuses]],
         \A b \in Attempts : sink'[b] = sink[b] \/ Recorder(b)',
         \A w \in Writers : pend'[w] = pend[w] \/ pend'[w] = NothingPending
  PROVE  IInv'
<1>0. /\ TypeOK /\ Belongs /\ ToolsInside
      /\ SettledOnEvidence /\ FailedOnEvidence
      /\ AttemptUninterleaved /\ EndsOnce /\ RecoveredIsClosed
  BY DEF IInv
<1>1. Grows(specs)
  BY <1>0, AppendGrows
<1>2. Len(specs) \in Nat /\ Len(specs) >= 1
  BY EmptySeq
<1>3. status \in Life!Terminal => status' \in Life!Terminal
  BY TerminalStays
<1>4. TypeOK'
  <2>1. log' \in Seq(Events) /\ status' = StatusAfter("CREATED", log') /\ status' \in Statuses
    BY <1>0, AppendFacts
  <2> QED  BY <2>1, Zenon DEF TypeOK
<1>5. Belongs'
  <2>1. \A k \in 1..Len(specs) : Attributed(specs[k]) /\ specs[k].src # "recovery"
    BY DEF Foreign, Attributed
  <2> QED  BY <1>0, <1>1, <1>3, <2>1, BelongsKept
<1>6. ToolsInside'
  <2>1. \A k \in 1..Len(specs) : ~(specs[k].fam = "execution")
    BY DEF Foreign, Families
  <2> QED  BY <1>0, <1>1, <2>1, ToolsKept
<1>7. \A b \in Attempts : Recorder(b)'
  <2> SUFFICES ASSUME NEW b \in Attempts, sink'[b] = sink[b] PROVE Recorder(b)'
    OBVIOUS
  <2>1. Recorder(b)
    BY DEF IInv
  <2>2. \A k \in 1..Len(specs) : ~(specs[k].fam \in Families)
    BY DEF Foreign
  <2> QED  BY <1>0, <1>1, <1>2, <1>3, <2>1, <2>2, RecorderKept
<1>8. \A w \in Writers : Decided(w)'
  <2> SUFFICES ASSUME NEW w \in Writers PROVE Decided(w)'
    OBVIOUS
  <2>1. Decided(w)
    BY DEF IInv
  <2> QED  BY <1>0, <1>1, <1>2, <2>1, DecidedKept
<1>9. SettledOnEvidence' /\ FailedOnEvidence'
  BY <1>0, EvidenceKept
<1>10. AttemptUninterleaved'
  <2>1. \A k \in 1..Len(specs) : specs[k].src # "sink"
    BY DEF Foreign
  <2> QED  BY <1>0, <1>1, <2>1, UninterleavedKept
<1>11. EndsOnce'
  <2>1. \A k \in 1..Len(specs) : specs[k].kind = "started" => specs[k].id \notin Fenced
    BY LedgerAssumption DEF Foreign, Fenced
  <2>2. \A k \in 1..Len(specs) : ~TerminalEvent(specs[k])
    BY DEF Foreign, TerminalEvent
  <2>3. \A k \in 1..Len(specs), n \in DOMAIN log :
           specs[k].id \in Fenced /\ log[n].id = specs[k].id /\ log[n].fam = specs[k].fam
             => /\ ~(specs[k].kind = "started" /\ log[n].kind = "started")
                /\ ~(TerminalEvent(specs[k]) /\ AttemptTerminal(n))
    BY <2>1, <2>2
  <2>4. \A k, l \in 1..Len(specs) :
           specs[k].id \in Fenced /\ specs[l].id = specs[k].id /\ specs[l].fam = specs[k].fam
             => \/ k = l
                \/ /\ ~(specs[k].kind = "started" /\ specs[l].kind = "started")
                   /\ ~(TerminalEvent(specs[k]) /\ TerminalEvent(specs[l]))
    BY <2>1, <2>2
  <2> QED  BY <1>0, <1>1, <2>3, <2>4, EndsOnceKept
<1>12. RecoveredIsClosed'
  <2>1. \A k \in 1..Len(specs) : ~(specs[k].fam = "run" /\ specs[k].kind = "interrupted")
    BY DEF Foreign
  <2> QED  BY <1>0, <1>1, <2>1, RecoveredKept
<1> QED  BY <1>4, <1>5, <1>6, <1>7, <1>8, <1>9, <1>10, <1>11, <1>12 DEF IInv

\* The opening of a Run that has not been opened: it is CREATED.
LEMMA NotOpened ==
  ASSUME TypeOK, Len(log) < 2, log = SubSeq(Opening, 1, Len(log))
  PROVE  Len(log) \in {0, 1} /\ status = "CREATED"
<1>1. Len(log) \in Nat /\ Len(log) \in {0, 1}
  <2>1. Len(log) \in Nat
    BY DEF TypeOK
  <2> QED  BY <2>1
<1>2. CASE Len(log) = 0
  <2>1. \A k \in 1..Len(log) : StatusOf(log[k]) = "same"
    BY <1>2
  <2> QED  BY <1>2, <2>1, StatusKept DEF TypeOK
<1>3. CASE Len(log) = 1
  <2>1. log[1] = RunEvent("created", "lifecycle")
    <3>1. Opening \in Seq(Events) /\ Len(Opening) = 2 /\ Opening[1] = RunEvent("created", "lifecycle")
      BY RunEventType, Batches DEF Opening
    <3>2. SubSeq(Opening, 1, 1)[1] = Opening[1]
      <4> HIDE DEF Opening
      <4> QED  BY <3>1, SubSeqProperties
    <3> QED  BY <1>3, <3>1, <3>2
  <2>2. StatusOf(log[Len(log)]) = "CREATED"
    BY <1>3, <2>1, RunEventType DEF StatusOf
  <2>3. StatusAfter("CREATED", log) = StatusOf(log[Len(log)])
    <3>1. StatusOf(log[Len(log)]) # "same" /\ Len(log) \in Nat \ {0}
      BY <1>3, <2>2
    <3> QED  BY <3>1, StatusLast
  <2> QED  BY <1>3, <2>2, <2>3 DEF TypeOK
<1> QED  BY <1>1, <1>2, <1>3

\* A batch of one run event projects the status of that event.
LEMMA OneRunEvent ==
  ASSUME NEW e \in Events, StatusOf(e) # "same", NEW s
  PROVE  StatusAfter(s, <<e>>) = StatusOf(e)
<1>1. PICK specs : specs = <<e>>
  OBVIOUS
<1>2. Len(specs) = 1 /\ specs[1] = e
  BY <1>1
<1>3. Len(specs) \in Nat \ {0} /\ StatusOf(specs[Len(specs)]) # "same"
  BY <1>2
<1>4. StatusAfter(s, specs) = StatusOf(specs[Len(specs)])
  BY <1>3, StatusLast
<1> QED  BY <1>1, <1>2, <1>4

\* The coordinator's events.
LEMMA OpeningKeeps ==
  ASSUME IInv, RecordOpening \/ StartFails
  PROVE  IInv' /\ Moves /\ status = "CREATED"
<1>0. TypeOK
  BY DEF IInv
<1>1. PICK e \in {RunEvent("created", "lifecycle"), RunEvent("started", "lifecycle"),
                  RunEvent("failed", "lifecycle")} :
         Appended(<<e>>) /\ sink' = sink /\ pend' = pend
  <2>1. Len(log) \in {0, 1}
    BY <1>0, NotOpened DEF RecordOpening, StartFails
  <2>2. Opening[Len(log) + 1] \in {RunEvent("created", "lifecycle"), RunEvent("started", "lifecycle")}
    <3>1. CASE Len(log) = 0
      BY <3>1 DEF Opening
    <3>2. CASE Len(log) = 1
      BY <3>2 DEF Opening
    <3> QED  BY <2>1, <3>1, <3>2
  <2> QED  BY <2>2 DEF RecordOpening, StartFails
<1>2. status = "CREATED"
  BY <1>0, NotOpened DEF RecordOpening, StartFails
<1>3. /\ e \in Events /\ e.fam = "run" /\ e.kind \in {"created", "started", "failed"} /\ e.id = NoId
      /\ e.src = "lifecycle" /\ e.res = "none"
  BY RunEventType
<1>4. PICK specs : specs = <<e>>
  OBVIOUS
<1>5. specs \in Seq(Events) /\ specs # <<>> /\ Len(specs) = 1 /\ specs[1] = e /\ Appended(specs)
  BY <1>1, <1>3, <1>4
<1>6. StatusOf(e) \in {"CREATED", "RUNNING", "FAILED"}
  BY <1>3 DEF StatusOf
<1>7. status' \in {"CREATED", "RUNNING", "FAILED"}
  BY <1>3, <1>4, <1>5, <1>6, OneRunEvent DEF Appended
<1>8. Moves
  BY <1>2, <1>7 DEF Moves, Life!LifecycleNext, Life!Start
<1>9. \A k \in 1..Len(specs) : Foreign(specs[k]) /\ (k # 1 => Unmarked(specs[k]))
  BY <1>3, <1>5 DEF Foreign, Families, ItemKinds
<1>10. Vouched(specs[1])
  BY <1>3, <1>5 DEF Vouched
<1>11. /\ sink' \in [Attempts -> [pc : {"none", "open", "live", "asked", "ended", "dead"},
                                 item : Items \cup {NoId}, expected : Nat]]
       /\ pend' \in [Writers -> [seq : Nat, specs : Seq(Events), from : Statuses]]
       /\ \A b \in Attempts : sink'[b] = sink[b]
       /\ \A w \in Writers : pend'[w] = pend[w]
  BY <1>0, <1>1, Zenon DEF TypeOK
<1>12. IInv'
  BY <1>5, <1>8, <1>9, <1>10, <1>11, ForeignKeeps
<1> QED  BY <1>2, <1>8, <1>12

\* agent.activity of an ACP session.
LEMMA ActivityKeeps ==
  ASSUME IInv, NEW a \in Attempts, Activity(a)
  PROVE  IInv' /\ status' = status
<1>0. TypeOK /\ Recorder(a)
  BY DEF IInv
<1>1. PICK e : e = Event("agent", "activity", a, "activity")
  OBVIOUS
<1>2. /\ e.fam = "agent" /\ e.kind = "activity" /\ e.id = a /\ e.src = "activity" /\ e.res = "none"
      /\ e \in Events
  BY <1>1 DEF Event, Events
<1>3. PICK specs : specs = <<e>>
  OBVIOUS
<1>4. specs \in Seq(Events) /\ specs # <<>> /\ Len(specs) = 1 /\ specs[1] = e
  BY <1>2, <1>3
<1>5. /\ Appended(specs) /\ pend' = pend /\ a \in AcpSessions /\ sink[a].pc = "live"
      /\ sink' = [sink EXCEPT ![a].expected = Len(log) + 1]
  BY <1>1, <1>3 DEF Activity
<1>6. status' = status
  <2>1. StatusOf(e) = "same"
    BY <1>2 DEF StatusOf
  <2>2. StatusAfter(status, specs) = status
    BY <1>4, <2>1, StatusKept
  <2> QED  BY <1>5, <2>2 DEF Appended
<1>7. Moves
  BY <1>6 DEF Moves
<1>8. \A k \in 1..Len(specs) : Foreign(specs[k]) /\ (k # 1 => Unmarked(specs[k]))
  BY <1>2, <1>4 DEF Foreign, Families, ItemKinds
<1>9. Vouched(specs[1])
  BY <1>2, <1>4 DEF Vouched
<1>10. Len(log) \in Nat
  BY <1>0 DEF TypeOK
<1>11. /\ sink' \in [Attempts -> [pc : {"none", "open", "live", "asked", "ended", "dead"},
                                 item : Items \cup {NoId}, expected : Nat]]
       /\ sink'[a].pc = "live" /\ sink'[a].expected = Len(log) + 1
       /\ \A b \in Attempts : b # a => sink'[b] = sink[b]
  <2>1. sink \in [Attempts -> [pc : {"none", "open", "live", "asked", "ended", "dead"},
                               item : Items \cup {NoId}, expected : Nat]]
    BY <1>0 DEF TypeOK
  <2> QED  BY <1>5, <1>10, <2>1
<1>12. /\ pend' \in [Writers -> [seq : Nat, specs : Seq(Events), from : Statuses]]
       /\ \A w \in Writers : pend'[w] = pend[w]
  BY <1>0, <1>5 DEF TypeOK
<1>13. Grows(specs)
  BY <1>0, <1>4, <1>5, AppendGrows
<1>14. Recorder(a)'
  <2>1. sink'[a].expected <= Len(log')
    BY <1>4, <1>10, <1>11, <1>13 DEF Grows
  <2>2. a \notin Fenced
    BY <1>5 DEF Fenced
  <2>3. \E b \in DOMAIN log' : StartOf(b, a)'
    <3>1. PICK b \in DOMAIN log : StartOf(b, a)
      BY <1>0, <1>5 DEF Recorder
    <3>2. b \in 1..Len(log) /\ b \in DOMAIN log'
      BY <1>13 DEF Grows
    <3> QED  BY <1>13, <3>1, <3>2, StartsKept
  <2>4. ASSUME NEW n \in DOMAIN log', AttemptTerminal(n)', log'[n].id = a
        PROVE  status' \in Life!Terminal
    <3>1. n \in 1..Len(log)
      BY <1>2, <1>4, <1>13, <2>4 DEF Grows, AttemptTerminal
    <3>2. n \in DOMAIN log /\ AttemptTerminal(n) /\ log[n].id = a
      BY <1>13, <2>4, <3>1 DEF Grows, AttemptTerminal
    <3> QED  BY <1>0, <1>5, <1>6, <3>2 DEF Recorder
  <2>5. Fenced' = Fenced
    BY DEF Fenced
  <2> QED  BY <1>11, <2>1, <2>2, <2>3, <2>4, <2>5 DEF Recorder
<1>15. \A b \in Attempts : sink'[b] = sink[b] \/ Recorder(b)'
  BY <1>11, <1>14
<1>16. IInv'
  BY <1>4, <1>5, <1>7, <1>8, <1>9, <1>11, <1>12, <1>15, ForeignKeeps
<1> QED  BY <1>6, <1>16

\* decision.made of a fix loop.
LEMMA TriageKeeps ==
  ASSUME IInv, NEW a \in Attempts, DecisionMade(a)
  PROVE  IInv' /\ status' = status /\ UnfencedOnly
<1>0. TypeOK
  BY DEF IInv
<1>1. PICK e : e = Event("decision", "made", NoId, "decision")
  OBVIOUS
<1>2. /\ e.fam = "decision" /\ e.kind = "made" /\ e.id = NoId /\ e.src = "decision" /\ e.res = "none"
      /\ e \in Events
  BY <1>1 DEF Event, Events
<1>3. PICK specs \in Seq(Events) : specs = <<e>> /\ Len(specs) = 1 /\ specs[1] = e
  BY <1>2, Batches
<1>4. Appended(specs) /\ sink' = sink /\ pend' = pend
  BY <1>1, <1>3 DEF DecisionMade
<1>5. status' = status
  <2>1. StatusOf(e) = "same"
    BY <1>2 DEF StatusOf
  <2>2. StatusAfter(status, specs) = status
    BY <1>3, <2>1, StatusKept
  <2> QED  BY <1>4, <2>2 DEF Appended
<1>6. Moves
  BY <1>5 DEF Moves
<1>7. \A k \in 1..Len(specs) : Foreign(specs[k]) /\ (k # 1 => Unmarked(specs[k]))
  BY <1>2, <1>3 DEF Foreign, Families, ItemKinds
<1>8. Vouched(specs[1]) /\ specs # <<>>
  BY <1>2, <1>3 DEF Vouched
<1>9. /\ sink' \in [Attempts -> [pc : {"none", "open", "live", "asked", "ended", "dead"},
                                item : Items \cup {NoId}, expected : Nat]]
      /\ pend' \in [Writers -> [seq : Nat, specs : Seq(Events), from : Statuses]]
      /\ \A b \in Attempts : sink'[b] = sink[b]
      /\ \A w \in Writers : pend'[w] = pend[w]
  BY <1>0, <1>4, Zenon DEF TypeOK
<1>10. IInv'
  BY <1>4, <1>6, <1>7, <1>8, <1>9, ForeignKeeps
<1>11. Grows(specs)
  BY <1>0, <1>4, AppendGrows
<1>12. \A n \in (Len(log) + 1)..Len(log') : n = Len(log) + 1
  BY <1>3, <1>11 DEF Grows
<1>13. log'[Len(log) + 1] = e
  BY <1>3, <1>11 DEF Grows
<1> QED  BY <1>2, <1>5, <1>10, <1>12, <1>13 DEF UnfencedOnly

-----------------------------------------------------------------------------
(* Recovery's batch                                                        *)

\* What recovery ends is finite.
LEMMA OwedFinite ==
  ASSUME TypeOK
  PROVE  Cardinality(Owed) \in Nat
<1>1. Len(log) \in Nat
  BY DEF TypeOK
<1>2. IsFiniteSet(0..Len(log)) /\ IsFiniteSet(1..(Len(log) + 1))
  BY <1>1, FS_Interval
<1>3. IsFiniteSet((0..Len(log)) \X (1..(Len(log) + 1)))
  BY <1>2, FS_Product
<1>4. Owed \subseteq (0..Len(log)) \X (1..(Len(log) + 1))
  BY DEF Owed
<1>5. IsFiniteSet(Owed)
  BY <1>3, <1>4, FS_Subset
<1> QED  BY <1>5, FS_CardinalityType

\* What it ends was started in the history, and an attempt has not ended.
LEMMA OwedFacts ==
  ASSUME TypeOK, NEW o \in Owed
  PROVE  /\ o[1] \in 0..Len(log) /\ o[2] \in 1..(Len(log) + 1) /\ o = <<o[1], o[2]>>
         /\ o[2] \in DOMAIN log => log[o[2]].fam \in Families /\ log[o[2]].kind = "item_started"
         /\ o[2] \notin DOMAIN log =>
              /\ o[1] \in DOMAIN log /\ o[2] = Len(log) + 1 /\ ~Finished(o[1])
              /\ log[o[1]].fam \in Families /\ log[o[1]].kind = "started"
         /\ o[1] # 0 => log[o[1]].fam \in DOMAIN Rank
<1>1. Len(log) \in Nat /\ DOMAIN log = 1..Len(log)
  BY DEF TypeOK
<1>2. o[1] \in 0..Len(log) /\ o[2] \in 1..(Len(log) + 1) /\ o = <<o[1], o[2]>>
  BY DEF Owed
<1>3. DOMAIN Rank = {"plan", "verification", "review", "fix_loop"}
  BY DEF Rank
<1>4. CASE o[1] = 0
  <2>1. o[2] \in DOMAIN log /\ UnfinishedTool(o[2])
    BY <1>4 DEF Owed
  <2> QED  BY <1>2, <1>4, <2>1 DEF UnfinishedTool, ToolStart, Families
<1>5. CASE o[1] # 0
  <2>1. o[1] \in DOMAIN log
    BY <1>1, <1>2, <1>5
  <2>2. (\E fam \in DOMAIN Rank : AttemptStart(fam, o[1])) /\ Unsettled(o[1], o[2])
    BY <1>5 DEF Owed
  <2>3. log[o[1]].fam \in DOMAIN Rank /\ log[o[1]].kind = "started"
    BY <2>2 DEF AttemptStart
  <2>4. CASE o[2] \in DOMAIN log
    <3>1. log[o[1]].fam \in {"verification", "fix_loop"} /\ UnfinishedItem(o[1], o[2])
      BY <2>2, <2>4 DEF Unsettled
    <3>2. log[o[2]].fam = log[o[1]].fam /\ log[o[2]].kind = "item_started"
      BY <3>1 DEF UnfinishedItem, InAttempt
    <3> QED  BY <1>2, <2>3, <2>4, <3>1, <3>2 DEF Families
  <2>5. CASE o[2] \notin DOMAIN log
    <3>1. ~Finished(o[1])
      BY <2>2, <2>5 DEF Unsettled
    <3>2. o[2] = Len(log) + 1
      BY <1>1, <1>2, <2>5
    <3> QED  BY <1>2, <1>3, <2>1, <2>3, <2>5, <3>1, <3>2 DEF Families
  <2> QED  BY <2>4, <2>5
<1> QED  BY <1>4, <1>5

\* An event with another kind, source and result.
LEMMA InterruptedEvent ==
  ASSUME TypeOK, NEW n \in DOMAIN log, NEW kind \in {"item_ended", "interrupted"}
  PROVE  /\ Interrupted(n, kind) \in Events
         /\ Interrupted(n, kind).src = "recovery" /\ Interrupted(n, kind).res = "none"
         /\ Interrupted(n, kind).kind = kind /\ Interrupted(n, kind).fam = log[n].fam
         /\ Interrupted(n, kind).id = log[n].id /\ Interrupted(n, kind).ref = log[n].ref
<1>1. PICK e \in Events : e = log[n]
  BY DEF TypeOK
<1>2. PICK x : x = Interrupted(n, kind)
  OBVIOUS
<1>3. x = [fam |-> e.fam, kind |-> kind, id |-> e.id, src |-> "recovery",
           res |-> "none", ref |-> e.ref, diff |-> e.diff]
  <2>1. e = [fam |-> e.fam, kind |-> e.kind, id |-> e.id, src |-> e.src, res |-> e.res, ref |-> e.ref, diff |-> e.diff]
    BY DEF Events
  <2>2. x = [e EXCEPT !.kind = kind, !.src = "recovery", !.res = "none"]
    BY <1>1, <1>2 DEF Interrupted
  <2>3. PICK e1 : e1 = [e EXCEPT !.kind = kind]
    OBVIOUS
  <2>4. e1 = [fam |-> e.fam, kind |-> kind, id |-> e.id, src |-> e.src, res |-> e.res, ref |-> e.ref, diff |-> e.diff]
    BY <2>1, <2>3
  <2>5. PICK e2 : e2 = [e1 EXCEPT !.src = "recovery"]
    OBVIOUS
  <2>6. e2 = [fam |-> e.fam, kind |-> kind, id |-> e.id, src |-> "recovery", res |-> e.res, ref |-> e.ref, diff |-> e.diff]
    BY <2>4, <2>5
  <2>7. x = [e2 EXCEPT !.res = "none"]
    BY <2>2, <2>3, <2>5
  <2> QED  BY <2>6, <2>7
<1>4. x \in Events
  BY <1>3 DEF Events
<1>5. /\ x.src = "recovery" /\ x.res = "none" /\ x.kind = kind
      /\ x.fam = e.fam /\ x.id = e.id /\ x.ref = e.ref
  BY <1>3
<1> QED  BY <1>1, <1>2, <1>4, <1>5

\* The event that ends it.
LEMMA EndingFacts ==
  ASSUME TypeOK, NEW o \in Owed
  PROVE  /\ Ending(o) \in Events /\ Ending(o).src = "recovery" /\ Ending(o).res = "none"
         /\ o[2] \in DOMAIN log =>
              /\ Ending(o).kind = "item_ended" /\ Ending(o).fam = log[o[2]].fam
              /\ Ending(o).id = log[o[2]].id /\ Ending(o).ref = log[o[2]].ref
         /\ o[2] \notin DOMAIN log =>
              /\ Ending(o).kind = "interrupted" /\ Ending(o).fam = log[o[1]].fam
              /\ Ending(o).id = log[o[1]].id
<1>1. o[2] \notin DOMAIN log => o[1] \in DOMAIN log
  BY OwedFacts
<1>2. CASE o[2] \in DOMAIN log
  BY <1>2, InterruptedEvent DEF Ending
<1>3. CASE o[2] \notin DOMAIN log
  BY <1>1, <1>3, InterruptedEvent DEF Ending
<1> QED  BY <1>2, <1>3

\* The order is strict.
LEMMA PrecedesStrict ==
  ASSUME TypeOK, NEW o \in Owed
  PROVE  ~Precedes(o, o)
<1>1. o[1] \in Nat /\ o[2] \in Nat /\ (o[1] # 0 => log[o[1]].fam \in DOMAIN Rank)
  BY OwedFacts
<1>2. \A fam \in DOMAIN Rank : Rank[fam] \in Nat
  BY DEF Rank
<1>3. PICK r \in Nat : r = IF o[1] = 0 THEN 0 ELSE Rank[log[o[1]].fam]
  BY <1>1, <1>2
<1> QED  BY <1>1, <1>3 DEF Precedes

\* A batch of recovery ends everything it owes, each once, and then the Run.
BatchOf(specs, q, c) ==
  /\ c \in Nat /\ specs \in Seq(Events) /\ Len(specs) = c + 1
  /\ specs[c + 1] = RunEvent("interrupted", "recovery")
  /\ \A k \in 1..c : q[k] \in Owed /\ specs[k] = Ending(q[k])
  /\ \A o \in Owed : \E k \in 1..c : q[k] = o
  /\ \A k, l \in 1..c : q[k] = q[l] => k = l

\* Every batch of RecoverySpecs is one.
LEMMA RecoveryBatch ==
  ASSUME TypeOK, NEW specs \in RecoverySpecs
  PROVE  \E q, c : BatchOf(specs, q, c)
<1>1. PICK q \in InOrder(Owed) :
        specs = [i \in DOMAIN q |-> Ending(q[i])] \o <<RunEvent("interrupted", "recovery")>>
  BY DEF RecoverySpecs
<1>2. PICK c \in Nat : c = Cardinality(Owed)
  BY OwedFinite
<1>3. /\ q \in [1..c -> Owed]
      /\ \A i, j \in DOMAIN q : i < j => Precedes(q[i], q[j])
      /\ \A o \in Owed : \E i \in DOMAIN q : q[i] = o
  BY <1>2 DEF InOrder
<1>4. PICK s : s = [i \in DOMAIN q |-> Ending(q[i])]
  OBVIOUS
<1>5. s \in [1..c -> Events] /\ \A k \in 1..c : s[k] = Ending(q[k])
  BY <1>3, <1>4, EndingFacts
<1>6. s \in Seq(Events) /\ Len(s) = c
  BY <1>2, <1>5, SeqDef
<1>7. PICK e \in Events : e = RunEvent("interrupted", "recovery")
  BY RunEventType
<1>8. specs = s \o <<e>>
  BY <1>1, <1>4, <1>7
<1>9. specs \in Seq(Events) /\ Len(specs) = c + 1 /\ specs[c + 1] = e /\ \A k \in 1..c : specs[k] = s[k]
  BY <1>2, <1>6, <1>7, <1>8
<1>10. \A k, l \in 1..c : q[k] = q[l] => k = l
  <2> SUFFICES ASSUME NEW k \in 1..c, NEW l \in 1..c, q[k] = q[l], k # l PROVE FALSE
    OBVIOUS
  <2>1. q[k] \in Owed /\ DOMAIN q = 1..c
    BY <1>3
  <2>2. k < l \/ l < k
    OBVIOUS
  <2>3. Precedes(q[k], q[k])
    BY <1>3, <2>1, <2>2
  <2> QED  BY <2>1, <2>3, PrecedesStrict
<1>11. BatchOf(specs, q, c)
  BY <1>2, <1>3, <1>5, <1>7, <1>9, <1>10 DEF BatchOf
<1> QED  BY <1>11

\* The attempt an ending is written for: the history knows it.
LEMMA EndingBelongs ==
  ASSUME TypeOK, Belongs, NEW o \in Owed
  PROVE  /\ Ending(o).fam \in Families /\ Ending(o).id \in Attempts
         /\ Ending(o).fam = Fam(Ending(o).id) /\ Ending(o).kind \in {"item_ended", "interrupted"}
         /\ \E b \in DOMAIN log : StartOf(b, Ending(o).id)
         /\ \E n \in DOMAIN log : log[n].fam \in Families /\ log[n].id = Ending(o).id
<1>1. PICK n \in DOMAIN log : log[n].fam \in Families /\ log[n].fam = Ending(o).fam /\ log[n].id = Ending(o).id
  BY OwedFacts, EndingFacts
<1>2. PICK b \in 1..n : StartOf(b, log[n].id)
  BY <1>1 DEF Belongs
<1>3. b \in DOMAIN log
  <2>1. DOMAIN log = 1..Len(log) /\ Len(log) \in Nat
    BY DEF TypeOK
  <2> QED  BY <2>1
<1>4. log[n].id \in Attempts /\ log[n].fam = Fam(log[n].id)
  BY <1>1 DEF Belongs
<1>5. Ending(o).kind \in {"item_ended", "interrupted"}
  BY EndingFacts
<1> QED  BY <1>1, <1>2, <1>3, <1>4, <1>5

\* A terminal event of a fenced attempt finishes the start of that attempt.
LEMMA FinishedBy ==
  ASSUME TypeOK, Belongs, EndsOnce, NEW s \in DOMAIN log, NEW n \in DOMAIN log,
         log[s].fam \in Families, log[s].kind = "started", log[s].id \in Fenced,
         log[n].id = log[s].id, log[n].fam = log[s].fam, AttemptTerminal(n)
  PROVE  Finished(s)
<1>1. DOMAIN log = 1..Len(log) /\ Len(log) \in Nat /\ s \in Nat /\ n \in Nat
  BY DEF TypeOK
<1>2. PICK b \in 1..n : StartOf(b, log[n].id)
  BY DEF Belongs
<1>3. b \in DOMAIN log
  BY <1>1
<1>4. log[n].fam = Fam(log[n].id)
  BY DEF Belongs
<1>5. b = s
  BY <1>2, <1>3, <1>4 DEF StartOf, EndsOnce
<1>6. log[n].kind \in {"completed", "exhausted", "failed", "interrupted"}
  BY DEF AttemptTerminal
<1>7. n > s
  BY <1>1, <1>5, <1>6
<1>8. \A m \in DOMAIN log : ~(m > s /\ AttemptStart(log[s].fam, m) /\ log[m].id = log[s].id)
  <2> SUFFICES ASSUME NEW m \in DOMAIN log, m > s, AttemptStart(log[s].fam, m), log[m].id = log[s].id
               PROVE  FALSE
    OBVIOUS
  <2>1. m # s
    BY <1>1
  <2> QED  BY <2>1 DEF AttemptStart, EndsOnce
<1>9. InAttempt(s, n)
  BY <1>7, <1>8 DEF InAttempt
<1> QED  BY <1>6, <1>9 DEF Finished

\* Recovery ends no fenced attempt that has ended, and none twice.
LEMMA RecoveryEndsOnce ==
  ASSUME IInv, NEW specs, NEW q, NEW c, BatchOf(specs, q, c), Grows(specs)
  PROVE  EndsOnce'
<1>0. TypeOK /\ Belongs /\ EndsOnce /\ c \in Nat
  BY DEF IInv, BatchOf
<1>1. ASSUME NEW k \in 1..Len(specs), specs[k].id \in Fenced
      PROVE  k \in 1..c /\ q[k] \in Owed /\ specs[k] = Ending(q[k])
  <2>1. k # c + 1
    BY <1>1, RunEventType, LedgerAssumption DEF BatchOf, Fenced
  <2>2. k \in 1..c
    BY <2>1 DEF BatchOf
  <2> QED  BY <2>2 DEF BatchOf
<1>2. ASSUME NEW o \in Owed, TerminalEvent(Ending(o))
      PROVE  /\ o[1] \in DOMAIN log /\ o[2] = Len(log) + 1 /\ ~Finished(o[1]) /\ o = <<o[1], o[2]>>
             /\ log[o[1]].fam \in Families /\ log[o[1]].kind = "started"
             /\ Ending(o).fam = log[o[1]].fam /\ Ending(o).id = log[o[1]].id
  <2>1. o[2] \notin DOMAIN log
    BY <1>0, <1>2, EndingFacts DEF TerminalEvent
  <2> QED  BY <1>0, <2>1, OwedFacts, EndingFacts
<1>3. ASSUME NEW k \in 1..Len(specs), NEW n \in DOMAIN log,
             specs[k].id \in Fenced, log[n].id = specs[k].id, log[n].fam = specs[k].fam
      PROVE  /\ ~(specs[k].kind = "started" /\ log[n].kind = "started")
             /\ ~(TerminalEvent(specs[k]) /\ AttemptTerminal(n))
  <2>1. q[k] \in Owed /\ specs[k] = Ending(q[k])
    BY <1>1, <1>3
  <2>2. specs[k].kind # "started"
    BY <1>0, <2>1, EndingBelongs
  <2>3. ASSUME TerminalEvent(specs[k]), AttemptTerminal(n)
        PROVE  FALSE
    <3>1. PICK o \in Owed : o = q[k]
      BY <2>1
    <3>2. /\ o[1] \in DOMAIN log /\ ~Finished(o[1])
          /\ log[o[1]].fam \in Families /\ log[o[1]].kind = "started"
          /\ specs[k].fam = log[o[1]].fam /\ specs[k].id = log[o[1]].id
      BY <1>2, <2>1, <2>3, <3>1
    <3>3. Finished(o[1])
      BY <1>0, <1>3, <2>3, <3>2, FinishedBy
    <3> QED  BY <3>2, <3>3
  <2> QED  BY <2>2, <2>3
<1>4. ASSUME NEW k \in 1..Len(specs), NEW l \in 1..Len(specs),
             specs[k].id \in Fenced, specs[l].id = specs[k].id, specs[l].fam = specs[k].fam
      PROVE  \/ k = l
             \/ /\ ~(specs[k].kind = "started" /\ specs[l].kind = "started")
                /\ ~(TerminalEvent(specs[k]) /\ TerminalEvent(specs[l]))
  <2>1. k \in 1..c /\ l \in 1..c /\ q[k] \in Owed /\ specs[k] = Ending(q[k]) /\ q[l] \in Owed /\ specs[l] = Ending(q[l])
    BY <1>1, <1>4
  <2>2. specs[k].kind # "started"
    BY <1>0, <2>1, EndingBelongs
  <2>3. ASSUME TerminalEvent(specs[k]), TerminalEvent(specs[l])
        PROVE  k = l
    <3>1. PICK o \in Owed : o = q[k]
      BY <2>1
    <3>2. PICK p \in Owed : p = q[l]
      BY <2>1
    <3>3. /\ o[1] \in DOMAIN log /\ o[2] = Len(log) + 1 /\ o = <<o[1], o[2]>> /\ log[o[1]].kind = "started"
          /\ specs[k].fam = log[o[1]].fam /\ specs[k].id = log[o[1]].id
      BY <1>2, <2>1, <2>3, <3>1
    <3>4. /\ p[1] \in DOMAIN log /\ p[2] = Len(log) + 1 /\ p = <<p[1], p[2]>> /\ log[p[1]].kind = "started"
          /\ specs[l].fam = log[p[1]].fam /\ specs[l].id = log[p[1]].id
      BY <1>2, <2>1, <2>3, <3>2
    <3>5. o[1] = p[1]
      BY <1>0, <1>4, <3>3, <3>4 DEF EndsOnce
    <3>6. q[k] = q[l]
      BY <3>1, <3>2, <3>3, <3>4, <3>5
    <3> QED  BY <2>1, <3>6 DEF BatchOf
  <2> QED  BY <2>2, <2>3
<1> QED  BY <1>0, <1>3, <1>4, EndsOnceKept

\* An event that ends i, before the batch or in it.
LEMMA EndedByBatch ==
  ASSUME TypeOK, NEW specs, NEW q, NEW c, BatchOf(specs, q, c), Grows(specs),
         NEW i \in 1..Len(log), NEW o \in Owed,
         Ending(o).fam = log[i].fam, Ending(o).id = log[i].id,
         IF log[i].kind = "started" THEN TerminalEvent(Ending(o))
         ELSE Ending(o).kind = "item_ended" /\ Ending(o).ref = log[i].ref
  PROVE  \E j \in (i + 1)..(Len(log) + c) : Ends(i, j)'
<1>1. PICK k \in 1..c : q[k] = o
  BY DEF BatchOf
<1>2. c \in Nat /\ specs[k] = Ending(o) /\ k \in 1..Len(specs)
  BY <1>1 DEF BatchOf
<1>3. PICK j : j = Len(log) + k
  OBVIOUS
<1>4. j \in (i + 1)..(Len(log) + c) /\ j > i /\ log'[j] = Ending(o) /\ log'[i] = log[i]
  BY <1>2, <1>3 DEF Grows
<1>5. Ends(i, j)'
  BY <1>4 DEF Ends, AttemptTerminal, TerminalEvent, Families
<1> QED  BY <1>4, <1>5

\* An event of the history that ends i.
LEMMA EndedBefore ==
  ASSUME NEW specs, Grows(specs), NEW c \in Nat, NEW i \in 1..Len(log), NEW j \in 1..Len(log), Ends(i, j)
  PROVE  \E h \in (i + 1)..(Len(log) + c) : Ends(i, h)'
<1>1. j > i /\ j \in (i + 1)..(Len(log) + c) /\ log'[j] = log[j] /\ log'[i] = log[i]
  BY DEF Grows, Ends
<1>2. Ends(i, j)'
  BY <1>1 DEF Ends, AttemptTerminal
<1> QED  BY <1>1, <1>2

\* After the batch everything that was opened is closed.
LEMMA RecoveryCloses ==
  ASSUME IInv, NEW specs, NEW q, NEW c, BatchOf(specs, q, c), Grows(specs), NEW i \in 1..Len(log), Opens(i)
  PROVE  \E j \in (i + 1)..(Len(log) + c) : Ends(i, j)'
<1>0. TypeOK /\ Belongs /\ c \in Nat
  BY DEF IInv, BatchOf
<1>1. Len(log) \in Nat /\ DOMAIN log = 1..Len(log) /\ i \in Nat /\ i \in DOMAIN log
  BY <1>0 DEF TypeOK
<1>2. DOMAIN Rank = {"plan", "verification", "review", "fix_loop"}
  BY DEF Rank
<1>3. CASE log[i].kind = "started" /\ log[i].fam \in {"plan", "verification", "review", "fix_loop"}
  <2>1. CASE Finished(i)
    <3>1. PICK n \in DOMAIN log :
             InAttempt(i, n) /\ log[n].kind \in {"completed", "exhausted", "failed", "interrupted"}
      BY <2>1 DEF Finished
    <3>2. Ends(i, n)
      BY <1>3, <3>1 DEF InAttempt, Ends, AttemptTerminal
    <3> QED  BY <1>0, <1>1, <3>2, EndedBefore
  <2>2. CASE ~Finished(i)
    <3>1. PICK o : o = <<i, Len(log) + 1>>
      OBVIOUS
    <3>2. o \in (0..Len(log)) \X (1..(Len(log) + 1)) /\ o[1] = i /\ o[2] = Len(log) + 1
      BY <1>1, <3>1
    <3>3. o[1] # 0 /\ o[2] \notin DOMAIN log
      BY <1>1, <3>2
    <3>4. AttemptStart(log[i].fam, i) /\ Unsettled(o[1], o[2])
      BY <1>3, <2>2, <3>2, <3>3 DEF AttemptStart, Unsettled
    <3>5. o \in Owed
      BY <1>2, <1>3, <3>2, <3>3, <3>4 DEF Owed
    <3>6. Ending(o).fam = log[i].fam /\ Ending(o).id = log[i].id /\ Ending(o).kind = "interrupted"
      BY <1>0, <3>2, <3>3, <3>5, EndingFacts
    <3>7. TerminalEvent(Ending(o))
      BY <1>3, <3>6 DEF TerminalEvent, Families
    <3> QED  BY <1>0, <1>3, <3>5, <3>6, <3>7, EndedByBatch
  <2> QED  BY <2>1, <2>2
<1>4. CASE log[i].kind = "item_started" /\ log[i].fam \in {"verification", "fix_loop"}
  <2> DEFINE S == {m \in 1..i : StartOf(m, log[i].id)}
  <2>1. S # {} /\ S \in SUBSET (1..i)
    <3>1. log[i].fam \in Families
      BY <1>4 DEF Families
    <3> QED  BY <1>0, <1>1, <3>1 DEF Belongs
  <2>2. PICK s \in S : \A k \in S : k <= s
    <3> HIDE DEF S
    <3> QED  BY <1>1, <2>1, Greatest
  <2>3. /\ s \in 1..i /\ s \in DOMAIN log /\ s # i /\ s < i
        /\ log[s].fam = log[i].fam /\ log[s].id = log[i].id /\ log[s].kind = "started"
    <3>1. s \in 1..i /\ StartOf(s, log[i].id)
      BY <2>2
    <3>2. log[i].fam = Fam(log[i].id)
      BY <1>0, <1>1, <1>4 DEF Belongs, Families
    <3>3. s # i
      BY <1>4, <3>1 DEF StartOf
    <3> QED  BY <1>1, <3>1, <3>2, <3>3 DEF StartOf
  <2>4. InAttempt(s, i)
    <3>1. ASSUME NEW m \in DOMAIN log, m > s, AttemptStart(log[s].fam, m), log[m].id = log[s].id, ~(i < m)
          PROVE  FALSE
      <4>1. m \in 1..i
        BY <1>1, <3>1
      <4>2. log[i].fam = Fam(log[i].id)
        BY <1>0, <1>1, <1>4 DEF Belongs, Families
      <4>3. m \in S
        BY <2>3, <3>1, <4>1, <4>2 DEF AttemptStart, StartOf
      <4>4. m <= s
        BY <2>2, <4>3
      <4> QED  BY <1>1, <2>3, <3>1, <4>4
    <3> QED  BY <1>1, <2>3, <3>1 DEF InAttempt
  <2>5. CASE UnfinishedItem(s, i)
    <3>1. PICK o : o = <<s, i>>
      OBVIOUS
    <3>2. o \in (0..Len(log)) \X (1..(Len(log) + 1)) /\ o[1] = s /\ o[2] = i /\ o[1] # 0
      BY <1>1, <2>3, <3>1
    <3>3. AttemptStart(log[s].fam, s) /\ Unsettled(s, i)
      BY <1>1, <1>4, <2>3, <2>5 DEF AttemptStart, Unsettled
    <3>4. o \in Owed
      BY <1>2, <1>4, <2>3, <3>2, <3>3 DEF Owed
    <3>5. /\ Ending(o).fam = log[i].fam /\ Ending(o).id = log[i].id
          /\ Ending(o).kind = "item_ended" /\ Ending(o).ref = log[i].ref
      BY <1>0, <1>1, <3>2, <3>4, EndingFacts
    <3> QED  BY <1>0, <1>4, <3>4, <3>5, EndedByBatch
  <2>6. CASE ~UnfinishedItem(s, i)
    <3>1. PICK m \in DOMAIN log : InAttempt(s, m) /\ m > i /\ log[m].kind = "item_ended" /\ log[m].ref = log[i].ref
      BY <1>4, <2>4, <2>6 DEF UnfinishedItem
    <3>2. Ends(i, m)
      BY <1>4, <2>3, <3>1 DEF InAttempt, Ends
    <3> QED  BY <1>0, <1>1, <3>2, EndedBefore
  <2> QED  BY <2>5, <2>6
<1>5. CASE FreshTool(i)
  <2>0. /\ log[i].fam \in {"plan", "execution", "review"} /\ log[i].kind = "item_started"
        /\ \A j \in 1..(i - 1) : ~(log[j].kind = "item_ended" /\ log[j].id = log[i].id /\ log[j].ref = log[i].ref)
    BY <1>5 DEF FreshTool, ToolStart
  <2>1. \A m \in DOMAIN log : log[m].kind \in ItemKinds /\ log[m].id = log[i].id => log[m].fam = log[i].fam
    <3>1. log[i].fam = Fam(log[i].id)
      BY <1>0, <1>1, <2>0 DEF Belongs, Families
    <3> QED  BY <1>0, <3>1 DEF Belongs
  <2>2. CASE \E m \in DOMAIN log : log[m].kind = "item_ended" /\ log[m].id = log[i].id /\ log[m].ref = log[i].ref
    <3>1. PICK m \in DOMAIN log : log[m].kind = "item_ended" /\ log[m].id = log[i].id /\ log[m].ref = log[i].ref
      BY <2>2
    <3>2. m > i
      <4>1. m \notin 1..(i - 1) /\ m # i
        BY <2>0, <3>1
      <4> QED  BY <1>1, <4>1
    <3>3. Ends(i, m)
      BY <2>0, <2>1, <3>1, <3>2 DEF Ends, ItemKinds
    <3> QED  BY <1>0, <1>1, <3>3, EndedBefore
  <2>3. CASE ~ \E m \in DOMAIN log : log[m].kind = "item_ended" /\ log[m].id = log[i].id /\ log[m].ref = log[i].ref
    <3> DEFINE S == {m \in 1..Len(log) : log[m].kind = "item_started" /\ log[m].id = log[i].id /\ log[m].ref = log[i].ref}
    <3>1. S # {} /\ S \in SUBSET (1..Len(log))
      BY <2>0
    <3>2. PICK n \in S : \A k \in S : k <= n
      <4> HIDE DEF S
      <4> QED  BY <1>1, <3>1, Greatest
    <3>3. n \in DOMAIN log /\ log[n].kind = "item_started" /\ log[n].id = log[i].id /\ log[n].ref = log[i].ref
      BY <1>1, <3>2
    <3>4. \A m \in DOMAIN log : m > n /\ log[m].id = log[n].id /\ log[m].ref = log[n].ref
             => log[m].kind # "item_started"
      <4> SUFFICES ASSUME NEW m \in DOMAIN log, m > n, log[m].id = log[n].id, log[m].ref = log[n].ref,
                          log[m].kind = "item_started"
                   PROVE  FALSE
        OBVIOUS
      <4>1. m \in S
        BY <1>1, <3>3
      <4>2. m <= n
        BY <3>2, <4>1
      <4> QED  BY <1>1, <3>3, <4>2
    <3>5. UnfinishedTool(n)
      <4>1. ToolStart(n)
        BY <2>0, <2>1, <3>3 DEF ToolStart, ItemKinds
      <4> QED  BY <2>3, <3>3, <3>4, <4>1 DEF UnfinishedTool
    <3>6. PICK o : o = <<0, n>>
      OBVIOUS
    <3>7. o \in (0..Len(log)) \X (1..(Len(log) + 1)) /\ o[1] = 0 /\ o[2] = n
      BY <1>1, <3>3, <3>6
    <3>8. o \in Owed
      BY <3>3, <3>5, <3>7 DEF Owed
    <3>9. /\ Ending(o).fam = log[n].fam /\ Ending(o).id = log[n].id
          /\ Ending(o).kind = "item_ended" /\ Ending(o).ref = log[n].ref
      BY <1>0, <3>3, <3>7, <3>8, EndingFacts
    <3>10. log[n].fam = log[i].fam
      BY <2>1, <3>3 DEF ItemKinds
    <3> QED  BY <1>0, <2>0, <3>3, <3>8, <3>9, <3>10, EndedByBatch
  <2> QED  BY <2>2, <2>3
<1> QED  BY <1>3, <1>4, <1>5 DEF Opens

\* Nothing is left open by a recovery, this one included.
LEMMA RecoveryRecovered ==
  ASSUME IInv, NEW specs, NEW q, NEW c, BatchOf(specs, q, c), Grows(specs)
  PROVE  RecoveredIsClosed'
<1>0. TypeOK /\ Belongs /\ RecoveredIsClosed /\ c \in Nat
  BY DEF IInv, BatchOf
<1>1. Len(log) \in Nat /\ DOMAIN log = 1..Len(log) /\ Len(log') = Len(log) + c + 1
  BY DEF Grows, BatchOf
<1>2. \A k \in 1..c : specs[k].fam \in Families /\ specs[k].kind \in {"item_ended", "interrupted"}
  BY <1>0, EndingBelongs DEF BatchOf
<1> SUFFICES ASSUME NEW n \in DOMAIN log', log'[n].fam = "run", log'[n].kind = "interrupted"
             PROVE  ClosedBefore(n)'
  BY DEF RecoveredIsClosed, ClosedBefore, Opens
<1>3. CASE n \in 1..Len(log)
  <2>1. ClosedBefore(n)
    BY <1>0, <1>3 DEF Grows, RecoveredIsClosed, ClosedBefore, Opens
  <2> QED  BY <1>3, <2>1, ClosedKept
<1>4. CASE n \notin 1..Len(log)
  <2>1. PICK k \in 1..Len(specs) : n = Len(log) + k
    BY <1>4 DEF Grows
  <2>2. log'[n] = specs[k]
    BY <2>1 DEF Grows
  <2>3. k \notin 1..c
    BY <1>2, <2>2 DEF Families
  <2>4. n - 1 = Len(log) + c
    BY <1>0, <1>1, <2>1, <2>3 DEF BatchOf
  <2>5. ASSUME NEW i \in 1..(n - 1), Opens(i)'
        PROVE  \E j \in (i + 1)..(n - 1) : Ends(i, j)'
    <3>1. CASE i \in 1..Len(log)
      <4>1. log'[i] = log[i] /\ \A j \in 1..(i - 1) : log'[j] = log[j]
        BY <1>1, <3>1 DEF Grows
      <4>2. Opens(i)
        BY <2>5, <4>1 DEF Opens, FreshTool, ToolStart
      <4>3. \E j \in (i + 1)..(Len(log) + c) : Ends(i, j)'
        BY <3>1, <4>2, RecoveryCloses
      <4> QED  BY <2>4, <4>3
    <3>2. CASE i \notin 1..Len(log)
      <4>1. i - Len(log) \in 1..c /\ i = Len(log) + (i - Len(log))
        BY <1>0, <1>1, <2>4, <3>2
      <4>2. PICK h \in 1..c : i = Len(log) + h
        BY <4>1
      <4>3. h \in 1..Len(specs)
        BY <1>0 DEF BatchOf
      <4>4. log'[i] = specs[h]
        BY <4>2, <4>3 DEF Grows
      <4>5. log'[i].kind \in {"item_ended", "interrupted"}
        BY <1>2, <4>4
      <4> QED  BY <2>5, <4>5 DEF Opens, FreshTool, ToolStart
    <3> QED  BY <3>1, <3>2
  <2> QED  BY <2>5 DEF ClosedBefore
<1> QED  BY <1>3, <1>4

\* The batch leads a Run to INTERRUPTED.
LEMMA RecoveryInterrupts ==
  ASSUME NEW specs, NEW q, NEW c, BatchOf(specs, q, c), NEW s
  PROVE  StatusAfter(s, specs) = "INTERRUPTED"
<1>1. Len(specs) \in Nat \ {0} /\ specs[Len(specs)] = RunEvent("interrupted", "recovery")
  BY DEF BatchOf
<1>2. StatusOf(specs[Len(specs)]) = "INTERRUPTED"
  BY <1>1, RunEventType DEF StatusOf
<1>3. StatusOf(specs[Len(specs)]) # "same"
  BY <1>2
<1>4. StatusAfter(s, specs) = StatusOf(specs[Len(specs)])
  BY <1>1, <1>3, StatusLast
<1> QED  BY <1>2, <1>4

\* A recovery keeps the invariant.
LEMMA RecoveryKeeps ==
  ASSUME IInv, NEW specs \in RecoverySpecs, Appended(specs), status = "RUNNING",
         sink' = sink,
         pend' \in [Writers -> [seq : Nat, specs : Seq(Events), from : Statuses]],
         \A w \in Writers : pend'[w] = pend[w] \/ pend'[w] = NothingPending
  PROVE  IInv'
<1>0. /\ TypeOK /\ Belongs /\ ToolsInside
      /\ SettledOnEvidence /\ FailedOnEvidence
      /\ AttemptUninterleaved
  BY DEF IInv
<1>1. PICK q, c : BatchOf(specs, q, c)
  BY <1>0, RecoveryBatch
<1>2. specs \in Seq(Events) /\ c \in Nat /\ Len(specs) = c + 1 /\ Len(specs) >= 1 /\ specs # <<>>
  <2>1. specs \in Seq(Events) /\ c \in Nat /\ Len(specs) = c + 1
    BY <1>1 DEF BatchOf
  <2> QED  BY <2>1
<1>3. Grows(specs)
  BY <1>0, <1>2, AppendGrows
<1>4. status' = "INTERRUPTED"
  BY <1>1, RecoveryInterrupts DEF Appended
<1>5. status' \in Life!Terminal
  BY <1>4 DEF Life!Terminal
<1>6. ASSUME NEW k \in 1..Len(specs)
      PROVE  \/ k \in 1..c /\ q[k] \in Owed /\ specs[k] = Ending(q[k])
             \/ specs[k] = RunEvent("interrupted", "recovery")
  <2>1. k \in 1..c \/ k = c + 1
    BY <1>2
  <2> QED  BY <1>1, <2>1 DEF BatchOf
<1>7. ASSUME NEW k \in 1..Len(specs)
      PROVE  specs[k].src = "recovery" /\ specs[k].res = "none" /\ Attributed(specs[k])
  <2>1. CASE q[k] \in Owed /\ specs[k] = Ending(q[k])
    <3>1. PICK o \in Owed : o = q[k]
      BY <2>1
    <3>2. /\ specs[k].fam \in Families /\ specs[k].id \in Attempts
          /\ specs[k].fam = Fam(specs[k].id) /\ specs[k].kind \in {"item_ended", "interrupted"}
          /\ \E b \in DOMAIN log : StartOf(b, specs[k].id)
      BY <1>0, <2>1, <3>1, EndingBelongs
    <3>3. specs[k].src = "recovery" /\ specs[k].res = "none"
      BY <1>0, <2>1, <3>1, EndingFacts
    <3> QED  BY <3>2, <3>3 DEF Attributed
  <2>2. CASE specs[k] = RunEvent("interrupted", "recovery")
    <3>1. specs[k].fam = "run" /\ specs[k].kind = "interrupted" /\ specs[k].src = "recovery" /\ specs[k].res = "none"
      BY <2>2, RunEventType
    <3> QED  BY <3>1 DEF Attributed, Families, ItemKinds
  <2> QED  BY <1>6, <2>1, <2>2
<1>8. TypeOK'
  <2>1. log' \in Seq(Events) /\ status' = StatusAfter("CREATED", log') /\ status' \in Statuses
    BY <1>0, <1>2, AppendFacts
  <2>2. sink' \in [Attempts -> [pc : {"none", "open", "live", "asked", "ended", "dead"},
                                item : Items \cup {NoId}, expected : Nat]]
    BY <1>0, Zenon DEF TypeOK
  <2> QED  BY <2>1, <2>2, Zenon DEF TypeOK
<1>9. Belongs'
  BY <1>0, <1>3, <1>5, <1>7, BelongsKept
<1>10. ToolsInside'
  <2>1. \A k \in 1..Len(specs) : specs[k].src # "sink"
    BY <1>7
  <2> QED  BY <1>0, <1>3, <2>1, ToolsKept
<1>11. \A b \in Attempts : Recorder(b)'
  <2> SUFFICES ASSUME NEW b \in Attempts PROVE Recorder(b)'
    OBVIOUS
  <2>1. Recorder(b) /\ sink'[b] = sink[b]
    BY DEF IInv
  <2>2. ASSUME NEW k \in 1..Len(specs), specs[k].fam \in Families, specs[k].id = b
        PROVE  \E n \in DOMAIN log : log[n].fam \in Families /\ log[n].id = b
    <3>1. specs[k] # RunEvent("interrupted", "recovery")
      BY <2>2, RunEventType DEF Families
    <3>2. PICK o \in Owed : specs[k] = Ending(o)
      BY <1>6, <3>1
    <3> QED  BY <1>0, <2>2, <3>2, EndingBelongs
  <2> QED  BY <1>0, <1>2, <1>3, <1>5, <2>1, <2>2, RecorderKept
<1>12. \A w \in Writers : Decided(w)'
  <2> SUFFICES ASSUME NEW w \in Writers PROVE Decided(w)'
    OBVIOUS
  <2>1. Decided(w)
    BY DEF IInv
  <2> QED  BY <1>0, <1>2, <1>3, <2>1, DecidedKept
<1>13. SettledOnEvidence' /\ FailedOnEvidence'
  <2>1. 1 \in 1..Len(specs)
    BY <1>2
  <2>2. Vouched(specs[1])
    BY <1>7, <2>1 DEF Vouched
  <2>3. \A k \in 1..Len(specs) : k # 1 => Unmarked(specs[k])
    BY <1>7 DEF Unmarked
  <2> QED  BY <1>0, <1>2, <2>2, <2>3, EvidenceKept
<1>14. AttemptUninterleaved'
  <2>1. \A k \in 1..Len(specs) : specs[k].src # "sink"
    BY <1>7
  <2> QED  BY <1>0, <1>3, <2>1, UninterleavedKept
<1>15. EndsOnce'
  BY <1>1, <1>3, RecoveryEndsOnce
<1>16. RecoveredIsClosed'
  BY <1>1, <1>3, RecoveryRecovered
<1> QED  BY <1>8, <1>9, <1>10, <1>11, <1>12, <1>13, <1>14, <1>15, <1>16 DEF IInv

\* A decision is carried out: what was read still holds.
LEMMA CommitKeeps ==
  ASSUME IInv, NEW w \in Writers, Commit(w)
  PROVE  IInv' /\ Leads(status, status')
<1>0. TypeOK /\ Decided(w)
  BY DEF IInv
<1>1. PICK specs : specs = pend[w].specs
  OBVIOUS
<1>2. /\ specs \in Seq(Events) /\ specs # <<>> /\ Appended(specs)
      /\ Len(log) = pend[w].seq /\ sink' = sink
      /\ pend' = [pend EXCEPT ![w] = NothingPending]
  BY <1>0, <1>1 DEF Commit, TypeOK
<1>3. /\ Leads(status, StatusAfter(status, specs))
      /\ Sound(specs)
  BY <1>0, <1>1, <1>2 DEF Decided
<1>4. Leads(status, status')
  BY <1>2, <1>3 DEF Appended
<1>5. Moves
  BY <1>4, LeadsMove
<1>6. /\ pend' \in [Writers -> [seq : Nat, specs : Seq(Events), from : Statuses]]
      /\ \A v \in Writers : pend'[v] = pend[v] \/ pend'[v] = NothingPending
  <2>1. pend \in [Writers -> [seq : Nat, specs : Seq(Events), from : Statuses]]
    BY <1>0 DEF TypeOK
  <2>2. NothingPending \in [seq : Nat, specs : Seq(Events), from : Statuses]
    BY DEF NothingPending, Statuses
  <2> QED  BY <1>2, <2>1, <2>2
<1>7. CASE specs \in RecoverySpecs
  <2>1. PICK q, c : BatchOf(specs, q, c)
    BY <1>0, <1>7, RecoveryBatch
  <2>2. StatusAfter(status, specs) = "INTERRUPTED"
    BY <2>1, RecoveryInterrupts
  <2>3. status = "RUNNING"
    BY <1>3, <2>2 DEF Leads
  <2>4. IInv'
    BY <1>2, <1>6, <1>7, <2>3, RecoveryKeeps
  <2> QED  BY <1>4, <2>4
<1>8. CASE specs \notin RecoverySpecs
  <2>1. /\ \A k \in DOMAIN specs : Outside(specs[k])
        /\ \A k \in DOMAIN specs : k # 1 => Unmarked(specs[k])
        /\ Vouched(specs[1])
    BY <1>3, <1>8 DEF Sound
  <2>2. DOMAIN specs = 1..Len(specs)
    BY <1>2
  <2>3. \A k \in 1..Len(specs) : Foreign(specs[k])
    BY <2>1, <2>2 DEF Outside, Foreign
  <2>4. \A k \in 1..Len(specs) : k # 1 => Unmarked(specs[k])
    BY <2>1, <2>2
  <2>5. /\ sink' \in [Attempts -> [pc : {"none", "open", "live", "asked", "ended", "dead"},
                                  item : Items \cup {NoId}, expected : Nat]]
        /\ \A b \in Attempts : sink'[b] = sink[b]
    BY <1>0, <1>2, Zenon DEF TypeOK
  <2>6. IInv'
    BY <1>2, <1>5, <1>6, <2>1, <2>3, <2>4, <2>5, ForeignKeeps
  <2> QED  BY <1>4, <2>6
<1> QED  BY <1>7, <1>8

-----------------------------------------------------------------------------
(* Steps that append nothing                                               *)

\* What is said of the history stays true of the same history.
LEMMA SameHistory ==
  ASSUME IInv, log' = log, status' = status
  PROVE  /\ Belongs' /\ ToolsInside' /\ SettledOnEvidence' /\ FailedOnEvidence'
         /\ AttemptUninterleaved' /\ EndsOnce' /\ RecoveredIsClosed'
<1>1. Belongs'
  BY DEF IInv, Belongs, StartOf
<1>2. ToolsInside'
  BY DEF IInv, ToolsInside, ExecutionLifecycle
<1>3. SettledOnEvidence'
  BY DEF IInv, SettledOnEvidence, Settlements, VerifiedAt, ReviewedAt
<1>4. FailedOnEvidence'
  BY DEF IInv, FailedOnEvidence
<1>5. AttemptUninterleaved'
  BY DEF IInv, AttemptUninterleaved, Fenced
<1>6. EndsOnce'
  BY DEF IInv, EndsOnce, AttemptTerminal, Fenced
<1>7. RecoveredIsClosed'
  BY DEF IInv, RecoveredIsClosed, Ends, AttemptTerminal, FreshTool, ToolStart
<1> QED  BY <1>1, <1>2, <1>3, <1>4, <1>5, <1>6, <1>7

\* Recovery would write the same.
LEMMA SameRecovery ==
  ASSUME log' = log
  PROVE  RecoverySpecs' = RecoverySpecs
<1>1. Owed' = Owed
  BY DEF Owed, UnfinishedTool, ToolStart, AttemptStart, Unsettled, UnfinishedItem, InAttempt, Finished
<1>2. \A o, p : Precedes(o, p)' <=> Precedes(o, p)
  BY DEF Precedes
<1>3. \A o : Ending(o)' = Ending(o)
  BY DEF Ending, Interrupted
<1>4. InOrder(Owed)' = InOrder(Owed)
  BY <1>1, <1>2 DEF InOrder
<1> QED  BY <1>3, <1>4 DEF RecoverySpecs

\* So a decision stays as good as it was.
LEMMA SameDecision ==
  ASSUME NEW w \in Writers, Decided(w), log' = log, status' = status, pend'[w] = pend[w]
  PROVE  Decided(w)'
<1>1. RecoverySpecs' = RecoverySpecs
  BY SameRecovery
<1>2. ASSUME NEW x PROVE Vouched(x)' <=> Vouched(x)
  BY DEF Vouched, VerifiedFor, ReviewedFor, FailedFor
<1>3. \A specs : Sound(specs)' <=> Sound(specs)
  BY <1>1, <1>2 DEF Sound
<1> QED  BY <1>3 DEF Decided

\* A recorder that is left alone.
LEMMA SameRecorder ==
  ASSUME NEW a \in Attempts, Recorder(a), log' = log, status' = status, sink'[a] = sink[a]
  PROVE  Recorder(a)'
BY DEF Recorder, Current, StartOf, AttemptTerminal, Fenced, Own

\* A recorder that is constructed, moves on or gives up.
LEMMA QuietRecorder ==
  ASSUME IInv, NEW a \in Attempts, OpenSink(a) \/ EmitFails(a) \/ Refresh(a)
  PROVE  IInv' /\ log' = log /\ status' = status
<1>0. TypeOK /\ Recorder(a) /\ Belongs
  BY DEF IInv
<1>1. log' = log /\ status' = status /\ pend' = pend
  BY DEF OpenSink, EmitFails, Refresh, ledger
<1>2. Len(log) \in Nat
  BY <1>0 DEF TypeOK
<1>3. sink \in [Attempts -> [pc : {"none", "open", "live", "asked", "ended", "dead"},
                             item : Items \cup {NoId}, expected : Nat]]
  BY <1>0 DEF TypeOK
<1>4. /\ sink' \in [Attempts -> [pc : {"none", "open", "live", "asked", "ended", "dead"},
                                 item : Items \cup {NoId}, expected : Nat]]
      /\ \A b \in Attempts : b # a => sink'[b] = sink[b]
  <2>1. CASE OpenSink(a)
    BY <1>2, <1>3, <2>1 DEF OpenSink
  <2>2. CASE EmitFails(a)
    BY <1>2, <1>3, <2>2 DEF EmitFails
  <2>3. CASE Refresh(a)
    BY <1>2, <1>3, <2>3 DEF Refresh
  <2> QED  BY <2>1, <2>2, <2>3
<1>5. Recorder(a)'
  <2>0. Fenced' = Fenced /\ (\A n, b : StartOf(n, b)' <=> StartOf(n, b))
        /\ (\A n : AttemptTerminal(n)' <=> AttemptTerminal(n)) /\ (\A n, b : Own(n, b)' <=> Own(n, b))
    BY <1>1 DEF Fenced, StartOf, AttemptTerminal, Own
  <2>1. CASE OpenSink(a)
    <3>1. /\ sink'[a].pc = "open" /\ sink'[a].expected = Len(log) /\ status = "RUNNING"
          /\ sink[a].pc = "none" \/ (sink[a].pc = "dead" /\ a \notin Executions)
      BY <1>3, <2>1 DEF OpenSink
    <3>2. a \in Executions => \A n \in DOMAIN log : ~(log[n].fam \in Families /\ log[n].id = a)
      BY <1>0, <3>1 DEF Recorder
    <3> QED  BY <1>1, <1>2, <2>0, <3>1, <3>2 DEF Recorder, Current
  <2>2. CASE EmitFails(a)
    <3>1. sink'[a].pc = "dead" /\ sink'[a].expected = sink[a].expected
      BY <1>3, <2>2 DEF EmitFails
    <3>2. sink[a].expected <= Len(log)
      BY <1>0 DEF Recorder
    <3> QED  BY <1>1, <2>0, <3>1, <3>2 DEF Recorder, Current
  <2>3. CASE Refresh(a)
    <3>1. /\ a \in Loops /\ sink[a].pc \in {"open", "live"} /\ status = "RUNNING"
          /\ sink'[a].pc = sink[a].pc /\ sink'[a].expected = Len(log)
      BY <1>3, <2>3 DEF Refresh
    <3>2. a \notin Executions
      BY <3>1, LedgerAssumption
    <3>3. sink[a].pc = "live" =>
            /\ \E b \in DOMAIN log : StartOf(b, a)
            /\ \A n \in DOMAIN log : AttemptTerminal(n) /\ log[n].id = a => status \in Life!Terminal
      BY <1>0 DEF Recorder
    <3> QED  BY <1>1, <1>2, <2>0, <3>1, <3>2, <3>3 DEF Recorder, Current
  <2> QED  BY <2>1, <2>2, <2>3
<1>6. \A b \in Attempts : Recorder(b)'
  <2> SUFFICES ASSUME NEW b \in Attempts, b # a PROVE Recorder(b)'
    BY <1>5
  <2>1. Recorder(b) /\ sink'[b] = sink[b]
    BY <1>4 DEF IInv
  <2> QED  BY <1>1, <2>1, SameRecorder
<1>7. \A w \in Writers : Decided(w)'
  <2> SUFFICES ASSUME NEW w \in Writers PROVE Decided(w)'
    OBVIOUS
  <2>1. Decided(w) /\ pend'[w] = pend[w]
    BY <1>1 DEF IInv
  <2> QED  BY <1>1, <2>1, SameDecision
<1>8. TypeOK'
  BY <1>0, <1>1, <1>4, Zenon DEF TypeOK
<1> QED  BY <1>1, <1>6, <1>7, <1>8, SameHistory DEF IInv

\* A writer reads, decides or loses the race.
LEMMA DecisionKeeps ==
  ASSUME IInv, NEW w \in Writers, log' = log, status' = status, sink' = sink,
         NEW p \in [seq : Nat, specs : Seq(Events), from : Statuses],
         pend' = [pend EXCEPT ![w] = p],
         p.specs # <<>> =>
           /\ p.seq = Len(log) /\ p.from = status
           /\ Leads(status, StatusAfter(status, p.specs)) /\ Sound(p.specs)
  PROVE  IInv'
<1>0. TypeOK
  BY DEF IInv
<1>1. pend \in [Writers -> [seq : Nat, specs : Seq(Events), from : Statuses]]
  BY <1>0 DEF TypeOK
<1>2. /\ pend' \in [Writers -> [seq : Nat, specs : Seq(Events), from : Statuses]]
      /\ pend'[w] = p /\ \A v \in Writers : v # w => pend'[v] = pend[v]
  BY <1>1
<1>3. TypeOK'
  BY <1>0, <1>2, Zenon DEF TypeOK
<1>4. \A b \in Attempts : Recorder(b)'
  <2> SUFFICES ASSUME NEW b \in Attempts PROVE Recorder(b)'
    OBVIOUS
  <2>1. Recorder(b) /\ sink'[b] = sink[b]
    BY DEF IInv
  <2> QED  BY <2>1, SameRecorder
<1>5. Decided(w)'
  <2>1. RecoverySpecs' = RecoverySpecs
    BY SameRecovery
  <2>2. ASSUME NEW x PROVE Vouched(x)' <=> Vouched(x)
    BY DEF Vouched, VerifiedFor, ReviewedFor, FailedFor
  <2>3. \A specs : Sound(specs)' <=> Sound(specs)
    BY <2>1, <2>2 DEF Sound
  <2>4. Len(log) \in Nat
    BY <1>0 DEF TypeOK
  <2> QED  BY <1>2, <2>3, <2>4 DEF Decided
<1>6. \A v \in Writers : Decided(v)'
  <2> SUFFICES ASSUME NEW v \in Writers, v # w PROVE Decided(v)'
    BY <1>5
  <2>1. Decided(v) /\ pend'[v] = pend[v]
    BY <1>2 DEF IInv
  <2> QED  BY <2>1, SameDecision
<1> QED  BY <1>3, <1>4, <1>6, SameHistory DEF IInv

-----------------------------------------------------------------------------
(* Decisions                                                               *)

\* A writer that decides on a sound batch which the lifecycle allows.
LEMMA DecidesKeeps ==
  ASSUME IInv, NEW w \in Writers, NEW read, NEW specs \in Seq(Events), Decides(w, read, specs),
         Leads(read, StatusAfter(read, specs)), Sound(specs)
  PROVE  IInv' /\ log' = log /\ status' = status
<1>0. TypeOK
  BY DEF IInv
<1>1. /\ status = read /\ log' = log /\ status' = status /\ sink' = sink
      /\ pend' = [pend EXCEPT ![w] = [seq |-> Len(log), specs |-> specs, from |-> status]]
  BY DEF Decides, ledger
<1>2. PICK p : p = [seq |-> Len(log), specs |-> specs, from |-> status]
  OBVIOUS
<1>3. p \in [seq : Nat, specs : Seq(Events), from : Statuses]
  BY <1>0, <1>2 DEF TypeOK
<1>4. p.seq = Len(log) /\ p.from = status /\ p.specs = specs
  BY <1>2
<1>5. IInv'
  BY <1>1, <1>2, <1>3, <1>4, DecisionKeeps
<1> QED  BY <1>1, <1>5

\* A writer that lost the race.
LEMMA ConflictKeeps ==
  ASSUME IInv, NEW w \in Writers, Conflict(w)
  PROVE  IInv' /\ log' = log /\ status' = status
<1>1. /\ log' = log /\ status' = status /\ sink' = sink
      /\ pend' = [pend EXCEPT ![w] = NothingPending]
  BY DEF Conflict, ledger
<1>2. NothingPending \in [seq : Nat, specs : Seq(Events), from : Statuses] /\ NothingPending.specs = <<>>
  BY DEF NothingPending, Statuses
<1>3. IInv'
  BY <1>1, <1>2, DecisionKeeps
<1> QED  BY <1>1, <1>3

\* A batch that needs no evidence, of one event or of two.
LEMMA PlainDecision ==
  ASSUME IInv, NEW w \in Writers, NEW read, NEW specs \in Seq(Events), Decides(w, read, specs),
         Len(specs) \in {1, 2}, \A k \in 1..Len(specs) : Outside(specs[k]) /\ Unmarked(specs[k]),
         Leads(read, StatusOf(specs[Len(specs)]))
  PROVE  IInv' /\ log' = log /\ status' = status
<1>1. DOMAIN specs = 1..Len(specs) /\ Len(specs) \in Nat \ {0} /\ 1 \in 1..Len(specs)
  BY DEF Leads
<1>2. StatusOf(specs[Len(specs)]) # "same"
  BY DEF Leads, Life!Terminal
<1>3. StatusAfter(read, specs) = StatusOf(specs[Len(specs)])
  BY <1>1, <1>2, StatusLast
<1>4. Vouched(specs[1])
  BY <1>1 DEF Vouched, Unmarked
<1>5. Sound(specs)
  BY <1>1, <1>4 DEF Sound
<1> QED  BY <1>3, <1>5, DecidesKeeps

\* A run event of the pipeline, the host or the gate.
LEMMA RunEventPlain ==
  ASSUME NEW kind \in {"waiting_user", "resumed", "completed", "cancelled", "failed"},
         NEW src \in {"gate", "pipeline", "lifecycle"}, ~(src = "gate" /\ kind = "failed")
  PROVE  /\ RunEvent(kind, src) \in Events /\ Outside(RunEvent(kind, src)) /\ Unmarked(RunEvent(kind, src))
         /\ StatusOf(RunEvent(kind, src)) =
              CASE kind = "waiting_user" -> "WAITING_USER" [] kind = "resumed" -> "RUNNING"
                [] kind = "completed" -> "SUCCEEDED" [] kind = "cancelled" -> "CANCELLED"
                [] kind = "failed" -> "FAILED"
<1>1. PICK e : e = RunEvent(kind, src)
  OBVIOUS
<1>2. e \in Events /\ e.fam = "run" /\ e.kind = kind /\ e.id = NoId /\ e.src = src /\ e.res = "none"
  BY <1>1, RunEventType
<1>3. Outside(e) /\ Unmarked(e)
  BY <1>2 DEF Outside, Unmarked, Families, ItemKinds
<1>4. StatusOf(e) = CASE kind = "waiting_user" -> "WAITING_USER" [] kind = "resumed" -> "RUNNING"
                [] kind = "completed" -> "SUCCEEDED" [] kind = "cancelled" -> "CANCELLED"
                [] kind = "failed" -> "FAILED"
  BY <1>2 DEF StatusOf
<1> QED  BY <1>1, <1>2, <1>3, <1>4

\* The events of a proposal.
LEMMA ProposalEventPlain ==
  ASSUME NEW kind \in {"ready", "applied", "rejected"}, NEW src \in {"pipeline", "lifecycle"}
  PROVE  /\ Event("proposal", kind, NoId, src) \in Events
         /\ Outside(Event("proposal", kind, NoId, src)) /\ Unmarked(Event("proposal", kind, NoId, src))
         /\ kind # "ready" => StatusOf(Event("proposal", kind, NoId, src)) = "SUCCEEDED"
<1>1. PICK e : e = Event("proposal", kind, NoId, src)
  OBVIOUS
<1>2. e \in Events /\ e.fam = "proposal" /\ e.kind = kind /\ e.id = NoId /\ e.src = src /\ e.res = "none"
  BY <1>1 DEF Event, Events
<1>3. Outside(e) /\ Unmarked(e)
  BY <1>2 DEF Outside, Unmarked, Families, ItemKinds
<1>4. kind # "ready" => StatusOf(e) = "SUCCEEDED"
  BY <1>2 DEF StatusOf
<1> QED  BY <1>1, <1>2, <1>3, <1>4

\* The decisions of the pipeline recorder, the host and the user.
LEMMA PlainDecisionsKeep ==
  ASSUME IInv, NEW w \in Writers,
         NeedsUser(w) \/ PipelineSettles(w) \/ HostGivesUp(w) \/ DecideProposal(w) \/ FollowUp(w)
  PROVE  IInv' /\ log' = log /\ status' = status
<1>1. CASE NeedsUser(w)
  <2>1. PICK e \in Events : e = Event("proposal", "ready", NoId, "pipeline") /\ Outside(e) /\ Unmarked(e)
    BY ProposalEventPlain
  <2>2. PICK f \in Events : f = RunEvent("waiting_user", "pipeline") /\ Outside(f) /\ Unmarked(f)
                            /\ StatusOf(f) = "WAITING_USER"
    BY RunEventPlain
  <2>3. PICK specs \in Seq(Events) : specs = <<e, f>>
    BY Batches
  <2>4. Len(specs) = 2 /\ specs[1] = e /\ specs[2] = f
    BY <2>3
  <2>5. Decides(w, "RUNNING", specs)
    BY <1>1, <2>1, <2>2, <2>3 DEF NeedsUser, Proposal
  <2>6. \A k \in 1..Len(specs) : Outside(specs[k]) /\ Unmarked(specs[k])
    <3>1. \A k \in 1..Len(specs) : k = 1 \/ k = 2
      BY <2>4
    <3> QED  BY <2>1, <2>2, <2>4, <3>1
  <2>7. Leads("RUNNING", StatusOf(specs[Len(specs)]))
    BY <2>2, <2>4 DEF Leads
  <2> QED  BY <2>4, <2>5, <2>6, <2>7, PlainDecision
<1>2. ASSUME NEW e \in Events, NEW read, Decides(w, read, <<e>>), Outside(e), Unmarked(e),
             Leads(read, StatusOf(e))
      PROVE  IInv' /\ log' = log /\ status' = status
  <2>1. PICK specs \in Seq(Events) : specs = <<e>>
    BY Batches
  <2>2. Len(specs) = 1 /\ specs[1] = e /\ Decides(w, read, specs)
    BY <1>2, <2>1
  <2>3. \A k \in 1..Len(specs) : Outside(specs[k]) /\ Unmarked(specs[k])
    BY <1>2, <2>2
  <2>4. Leads(read, StatusOf(specs[Len(specs)])) /\ Len(specs) \in {1, 2}
    BY <1>2, <2>2
  <2> QED  BY <2>2, <2>3, <2>4, PlainDecision
<1>3. CASE PipelineSettles(w)
  <2>1. PICK kind \in {"completed", "cancelled", "failed"} :
          Decides(w, "RUNNING", <<RunEvent(kind, "pipeline")>>)
    BY <1>3 DEF PipelineSettles
  <2>2. PICK e : e = RunEvent(kind, "pipeline")
    OBVIOUS
  <2>3. e \in Events /\ Outside(e) /\ Unmarked(e) /\ StatusOf(e) \in {"SUCCEEDED", "CANCELLED", "FAILED"}
    BY <2>2, RunEventPlain
  <2>4. Leads("RUNNING", StatusOf(e))
    BY <2>3 DEF Leads, Life!Terminal
  <2> QED  BY <1>2, <2>1, <2>2, <2>3, <2>4
<1>4. CASE HostGivesUp(w)
  <2>1. PICK kind \in {"cancelled", "failed"}, s \in {"RUNNING", "WAITING_USER"} :
          Decides(w, s, <<RunEvent(kind, "lifecycle")>>)
    BY <1>4 DEF HostGivesUp
  <2>2. PICK e : e = RunEvent(kind, "lifecycle")
    OBVIOUS
  <2>3. e \in Events /\ Outside(e) /\ Unmarked(e) /\ StatusOf(e) \in {"CANCELLED", "FAILED"}
    BY <2>2, RunEventPlain
  <2>4. Leads(s, StatusOf(e))
    BY <2>3 DEF Leads, Life!Terminal
  <2> QED  BY <1>2, <2>1, <2>2, <2>3, <2>4
<1>5. CASE DecideProposal(w)
  <2>1. PICK kind \in {"applied", "rejected"} :
          Decides(w, "WAITING_USER", <<Event("proposal", kind, NoId, "lifecycle")>>)
    BY <1>5 DEF DecideProposal
  <2>2. PICK e : e = Event("proposal", kind, NoId, "lifecycle")
    OBVIOUS
  <2>3. e \in Events /\ Outside(e) /\ Unmarked(e) /\ StatusOf(e) = "SUCCEEDED"
    BY <2>2, ProposalEventPlain
  <2>4. Leads("WAITING_USER", StatusOf(e))
    BY <2>3 DEF Leads
  <2> QED  BY <1>2, <2>1, <2>2, <2>3, <2>4
<1>6. CASE FollowUp(w)
  <2>1. Decides(w, "WAITING_USER", <<RunEvent("resumed", "pipeline")>>)
    BY <1>6 DEF FollowUp
  <2>2. PICK e : e = RunEvent("resumed", "pipeline")
    OBVIOUS
  <2>3. e \in Events /\ Outside(e) /\ Unmarked(e) /\ StatusOf(e) = "RUNNING"
    BY <2>2, RunEventPlain
  <2>4. Leads("WAITING_USER", StatusOf(e))
    BY <2>3 DEF Leads
  <2> QED  BY <1>2, <2>1, <2>2, <2>3, <2>4
<1> QED  BY <1>1, <1>3, <1>4, <1>5, <1>6

\* Recovery decides on its batch.
LEMMA RecoverKeeps ==
  ASSUME IInv, NEW w \in Writers, Recover(w)
  PROVE  IInv' /\ log' = log /\ status' = status
<1>1. PICK specs \in RecoverySpecs : Decides(w, "RUNNING", specs)
  BY DEF Recover
<1>2. PICK q, c : BatchOf(specs, q, c)
  BY RecoveryBatch DEF IInv
<1>3. specs \in Seq(Events)
  BY <1>2 DEF BatchOf
<1>4. Leads("RUNNING", StatusAfter("RUNNING", specs))
  BY <1>2, RecoveryInterrupts DEF Leads, Life!Terminal
<1>5. Sound(specs)
  BY DEF Sound
<1> QED  BY <1>1, <1>3, <1>4, <1>5, DecidesKeeps

-----------------------------------------------------------------------------
(* The gate's decisions                                                    *)

\* What the gate writes on evidence.
LEMMA EvidenceIs ==
  ASSUME NEW res, NEW x, NEW v, NEW d
  PROVE  Evidence(res, x, v, d) =
           [fam |-> "run", kind |-> "completed", id |-> x, src |-> "gate",
            res |-> res, ref |-> v, diff |-> d]
<1>1. RunEvent("completed", "gate") =
        [fam |-> "run", kind |-> "completed", id |-> NoId, src |-> "gate",
         res |-> "none", ref |-> NoId, diff |-> NoId]
  BY DEF RunEvent, Event
<1>2. PICK e1 : e1 = [RunEvent("completed", "gate") EXCEPT !.res = res]
  OBVIOUS
<1>3. e1 = [fam |-> "run", kind |-> "completed", id |-> NoId, src |-> "gate",
            res |-> res, ref |-> NoId, diff |-> NoId]
  BY <1>1, <1>2
<1>4. PICK e2 : e2 = [e1 EXCEPT !.id = x]
  OBVIOUS
<1>5. e2 = [fam |-> "run", kind |-> "completed", id |-> x, src |-> "gate",
            res |-> res, ref |-> NoId, diff |-> NoId]
  BY <1>3, <1>4
<1>6. PICK e3 : e3 = [e2 EXCEPT !.ref = v]
  OBVIOUS
<1>7. e3 = [fam |-> "run", kind |-> "completed", id |-> x, src |-> "gate",
            res |-> res, ref |-> v, diff |-> NoId]
  BY <1>5, <1>6
<1>8. Evidence(res, x, v, d) = [e3 EXCEPT !.diff = d]
  BY <1>2, <1>4, <1>6 DEF Evidence
<1> QED  BY <1>7, <1>8

\* The first event of a settlement and the status it leads to.
LEMMA SettlementFacts ==
  ASSUME NEW mode \in SettlementModes, NEW res \in {"verified", "reviewed"}, NEW x \in Executions,
         NEW v \in Verifications, NEW d \in Diffs \cup {NoId}
  PROVE  \E specs \in Seq(Events) :
           /\ specs = Settlement(mode, Evidence(res, x, v, d))
           /\ \A k \in DOMAIN specs : Outside(specs[k])
           /\ \A k \in DOMAIN specs : k # 1 => Unmarked(specs[k])
           /\ specs[1].id = x /\ specs[1].ref = v /\ specs[1].diff = d /\ specs[1].res = res
           /\ specs[1].kind # "failed"
           /\ Leads("RUNNING", StatusAfter("RUNNING", specs))
<1>0. x \in Attempts /\ mode \in {"complete", "await_user"}
  BY SettlementAssumption DEF Attempts
<1>1. PICK why : why = Evidence(res, x, v, d)
  OBVIOUS
<1>2. why = [fam |-> "run", kind |-> "completed", id |-> x, src |-> "gate",
             res |-> res, ref |-> v, diff |-> d]
  BY <1>1, EvidenceIs
<1>3. CASE mode = "complete"
  <2>1. PICK e : e = [why EXCEPT !.fam = "run", !.kind = "completed"]
    OBVIOUS
  <2>2. e = [fam |-> "run", kind |-> "completed", id |-> x, src |-> "gate",
             res |-> res, ref |-> v, diff |-> d]
    BY <1>2, <2>1
  <2>3. e \in Events /\ Outside(e) /\ StatusOf(e) = "SUCCEEDED"
    BY <1>0, <2>2 DEF Events, Outside, StatusOf, Families, ItemKinds
  <2>4. PICK specs \in Seq(Events) : specs = <<e>>
    BY <2>3, Batches
  <2>5. specs = Settlement(mode, Evidence(res, x, v, d))
    BY <1>1, <1>3, <2>1, <2>4 DEF Settlement
  <2>6. Len(specs) = 1 /\ specs[1] = e /\ DOMAIN specs = {1}
    BY <2>4
  <2>7. StatusAfter("RUNNING", specs) = "SUCCEEDED"
    BY <2>3, <2>4, OneRunEvent
  <2>8. Leads("RUNNING", StatusAfter("RUNNING", specs))
    BY <2>7 DEF Leads, Life!Terminal
  <2>9. e.id = x /\ e.ref = v /\ e.diff = d /\ e.res = res /\ e.kind # "failed"
    BY <2>2
  <2> QED  BY <2>3, <2>5, <2>6, <2>8, <2>9
<1>4. CASE mode # "complete"
  <2>1. PICK e : e = [why EXCEPT !.fam = "proposal", !.kind = "ready"]
    OBVIOUS
  <2>2. e = [fam |-> "proposal", kind |-> "ready", id |-> x, src |-> "gate",
             res |-> res, ref |-> v, diff |-> d]
    BY <1>2, <2>1
  <2>3. e \in Events /\ Outside(e)
    BY <1>0, <2>2 DEF Events, Outside, Families, ItemKinds
  <2>4. PICK f \in Events : f = RunEvent("waiting_user", "gate") /\ Outside(f) /\ Unmarked(f)
                            /\ StatusOf(f) = "WAITING_USER"
    BY RunEventPlain
  <2>5. PICK specs \in Seq(Events) : specs = <<e, f>>
    BY <2>3, Batches
  <2>6. specs = Settlement(mode, Evidence(res, x, v, d))
    BY <1>1, <1>4, <2>1, <2>4, <2>5 DEF Settlement
  <2>7. Len(specs) = 2 /\ specs[1] = e /\ specs[2] = f /\ DOMAIN specs = {1, 2}
    BY <2>5
  <2>8. Leads("RUNNING", StatusAfter("RUNNING", specs))
    <3>1. Len(specs) \in Nat \ {0} /\ StatusOf(specs[Len(specs)]) # "same"
      BY <2>4, <2>7
    <3>2. StatusAfter("RUNNING", specs) = "WAITING_USER"
      BY <2>4, <2>7, <3>1, StatusLast
    <3> QED  BY <3>2 DEF Leads
  <2>9. e.id = x /\ e.ref = v /\ e.diff = d /\ e.res = res /\ e.kind # "failed"
    BY <2>2
  <2> QED  BY <2>3, <2>4, <2>6, <2>7, <2>8, <2>9
<1> QED  BY <1>3, <1>4

\* What both completions ask for is the evidence of a settlement that comes next.
LEMMA PassedIsVerified ==
  ASSUME IInv, status = "RUNNING", NEW v \in Verifications,
         NEW s \in LatestStart("verification", v), NEW t \in Latest(Terminals(s)),
         NEW e \in ExecutedBefore(s), Passed(s, t), log[e].kind = "completed",
         NEW x, x.id = log[e].id, x.ref = v
  PROVE  /\ VerifiedFor(x, Len(log) + 1)
         /\ log[e].id \in Executions /\ t \in 1..Len(log) /\ log[t].fam = "verification" /\ log[t].res = "pass" /\ log[t].id = v
<1>0. TypeOK /\ Belongs /\ ToolsInside
  BY DEF IInv
<1>1. Len(log) \in Nat /\ DOMAIN log = 1..Len(log)
  BY <1>0 DEF TypeOK
<1>2. /\ s \in 1..Len(log) /\ log[s].fam = "verification" /\ log[s].kind = "started" /\ log[s].id = v
      /\ \A m \in DOMAIN log : log[m].fam = "verification" /\ log[m].kind = "started" => m <= s
  BY <1>1 DEF LatestStart, Latest, Starts
<1>3. /\ t \in 1..Len(log) /\ t >= s /\ log[t].fam = "verification" /\ log[t].id = v
      /\ log[t].kind = "completed" /\ log[t].res = "pass"
  BY <1>1, <1>2 DEF Latest, Terminals, Passed
<1>4. /\ e \in 1..Len(log) /\ e < s /\ log[e].fam = "execution"
      /\ \A m \in ExecutionLifecycle : m < s => m <= e
  BY <1>1 DEF ExecutedBefore, Latest, ExecutionLifecycle
<1>5. \A m \in ExecutionLifecycle : ~(m > s)
  BY DEF Passed, HasNewerExecution
<1>6. s < t
  BY <1>2, <1>3
<1>7. \A m \in ExecutionLifecycle : m <= e
  <2> SUFFICES ASSUME NEW m \in ExecutionLifecycle PROVE m <= e
    OBVIOUS
  <2>1. m # s /\ m \in Nat
    BY <1>1, <1>2 DEF ExecutionLifecycle
  <2>2. m < s
    BY <1>2, <1>5, <2>1
  <2> QED  BY <1>4, <2>2
<1>8. ASSUME NEW m \in (e + 1)..Len(log), log[m].fam = "execution"
      PROVE  FALSE
  <2>1. m \in DOMAIN log /\ m \in Nat /\ m > e
    BY <1>1, <1>4
  <2>2. m \notin ExecutionLifecycle
    BY <1>4, <1>7, <2>1
  <2>3. log[m].src = "sink"
    BY <1>0, <1>8, <2>1 DEF Belongs, Families, Life!Terminal
  <2>4. PICK b \in 1..m :
           /\ log[b].fam = "execution" /\ log[b].kind = "started"
           /\ \A h \in (b + 1)..m : ~(log[h].fam = "execution" /\ log[h].kind \in {"completed", "failed"})
    BY <1>0, <1>8, <2>1, <2>2, <2>3 DEF ToolsInside
  <2>5. b \in ExecutionLifecycle /\ b \in Nat
    BY <1>1, <2>1, <2>4 DEF ExecutionLifecycle
  <2>6. b <= e /\ b # e
    BY <1>7, <2>4, <2>5
  <2>7. e \in (b + 1)..m
    BY <1>4, <2>1, <2>5, <2>6
  <2> QED  BY <1>4, <2>4, <2>7
<1>9. \A m \in (s + 1)..Len(log) : ~(log[m].fam = "verification" /\ log[m].kind = "started")
  BY <1>1, <1>2
<1>10. log[e].id \in Executions
  BY <1>0, <1>1, <1>4, FamFacts DEF Belongs, Families
<1>11. (Len(log) + 1) - 1 = Len(log)
  BY <1>1
<1>12. VerifiedFor(x, Len(log) + 1)
  BY <1>2, <1>3, <1>4, <1>6, <1>8, <1>9, <1>11 DEF VerifiedFor
<1> QED  BY <1>3, <1>10, <1>12

\* complete_verified
LEMMA VerifiedKeeps ==
  ASSUME IInv, NEW w \in Writers, NEW v \in Verifications, CompleteVerified(w, v)
  PROVE  IInv' /\ log' = log /\ status' = status
<1>1. PICK mode \in SettlementModes, s \in LatestStart("verification", v) :
      \E t \in Latest(Terminals(s)), e \in ExecutedBefore(s) :
        /\ Passed(s, t)
        /\ log[e].kind = "completed"
        /\ Decides(w, "RUNNING", Settlement(mode, Evidence("verified", log[e].id, v, NoId)))
  BY DEF CompleteVerified
<1>2. PICK t \in Latest(Terminals(s)), e \in ExecutedBefore(s) :
        /\ Passed(s, t)
        /\ log[e].kind = "completed"
        /\ Decides(w, "RUNNING", Settlement(mode, Evidence("verified", log[e].id, v, NoId)))
  BY <1>1
<1>3. status = "RUNNING"
  BY <1>2 DEF Decides
<1>4. log[e].id \in Executions
  <2>1. PICK y : y = [id |-> log[e].id, ref |-> v]
    OBVIOUS
  <2>2. y.id = log[e].id /\ y.ref = v
    BY <2>1
  <2> QED  BY <1>2, <1>3, <2>2, PassedIsVerified
<1>5. PICK specs \in Seq(Events) :
           /\ specs = Settlement(mode, Evidence("verified", log[e].id, v, NoId))
           /\ \A k \in DOMAIN specs : Outside(specs[k])
           /\ \A k \in DOMAIN specs : k # 1 => Unmarked(specs[k])
           /\ specs[1].id = log[e].id /\ specs[1].ref = v /\ specs[1].diff = NoId
           /\ specs[1].res = "verified" /\ specs[1].kind # "failed"
           /\ Leads("RUNNING", StatusAfter("RUNNING", specs))
  BY <1>4, SettlementFacts
<1>6. VerifiedFor(specs[1], Len(log) + 1)
  BY <1>2, <1>3, <1>5, PassedIsVerified
<1>7. Sound(specs)
  BY <1>5, <1>6 DEF Sound, Vouched
<1>8. Decides(w, "RUNNING", specs)
  BY <1>2, <1>5
<1> QED  BY <1>5, <1>7, <1>8, DecidesKeeps

\* The approval the gate asks for is that of the latest review.
LEMMA ApprovedIsReviewed ==
  ASSUME IInv, NEW v, NEW r, NEW d, NEW t \in 1..Len(log),
         log[t].fam = "verification", log[t].res = "pass", log[t].id = v,
         NEW rs \in LatestStart("review", r), NEW rt \in Latest(Terminals(rs)),
         rs > t, Approves(rt, v, d), NEW x, x.ref = v, x.diff = d
  PROVE  ReviewedFor(x, Len(log) + 1)
<1>1. Len(log) \in Nat /\ DOMAIN log = 1..Len(log)
  BY DEF IInv, TypeOK
<1>2. /\ rs \in 1..Len(log) /\ log[rs].fam = "review" /\ log[rs].kind = "started"
      /\ \A m \in DOMAIN log : log[m].fam = "review" /\ log[m].kind = "started" => m <= rs
  BY <1>1 DEF LatestStart, Latest, Starts
<1>3. /\ rt \in 1..Len(log) /\ rt >= rs /\ log[rt].fam = "review" /\ log[rt].id = log[rs].id
      /\ \A m \in DOMAIN log :
           /\ m >= rs /\ log[m].fam = "review" /\ log[m].id = log[rs].id
           /\ log[m].kind \in {"completed", "failed", "interrupted"}
           => m <= rt
  BY <1>1, <1>2 DEF Latest, Terminals, TerminalKinds
<1>4. log[rt].kind = "completed" /\ log[rt].res = "APPROVED" /\ log[rt].ref = v /\ log[rt].diff = d
  BY DEF Approves
<1>5. rs < rt
  BY <1>2, <1>3, <1>4
<1>6. \A m \in (rs + 1)..Len(log) : ~(log[m].fam = "review" /\ log[m].kind = "started")
  BY <1>1, <1>2
<1>7. \A m \in (rt + 1)..Len(log) :
        ~(/\ log[m].fam = "review" /\ log[m].id = log[rs].id
          /\ log[m].kind \in {"completed", "failed", "interrupted"})
  <2> SUFFICES ASSUME NEW m \in (rt + 1)..Len(log), log[m].fam = "review", log[m].id = log[rs].id,
                      log[m].kind \in {"completed", "failed", "interrupted"}
               PROVE  FALSE
    OBVIOUS
  <2>1. m \in DOMAIN log /\ m >= rs /\ m > rt
    BY <1>1, <1>2, <1>3
  <2>2. m <= rt
    BY <1>3, <2>1
  <2> QED  BY <1>3, <2>1, <2>2
<1>8. (Len(log) + 1) - 1 = Len(log)
  BY <1>1
<1> QED  BY <1>2, <1>3, <1>4, <1>5, <1>6, <1>7, <1>8 DEF ReviewedFor

\* complete_reviewed
LEMMA ReviewedKeeps ==
  ASSUME IInv, NEW w \in Writers, NEW v \in Verifications, NEW r \in Reviews, NEW d \in Diffs,
         CompleteReviewed(w, v, r, d)
  PROVE  IInv' /\ log' = log /\ status' = status
<1>1. PICK mode \in SettlementModes, s \in LatestStart("verification", v), rs \in LatestStart("review", r) :
      \E t \in Latest(Terminals(s)), e \in ExecutedBefore(s), rt \in Latest(Terminals(rs)) :
        /\ Passed(s, t)
        /\ log[e].kind = "completed"
        /\ rs > t /\ Approves(rt, v, d)
        /\ Decides(w, "RUNNING", Settlement(mode, Evidence("reviewed", log[e].id, v, d)))
  BY DEF CompleteReviewed
<1>2. PICK t \in Latest(Terminals(s)), e \in ExecutedBefore(s), rt \in Latest(Terminals(rs)) :
        /\ Passed(s, t)
        /\ log[e].kind = "completed"
        /\ rs > t /\ Approves(rt, v, d)
        /\ Decides(w, "RUNNING", Settlement(mode, Evidence("reviewed", log[e].id, v, d)))
  BY <1>1
<1>3. status = "RUNNING"
  BY <1>2 DEF Decides
<1>4. /\ log[e].id \in Executions /\ t \in 1..Len(log)
      /\ log[t].fam = "verification" /\ log[t].res = "pass" /\ log[t].id = v
  <2>1. PICK y : y = [id |-> log[e].id, ref |-> v]
    OBVIOUS
  <2>2. y.id = log[e].id /\ y.ref = v
    BY <2>1
  <2> QED  BY <1>2, <1>3, <2>2, PassedIsVerified
<1>5. PICK specs \in Seq(Events) :
           /\ specs = Settlement(mode, Evidence("reviewed", log[e].id, v, d))
           /\ \A k \in DOMAIN specs : Outside(specs[k])
           /\ \A k \in DOMAIN specs : k # 1 => Unmarked(specs[k])
           /\ specs[1].id = log[e].id /\ specs[1].ref = v /\ specs[1].diff = d
           /\ specs[1].res = "reviewed" /\ specs[1].kind # "failed"
           /\ Leads("RUNNING", StatusAfter("RUNNING", specs))
  BY <1>4, SettlementFacts
<1>6. VerifiedFor(specs[1], Len(log) + 1)
  BY <1>2, <1>3, <1>5, PassedIsVerified
<1>7. ReviewedFor(specs[1], Len(log) + 1)
  BY <1>2, <1>4, <1>5, ApprovedIsReviewed
<1>8. Sound(specs)
  BY <1>5, <1>6, <1>7 DEF Sound, Vouched
<1>9. Decides(w, "RUNNING", specs)
  BY <1>2, <1>5
<1> QED  BY <1>5, <1>8, <1>9, DecidesKeeps

\* The gate fails the Run on a failure that is evidence for it.
LEMMA FailureKeeps ==
  ASSUME IInv, NEW w \in Writers, NEW res \in {"execution", "verification", "fix_loop"}, NEW a \in Attempts,
         Decides(w, "RUNNING", Failure(res, a)),
         \A x : x.id = a /\ x.res = res => FailedFor(x, Len(log) + 1)
  PROVE  IInv' /\ log' = log /\ status' = status
<1>1. PICK e0 : e0 = RunEvent("failed", "gate")
  OBVIOUS
<1>2. e0 = [fam |-> "run", kind |-> "failed", id |-> NoId, src |-> "gate",
            res |-> "none", ref |-> NoId, diff |-> NoId]
  BY <1>1 DEF RunEvent, Event
<1>3. PICK e1 : e1 = [e0 EXCEPT !.res = res]
  OBVIOUS
<1>4. e1 = [fam |-> "run", kind |-> "failed", id |-> NoId, src |-> "gate",
            res |-> res, ref |-> NoId, diff |-> NoId]
  BY <1>2, <1>3
<1>5. PICK e : e = [e1 EXCEPT !.id = a]
  OBVIOUS
<1>6. e = [fam |-> "run", kind |-> "failed", id |-> a, src |-> "gate",
           res |-> res, ref |-> NoId, diff |-> NoId]
  BY <1>4, <1>5
<1>7. e \in Events /\ Outside(e) /\ StatusOf(e) = "FAILED" /\ e.id = a /\ e.res = res
  BY <1>6 DEF Events, Outside, StatusOf, Families, ItemKinds
<1>8. PICK specs \in Seq(Events) : specs = <<e>>
  BY <1>7, Batches
<1>9. specs = Failure(res, a)
  BY <1>1, <1>3, <1>5, <1>8 DEF Failure
<1>10. Len(specs) = 1 /\ specs[1] = e /\ DOMAIN specs = {1}
  BY <1>8
<1>11. StatusAfter("RUNNING", specs) = "FAILED"
  BY <1>7, <1>8, OneRunEvent
<1>12. Leads("RUNNING", StatusAfter("RUNNING", specs))
  BY <1>11 DEF Leads, Life!Terminal
<1>13. Vouched(specs[1])
  BY <1>7, <1>10 DEF Vouched
<1>14. Sound(specs)
  BY <1>7, <1>10, <1>13 DEF Sound
<1> QED  BY <1>9, <1>12, <1>14, DecidesKeeps

\* fail_execution, fail_verification and fail_fix_loop
LEMMA FailuresKeep ==
  ASSUME IInv, NEW w \in Writers,
         \/ \E x \in Executions : FailExecution(w, x)
         \/ \E v \in Verifications : FailVerification(w, v)
         \/ \E l \in Loops : FailFixLoop(w, l)
  PROVE  IInv' /\ log' = log /\ status' = status
<1>1. Len(log) \in Nat /\ DOMAIN log = 1..Len(log) /\ (Len(log) + 1) - 1 = Len(log)
  BY DEF IInv, TypeOK
<1>2. CASE \E x \in Executions : FailExecution(w, x)
  <2>1. PICK x \in Executions : FailExecution(w, x)
    BY <1>2
  <2>2. PICK n \in Latest({m \in ExecutionLifecycle : log[m].kind = "failed" /\ log[m].id = x}) :
          ~HasNewerExecution(n) /\ Decides(w, "RUNNING", Failure("execution", x))
    BY <2>1 DEF FailExecution
  <2>3. n \in 1..Len(log) /\ log[n].fam = "execution" /\ log[n].kind = "failed" /\ log[n].id = x
    BY <1>1 DEF Latest, ExecutionLifecycle
  <2>4. \A m \in (n + 1)..Len(log) : ~(log[m].fam = "execution" /\ log[m].kind \in {"started", "completed", "failed"})
    <3>1. \A m \in (n + 1)..Len(log) : m \in DOMAIN log /\ m > n
      BY <1>1, <2>3
    <3> QED  BY <2>2, <3>1 DEF HasNewerExecution, ExecutionLifecycle
  <2>5. \A y : y.id = x /\ y.res = "execution" => FailedFor(y, Len(log) + 1)
    BY <1>1, <2>3, <2>4 DEF FailedFor
  <2>6. x \in Attempts
    BY DEF Attempts
  <2> QED  BY <2>2, <2>5, <2>6, FailureKeeps
<1>3. ASSUME NEW fam \in {"verification", "fix_loop"}, NEW a, NEW s \in LatestStart(fam, a),
             NEW t \in Latest(Terminals(s)),
             log[t].kind \in {"failed", "exhausted"} \/ log[t].res = "fail",
             \A m \in ExecutionLifecycle : ~(m > t)
      PROVE  \A y : y.id = a /\ y.res = fam => FailedFor(y, Len(log) + 1)
  <2>1. /\ s \in 1..Len(log) /\ log[s].fam = fam /\ log[s].id = a
        /\ \A m \in DOMAIN log : log[m].fam = fam /\ log[m].kind = "started" => m <= s
    BY <1>1 DEF LatestStart, Latest, Starts
  <2>2. t \in 1..Len(log) /\ t >= s /\ log[t].fam = fam /\ log[t].id = a
    BY <1>1, <2>1 DEF Latest, Terminals
  <2>3. \A m \in (t + 1)..Len(log) : m \in DOMAIN log /\ m > t /\ ~(m <= s)
    BY <1>1, <2>1, <2>2
  <2>4. \A m \in (t + 1)..Len(log) : ~(log[m].fam = "execution" /\ log[m].kind \in {"started", "completed", "failed"})
    BY <1>3, <2>3 DEF ExecutionLifecycle
  <2>5. \A m \in (t + 1)..Len(log) : ~(log[m].fam = fam /\ log[m].kind = "started")
    BY <2>1, <2>3
  <2> QED  BY <1>1, <1>3, <2>2, <2>4, <2>5 DEF FailedFor
<1>4. CASE \E v \in Verifications : FailVerification(w, v)
  <2>1. PICK v \in Verifications : FailVerification(w, v)
    BY <1>4
  <2>2. PICK s \in LatestStart("verification", v) : \E t \in Latest(Terminals(s)) :
          /\ log[t].kind = "completed" /\ log[t].res = "fail"
          /\ ~HasNewerExecution(s)
          /\ Decides(w, "RUNNING", Failure("verification", v))
    BY <2>1 DEF FailVerification
  <2>3. PICK t \in Latest(Terminals(s)) :
          /\ log[t].kind = "completed" /\ log[t].res = "fail"
          /\ ~HasNewerExecution(s)
          /\ Decides(w, "RUNNING", Failure("verification", v))
    BY <2>2
  <2>4. s \in 1..Len(log) /\ t \in 1..Len(log) /\ t >= s
    BY <1>1 DEF LatestStart, Latest, Starts, Terminals
  <2>5. \A m \in ExecutionLifecycle : ~(m > t)
    <3> SUFFICES ASSUME NEW m \in ExecutionLifecycle, m > t PROVE FALSE
      OBVIOUS
    <3>1. m \in Nat
      BY <1>1 DEF ExecutionLifecycle
    <3>2. m > s
      BY <2>4, <3>1
    <3> QED  BY <2>3, <3>2 DEF HasNewerExecution
  <2>6. \A y : y.id = v /\ y.res = "verification" => FailedFor(y, Len(log) + 1)
    BY <1>3, <2>3, <2>5
  <2>7. v \in Attempts
    BY DEF Attempts
  <2> QED  BY <2>3, <2>6, <2>7, FailureKeeps
<1>5. CASE \E l \in Loops : FailFixLoop(w, l)
  <2>1. PICK l \in Loops : FailFixLoop(w, l)
    BY <1>5
  <2>2. PICK s \in LatestStart("fix_loop", l) : \E t \in Latest(Terminals(s)) :
          /\ log[t].kind \in {"exhausted", "failed"}
          /\ ~HasNewerExecution(t)
          /\ Decides(w, "RUNNING", Failure("fix_loop", l))
    BY <2>1 DEF FailFixLoop
  <2>3. PICK t \in Latest(Terminals(s)) :
          /\ log[t].kind \in {"exhausted", "failed"}
          /\ ~HasNewerExecution(t)
          /\ Decides(w, "RUNNING", Failure("fix_loop", l))
    BY <2>2
  <2>4. \A m \in ExecutionLifecycle : ~(m > t)
    BY <2>3 DEF HasNewerExecution
  <2>5. \A y : y.id = l /\ y.res = "fix_loop" => FailedFor(y, Len(log) + 1)
    BY <1>3, <2>3, <2>4
  <2>6. l \in Attempts
    BY DEF Attempts
  <2> QED  BY <2>3, <2>5, <2>6, FailureKeeps
<1> QED  BY <1>2, <1>4, <1>5

-----------------------------------------------------------------------------
(* The invariant                                                           *)

\* A Run that is not recorded yet satisfies the invariant.
LEMMA InvInit == Init => IInv
<1> SUFFICES ASSUME Init PROVE IInv
  OBVIOUS
<1>1. log = <<>> /\ Len(log) = 0 /\ DOMAIN log = {} /\ status = "CREATED"
  BY DEF Init
<1>2. sink = [a \in Attempts |-> NoSink] /\ pend = [w \in Writers |-> NothingPending]
  BY DEF Init
<1>3. TypeOK
  <2>1. log \in Seq(Events)
    BY <1>1
  <2>2. status = StatusAfter("CREATED", log)
    <3>1. \A k \in 1..Len(log) : StatusOf(log[k]) = "same"
      BY <1>1
    <3> QED  BY <1>1, <3>1, StatusKept
  <2>3. status \in Statuses
    BY <1>1 DEF Statuses
  <2>4. sink \in [Attempts -> [pc : {"none", "open", "live", "asked", "ended", "dead"},
                               item : Items \cup {NoId}, expected : Nat]]
    BY <1>2 DEF NoSink
  <2>5. pend \in [Writers -> [seq : Nat, specs : Seq(Events), from : Statuses]]
    <3>1. NothingPending \in [seq : Nat, specs : Seq(Events), from : Statuses]
      BY DEF NothingPending, Statuses
    <3> QED  BY <1>2, <3>1
  <2> QED  BY <2>1, <2>2, <2>3, <2>4, <2>5, Zenon DEF TypeOK
<1>4. Belongs /\ ToolsInside /\ SettledOnEvidence /\ FailedOnEvidence
  BY <1>1 DEF Belongs, ToolsInside, SettledOnEvidence, Settlements, FailedOnEvidence
<1>5. AttemptUninterleaved /\ EndsOnce /\ RecoveredIsClosed
  BY <1>1 DEF AttemptUninterleaved, EndsOnce, RecoveredIsClosed
<1>6. ASSUME NEW a \in Attempts PROVE Recorder(a)
  <2>1. sink[a].pc = "none" /\ sink[a].expected = 0
    BY <1>2 DEF NoSink
  <2> QED  BY <1>1, <2>1 DEF Recorder, Current
<1>7. ASSUME NEW w \in Writers PROVE Decided(w)
  BY <1>2 DEF Decided, NothingPending
<1> QED  BY <1>3, <1>4, <1>5, <1>6, <1>7 DEF IInv

\* What may be appended to a Run that is over.
Sealed == (status \in Life!Terminal) => UnfencedOnly

\* A step that appends nothing.
LEMMA QuietStep ==
  ASSUME IInv, log' = log, status' = status
  PROVE  Moves /\ Sealed
<1>1. Len(log) \in Nat
  BY DEF IInv, TypeOK
<1>2. UnfencedOnly
  BY <1>1 DEF UnfencedOnly
<1> QED  BY <1>2 DEF Moves, Sealed

\* A recorder's append.
LEMMA WritesStep ==
  ASSUME IInv, NEW a \in Attempts, NEW specs, NEW pc, Writes(a, specs, pc)
  PROVE  IInv' /\ Moves /\ Sealed
<1>1. IInv' /\ Moves
  BY WritesKeep, WritesMoves
<1>2. ASSUME status \in Life!Terminal
      PROVE  UnfencedOnly
  <2>1. a \notin Fenced
    BY <1>2, RecorderAlone
  <2>2. a \in AcpSessions
    BY <2>1 DEF Fenced
  <2>3. a \notin Executions
    BY <2>2, AcpFacts
  <2>4. specs \in Seq(Events) /\ Appended(specs) /\ Len(specs) = 1 /\ specs[1].id = a
    BY <2>3 DEF Writes
  <2>5. Grows(specs)
    BY <2>4, AppendGrows DEF IInv
  <2>6. \A n \in (Len(log) + 1)..Len(log') : n = Len(log) + 1
    BY <2>4, <2>5 DEF Grows
  <2>7. log'[Len(log) + 1] = specs[1]
    BY <2>4, <2>5 DEF Grows
  <2> QED  BY <2>2, <2>4, <2>6, <2>7 DEF UnfencedOnly
<1> QED  BY <1>1, <1>2 DEF Sealed

\* Every step of everybody keeps the invariant, moves the status along the lifecycle and
\* leaves a settled history alone.
LEMMA StepFacts ==
  ASSUME IInv, Next
  PROVE  IInv' /\ Moves /\ Sealed
<1>1. CASE RecordOpening \/ StartFails
  <2>1. IInv' /\ Moves /\ status = "CREATED"
    BY <1>1, OpeningKeeps
  <2> QED  BY <2>1 DEF Sealed, Life!Terminal
<1>2. ASSUME NEW a \in Attempts, RecorderNext(a)
      PROVE  IInv' /\ Moves /\ Sealed
  <2>1. CASE OpenSink(a) \/ EmitFails(a) \/ Refresh(a)
    <3>1. IInv' /\ log' = log /\ status' = status
      BY <2>1, QuietRecorder
    <3> QED  BY <3>1, QuietStep
  <2>2. CASE Begin(a)
    BY <2>2, BeginWrites, WritesStep
  <2>3. CASE CloseItem(a)
    BY <2>3, CloseItemWrites, WritesStep
  <2>4. CASE Ask(a)
    BY <2>4, AskWrites, WritesStep
  <2>5. CASE Answer(a)
    BY <2>5, AnswerWrites, WritesStep
  <2>6. CASE End(a)
    BY <2>6, EndWrites, WritesStep
  <2>7. CASE \E i \in Items : OpenItem(a, i)
    BY <2>7, OpenItemWrites, WritesStep
  <2>8. CASE Activity(a)
    <3>1. IInv' /\ status' = status
      BY <2>8, ActivityKeeps
    <3>2. PICK e : e = Event("agent", "activity", a, "activity")
      OBVIOUS
    <3>3. e \in Events /\ e.id = a
      BY <3>2 DEF Event, Events
    <3>4. PICK specs \in Seq(Events) : specs = <<e>> /\ Len(specs) = 1 /\ specs[1] = e
      BY <3>3, Batches
    <3>5. Appended(specs) /\ a \in AcpSessions
      BY <2>8, <3>2, <3>4 DEF Activity
    <3>6. Grows(specs)
      BY <3>5, AppendGrows DEF IInv
    <3>7. \A n \in (Len(log) + 1)..Len(log') : n = Len(log) + 1
      BY <3>4, <3>6 DEF Grows
    <3>8. log'[Len(log) + 1] = e
      BY <3>4, <3>6 DEF Grows
    <3>9. UnfencedOnly
      BY <3>3, <3>5, <3>7, <3>8 DEF UnfencedOnly
    <3> QED  BY <3>1, <3>9 DEF Moves, Sealed
  <2>9. CASE \E i \in Items : RefuseItem(a, i)
    BY <2>9, RefuseItemWrites, WritesStep
  <2>10. CASE DecisionMade(a)
    BY <2>10, TriageKeeps DEF Moves, Sealed
  <2> QED  BY <1>2, <2>1, <2>2, <2>3, <2>4, <2>5, <2>6, <2>7, <2>8, <2>9, <2>10 DEF RecorderNext
<1>3. ASSUME NEW w \in Workers, GateNext(w) \/ NeedsUser(w) \/ PipelineSettles(w)
      PROVE  IInv' /\ Moves /\ Sealed
  <2>0. w \in Writers
    BY DEF Writers
  <2>1. CASE \E v \in Verifications : CompleteVerified(w, v)
    <3>1. IInv' /\ log' = log /\ status' = status
      BY <2>0, <2>1, VerifiedKeeps
    <3> QED  BY <3>1, QuietStep
  <2>2. CASE \E v \in Verifications, r \in Reviews, d \in Diffs : CompleteReviewed(w, v, r, d)
    <3>1. IInv' /\ log' = log /\ status' = status
      BY <2>0, <2>2, ReviewedKeeps
    <3> QED  BY <3>1, QuietStep
  <2>3. CASE \/ \E x \in Executions : FailExecution(w, x)
             \/ \E v \in Verifications : FailVerification(w, v)
             \/ \E l \in Loops : FailFixLoop(w, l)
    <3>1. IInv' /\ log' = log /\ status' = status
      BY <2>0, <2>3, FailuresKeep
    <3> QED  BY <3>1, QuietStep
  <2>4. CASE NeedsUser(w) \/ PipelineSettles(w)
    <3>1. IInv' /\ log' = log /\ status' = status
      BY <2>0, <2>4, PlainDecisionsKeep
    <3> QED  BY <3>1, QuietStep
  <2> QED  BY <1>3, <2>1, <2>2, <2>3, <2>4 DEF GateNext
<1>4. ASSUME NEW w \in Hosts, HostGivesUp(w) \/ DecideProposal(w) \/ FollowUp(w)
      PROVE  IInv' /\ Moves /\ Sealed
  <2>1. w \in Writers
    BY DEF Writers
  <2>2. IInv' /\ log' = log /\ status' = status
    BY <1>4, <2>1, PlainDecisionsKeep
  <2> QED  BY <2>2, QuietStep
<1>5. ASSUME NEW w \in Recoverers, Recover(w)
      PROVE  IInv' /\ Moves /\ Sealed
  <2>1. w \in Writers
    BY DEF Writers
  <2>2. IInv' /\ log' = log /\ status' = status
    BY <1>5, <2>1, RecoverKeeps
  <2> QED  BY <2>2, QuietStep
<1>6. ASSUME NEW w \in Writers, Commit(w)
      PROVE  IInv' /\ Moves /\ Sealed
  <2>1. IInv' /\ Leads(status, status')
    BY <1>6, CommitKeeps
  <2>2. Moves /\ status \notin Life!Terminal
    BY <2>1, LeadsMove
  <2> QED  BY <2>1, <2>2 DEF Sealed
<1>7. ASSUME NEW w \in Writers, Conflict(w)
      PROVE  IInv' /\ Moves /\ Sealed
  <2>1. IInv' /\ log' = log /\ status' = status
    BY <1>7, ConflictKeeps
  <2> QED  BY <2>1, QuietStep
<1> QED  BY <1>1, <1>2, <1>3, <1>4, <1>5, <1>6, <1>7 DEF Next

\* The same for a step that changes nothing.
LEMMA InvStep == IInv /\ [Next]_vars => IInv'
<1> SUFFICES ASSUME IInv, [Next]_vars PROVE IInv'
  OBVIOUS
<1>1. CASE Next
  BY <1>1, StepFacts
<1>2. CASE vars' = vars
  <2>0. log' = log /\ status' = status /\ sink' = sink /\ pend' = pend
    BY <1>2 DEF vars
  <2>1. TypeOK'
    BY <2>0, Zenon DEF IInv, TypeOK
  <2>2. \A a \in Attempts : Recorder(a)'
    <3> SUFFICES ASSUME NEW a \in Attempts PROVE Recorder(a)'
      OBVIOUS
    <3>1. Recorder(a) /\ sink'[a] = sink[a]
      BY <2>0 DEF IInv
    <3> QED  BY <2>0, <3>1, SameRecorder
  <2>3. \A w \in Writers : Decided(w)'
    <3> SUFFICES ASSUME NEW w \in Writers PROVE Decided(w)'
      OBVIOUS
    <3>1. Decided(w) /\ pend'[w] = pend[w]
      BY <2>0 DEF IInv
    <3> QED  BY <2>0, <3>1, SameDecision
  <2> QED  BY <2>0, <2>1, <2>2, <2>3, SameHistory DEF IInv
<1> QED  BY <1>1, <1>2

\* Whatever the recorders, the gate, the host and recovery do concurrently.
THEOREM Invariance == Spec => []IInv
<1>1. Init => IInv
  BY InvInit
<1>2. IInv /\ [Next]_vars => IInv'
  BY InvStep
<1> QED  BY <1>1, <1>2, PTL DEF Spec

-----------------------------------------------------------------------------
(* The theorems                                                            *)

\* Types; runs.status is always the projection of the history.
THEOREM TypeCorrect == Spec => []TypeOK
<1>1. IInv => TypeOK
  BY DEF IInv
<1> QED  BY <1>1, Invariance, PTL

\* A Run is completed or proposed by RunCompletionGate only on evidence that is still the
\* latest at the seq of the settlement.
THEOREM SettlementsRestOnEvidence == Spec => []SettledOnEvidence
<1>1. IInv => SettledOnEvidence
  BY DEF IInv
<1> QED  BY <1>1, Invariance, PTL

\* The gate fails a Run only on a failure that nothing has overtaken.
THEOREM FailuresRestOnEvidence == Spec => []FailedOnEvidence
<1>1. IInv => FailedOnEvidence
  BY DEF IInv
<1> QED  BY <1>1, Invariance, PTL

\* Nothing lands between the events of a fenced attempt's recorder.
THEOREM AttemptsAreUninterleaved == Spec => []AttemptUninterleaved
<1>1. IInv => AttemptUninterleaved
  BY DEF IInv
<1> QED  BY <1>1, Invariance, PTL

\* An attempt starts once and ends at most once, whoever ends it.
THEOREM AttemptsEndOnce == Spec => []EndsOnce
<1>1. IInv => EndsOnce
  BY DEF IInv
<1> QED  BY <1>1, Invariance, PTL

\* recover_running_runs leaves nothing open.
THEOREM RecoveryClosesAll == Spec => []RecoveredIsClosed
<1>1. IInv => RecoveredIsClosed
  BY DEF IInv
<1> QED  BY <1>1, Invariance, PTL

\* The ledger and all its writers implement the lifecycle of a Run (RunLifecycle), which
\* project_run does not enforce.
THEOREM LifecycleImplemented == Spec => LifecycleHolds
<1>1. Init => Life!Created
  BY DEF Init, Life!Created
<1>2. IInv /\ [Next]_vars => [Life!LifecycleNext]_status
  <2> SUFFICES ASSUME IInv, [Next]_vars PROVE Life!LifecycleNext \/ status' = status
    OBVIOUS
  <2>1. CASE Next
    BY <2>1, StepFacts DEF Moves
  <2>2. CASE vars' = vars
    BY <2>2 DEF vars
  <2> QED  BY <2>1, <2>2
<1> QED  BY <1>1, <1>2, Invariance, PTL DEF Spec, LifecycleHolds, Life!LifecycleSpec

\* Once a Run is terminal only what an ACP session reports and a decision.made of a worker
\* that still runs add to its history.
THEOREM TerminalIsSealed == Spec => SealedWhenTerminal
<1>1. IInv /\ [Next]_vars => [(status \in Life!Terminal) => UnfencedOnly]_vars
  <2> SUFFICES ASSUME IInv, [Next]_vars, ~UNCHANGED vars
               PROVE  (status \in Life!Terminal) => UnfencedOnly
    OBVIOUS
  <2> QED  BY StepFacts DEF Sealed
<1> QED  BY <1>1, Invariance, PTL DEF Spec, SealedWhenTerminal
=============================================================================
