---------------------------- MODULE CollabProofs ----------------------------
(***************************************************************************)
(* Proofs about the collaboration hub and the members' commands, for any   *)
(* number of members, publishing processes and revisions.                  *)
(*                                                                         *)
(* The argument.  A publisher acts on a revision it read earlier, so the   *)
(* properties of the hub are not inductive by themselves: they need what   *)
(* each process knows while it works.  Job(p) says that: its base is a     *)
(* revision no older than the expected one; once it may push, base and     *)
(* parent are one revision; and what was checked was checked on the base.  *)
(* Revisions are never rewritten, so all of it survives the steps of the   *)
(* others, and a push that lands finds base, parent and tip to be equal.   *)
(* Command ties the member's command to its one job and its one revision.  *)
(***************************************************************************)
EXTENDS CollabCommands, TLAPS

Ops == {"none", "init", "context", "status", "put", "create", "proposal"}
Tasks == [owner : Members, status : Statuses]
Args == Contexts \cup Statuses \cup Members \cup Tasks \cup Nat
Answers == {"done", "refused", "failed"}

Revisions == [state : States, op : Ops, by : Members, arg : Args, cmd : {0, 1}]
Jobs == [pc : {"idle", "fetch", "fetched", "push"} \cup Answers, op : Ops,
         by : Members \cup {Nobody}, arg : Args, expected : Nat, base : Nat,
         parent : Nat, cmd : {0, 1}]
Commands == [state : {"none", "ticket", "sent", "ok", "refused", "unknown"}, expected : Nat,
             status : Statuses \cup {"none"}, queued : BOOLEAN]
Tickets == [seen : Nat, expected : Nat]

Typed ==
  /\ hub \in Seq(Revisions) /\ Len(hub) > 0
  /\ props \subseteq [seen : Nat, at : Nat]
  /\ proc \in [Procs -> Jobs]
  /\ cmd \in Commands
  /\ ticket \in Tickets

\* An argument of the kind its operation takes.
Fits(op, arg) ==
  /\ op = "context" => arg \in Contexts
  /\ op = "status" => arg \in Statuses
  /\ op = "put" => arg \in Tasks
  /\ op = "create" => arg \in Members

\* What a process was asked, and by whom.
Asked(p) ==
  /\ proc[p].pc = "idle" => proc[p].cmd = 0
  /\ proc[p].pc \in Answers => proc[p].cmd = 1
  /\ p # Coordinator => proc[p].cmd = 0
  /\ proc[p].pc # "idle" =>
       /\ proc[p].by \in Members
       /\ Fits(proc[p].op, proc[p].arg)
       /\ proc[p].expected \in 1..Tip
       /\ proc[p].op = "proposal" => proc[p].arg \in 1..Tip /\ p # Coordinator
       /\ p # Coordinator => \/ proc[p].op \in {"put", "proposal"}
                             \/ proc[p].op = "context" /\ proc[p].by = Owner

\* The revision a process works on, and what was checked on it.
Read(p) ==
  /\ proc[p].pc = "fetched" => proc[p].base \in 1..Tip /\ proc[p].expected <= proc[p].base
  /\ proc[p].pc = "push" => proc[p].base \in 1..Tip /\ proc[p].parent = proc[p].base
  /\ proc[p].pc \in {"fetched", "push"} =>
       /\ proc[p].op # "put" =>
            Permitted(proc[p].op, proc[p].by, hub[proc[p].base].state)
       /\ proc[p].op = "proposal" => StillBound(proc[p].arg, hub[proc[p].base].state)

Job(p) == Asked(p) /\ Read(p)

\* A revision is its operation applied to a state that permitted it.
Follows(n) ==
  /\ hub[n].state = Edit(hub[n].op, hub[n].arg, hub[n - 1].state)
  /\ hub[n].op # "put" => Permitted(hub[n].op, hub[n].by, hub[n - 1].state)

Current(pr) ==
  /\ pr.at \in 2..Tip /\ pr.seen \in 1..Tip
  /\ hub[pr.at].op = "proposal"
  /\ StillBound(pr.seen, hub[pr.at - 1].state)

Landed == \E n \in 1..Tip : hub[n].cmd # 0

\* The member's command: waiting, at work in the Coordinator, or decided.
Command ==
  /\ cmd.state = "ticket" \/ cmd.queued => cmd.expected \in 1..Tip /\ cmd.status \in Statuses
  /\ cmd.queued => cmd.state \in {"sent", "unknown"} /\ ~Landed /\ proc[Coordinator].cmd = 0
  /\ proc[Coordinator].cmd # 0 => /\ cmd.state \in {"sent", "unknown"}
                                  /\ proc[Coordinator].pc = "done" => Landed
                                  /\ proc[Coordinator].pc \notin {"done", "failed"} => ~Landed
  /\ cmd.state = "ok" => Landed
  /\ cmd.state \in {"none", "ticket", "refused"} => ~Landed /\ proc[Coordinator].cmd = 0

Ticketed == ticket # NoTicket => ticket.seen \in 1..Tip /\ ticket.expected \in 1..Tip

IInv ==
  /\ Typed
  /\ \A p \in Procs : Job(p)
  /\ \A n \in 2..Tip : Follows(n)
  /\ \A pr \in props : Current(pr)
  /\ Command
  /\ Ticketed

-----------------------------------------------------------------------------
(* The hub only grows.                                                     *)

Grows == /\ Len(hub) \in Nat /\ Len(hub') \in Nat /\ Len(hub) <= Len(hub')
         /\ \A i \in 1..Len(hub) : hub'[i] = hub[i]

\* A push of p that lands: one revision more, made from the tip.
LEMMA LandShape ==
  ASSUME Typed, NEW p \in Procs, Job(p), proc[p].pc = "push", Land(p)
  PROVE  /\ Grows /\ Len(hub') = Len(hub) + 1
         /\ hub' \in Seq(Revisions)
         /\ LET n == Len(hub') IN
            /\ hub'[n].state = Edit(proc[p].op, proc[p].arg, hub[Len(hub)].state)
            /\ hub'[n].op = proc[p].op /\ hub'[n].by = proc[p].by
            /\ hub'[n].arg = proc[p].arg /\ hub'[n].cmd = proc[p].cmd
         /\ proc[p].base = Len(hub)
<1> DEFINE new == [state |-> Edit(proc[p].op, proc[p].arg, hub[Len(hub)].state), op |-> proc[p].op,
                   by |-> proc[p].by, arg |-> proc[p].arg, cmd |-> proc[p].cmd]
<1>1. Len(hub) \in Nat /\ Len(hub) \in 1..Len(hub) /\ hub[Len(hub)] \in Revisions /\ proc[p] \in Jobs
  BY DEF Typed
<1>2. proc[p].base = Len(hub) /\ hub' = Append(hub, new)
  BY DEF Land, Appended, Job, Read, Tip
<1>3. hub[Len(hub)].state \in States
  BY <1>1 DEF Revisions
<1>4. Edit(proc[p].op, proc[p].arg, hub[Len(hub)].state) \in States
  <2>1. Fits(proc[p].op, proc[p].arg)
    BY DEF Job, Asked
  <2>2. ASSUME NEW s \in States, NEW t \in Tasks
        PROVE  [s EXCEPT !.owner = t.owner, !.status = t.status] \in States
    BY DEF States, Tasks
  <2>3. CASE proc[p].op = "put"
    BY <1>3, <2>1, <2>2, <2>3 DEF Fits, Edit
  <2>4. CASE proc[p].op # "put"
    BY <1>3, <2>1, <2>4 DEF Fits, Edit, States, Statuses
  <2> QED BY <2>3, <2>4
<1>5. proc[p].op \in Ops /\ proc[p].arg \in Args /\ proc[p].cmd \in {0, 1} /\ proc[p].by \in Members
  BY <1>1 DEF Jobs, Job, Asked
<1>6. new \in Revisions
  BY <1>4, <1>5 DEF Revisions
<1> HIDE DEF new
<1>7. /\ hub' \in Seq(Revisions) /\ Len(hub') = Len(hub) + 1 /\ hub'[Len(hub')] = new
      /\ \A i \in 1..Len(hub) : hub'[i] = hub[i]
  BY <1>2, <1>6, <1>1 DEF Typed
<1> QED BY <1>1, <1>2, <1>7 DEF Grows, new

\* What a process knows is not disturbed by the growth of the hub.
LEMMA JobFrame ==
  ASSUME Typed, Grows, NEW v \in Procs, Job(v), proc'[v] = proc[v]
  PROVE  Job(v)'
<1>1. proc[v] \in Jobs
  BY DEF Typed
<1>2. Asked(v)'
  BY <1>1 DEF Job, Asked, Grows, Tip
<1>3. Read(v)'
  BY <1>1 DEF Job, Read, Asked, Grows, Tip, Permitted, StillBound
<1> QED BY <1>2, <1>3 DEF Job

\* Nothing lands unless the hub moves.
LEMMA LandedFrame ==
  ASSUME UNCHANGED hub
  PROVE  Landed' <=> Landed
BY DEF Landed, Tip

\* A revision of p that lands carries p's command.
LEMMA LandedAfter ==
  ASSUME Typed, NEW p \in Procs, Job(p), proc[p].pc = "push", Land(p)
  PROVE  Landed' <=> Landed \/ proc[p].cmd # 0
<1>1. /\ Len(hub) \in Nat /\ Len(hub') = Len(hub) + 1 /\ hub'[Len(hub')].cmd = proc[p].cmd
      /\ \A i \in 1..Len(hub) : hub'[i] = hub[i]
  BY LandShape DEF Grows
<1> QED BY <1>1 DEF Landed, Tip

\* Revisions and proposals stay as they were under an unchanged hub.
LEMMA HistoryFrame ==
  ASSUME Typed, UNCHANGED <<hub, props>>, \A n \in 2..Tip : Follows(n), \A pr \in props : Current(pr)
  PROVE  (\A n \in 2..Tip : Follows(n))' /\ (\A pr \in props : Current(pr))'
BY DEF Follows, Current, Tip, StillBound

\* The revision that lands follows from the one before it, and a proposal that
\* lands is a current one.
LEMMA HistoryGrows ==
  ASSUME Typed, NEW p \in Procs, Job(p), proc[p].pc = "push", Land(p),
         \A n \in 2..Tip : Follows(n), \A pr \in props : Current(pr)
  PROVE  /\ (\A n \in 2..Tip : Follows(n))'
         /\ (\A pr \in props : Current(pr))'
         /\ props' \subseteq [seen : Nat, at : Nat]
<1>1. /\ Len(hub) \in Nat /\ Len(hub) > 0 /\ Len(hub') = Len(hub) + 1
      /\ \A i \in 1..Len(hub) : hub'[i] = hub[i]
      /\ proc[p].base = Len(hub)
  BY LandShape DEF Grows, Typed
<1>2. /\ hub'[Len(hub')].state = Edit(proc[p].op, proc[p].arg, hub[Len(hub)].state)
      /\ hub'[Len(hub')].op = proc[p].op /\ hub'[Len(hub')].by = proc[p].by
      /\ hub'[Len(hub')].arg = proc[p].arg
  BY LandShape
<1>3. /\ proc[p].op # "put" => Permitted(proc[p].op, proc[p].by, hub[Len(hub)].state)
      /\ proc[p].op = "proposal" => StillBound(proc[p].arg, hub[Len(hub)].state)
      /\ proc[p].op = "proposal" => proc[p].arg \in 1..Len(hub)
  BY <1>1 DEF Job, Read, Asked, Tip
<1>4. ASSUME NEW n \in 2..Len(hub') PROVE Follows(n)'
  <2>1. CASE n \in 2..Len(hub)
    <3>1. Follows(n) /\ n \in 1..Len(hub) /\ n - 1 \in 1..Len(hub)
      BY <2>1, <1>1 DEF Tip
    <3>2. hub'[n] = hub[n] /\ hub'[n - 1] = hub[n - 1]
      BY <3>1, <1>1
    <3> QED BY <3>1, <3>2 DEF Follows
  <2>2. CASE n = Len(hub')
    <3>1. n - 1 = Len(hub) /\ hub'[n - 1] = hub[Len(hub)]
      BY <2>2, <1>1
    <3> QED BY <2>2, <3>1, <1>2, <1>3 DEF Follows
  <2> QED BY <2>1, <2>2, <1>1
<1>5. ASSUME NEW pr \in props PROVE Current(pr)'
  <2>1. Current(pr) /\ pr.at \in 2..Len(hub) /\ pr.seen \in 1..Len(hub)
    BY DEF Current, Tip
  <2>2. pr.at \in Nat /\ pr.at - 1 \in 1..Len(hub) /\ pr.at \in 1..Len(hub)
    BY <2>1, <1>1
  <2>3. hub'[pr.at] = hub[pr.at] /\ hub'[pr.at - 1] = hub[pr.at - 1] /\ hub'[pr.seen] = hub[pr.seen]
    BY <2>1, <2>2, <1>1
  <2>4. pr.at \in 2..Len(hub') /\ pr.seen \in 1..Len(hub')
    BY <2>1, <1>1
  <2> QED BY <2>1, <2>3, <2>4 DEF Current, StillBound, Tip
<1>6. ASSUME NEW pr, pr = [seen |-> proc[p].arg, at |-> Len(hub) + 1], proc[p].op = "proposal"
      PROVE  Current(pr)' /\ pr \in [seen : Nat, at : Nat]
  <2>1. pr.seen = proc[p].arg /\ pr.at = Len(hub') /\ pr.at - 1 = Len(hub)
    BY <1>6, <1>1
  <2>2. hub'[pr.seen] = hub[proc[p].arg] /\ hub'[pr.at - 1] = hub[Len(hub)]
    BY <2>1, <1>6, <1>3, <1>1
  <2>3. pr.at \in 2..Len(hub') /\ pr.seen \in 1..Len(hub')
    BY <2>1, <1>1, <1>3, <1>6
  <2>4. StillBound(pr.seen, hub[pr.at - 1].state)'
    BY <2>1, <2>2, <1>3, <1>6 DEF StillBound
  <2>5. Current(pr)'
    BY <2>1, <2>3, <2>4, <1>2, <1>6 DEF Current, Tip
  <2>6. pr \in [seen : Nat, at : Nat]
    BY <1>1, <1>3, <1>6
  <2> QED BY <2>5, <2>6
<1>7. props' = IF proc[p].op = "proposal"
               THEN props \cup {[seen |-> proc[p].arg, at |-> Len(hub) + 1]} ELSE props
  BY DEF Land, Tip
<1>8. (\A pr \in props : Current(pr))' /\ props' \subseteq [seen : Nat, at : Nat]
  BY <1>5, <1>6, <1>7 DEF Typed
<1> QED BY <1>4, <1>8 DEF Tip

-----------------------------------------------------------------------------
(* One process moves.                                                      *)

Moves(p) == /\ proc' \in [Procs -> Jobs]
            /\ \A v \in Procs \ {p} : proc'[v] = proc[v]

\* A caller that waits for an HTTP answer gets it later; the others are done.
LEMMA Answering ==
  ASSUME Typed, Grows, NEW p \in Procs, Job(p), proc[p].pc # "idle", NEW o \in Answers, Answer(p, o)
  PROVE  /\ Moves(p) /\ Job(p)'
         /\ proc'[p].cmd = proc[p].cmd
         /\ proc[p].cmd # 0 => proc'[p].pc = o
<1>1. proc[p] \in Jobs /\ proc \in [Procs -> Jobs] /\ Rest \in Jobs
  BY DEF Typed, Rest, Jobs, Args, Ops
<1> DEFINE new == IF proc[p].cmd = 0 THEN Rest ELSE [proc[p] EXCEPT !.pc = o]
<1>2. new \in Jobs
  BY <1>1 DEF Jobs
<1>3. proc' = [proc EXCEPT ![p] = new]
  BY DEF Answer
<1> HIDE DEF new
<1>4. Moves(p) /\ proc'[p] = new
  BY <1>1, <1>2, <1>3 DEF Moves
<1>5. CASE proc[p].cmd = 0
  <2>1. proc'[p] = Rest
    BY <1>4, <1>5 DEF new
  <2>2. Job(p)'
    BY <2>1 DEF Job, Asked, Read, Rest, Answers
  <2> QED BY <1>4, <1>5, <2>1, <2>2 DEF Rest
<1>6. CASE proc[p].cmd # 0
  <2>1. proc'[p] = [proc[p] EXCEPT !.pc = o]
    BY <1>4, <1>6 DEF new
  <2>2. /\ proc'[p].pc = o /\ proc'[p].cmd = proc[p].cmd /\ proc'[p].by = proc[p].by
        /\ proc'[p].op = proc[p].op /\ proc'[p].arg = proc[p].arg
        /\ proc'[p].expected = proc[p].expected
    BY <1>1, <2>1 DEF Jobs
  <2>3. proc[p].expected \in Nat /\ proc[p].cmd = 1
    BY <1>1, <1>6 DEF Jobs
  <2>4. Asked(p)'
    BY <2>2, <2>3 DEF Job, Asked, Grows, Tip, Answers
  <2>5. Read(p)'
    BY <2>2 DEF Read, Answers
  <2> QED BY <1>4, <2>2, <2>4, <2>5 DEF Job
<1> QED BY <1>5, <1>6

\* A request that fits puts its process to work.
LEMMA Requesting ==
  ASSUME Typed, UNCHANGED hub, NEW p \in Procs, NEW op \in Ops, NEW by \in Members, NEW arg \in Args,
         NEW e \in 1..Tip, NEW c \in {0, 1}, Request(p, op, by, arg, e, c),
         Fits(op, arg), op = "proposal" => arg \in 1..Tip /\ p # Coordinator,
         p # Coordinator => op \in {"put", "proposal"} \/ (op = "context" /\ by = Owner),
         p # Coordinator => c = 0
  PROVE  /\ Moves(p) /\ Job(p)' /\ proc[p].pc = "idle" /\ proc'[p].pc = "fetch" /\ proc'[p].cmd = c
<1> DEFINE new == [pc |-> "fetch", op |-> op, by |-> by, arg |-> arg,
                   expected |-> e, base |-> 0, parent |-> 0, cmd |-> c]
<1>1. new \in Jobs /\ proc \in [Procs -> Jobs]
  BY DEF Typed, Jobs
<1>2. proc' = [proc EXCEPT ![p] = new] /\ proc[p].pc = "idle"
  BY DEF Request
<1>3. Moves(p) /\ proc'[p] = new
  <2> HIDE DEF new
  <2> QED BY <1>1, <1>2 DEF Moves
<1>4. Job(p)'
  BY <1>3 DEF Job, Asked, Read, Tip, Fits, Answers
<1> QED BY <1>2, <1>3, <1>4

-----------------------------------------------------------------------------
(* The steps of a publishing process.                                      *)

\* The member's command under a step of any process: only the Coordinator's
\* job with the command's mark may decide it.
LEMMA CommandStep ==
  ASSUME Typed, Command, NEW p \in Procs, Moves(p), UNCHANGED cmd, Grows,
         proc'[p].cmd = proc[p].cmd,
         p # Coordinator => proc[p].cmd = 0,
         proc[p].cmd = 0 => (Landed' <=> Landed),
         Landed => Landed',
         proc[p].cmd # 0 => /\ proc'[p].pc = "done" => Landed'
                            /\ proc'[p].pc \notin {"done", "failed"} => ~Landed'
  PROVE  Command'
<1>1. cmd.expected \in 1..Tip => cmd.expected \in 1..Len(hub')
  BY DEF Grows, Tip, Typed, Commands
<1>2. CASE p = Coordinator
  <2>1. CASE proc[p].cmd = 0
    BY <1>1, <1>2, <2>1 DEF Command, Tip
  <2>2. CASE proc[p].cmd # 0
    <3>1. ~cmd.queued /\ cmd.state \in {"sent", "unknown"}
      BY <1>2, <2>2 DEF Command
    <3> QED BY <1>2, <2>2, <3>1 DEF Command
  <2> QED BY <2>1, <2>2
<1>3. CASE p # Coordinator
  <2>1. proc'[Coordinator] = proc[Coordinator] /\ (Landed' <=> Landed)
    BY <1>3, HubAssumption DEF Moves
  <2> QED BY <1>1, <2>1 DEF Command, Tip
<1> QED BY <1>2, <1>3

\* The parts of the invariant after a step of p that leaves the member alone.
LEMMA Assembled ==
  ASSUME IInv, NEW p \in Procs, Moves(p), Job(p)', Grows, UNCHANGED rest,
         hub' \in Seq(Revisions), props' \subseteq [seen : Nat, at : Nat],
         (\A n \in 2..Tip : Follows(n))', (\A pr \in props : Current(pr))', Command'
  PROVE  IInv'
<1>1. Typed'
  BY DEF IInv, Typed, Moves, Grows, rest
<1>2. ASSUME NEW v \in Procs PROVE Job(v)'
  <2>1. CASE v = p
    BY <2>1
  <2>2. CASE v # p
    BY <2>2, JobFrame DEF IInv, Moves
  <2> QED BY <2>1, <2>2
<1>3. Ticketed'
  BY DEF IInv, Typed, Tickets, Ticketed, Grows, Tip, rest
<1> QED BY <1>1, <1>2, <1>3 DEF IInv

\* A command that is still in work has not landed.
LEMMA NotLanded ==
  ASSUME Command, NEW p \in Procs, Job(p), proc[p].cmd # 0, proc[p].pc \notin {"done", "failed"}
  PROVE  ~Landed
BY DEF Command, Job, Asked

\* A step that publishes nothing and answers, or does not answer yet.
LEMMA QuietStep ==
  ASSUME IInv, NEW p \in Procs, UNCHANGED <<hub, props>>, UNCHANGED rest, Moves(p), Job(p)',
         proc'[p].cmd = proc[p].cmd, proc[p].pc \notin {"done", "failed"},
         proc[p].cmd # 0 => proc'[p].pc # "done"
  PROVE  IInv'
<1>1. Typed /\ Job(p) /\ Command
  BY DEF IInv
<1>2. Grows
  BY <1>1 DEF Grows, Typed
<1>3. Landed' <=> Landed
  BY LandedFrame
<1>4. proc[p].cmd # 0 => ~Landed
  BY <1>1, NotLanded
<1>5. Command'
  BY <1>1, <1>2, <1>3, <1>4, CommandStep DEF rest, Job, Asked
<1>6. (\A n \in 2..Tip : Follows(n))' /\ (\A pr \in props : Current(pr))'
  BY HistoryFrame DEF IInv
<1>7. hub' \in Seq(Revisions) /\ props' \subseteq [seen : Nat, at : Nat]
  BY <1>1 DEF Typed
<1> QED BY <1>2, <1>5, <1>6, <1>7, Assembled

\* A refusal or a failure without effect.
LEMMA RefusalStep ==
  ASSUME IInv, NEW p \in Procs, UNCHANGED <<hub, props>>, UNCHANGED rest,
         proc[p].pc \in {"fetch", "fetched", "push"}, NEW o \in {"refused", "failed"}, Answer(p, o)
  PROVE  IInv'
<1>1. Typed /\ Job(p) /\ o \in Answers
  BY DEF IInv, Answers
<1>2. Grows
  BY <1>1 DEF Grows, Typed
<1>3. Moves(p) /\ Job(p)' /\ proc'[p].cmd = proc[p].cmd /\ (proc[p].cmd # 0 => proc'[p].pc = o)
  BY <1>1, <1>2, Answering
<1> QED BY <1>3, QuietStep

\* The first read takes the tip as base, and checks the request on it.
LEMMA FetchStep ==
  ASSUME IInv, NEW p \in Procs, Fetch(p), UNCHANGED rest
  PROVE  IInv'
<1>1. Typed /\ Job(p) /\ proc[p] \in Jobs /\ proc \in [Procs -> Jobs] /\ proc[p].pc = "fetch"
  BY DEF IInv, Typed, Fetch
<1>2. Tip \in Nat /\ Tip \in 1..Tip
  BY <1>1 DEF Typed, Tip
<1>3. CASE Accepts(p)
  <2> DEFINE new == [proc[p] EXCEPT !.pc = "fetched", !.base = Tip]
  <2>1. new \in Jobs
    BY <1>1, <1>2 DEF Jobs
  <2>2. proc' = [proc EXCEPT ![p] = new] /\ UNCHANGED <<hub, props>>
    BY <1>1, <1>3 DEF Fetch
  <2> HIDE DEF new
  <2>3. Moves(p) /\ proc'[p] = new
    BY <1>1, <2>1, <2>2 DEF Moves
  <2>4. /\ proc'[p].pc = "fetched" /\ proc'[p].base = Tip
        /\ proc'[p].cmd = proc[p].cmd /\ proc'[p].by = proc[p].by /\ proc'[p].op = proc[p].op
        /\ proc'[p].arg = proc[p].arg /\ proc'[p].expected = proc[p].expected
    BY <1>1, <2>3 DEF new, Jobs
  <2>5. Asked(p)'
    BY <1>1, <2>2, <2>4 DEF Job, Asked, Tip, Answers
  <2>6. proc[p].op # "put" => Permitted(proc[p].op, proc[p].by, hub[Tip].state)
    BY <1>1, <1>3 DEF Accepts, Permitted, Job, Asked
  <2>7. proc[p].op = "proposal" => StillBound(proc[p].arg, hub[Tip].state)
    BY <1>1, <1>3 DEF Accepts, StillBound, Job, Asked
  <2>8. proc[p].expected <= Tip
    BY <1>1, <1>2 DEF Job, Asked
  <2>9. Read(p)'
    BY <1>2, <2>2, <2>4, <2>6, <2>7, <2>8 DEF Read, Tip, StillBound
  <2>10. Job(p)'
    BY <2>5, <2>9 DEF Job
  <2> QED BY <1>1, <2>2, <2>3, <2>4, <2>10, QuietStep
<1>4. CASE ~Accepts(p)
  BY <1>1, <1>4, RefusalStep DEF Fetch
<1> QED BY <1>3, <1>4

\* The second read: an expected revision that is still the tip is the base.
LEMMA PublishStep ==
  ASSUME IInv, NEW p \in Procs, Publish(p), UNCHANGED rest
  PROVE  IInv'
<1>1. Typed /\ Job(p) /\ proc[p] \in Jobs /\ proc \in [Procs -> Jobs] /\ proc[p].pc = "fetched"
  BY DEF IInv, Typed, Publish
<1>2. Tip \in Nat /\ UNCHANGED <<hub, props>>
  BY <1>1 DEF Typed, Tip, Publish
<1> DEFINE parent == IF proc[p].op = "proposal" THEN proc[p].base ELSE Tip
           new == [proc[p] EXCEPT !.pc = "push", !.parent = parent]
<1>3. CASE HeadIsExpected(p) /\ proc' = [proc EXCEPT ![p] = new]
  <2>1. new \in Jobs
    BY <1>1, <1>2 DEF Jobs
  <2>2. parent = proc[p].base
    BY <1>1, <1>2, <1>3 DEF HeadIsExpected, Job, Read, Jobs
  <2> HIDE DEF parent
  <2>3. Moves(p) /\ proc'[p] = new
    BY <1>1, <1>3, <2>1 DEF Moves
  <2>4. /\ proc'[p].pc = "push" /\ proc'[p].parent = parent /\ proc'[p].base = proc[p].base
        /\ proc'[p].cmd = proc[p].cmd /\ proc'[p].by = proc[p].by /\ proc'[p].op = proc[p].op
        /\ proc'[p].arg = proc[p].arg /\ proc'[p].expected = proc[p].expected
    BY <1>1, <2>3 DEF Jobs
  <2>5. Asked(p)'
    BY <1>1, <1>2, <2>4 DEF Job, Asked, Tip, Answers
  <2>6. Read(p)'
    BY <1>1, <1>2, <2>2, <2>4 DEF Job, Read, Tip, StillBound
  <2>7. Job(p)'
    BY <2>5, <2>6 DEF Job
  <2> QED BY <1>1, <1>2, <2>3, <2>4, <2>7, QuietStep
<1>4. CASE Answer(p, "refused")
  BY <1>1, <1>2, <1>4, RefusalStep
<1>5. (HeadIsExpected(p) /\ proc' = [proc EXCEPT ![p] = new]) \/ Answer(p, "refused")
  BY <1>1 DEF Publish, Moves
<1> QED BY <1>3, <1>4, <1>5

\* A push that lands, whatever the caller is told.
LEMMA LandingStep ==
  ASSUME IInv, NEW p \in Procs, proc[p].pc = "push", Land(p), UNCHANGED rest,
         NEW o \in {"done", "failed"}, Answer(p, o)
  PROVE  IInv'
<1>1. Typed /\ Job(p) /\ Command /\ o \in Answers
  BY DEF IInv, Answers
<1>2. Grows /\ hub' \in Seq(Revisions)
  BY <1>1, LandShape
<1>3. Moves(p) /\ Job(p)' /\ proc'[p].cmd = proc[p].cmd /\ (proc[p].cmd # 0 => proc'[p].pc = o)
  BY <1>1, <1>2, Answering
<1>4. Landed' <=> Landed \/ proc[p].cmd # 0
  BY <1>1, LandedAfter
<1>5. Command'
  BY <1>1, <1>2, <1>3, <1>4, CommandStep DEF rest, Job, Asked
<1>6. /\ (\A n \in 2..Tip : Follows(n))' /\ (\A pr \in props : Current(pr))'
      /\ props' \subseteq [seen : Nat, at : Nat]
  BY <1>1, HistoryGrows DEF IInv
<1> QED BY <1>2, <1>3, <1>5, <1>6, Assembled

\* Every step of a publishing process.
LEMMA HubSteps ==
  ASSUME IInv, NEW p \in Procs, HubStep(p), UNCHANGED rest
  PROVE  IInv'
<1>1. CASE Fetch(p)
  BY <1>1, FetchStep
<1>2. CASE Publish(p)
  BY <1>2, PublishStep
<1>3. CASE Push(p)
  BY <1>3, LandingStep DEF Push
<1>4. CASE PushRejected(p)
  BY <1>4, RefusalStep DEF PushRejected
<1>5. CASE GitFails(p)
  <2>1. CASE proc[p].pc = "push" /\ Land(p)
    BY <1>5, <2>1, LandingStep DEF GitFails
  <2>2. CASE UNCHANGED <<hub, props>>
    BY <1>5, <2>2, RefusalStep DEF GitFails
  <2> QED BY <1>5, <2>1, <2>2 DEF GitFails
<1> QED BY <1>1, <1>2, <1>3, <1>4, <1>5 DEF HubStep

-----------------------------------------------------------------------------
(* Requests, the member's command, the delivery.                           *)

\* A request without a command's mark: the owner's writes, the CLI's, a delivery.
LEMMA RequestStep ==
  ASSUME IInv, NEW p \in Procs, NEW op \in Ops, NEW by \in Members, NEW arg \in Args,
         NEW e \in 1..Tip, Request(p, op, by, arg, e, 0),
         Fits(op, arg), op = "proposal" => arg \in 1..Tip /\ p # Coordinator,
         p # Coordinator => op \in {"put", "proposal"} \/ (op = "context" /\ by = Owner),
         UNCHANGED <<hub, props, cmd>>, ticket' = ticket \/ ticket' = NoTicket
  PROVE  IInv'
<1>1. Typed /\ Command /\ Job(p) /\ Ticketed /\ Grows
  BY DEF IInv, Typed, Grows
<1>2. Moves(p) /\ Job(p)' /\ proc[p].pc = "idle" /\ proc'[p].pc = "fetch" /\ proc'[p].cmd = 0
  BY <1>1, Requesting
<1>3. proc[p].cmd = 0 /\ (Landed' <=> Landed)
  BY <1>1, <1>2, LandedFrame DEF Job, Asked
<1>4. Command'
  BY <1>1, <1>2, <1>3, CommandStep
<1>5. (\A n \in 2..Tip : Follows(n))' /\ (\A pr \in props : Current(pr))'
  BY HistoryFrame DEF IInv
<1>6. Typed'
  BY <1>1, <1>2 DEF Typed, Moves, NoTicket, Tickets
<1>7. ASSUME NEW v \in Procs PROVE Job(v)'
  <2>1. CASE v = p
    BY <2>1, <1>2
  <2>2. CASE v # p
    BY <2>2, <1>1, <1>2, JobFrame DEF IInv, Moves
  <2> QED BY <2>1, <2>2
<1>8. Ticketed'
  BY <1>1 DEF Ticketed, Tip
<1> QED BY <1>4, <1>5, <1>6, <1>7, <1>8 DEF IInv

\* A step of the member that the processes do not see.
LEMMA MemberStep ==
  ASSUME IInv, UNCHANGED <<hub, props, proc>>, cmd' \in Commands, Command',
         ticket' \in Tickets, Ticketed'
  PROVE  IInv'
<1>1. Typed /\ Grows
  BY DEF IInv, Typed, Grows
<1>2. Typed'
  BY <1>1 DEF Typed
<1>3. \A v \in Procs : Job(v)'
  BY <1>1, JobFrame DEF IInv
<1>4. (\A n \in 2..Tip : Follows(n))' /\ (\A pr \in props : Current(pr))'
  BY <1>1, HistoryFrame DEF IInv
<1> QED BY <1>2, <1>3, <1>4 DEF IInv

\* The owner's product writes.
LEMMA OwnerWritesStep ==
  ASSUME IInv, OwnerWrites, UNCHANGED <<hub, props, faults, rest>>
  PROVE  IInv'
<1>1. Tip \in 1..Tip /\ UNCHANGED <<cmd, ticket>>
  BY DEF IInv, Typed, Tip, rest
<1>2. ASSUME NEW c \in Contexts, Request(Coordinator, "context", Owner, c, Tip, 0) PROVE IInv'
  BY <1>1, <1>2, RequestStep, HubAssumption DEF Ops, Args, Fits
<1>3. ASSUME NEW s \in Statuses, Request(Coordinator, "status", Owner, s, Tip, 0) PROVE IInv'
  BY <1>1, <1>3, RequestStep, HubAssumption DEF Ops, Args, Fits
<1>4. ASSUME NEW m \in Members, Request(Coordinator, "create", Owner, m, Tip, 0) PROVE IInv'
  BY <1>1, <1>4, RequestStep, HubAssumption DEF Ops, Args, Fits
<1> QED BY <1>2, <1>3, <1>4 DEF OwnerWrites

\* The CLI's writes: any revision may be the expected one.
LEMMA CliWritesStep ==
  ASSUME IInv, NEW p \in Procs, CliWrites(p), UNCHANGED <<hub, props, faults, rest>>
  PROVE  IInv'
<1>1. UNCHANGED <<cmd, ticket>> /\ p # Coordinator
  BY DEF rest, CliWrites
<1>2. ASSUME NEW e \in 1..Tip, NEW c \in Contexts, Request(p, "context", Owner, c, e, 0) PROVE IInv'
  BY <1>1, <1>2, RequestStep, HubAssumption DEF Ops, Args, Fits
<1>3. ASSUME NEW e \in 1..Tip, NEW m \in Members, NEW s \in Statuses,
             Request(p, "put", Owner, [owner |-> m, status |-> s], e, 0)
      PROVE  IInv'
  <2>1. [owner |-> m, status |-> s] \in Tasks
    BY DEF Tasks
  <2> QED BY <1>1, <1>3, <2>1, RequestStep, HubAssumption DEF Ops, Args, Fits
<1> QED BY <1>2, <1>3 DEF CliWrites

\* The run's proposal is requested with the binding and the revision of its ticket.
LEMMA DeliveryStep ==
  ASSUME IInv, ConfirmPublication
  PROVE  IInv'
<1>1. ticket.seen \in 1..Tip /\ ticket.expected \in 1..Tip /\ Tip \in Nat
  BY DEF IInv, Ticketed, ConfirmPublication, Typed, Tip
<1>2. ticket.seen \in Args
  BY <1>1 DEF Args
<1> QED BY <1>1, <1>2, RequestStep, HubAssumption, DeliveryAssumption DEF ConfirmPublication, Ops, Fits

\* Preview, discard and confirmation of a status command, and a lost answer.
LEMMA StatusSteps ==
  ASSUME IInv, PreviewStatus \/ DiscardTicket \/ ConfirmStatus \/ ReplyLost
  PROVE  IInv'
<1>1. Typed /\ Command /\ Ticketed /\ cmd \in Commands /\ ticket \in Tickets
  BY DEF IInv, Typed
<1>2. /\ UNCHANGED <<hub, props, proc, ticket>> /\ Tip \in Nat /\ Tip \in 1..Tip
      /\ Tip' = Tip
  <2>1. UNCHANGED <<hub, props, proc, ticket>>
    BY DEF PreviewStatus, DiscardTicket, ConfirmStatus, ReplyLost
  <2> QED BY <1>1, <2>1 DEF Typed, Tip
<1>3. Landed' <=> Landed
  BY <1>2, LandedFrame
<1>4. Ticketed'
  BY <1>1, <1>2 DEF Ticketed, Tip
<1>5. CASE PreviewStatus
  <2>1. PICK s \in Statuses : cmd' = [cmd EXCEPT !.state = "ticket", !.expected = Tip, !.status = s]
    BY <1>5 DEF PreviewStatus
  <2>2. /\ cmd'.state = "ticket" /\ cmd'.expected = Tip /\ cmd'.status = s
        /\ cmd'.queued = cmd.queued /\ cmd' \in Commands
    BY <1>1, <1>2, <2>1 DEF Commands, Statuses
  <2>3. cmd.state = "none"
    BY <1>5 DEF PreviewStatus
  <2>4. Command'
    BY <1>1, <1>2, <1>3, <2>2, <2>3 DEF Command
  <2> QED BY <1>1, <1>2, <1>4, <2>2, <2>4, MemberStep
<1>6. CASE DiscardTicket
  <2>1. /\ cmd'.state = "none" /\ cmd.state = "ticket" /\ cmd'.expected = cmd.expected
        /\ cmd'.status = cmd.status /\ cmd'.queued = cmd.queued /\ cmd' \in Commands
    BY <1>1, <1>6 DEF DiscardTicket, Commands
  <2>2. Command'
    BY <1>1, <1>2, <1>3, <2>1 DEF Command
  <2> QED BY <1>1, <1>2, <1>4, <2>1, <2>2, MemberStep
<1>7. CASE ConfirmStatus
  <2>1. /\ cmd.state = "ticket" /\ cmd'.expected = cmd.expected
        /\ cmd'.status = cmd.status /\ cmd' \in Commands
        /\ \/ cmd'.state = "sent"
           \/ cmd'.state = "refused" /\ cmd'.queued = cmd.queued
    BY <1>1, <1>7 DEF ConfirmStatus, Commands
  <2>2. Command'
    BY <1>1, <1>2, <1>3, <2>1 DEF Command
  <2> QED BY <1>1, <1>2, <1>4, <2>1, <2>2, MemberStep
<1>8. CASE ReplyLost
  <2>1. /\ cmd.state = "sent" /\ cmd'.state = "unknown" /\ cmd'.expected = cmd.expected
        /\ cmd'.status = cmd.status /\ cmd' \in Commands
        /\ cmd'.queued => cmd.queued
    BY <1>1, <1>8 DEF ReplyLost, Commands
  <2>2. Command'
    BY <1>1, <1>2, <1>3, <2>1 DEF Command
  <2> QED BY <1>1, <1>2, <1>4, <2>1, <2>2, MemberStep
<1> QED BY <1>5, <1>6, <1>7, <1>8

\* The owner's server takes the command up; it is the Coordinator's one marked job.
LEMMA ServeStep ==
  ASSUME IInv, Serve
  PROVE  IInv'
<1> DEFINE C == Coordinator
<1>1. Typed /\ Command /\ Ticketed /\ Job(C) /\ cmd \in Commands /\ Grows /\ C \in Procs
  BY HubAssumption DEF IInv, Typed, Grows, Serve
<1>2. /\ cmd.queued /\ cmd' = [cmd EXCEPT !.queued = FALSE] /\ UNCHANGED <<hub, props, ticket>>
      /\ Request(C, "status", Self, cmd.status, cmd.expected, 1)
  BY DEF Serve
<1>3. /\ cmd.expected \in 1..Tip /\ cmd.status \in Statuses /\ cmd.state \in {"sent", "unknown"}
      /\ ~Landed
  BY <1>1, <1>2 DEF Command
<1>4. Moves(C) /\ Job(C)' /\ proc'[C].pc = "fetch" /\ proc'[C].cmd = 1
  BY <1>1, <1>2, <1>3, Requesting, HubAssumption DEF Ops, Args, Fits
<1>5. /\ cmd'.state = cmd.state /\ cmd'.expected = cmd.expected
      /\ cmd'.status = cmd.status /\ ~cmd'.queued /\ cmd' \in Commands
  BY <1>1, <1>2 DEF Commands
<1>6. ~Landed'
  BY <1>2, <1>3, LandedFrame
<1>7. Command'
  BY <1>3, <1>4, <1>5, <1>6 DEF Command
<1>8. Typed'
  BY <1>1, <1>2, <1>4, <1>5 DEF Typed, Moves
<1>9. ASSUME NEW v \in Procs PROVE Job(v)'
  <2>1. CASE v = C
    BY <2>1, <1>4
  <2>2. CASE v # C
    BY <2>2, <1>1, <1>4, JobFrame DEF IInv, Moves
  <2> QED BY <2>1, <2>2
<1>10. (\A n \in 2..Tip : Follows(n))' /\ (\A pr \in props : Current(pr))'
  BY <1>1, <1>2, HistoryFrame DEF IInv
<1>11. Ticketed'
  BY <1>1, <1>2 DEF Ticketed, Tip
<1> QED BY <1>7, <1>8, <1>9, <1>10, <1>11 DEF IInv

\* The answer of the server ends the Coordinator's marked job and decides the command.
LEMMA ReplyStep ==
  ASSUME IInv, Reply
  PROVE  IInv'
<1> DEFINE C == Coordinator  answer == proc[C].pc
<1>1. Typed /\ Command /\ Ticketed /\ Job(C) /\ cmd \in Commands /\ Grows /\ C \in Procs
  BY HubAssumption DEF IInv, Typed, Grows, Reply
<1>2. /\ answer \in Answers /\ UNCHANGED <<hub, props, ticket>>
      /\ cmd' = [cmd EXCEPT !.state = IF @ = "sent" THEN Outcome(answer) ELSE @]
      /\ proc' = [proc EXCEPT ![C] = Rest]
  BY DEF Reply, Answers
<1>3. Rest \in Jobs
  BY DEF Rest, Jobs, Args, Ops
<1>4. Moves(C) /\ proc'[C] = Rest
  BY <1>1, <1>2, <1>3 DEF Typed, Moves
<1>5. Job(C)' /\ proc'[C].cmd = 0
  BY <1>4 DEF Job, Asked, Read, Rest, Answers
<1>6. /\ cmd'.state = IF cmd.state = "sent" THEN Outcome(answer) ELSE cmd.state
      /\ cmd'.expected = cmd.expected /\ cmd'.status = cmd.status /\ cmd'.queued = cmd.queued
  BY <1>1, <1>2 DEF Commands
<1>7. Outcome(answer) \in {"ok", "refused", "unknown"}
  BY DEF Outcome
<1>8. cmd' \in Commands
  <2> HIDE DEF answer
  <2> QED BY <1>1, <1>2, <1>7 DEF Commands
<1>9. proc[C].cmd = 1
  BY <1>1, <1>2 DEF Job, Asked
<1>10. cmd.state \in {"sent", "unknown"} /\ ~cmd.queued
  BY <1>1, <1>9 DEF Command
<1>11. Landed' <=> Landed
  BY <1>2, LandedFrame
<1>12. /\ cmd'.state = "ok" => Landed
       /\ cmd'.state = "refused" => ~Landed
       /\ cmd'.state \in {"ok", "refused", "unknown"}
  BY <1>1, <1>2, <1>6, <1>9, <1>10 DEF Command, Outcome, Answers
<1>13. Command'
  BY <1>5, <1>6, <1>10, <1>11, <1>12 DEF Command
<1>14. Typed'
  BY <1>1, <1>2, <1>4, <1>8 DEF Typed, Moves
<1>15. ASSUME NEW v \in Procs PROVE Job(v)'
  <2>1. CASE v = C
    BY <2>1, <1>5
  <2>2. CASE v # C
    BY <2>2, <1>1, <1>4, JobFrame DEF IInv, Moves
  <2> QED BY <2>1, <2>2
<1>16. (\A n \in 2..Tip : Follows(n))' /\ (\A pr \in props : Current(pr))'
  BY <1>1, <1>2, HistoryFrame DEF IInv
<1>17. Ticketed'
  BY <1>1, <1>2 DEF Ticketed, Tip
<1> QED BY <1>13, <1>14, <1>15, <1>16, <1>17 DEF IInv

\* The ticket of a publication is written and dropped.
LEMMA PublicationSteps ==
  ASSUME IInv, PreviewPublication \/ DiscardPublication
  PROVE  IInv'
<1>1. Typed /\ Command /\ Tip \in Nat /\ Tip \in 1..Tip
  BY DEF IInv, Typed, Tip
<1>2. UNCHANGED <<hub, props, proc, cmd>>
  BY DEF PreviewPublication, DiscardPublication
<1>3. Command'
  BY <1>1, <1>2, LandedFrame DEF Command, Tip
<1>4. ticket' \in Tickets /\ Ticketed'
  BY <1>1, <1>2 DEF PreviewPublication, DiscardPublication, Tickets, NoTicket, Ticketed, Tip
<1>5. cmd' \in Commands
  BY <1>1, <1>2 DEF Typed
<1> QED BY <1>2, <1>3, <1>4, <1>5, MemberStep

-----------------------------------------------------------------------------
(* The theorems.                                                           *)

\* A hub just opened, with or without a task, satisfies the invariant.
LEMMA InvInit == Init => IInv
<1> SUFFICES ASSUME Init PROVE IInv
  OBVIOUS
<1>1. PICK c \in Contexts, m \in Members :
        LET new == [ctx |-> c, owner |-> Nobody, status |-> "queued"]
            Entry(o, s, a) == [state |-> s, op |-> o, by |-> Owner, arg |-> a, cmd |-> 0]
        IN  hub \in {<<Entry("init", new, c)>>,
                     <<Entry("init", new, c), Entry("create", Edit("create", m, new), m)>>}
  BY DEF Init, HubInit
<1> DEFINE new == [ctx |-> c, owner |-> Nobody, status |-> "queued"]
           first == [state |-> new, op |-> "init", by |-> Owner, arg |-> c, cmd |-> 0]
           assigned == Edit("create", m, new)
           second == [state |-> assigned, op |-> "create", by |-> Owner, arg |-> m, cmd |-> 0]
<1>2. new \in States /\ assigned \in States
  BY DEF States, Statuses, Edit
<1>3. first \in Revisions /\ second \in Revisions
  BY <1>2, HubAssumption DEF Revisions, Ops, Args
<1>4. hub \in {<<first>>, <<first, second>>}
  BY <1>1
<1>5. /\ first.cmd = 0 /\ second.cmd = 0 /\ first.state = new
      /\ second.op = "create" /\ second.state = Edit("create", second.arg, new)
      /\ second.by = Owner /\ Permitted("create", Owner, new)
  BY DEF Edit, Permitted
<1> HIDE DEF first, second
<1> HIDE DEF new, assigned
<1>6. /\ hub \in Seq(Revisions) /\ hub[1] = first
      /\ (Len(hub) = 1 \/ (Len(hub) = 2 /\ hub[2] = second))
  <2>1. CASE hub = <<first>>
    BY <1>3, <2>1
  <2>2. CASE hub = <<first, second>>
    BY <1>3, <2>2
  <2> QED BY <1>4, <2>1, <2>2
<1>7. Tip \in Nat /\ (Tip = 1 \/ Tip = 2) /\ Tip = Len(hub)
  BY <1>6 DEF Tip
<1>8. /\ props = {} /\ proc = [p \in Procs |-> Rest] /\ ticket = NoTicket
      /\ cmd = [state |-> "none", expected |-> 0, status |-> "none", queued |-> FALSE]
  BY DEF Init, HubInit
<1>9. Typed
  <2>1. Rest \in Jobs /\ NoTicket \in Tickets
    BY DEF Rest, Jobs, Args, Ops, NoTicket, Tickets
  <2>2. cmd \in Commands
    BY <1>8 DEF Commands
  <2> QED BY <1>6, <1>8, <2>1, <2>2 DEF Typed
<1>10. \A p \in Procs : Job(p)
  BY <1>8 DEF Job, Asked, Read, Rest, Answers
<1>11. \A n \in 2..Tip : Follows(n)
  <2>1. SUFFICES ASSUME NEW n \in 2..Tip PROVE Follows(n)
    OBVIOUS
  <2>2. n = 2 /\ Len(hub) = 2 /\ n - 1 = 1
    BY <1>7
  <2> QED BY <1>5, <1>6, <2>2 DEF Follows
<1>12. ~Landed
  <2>1. \A n \in 1..Tip : n = 1 \/ (n = 2 /\ Len(hub) = 2)
    BY <1>7
  <2> QED BY <1>5, <1>6, <2>1 DEF Landed
<1>13. Command
  BY <1>8, <1>12, HubAssumption DEF Command, Rest
<1> QED BY <1>8, <1>9, <1>10, <1>11, <1>13 DEF IInv, Ticketed

\* Every step keeps it.
LEMMA InvStep == IInv /\ [Next]_vars => IInv'
<1> SUFFICES ASSUME IInv, [Next]_vars PROVE IInv'
  OBVIOUS
<1>1. CASE \E p \in Procs : HubStep(p) /\ UNCHANGED rest
  BY <1>1, HubSteps
<1>2. CASE \E p \in Procs : CliWrites(p) /\ UNCHANGED <<hub, props, faults, rest>>
  BY <1>2, CliWritesStep
<1>3. CASE OwnerWrites /\ UNCHANGED <<hub, props, faults, rest>>
  BY <1>3, OwnerWritesStep
<1>4. CASE PreviewStatus \/ DiscardTicket \/ ConfirmStatus \/ ReplyLost
  BY <1>4, StatusSteps
<1>5. CASE Serve
  BY <1>5, ServeStep
<1>6. CASE Reply
  BY <1>6, ReplyStep
<1>7. CASE PreviewPublication \/ DiscardPublication
  BY <1>7, PublicationSteps
<1>8. CASE ConfirmPublication
  BY <1>8, DeliveryStep
<1>9. CASE UNCHANGED vars
  BY <1>9 DEF vars, IInv, Typed, Job, Asked, Read, Follows, Current, Command, Ticketed, Landed, Tip,
              StillBound
<1> QED BY <1>1, <1>2, <1>3, <1>4, <1>5, <1>6, <1>7, <1>8, <1>9 DEF Next

\* What every reachable state satisfies.
THEOREM Invariance == Spec => []IInv
BY InvInit, InvStep, PTL DEF Spec

\* No published change is lost: each revision of the hub is its operation applied to
\* the revision just before it, which permitted it, however reads, checks and pushes
\* of the processes interleave and whatever of them fails.
THEOREM NoUpdateIsLost == Spec => []NoLostUpdate
<1>1. IInv => NoLostUpdate
  BY DEF IInv, Follows, NoLostUpdate
<1> QED BY <1>1, Invariance, PTL

\* No proposal is published on a superseded context, or for a task that has another
\* owner by then.
THEOREM ProposalsAreCurrent == Spec => []ProposalIsCurrent
<1>1. IInv => ProposalIsCurrent
  BY DEF IInv, Typed, Current, ProposalIsCurrent, Tip
<1> QED BY <1>1, Invariance, PTL

\* The member is never told that a command was done, or refused, unless that is so
\* for good, whatever request, push or answer was lost.
THEOREM OutcomesAreCertain == Spec => []CertainOutcome
<1>1. IInv => CertainOutcome
  BY DEF IInv, Command, CertainOutcome, Landed
<1> QED BY <1>1, Invariance, PTL
=============================================================================
