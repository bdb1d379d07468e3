----------------------------- MODULE CollabHub -----------------------------
(***************************************************************************)
(* The collaboration hub and the processes that publish to it              *)
(* (collab_runtime/store.py, coordinator.py, proposals.py).                *)
(*                                                                         *)
(* The hub is a bare Git repository whose session branch only moves by     *)
(* fast-forward, so its history is a sequence of states and a revision is  *)
(* a position in it.  A publisher reads the head, decides on what it read, *)
(* reads again, commits a child and pushes it; another process may publish *)
(* between any two of those steps, and a push that fails in transport may  *)
(* or may not have reached the hub.  `Coordinator' is the owner's process  *)
(* (commands of one Coordinator are serialized by its lock); the other     *)
(* members of Procs are CLI or delivery processes with direct store        *)
(* access.  There is one task; `Nobody' as its owner means that it has not *)
(* been created.                                                           *)
(***************************************************************************)
EXTENDS Naturals, Sequences, FiniteSets

CONSTANTS Members,      \* configured members
          Owner,        \* the member that owns the session
          Self,         \* the member whose run delivers a proposal
          Nobody,       \* the task does not exist
          Contexts,     \* contents of the shared context
          Procs,        \* publishing processes
          Coordinator,  \* the one that serves the members' commands
          MaxRev,       \* bound on the hub's history
          MaxFaults     \* bound on transport failures and crashes

ASSUME HubAssumption ==
    /\ {Owner, Self} \subseteq Members /\ Nobody \notin Members
    /\ Coordinator \in Procs
    /\ MaxRev \in Nat \ {0} /\ MaxFaults \in Nat

VARIABLES hub,          \* the session branch: a sequence of revisions
          props,        \* the proposal refs
          proc,         \* what each publishing process is doing
          faults        \* transport failures and crashes so far

hubVars == <<hub, props, proc>>

Statuses == {"queued", "done"}        \* an active status and the final one

States == [ctx : Contexts, owner : Members \cup {Nobody}, status : Statuses]

Tip == Len(hub)

Rest == [pc |-> "idle", op |-> "none", by |-> Nobody, arg |-> 0, expected |-> 0,
         base |-> 0, parent |-> 0, cmd |-> 0]

(* What an operation makes of the state that was read.                     *)
Edit(op, arg, s) ==
    CASE op = "context" -> [s EXCEPT !.ctx = arg]
      [] op = "status" -> [s EXCEPT !.status = arg]
      [] op = "put" -> [s EXCEPT !.owner = arg.owner, !.status = arg.status]
      [] op = "create" -> [s EXCEPT !.owner = arg, !.status = "queued"]
      [] OTHER -> s

HubInit ==
    \E c \in Contexts, m \in Members :
        LET new == [ctx |-> c, owner |-> Nobody, status |-> "queued"]
            Entry(o, s, a) == [state |-> s, op |-> o, by |-> Owner, arg |-> a, cmd |-> 0]
            first == Entry("init", new, c)
            second == Entry("create", Edit("create", m, new), m)
        IN  /\ hub \in {<<first>>, <<first, second>>}
            /\ props = {} /\ proc = [p \in Procs |-> Rest] /\ faults = 0

(* Who may ask the Coordinator for an operation, judged on the state read. *)
Permitted(op, by, s) ==
    CASE op = "status" -> s.owner # Nobody /\ by \in {Owner, s.owner}
      [] op = "create" -> by = Owner /\ s.owner = Nobody
      [] op = "context" -> by = Owner
      [] OTHER -> TRUE

(* The context and the owner of the bound revision are those of the live   *)
(* state (_validate_binding, _validate_recorded_provenance).               *)
StillBound(seen, s) ==
    /\ hub[seen].state.ctx = s.ctx
    /\ s.owner # Nobody /\ hub[seen].state.owner = s.owner

(* A process is asked to publish; `expected' is a revision its caller has  *)
(* reviewed.                                                               *)
Request(p, op, by, arg, expected, cmd) ==
    /\ proc[p].pc = "idle"
    /\ proc' = [proc EXCEPT ![p] = [pc |-> "fetch", op |-> op, by |-> by, arg |-> arg,
                                    expected |-> expected, base |-> 0, parent |-> 0,
                                    cmd |-> cmd]]

(* The caller is answered: at once, or by Reply when it is an HTTP command *)
Answer(p, outcome) ==
    proc' = [proc EXCEPT ![p] = IF @.cmd = 0 THEN Rest ELSE [@ EXCEPT !.pc = outcome]]

(* The first read.  The Coordinator decides on it and demands the expected *)
(* revision; the store's own operations only take their state from it.     *)
Accepts(p) ==
    LET q == proc[p]
        s == hub[Tip].state
    IN  CASE q.op = "proposal" -> q.expected = Tip /\ StillBound(q.arg, s)
          [] p = Coordinator -> q.expected = Tip /\ Permitted(q.op, q.by, s)
          [] OTHER -> TRUE

Fetch(p) ==
    /\ proc[p].pc = "fetch"
    /\ IF Accepts(p)
       THEN proc' = [proc EXCEPT ![p].pc = "fetched", ![p].base = Tip]
       ELSE Answer(p, "refused")
    /\ UNCHANGED <<hub, props, faults>>

(* publish() reads again: the expected revision must still be the head.    *)
(* publish_proposal reads once, and then only looks for a duplicate.       *)
(* Mutation: publish() takes whatever it finds.                            *)
AnyHead(p) == proc[p].op = "proposal" => props = {}

HeadIsExpected(p) ==
    IF proc[p].op = "proposal" THEN props = {} ELSE Tip = proc[p].expected

Publish(p) ==
    /\ proc[p].pc = "fetched"
    /\ \/ /\ HeadIsExpected(p)
          /\ proc' = [proc EXCEPT ![p].pc = "push",
                        ![p].parent = IF proc[p].op = "proposal" THEN proc[p].base ELSE Tip]
       \/ ~HeadIsExpected(p) /\ Answer(p, "refused")
       \* _cas_advance: another process of the same store moved the mirror
       \/ (\E o \in Procs \ {p} : proc[o].pc # "idle") /\ Answer(p, "refused")
    /\ UNCHANGED <<hub, props, faults>>

(* The push lands as one fast-forward of the session branch, and with it,  *)
(* atomically, the proposal ref.                                           *)
Appended(q) ==
    Append(hub, [state |-> Edit(q.op, q.arg, hub[q.base].state), op |-> q.op,
                 by |-> q.by, arg |-> q.arg, cmd |-> q.cmd])

(* Mutation: the two refs are pushed one by one.                           *)
LandApart(p) ==
    LET q == proc[p] IN
    /\ q.op # "proposal" => q.parent = Tip
    /\ q.parent = Tip => Tip < MaxRev
    /\ hub' = IF q.parent = Tip THEN Appended(q) ELSE hub
    /\ props' = IF q.op = "proposal"
                THEN props \cup {[seen |-> q.arg, at |-> Tip + 1]} ELSE props

Land(p) ==
    LET q == proc[p] IN
    /\ q.parent = Tip /\ Tip < MaxRev
    /\ hub' = Appended(q)
    /\ props' = IF q.op = "proposal"
                THEN props \cup {[seen |-> q.arg, at |-> Tip + 1]} ELSE props

Push(p) ==
    /\ proc[p].pc = "push"
    /\ Land(p)
    /\ Answer(p, "done")
    /\ UNCHANGED faults

PushRejected(p) ==
    /\ proc[p].pc = "push" /\ proc[p].parent # Tip
    /\ Answer(p, "refused")
    /\ UNCHANGED <<hub, props, faults>>

(* A Git command fails or times out.  A push may have landed all the same. *)
GitFails(p) ==
    /\ proc[p].pc \in {"fetch", "fetched", "push"} /\ faults < MaxFaults
    /\ \/ proc[p].pc = "push" /\ Land(p)
       \/ UNCHANGED <<hub, props>>
    /\ Answer(p, "failed")
    /\ faults' = faults + 1

HubStep(p) == Fetch(p) \/ Publish(p) \/ Push(p) \/ PushRejected(p) \/ GitFails(p)

(* The owner's product writes and the members' direct Coordinator calls,   *)
(* and the CLI's context-set and task-set, which replaces the task or      *)
(* creates it and asks for no permission.                                  *)
OwnerWrites ==
    \/ \E c \in Contexts : Request(Coordinator, "context", Owner, c, Tip, 0)
    \/ \E s \in Statuses : Request(Coordinator, "status", Owner, s, Tip, 0)
    \/ \E m \in Members : Request(Coordinator, "create", Owner, m, Tip, 0)

CliWrites(p) ==
    /\ p # Coordinator
    /\ \E e \in 1..Tip :
         \/ \E c \in Contexts : Request(p, "context", Owner, c, e, 0)
         \/ \E m \in Members, s \in Statuses :
                Request(p, "put", Owner, [owner |-> m, status |-> s], e, 0)

(***************************************************************************)
(* No published change is lost: each revision is its operation applied to  *)
(* the state just before it, and that state permitted it, although reads,  *)
(* checks and pushes of several processes interleave.                      *)
(***************************************************************************)
NoLostUpdate ==
    \A n \in 2..Tip :
        LET e == hub[n]
            before == hub[n - 1].state
        IN  /\ e.state = Edit(e.op, e.arg, before)
            /\ e.op # "put" => Permitted(e.op, e.by, before)

(***************************************************************************)
(* A proposal on the hub was made under the context, and for the owner of  *)
(* the task, that hold at the revision it arrived with: no proposal is     *)
(* published on a superseded context.                                      *)
(***************************************************************************)
ProposalIsCurrent ==
    \A pr \in props :
        /\ pr.at <= Tip /\ hub[pr.at].op = "proposal"
        /\ StillBound(pr.seen, hub[pr.at - 1].state)
=============================================================================
