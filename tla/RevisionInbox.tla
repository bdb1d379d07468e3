--------------------------- MODULE RevisionInbox ---------------------------
(***************************************************************************)
(* A member's run and its inbox of revisions: the consumer thread          *)
(* (collab_runtime/consumer.py) that follows the hub over the loopback     *)
(* stream (transport.py), the safe point at which a worker attempt takes   *)
(* in what has arrived (safe_point.py), and the run's session              *)
(* (NativeRunCollaboration in host.py) with its approvals and its durable  *)
(* cursor.                                                                 *)
(*                                                                         *)
(* The consumer only receives; the cursor moves when a worker input that   *)
(* contains the state has been built, or to a revision that the user was   *)
(* shown and consented to.  A lost connection loses what was on the wire,  *)
(* a crash loses everything but `saved'.                                   *)
(***************************************************************************)
EXTENDS Naturals, Sequences, SequencesExt

CONSTANTS MaxPending,   \* MAX_PENDING_EVENTS, the inbox's capacity
          Window,       \* REPLAY_WINDOW, how far back a stream may begin
          MaxRev,       \* bound on the hub's history
          MaxFaults     \* bound on failures and crashes

ASSUME InboxAssumption ==
    /\ MaxPending \in Nat \ {0} /\ Window \in Nat \ {0}
    /\ MaxRev \in Nat \ {0} /\ MaxFaults \in Nat

VARIABLES hub,          \* the published history (CollabHub): for each revision,
                        \* whether the task is then this member's and active
          saved,        \* the checkpoint file's revision, 0 when there is none
          run,          \* the run's session: approval, consent, accepted binding
          cons,         \* the consumer
          wire,         \* the revision the server's stream has reached
          prep,         \* the worker attempt at its safe point
          faults        \* failures and crashes so far

vars == <<hub, saved, run, cons, wire, prep, faults>>

Terminal == {"access_denied", "resnapshot_required", "server_error", "protocol_error"}
Runnable == {"connecting", "streaming", "retrying", "inbox_full"}

NoPrep == [pc |-> "idle", consumed |-> 0, captured |-> <<>>, snap |-> 0]

Init ==
    /\ hub \in {<<FALSE>>, <<TRUE>>} /\ faults = 0
    /\ saved = 0 /\ wire = 0 /\ prep = NoPrep
    /\ run = [approved |-> FALSE, active |-> FALSE, consent |-> FALSE, base |-> 0,
              accepted |-> 0]
    /\ cons = [state |-> "closed", consumed |-> 0, received |-> 0, pending |-> <<>>]

(* The task is this member's and not finished (preview, activate, the safe *)
(* point's _validated).                                                    *)
Assigned(r) == hub[r]

Tip == Len(hub)

(* Anyone publishes.                                                       *)
Advance ==
    /\ Tip < MaxRev
    /\ \E mine \in BOOLEAN : hub' = Append(hub, mine)
    /\ UNCHANGED <<saved, run, cons, wire, prep, faults>>

(***************************************************************************)
(* The consumer and its stream.                                            *)
(***************************************************************************)
Full == Len(cons.pending) = MaxPending

(* The stream may begin at the cursor only while the cursor is among the   *)
(* recent revisions.                                                       *)
Replayable(r) == r + Window >= Tip

Connect ==
    /\ cons.state \in {"connecting", "retrying"}
    /\ \/ Full /\ cons' = [cons EXCEPT !.state = "inbox_full"] /\ UNCHANGED wire
       \/ /\ ~Full /\ Replayable(cons.received)
          /\ cons' = [cons EXCEPT !.state = "streaming"] /\ wire' = cons.received
       \/ /\ ~Full /\ ~Replayable(cons.received)
          /\ cons' = [cons EXCEPT !.state = "resnapshot_required"] /\ UNCHANGED wire
    /\ UNCHANGED <<saved, run, prep, faults, hub>>

(* _accept: the next event continues the chain that has been received.     *)
Deliver ==
    /\ cons.state = "streaming" /\ ~Full /\ wire < Tip
    /\ wire' = wire + 1
    /\ cons' = IF wire = cons.received
               THEN [cons EXCEPT !.pending = Append(@, wire + 1), !.received = wire + 1]
               ELSE [cons EXCEPT !.state = "protocol_error"]
    /\ UNCHANGED <<saved, run, prep, faults, hub>>

(* A full inbox closes its connection and parks until a safe point makes   *)
(* room.                                                                   *)
Park ==
    /\ cons.state = "streaming" /\ Full
    /\ cons' = [cons EXCEPT !.state = "inbox_full"]
    /\ UNCHANGED <<saved, run, wire, prep, faults, hub>>

(* Mutation: nobody notices that there is room again.                      *)
NeverUnpark == FALSE

Room == ~Full

Unpark ==
    /\ cons.state = "inbox_full" /\ Room
    /\ cons' = [cons EXCEPT !.state = "connecting"]
    /\ UNCHANGED <<saved, run, wire, prep, faults, hub>>

(* The connection is refused or breaks; the server says access denied (it  *)
(* was restarted with new credentials); a replay behind an open stream     *)
(* fails, or finds its cursor too old.                                     *)
ConsumerFault ==
    /\ cons.state \in Runnable \ {"inbox_full"}
    /\ faults < MaxFaults /\ faults' = faults + 1
    /\ \E s \in {"retrying", "access_denied"}
               \cup IF cons.state = "streaming" THEN {"server_error"} ELSE {} :
         cons' = [cons EXCEPT !.state = s]
    /\ UNCHANGED <<saved, run, wire, prep, hub>>

FellBehind ==
    /\ cons.state = "streaming" /\ ~Replayable(wire)
    /\ cons' = [cons EXCEPT !.state = "resnapshot_required"]
    /\ UNCHANGED <<saved, run, wire, prep, faults, hub>>

Consumer == Connect \/ Deliver \/ Park \/ Unpark

(***************************************************************************)
(* The run's session.                                                      *)
(***************************************************************************)

(* The user previews the session at some revision, and approves it while   *)
(* the run is idle, perhaps consenting to move the cursor to what was      *)
(* shown (bind_run, reapprove).  A preview stays valid while newer         *)
(* revisions arrive and others are approved, so the approved revision may  *)
(* go back.                                                                *)
Approve ==
    /\ ~run.active /\ prep = NoPrep
    /\ \E r \in 1..Tip, reset \in BOOLEAN :
         /\ Assigned(r)
         /\ run' = [run EXCEPT !.approved = TRUE, !.base = r, !.consent = reset]
    /\ UNCHANGED <<saved, cons, wire, prep, faults, hub>>

(* A worker begins: the assignment is checked afresh, the consumer takes   *)
(* its cursor from the checkpoint or, for want of one, from the approved   *)
(* revision.  With a reset pending it is not started yet.                  *)
Activate ==
    /\ run.approved /\ ~run.active /\ prep = NoPrep
    /\ Assigned(Tip)
    /\ saved' = IF saved = 0 THEN run.base ELSE saved
    /\ cons' = [state |-> IF run.consent THEN "stopped" ELSE "connecting",
                consumed |-> saved', received |-> saved', pending |-> <<>>]
    /\ run' = [run EXCEPT !.active = TRUE]
    /\ UNCHANGED <<wire, prep, faults, hub>>

(* The worker ends; a safe point that was prepared can no longer be        *)
(* acknowledged.                                                           *)
Deactivate ==
    /\ run.active /\ prep.pc \in {"idle", "bound"}
    /\ run' = [run EXCEPT !.active = FALSE]
    /\ cons' = [cons EXCEPT !.state = "closed"]
    /\ UNCHANGED <<saved, wire, prep, faults, hub>>

(* The application dies: approvals and the accepted binding are memory.    *)
Crash ==
    /\ run.approved /\ faults < MaxFaults /\ faults' = faults + 1
    /\ run' = [run EXCEPT !.approved = FALSE, !.active = FALSE, !.consent = FALSE,
                          !.accepted = 0]
    /\ cons' = [cons EXCEPT !.state = "closed", !.pending = <<>>,
                            !.consumed = saved, !.received = saved]
    /\ prep' = NoPrep
    /\ UNCHANGED <<saved, wire, hub>>

(***************************************************************************)
(* The safe point before a worker attempt.                                 *)
(***************************************************************************)

(* With consent pending the cursor is reset to the approved revision,      *)
(* whatever the consumer's state; the consent is spent even if the attempt *)
(* is cancelled before the consumer is started again.                      *)
AcceptReset ==
    /\ run.active /\ run.consent /\ prep = NoPrep /\ Assigned(Tip)
    /\ saved' = run.base
    /\ \E s \in {"connecting", "stopped"} :
         cons' = [state |-> s, consumed |-> run.base, received |-> run.base, pending |-> <<>>]
    /\ run' = [run EXCEPT !.consent = FALSE]
    /\ UNCHANGED <<wire, prep, faults, hub>>

Capture ==
    /\ run.active /\ ~run.consent /\ prep = NoPrep /\ cons.state \in Runnable
    /\ prep' = [pc |-> "snap", consumed |-> cons.consumed, captured |-> cons.pending,
                snap |-> 0]
    /\ UNCHANGED <<saved, run, cons, wire, faults, hub>>

StillUsable == cons.state \in Runnable /\ cons.consumed = prep.consumed

TakeSnapshot ==
    /\ prep.pc = "snap" /\ StillUsable /\ Assigned(Tip)
    /\ prep' = [prep EXCEPT !.pc = "wait", !.snap = Tip]
    /\ UNCHANGED <<saved, run, cons, wire, faults, hub>>

(* Which prefix of the inbox the snapshot covers is known only from the    *)
(* captured events themselves.                                             *)
Covered == prep.snap = prep.consumed \/ prep.snap \in ToSet(prep.captured)

Bind ==
    /\ prep.pc = "wait" /\ StillUsable /\ Covered
    /\ prep' = [prep EXCEPT !.pc = "bound"]
    /\ UNCHANGED <<saved, run, cons, wire, faults, hub>>

(* The snapshot is ahead of the inbox: wait for its event to arrive, then  *)
(* take a new snapshot.                                                    *)
Recapture ==
    /\ prep.pc = "wait" /\ StillUsable /\ ~Covered
    /\ prep.snap \in ToSet(cons.pending)
    /\ prep' = [prep EXCEPT !.pc = "snap", !.captured = cons.pending]
    /\ UNCHANGED <<saved, run, cons, wire, faults, hub>>

(* The wait times out or the inbox is full, the attempt is cancelled, the  *)
(* consumer has ended, or the assignment has changed: the attempt is not   *)
(* started.                                                                *)
PrepareFails ==
    /\ prep.pc # "idle"
    /\ prep' = NoPrep
    /\ UNCHANGED <<saved, run, cons, wire, faults, hub>>

(* The covered prefix is acknowledged, durably first, and the worker is    *)
(* started on the bound input.                                             *)
(* Mutation: everything received so far is acknowledged.                   *)
AckEverything == cons.received

AckRevision == prep.snap

(* acknowledge_at_safe_point: the inbox loses its events up to that one.   *)
Consume(revision) ==
    IF revision = cons.consumed THEN UNCHANGED <<saved, cons>>
    ELSE \E i \in DOMAIN cons.pending :
           /\ cons.pending[i] = revision
           /\ \A j \in 1..(i - 1) : cons.pending[j] # revision
           /\ saved' = revision
           /\ cons' = [cons EXCEPT !.consumed = revision,
                                   !.pending = SubSeq(@, i + 1, Len(@))]

Acknowledge ==
    /\ prep.pc = "bound" /\ StillUsable
    /\ Consume(AckRevision)
    /\ run' = [run EXCEPT !.accepted = IF run.active /\ AckRevision = prep.snap
                                       THEN prep.snap ELSE @]
    /\ prep' = NoPrep
    /\ UNCHANGED <<wire, faults, hub>>

(* The acknowledgement is refused because the inbox moved or its consumer  *)
(* ended, because the revision is not in the inbox or the checkpoint       *)
(* cannot be written: PrepareFails.                                        *)
SafePoint == AcceptReset \/ Capture \/ TakeSnapshot \/ Bind \/ Recapture
             \/ PrepareFails \/ Acknowledge

Next == Advance \/ Consumer \/ ConsumerFault \/ FellBehind \/ Approve \/ Activate
        \/ Deactivate \/ Crash \/ SafePoint

(* The consumer thread and the server's stream keep running; nothing is    *)
(* assumed of the user, of the publishers or of the network.               *)
Spec == Init /\ [][Next]_vars /\ WF_vars(Consumer)

(***************************************************************************)
(* No revision is skipped: the inbox holds exactly the revisions between   *)
(* the durable cursor and what has been received, and the cursor only ever *)
(* moves to the revision of the input that a worker is given or to one     *)
(* that the user approved, through reconnections, resets, cancelled safe   *)
(* points and crashes.                                                     *)
(***************************************************************************)
Contiguous ==
    cons.state # "closed" =>
        /\ cons.consumed = saved /\ cons.received <= Tip
        /\ cons.pending = [i \in 1..(cons.received - saved) |-> saved + i]

NoSkippedRevision ==
    /\ []Contiguous
    /\ [][saved' # saved => saved' \in {prep.snap, run.base}]_vars

(***************************************************************************)
(* A consumer that runs catches up with the hub, unless its inbox is full, *)
(* or it reaches a state that needs the user, or its worker ends.          *)
(***************************************************************************)
CatchesUp ==
    cons.state \in Runnable ~>
        \/ cons.state \notin Runnable
        \/ cons.received = Tip
        \/ cons.state = "inbox_full" /\ Full
=============================================================================
