------------------------------- MODULE CollabCommands -------------------------------
(***************************************************************************)
(* What the members do to the hub: the owner's and the CLI's writes, one   *)
(* member's task-status command (preview/confirm_task_status in host.py,   *)
(* commands.py, the /v1/task-status route of transport.py), and the        *)
(* delivery of that member's run as a proposal (delivery.py,               *)
(* proposals.py).                                                          *)
(***************************************************************************)
EXTENDS CollabHub

CONSTANT Deliverer      \* the process that publishes this run's proposal

ASSUME DeliveryAssumption == Deliverer \in Procs \ {Coordinator}

VARIABLES cmd,          \* the member's status command
          ticket        \* the publication preview, spent by its confirmation

vars == <<hub, props, proc, faults, cmd, ticket>>
rest == <<cmd, ticket>>

Assigned(r) == hub[r].state.owner = Self /\ hub[r].state.status = "queued"

NoTicket == [seen |-> 0, expected |-> 0]

Init ==
    /\ HubInit
    /\ cmd = [state |-> "none", expected |-> 0, status |-> "none", queued |-> FALSE]
    /\ ticket = NoTicket

(***************************************************************************)
(* A status command: a reviewed ticket, spent once, sent once.             *)
(***************************************************************************)
PreviewStatus ==
    /\ cmd.state = "none" /\ Assigned(Tip)
    /\ \E s \in Statuses :
         cmd' = [cmd EXCEPT !.state = "ticket", !.expected = Tip, !.status = s]
    /\ UNCHANGED <<hub, props, proc, faults, ticket>>

(* Activation, reapproval and closing invalidate the ticket; confirming    *)
(* while active is refused.                                                *)
DiscardTicket ==
    /\ cmd.state = "ticket"
    /\ cmd' = [cmd EXCEPT !.state = "none"]
    /\ UNCHANGED <<hub, props, proc, faults, ticket>>

(* The request is sent, or the connection fails before it is.              *)
ConfirmStatus ==
    /\ cmd.state = "ticket"
    /\ \/ cmd' = [cmd EXCEPT !.state = "sent", !.queued = TRUE] /\ UNCHANGED faults
       \/ /\ faults < MaxFaults /\ faults' = faults + 1
          /\ cmd' = [cmd EXCEPT !.state = "refused"]
    /\ UNCHANGED <<hub, props, proc, ticket>>

Serve ==
    /\ cmd.queued /\ cmd' = [cmd EXCEPT !.queued = FALSE]
    /\ Request(Coordinator, "status", Self, cmd.status, cmd.expected, 1)
    /\ UNCHANGED <<hub, props, faults, ticket>>

(* 200; 400, 401, 403 and 409 are certain; 500 and 503 are not, for a      *)
(* failed push may have landed.                                            *)
(* Mutation: a server error counts as a refusal.                           *)
FailureIsRefusal(answer) == IF answer = "done" THEN "ok" ELSE "refused"

Outcome(answer) ==
    CASE answer = "done" -> "ok" [] answer = "refused" -> "refused" [] OTHER -> "unknown"

Reply ==
    LET answer == proc[Coordinator].pc IN
    /\ answer \in {"done", "refused", "failed"}
    /\ cmd' = [cmd EXCEPT !.state = IF @ = "sent" THEN Outcome(answer) ELSE @]
    /\ proc' = [proc EXCEPT ![Coordinator] = Rest]
    /\ UNCHANGED <<hub, props, faults, ticket>>

(* The client's socket times out or breaks after the request was begun; it *)
(* may yet be served, or have been dropped unread.                         *)
ReplyLost ==
    /\ cmd.state = "sent" /\ faults < MaxFaults /\ faults' = faults + 1
    /\ \E q \in {FALSE, cmd.queued} : cmd' = [cmd EXCEPT !.state = "unknown", !.queued = q]
    /\ UNCHANGED <<hub, props, proc, ticket>>

(***************************************************************************)
(* Delivery of the run's result.                                           *)
(***************************************************************************)

(* The proposal is captured from the idle run's worktree under the binding *)
(* that its worker was given: some revision at which the task was active   *)
(* and this member's (RevisionInbox's Acknowledge).                        *)
PreviewPublication ==
    /\ ticket = NoTicket
    /\ \E r \in 1..Tip :
         /\ Assigned(r) /\ StillBound(r, hub[Tip].state)
         /\ ticket' = [seen |-> r, expected |-> Tip]
    /\ UNCHANGED <<hub, props, proc, faults, cmd>>

DiscardPublication ==
    /\ ticket # NoTicket
    /\ ticket' = NoTicket
    /\ UNCHANGED <<hub, props, proc, faults, cmd>>

ConfirmPublication ==
    /\ ticket # NoTicket
    /\ Request(Deliverer, "proposal", Self, ticket.seen, ticket.expected, 0)
    /\ ticket' = NoTicket
    /\ UNCHANGED <<hub, props, faults, cmd>>

Next ==
    \/ \E p \in Procs : HubStep(p) /\ UNCHANGED rest
    \/ \E p \in Procs : CliWrites(p) /\ UNCHANGED <<hub, props, faults, rest>>
    \/ OwnerWrites /\ UNCHANGED <<hub, props, faults, rest>>
    \/ PreviewStatus \/ DiscardTicket \/ ConfirmStatus \/ Serve \/ Reply \/ ReplyLost
    \/ PreviewPublication \/ DiscardPublication \/ ConfirmPublication

Spec == Init /\ [][Next]_vars

(***************************************************************************)
(* A command's answer can be trusted: one reported as refused is not on    *)
(* the hub and will not get there, one reported as done is on it, whatever *)
(* was lost between the hub, the server and the client.                    *)
(***************************************************************************)
CertainOutcome ==
    LET landed == \E n \in 1..Tip : hub[n].cmd # 0 IN
    /\ cmd.state = "ok" => landed
    /\ cmd.state \in {"none", "ticket", "refused"} => ~landed /\ proc[Coordinator].cmd = 0
=============================================================================
