---------------------------- MODULE InboxProofs ----------------------------
(***************************************************************************)
(* Proofs about a member's inbox of revisions: no revision is skipped, for *)
(* any capacity of the inbox, any replay window and any number of          *)
(* revisions, failures and crashes.                                        *)
(*                                                                         *)
(* The argument.  While the consumer is not closed, the inbox is the run   *)
(* of revisions from the durable cursor to what has been received (Chain); *)
(* it grows at its end by the one revision that continues it and shrinks   *)
(* at its front by an acknowledgement, and everything that could break it  *)
(* starts it afresh from the checkpoint or from an approved revision,      *)
(* neither of which is ahead of the hub (Cursors).                         *)
(***************************************************************************)
EXTENDS RevisionInbox, SequenceTheorems, TLAPS

Runs == [approved : BOOLEAN, active : BOOLEAN, consent : BOOLEAN, base : Nat, accepted : Nat]
States == Terminal \cup Runnable \cup {"closed", "stopped"}
Consumers == [state : States, consumed : Nat, received : Nat, pending : Seq(Nat)]
Preps == [pc : {"idle", "snap", "wait", "bound"}, consumed : Nat, captured : Seq(Nat), snap : Nat]

Typed ==
  /\ hub \in Seq(BOOLEAN) /\ Len(hub) > 0
  /\ saved \in Nat /\ wire \in Nat
  /\ run \in Runs /\ cons \in Consumers /\ prep \in Preps

\* The revisions that a cursor may be set to exist.
Cursors ==
  /\ saved <= Tip /\ run.base <= Tip /\ prep.snap <= Tip
  /\ run.active => run.approved
  /\ run.approved => run.base > 0
  /\ cons.state # "closed" => saved > 0

\* The inbox holds the revisions after the durable cursor, up to the last received one.
Chain ==
  cons.state # "closed" =>
    /\ cons.consumed = saved /\ saved <= cons.received /\ cons.received <= Tip
    /\ Len(cons.pending) = cons.received - saved
    /\ \A i \in 1..Len(cons.pending) : cons.pending[i] = saved + i

IInv == Typed /\ Cursors /\ Chain

\* A sequence is the function of its elements.
LEMMA SeqAsFunction ==
  ASSUME NEW s \in Seq(Nat), NEW n \in Nat, NEW k \in Nat, Len(s) = n,
         \A i \in 1..Len(s) : s[i] = k + i
  PROVE  s = [i \in 1..n |-> k + i]
OBVIOUS

\* The elements of a subsequence.
LEMMA SubSeqElements ==
  ASSUME NEW s, NEW m \in Int, NEW n \in Int, \A i \in m..n : s[i] \in Nat
  PROVE  \A i \in 1..(n - m + 1) : SubSeq(s, m, n)[i] = s[m + i - 1]
<1>1. /\ SubSeq(s, m, n) \in Seq(Nat)
      /\ Len(SubSeq(s, m, n)) = IF m <= n THEN n - m + 1 ELSE 0
      /\ \A i \in 1..n - m + 1 : SubSeq(s, m, n)[i] = s[m + i - 1]
  BY SubSeqProperties
<1> QED BY <1>1, Zenon

\* The front of the inbox up to position i is taken off.
LEMMA Prefix ==
  ASSUME NEW s \in Seq(Nat), NEW k \in Nat, NEW i \in DOMAIN s,
         \A j \in 1..Len(s) : s[j] = k + j
  PROVE  LET t == SubSeq(s, i + 1, Len(s)) IN
         /\ t \in Seq(Nat) /\ Len(t) = Len(s) - i
         /\ \A j \in 1..Len(t) : t[j] = (k + i) + j
<1>1. i \in Nat /\ i >= 1 /\ i <= Len(s) /\ Len(s) \in Nat /\ i \in 1..Len(s)
  OBVIOUS
<1> DEFINE t == SubSeq(s, i + 1, Len(s))
<1>2. Len(t) = Len(s) - i /\ Len(t) \in Nat
  BY <1>1, SMTT(30)
<1>3. ASSUME NEW j \in 1..(Len(s) - i) PROVE t[j] = s[i + j] /\ i + j \in 1..Len(s)
  <2>1. j \in Nat /\ j >= 1 /\ j <= Len(s) - i
    BY <1>1
  <2>2. (i + 1) + j - 1 = i + j /\ i + j >= 1 /\ i + j <= Len(s) /\ i + j \in Nat
    BY <1>1, <2>1, SMTT(30)
  <2>3. i + 1 \in Int /\ Len(s) \in Int /\ \A x \in (i + 1)..Len(s) : s[x] \in Nat
    BY <1>1
  <2>4. \A k1 \in 1..(Len(s) - (i + 1) + 1) : t[k1] = s[(i + 1) + k1 - 1]
    BY <1>1, <2>3, SubSeqElements
  <2>5. j \in 1..(Len(s) - (i + 1) + 1)
    BY <1>1, <2>1
  <2> HIDE DEF t
  <2>6. t[j] = s[(i + 1) + j - 1]
    BY <2>4, <2>5
  <2> QED BY <2>2, <2>6
<1>4. \A j \in 1..Len(t) : t[j] = (k + i) + j
  <2> HIDE DEF t
  <2>1. SUFFICES ASSUME NEW j \in 1..Len(t) PROVE t[j] = (k + i) + j
    OBVIOUS
  <2>2. t[j] = s[i + j] /\ s[i + j] = k + (i + j)
    BY <1>2, <1>3 DEF t
  <2>3. j \in Nat
    BY <1>2
  <2> QED BY <1>1, <2>2, <2>3
<1>5. t \in Seq(Nat)
  BY <1>1
<1> QED BY <1>2, <1>4, <1>5

\* The revision that continues the chain is added.
LEMMA Extended ==
  ASSUME NEW s \in Seq(Nat), NEW k \in Nat, NEW r \in Nat, r = k + Len(s) + 1,
         \A j \in 1..Len(s) : s[j] = k + j
  PROVE  /\ Append(s, r) \in Seq(Nat) /\ Len(Append(s, r)) = Len(s) + 1
         /\ \A j \in 1..Len(Append(s, r)) : Append(s, r)[j] = k + j
<1> DEFINE t == Append(s, r)
<1>1. t \in Seq(Nat) /\ Len(t) = Len(s) + 1 /\ Len(s) \in Nat
  OBVIOUS
<1>2. t[Len(s) + 1] = r /\ \A j \in 1..Len(s) : t[j] = s[j]
  OBVIOUS
<1> HIDE DEF t
<1>3. ASSUME NEW j \in 1..Len(t) PROVE t[j] = k + j
  <2>1. CASE j \in 1..Len(s)
    BY <1>2, <2>1
  <2>2. CASE j = Len(s) + 1
    BY <1>1, <1>2, <2>2
  <2> QED BY <1>1, <2>1, <2>2
<1> QED BY <1>1, <1>3 DEF t

\* The invariant at the beginning.
LEMMA InvInit == Init => IInv
<1> SUFFICES ASSUME Init PROVE IInv
  OBVIOUS
<1>1. hub \in Seq(BOOLEAN) /\ Len(hub) = 1
  <2>1. ASSUME NEW b \in BOOLEAN PROVE <<b>> \in Seq(BOOLEAN) /\ Len(<<b>>) = 1
    OBVIOUS
  <2>2. hub = <<FALSE>> \/ hub = <<TRUE>>
    BY DEF Init
  <2>3. <<FALSE>> \in Seq(BOOLEAN) /\ <<TRUE>> \in Seq(BOOLEAN)
    BY <2>1
  <2> QED BY <2>1, <2>2, <2>3
<1>2. run \in Runs /\ cons \in Consumers /\ prep \in Preps
  <2>1. <<>> \in Seq(Nat)
    OBVIOUS
  <2> QED BY <2>1 DEF Init, Runs, States, Consumers, Preps, NoPrep
<1>3. Typed
  BY <1>1, <1>2 DEF Init, Typed
<1>4. Cursors /\ Chain
  BY <1>1 DEF Init, Cursors, Chain, NoPrep, Tip
<1> QED BY <1>3, <1>4 DEF IInv

\* The hub has at least one revision.
LEMMA TipPositive == ASSUME Typed PROVE Tip \in Nat /\ Tip > 0
BY DEF Typed, Tip

\* Publishing moves only the tip.
LEMMA AdvanceStep == ASSUME IInv, Advance PROVE IInv'
<1>1. PICK mine \in BOOLEAN : hub' = Append(hub, mine)
  BY DEF Advance
<1>2. UNCHANGED <<saved, run, cons, wire, prep>>
  BY DEF Advance
<1>3. Len(hub) \in Nat /\ Len(hub') = Len(hub) + 1 /\ hub' \in Seq(BOOLEAN)
  BY <1>1 DEF IInv, Typed
<1>4. Typed'
  BY <1>2, <1>3 DEF IInv, Typed
<1>5. saved \in Nat /\ run.base \in Nat /\ prep.snap \in Nat /\ cons.received \in Nat
  BY DEF IInv, Typed, Runs, Preps, Consumers
<1>6. Cursors' /\ Chain'
  BY <1>2, <1>3, <1>5 DEF IInv, Cursors, Chain, Tip
<1> QED BY <1>4, <1>6 DEF IInv

\* A consumer that changes its state only, and does not open.
LEMMA StateStep ==
  ASSUME IInv, UNCHANGED <<hub, saved, run, prep>>, wire' \in Nat, NEW s \in States,
         cons' = [cons EXCEPT !.state = s], cons.state # "closed" \/ s = "closed"
  PROVE  IInv'
<1>1. cons \in Consumers
  BY DEF IInv, Typed
<1>2. /\ cons' \in Consumers /\ cons'.state = s /\ cons'.consumed = cons.consumed
      /\ cons'.received = cons.received /\ cons'.pending = cons.pending
  BY <1>1 DEF Consumers
<1>3. Typed'
  BY <1>2 DEF IInv, Typed
<1>4. Cursors' /\ Chain'
  BY <1>2 DEF IInv, Cursors, Chain, Tip
<1> QED BY <1>3, <1>4 DEF IInv

\* Connect, park, unpark, faults of the connection, the end of a worker's consumer.
LEMMA ConnectionSteps ==
  ASSUME IInv, Connect \/ Park \/ Unpark \/ ConsumerFault \/ FellBehind
  PROVE  IInv'
<1>1. cons.received \in Nat /\ wire \in Nat
  BY DEF IInv, Typed, Consumers
<1>2. CASE Connect
  BY <1>1, <1>2, StateStep DEF Connect, States, Terminal, Runnable
<1>3. CASE Park
  BY <1>1, <1>3, StateStep DEF Park, States, Runnable
<1>4. CASE Unpark
  BY <1>1, <1>4, StateStep DEF Unpark, States, Runnable
<1>5. CASE ConsumerFault
  <2>1. PICK s \in {"retrying", "access_denied", "server_error"} : cons' = [cons EXCEPT !.state = s]
    BY <1>5 DEF ConsumerFault
  <2>2. cons.state # "closed" /\ UNCHANGED <<hub, saved, run, prep, wire>>
    BY <1>5 DEF ConsumerFault, Runnable
  <2> QED BY <1>1, <2>1, <2>2, StateStep DEF States, Terminal, Runnable
<1>6. CASE FellBehind
  BY <1>1, <1>6, StateStep DEF FellBehind, States, Terminal
<1> QED BY <1>2, <1>3, <1>4, <1>5, <1>6

\* A delivered event continues the chain, or ends the consumer.
LEMMA DeliverStep == ASSUME IInv, Deliver PROVE IInv'
<1>1. /\ cons \in Consumers /\ wire \in Nat /\ Tip \in Nat /\ cons.received \in Nat
      /\ cons.pending \in Seq(Nat) /\ saved \in Nat
  BY DEF IInv, Typed, Tip, Consumers
<1>2. /\ cons.state = "streaming" /\ wire < Tip /\ wire' = wire + 1
      /\ UNCHANGED <<hub, saved, run, prep>>
  BY DEF Deliver
<1>3. CASE wire = cons.received
  <2>1. cons' = [cons EXCEPT !.pending = Append(cons.pending, wire + 1), !.received = wire + 1]
    BY <1>3 DEF Deliver
  <2>2. /\ saved <= cons.received /\ Len(cons.pending) = cons.received - saved
        /\ \A i \in 1..Len(cons.pending) : cons.pending[i] = saved + i
        /\ cons.consumed = saved
    BY <1>2 DEF IInv, Chain
  <2>3. wire + 1 = saved + Len(cons.pending) + 1 /\ wire + 1 \in Nat
    BY <1>1, <1>3, <2>2
  <2>4. /\ Append(cons.pending, wire + 1) \in Seq(Nat)
        /\ Len(Append(cons.pending, wire + 1)) = Len(cons.pending) + 1
        /\ \A j \in 1..Len(Append(cons.pending, wire + 1)) :
              Append(cons.pending, wire + 1)[j] = saved + j
    BY <1>1, <2>2, <2>3, Extended
  <2>5. /\ cons' \in Consumers /\ cons'.state = cons.state /\ cons'.consumed = cons.consumed
        /\ cons'.received = wire + 1 /\ cons'.pending = Append(cons.pending, wire + 1)
    BY <1>1, <2>1, <2>3, <2>4 DEF Consumers
  <2>6. Typed'
    BY <1>1, <1>2, <2>5 DEF IInv, Typed
  <2>7. Cursors'
    BY <1>2, <2>5 DEF IInv, Cursors, Tip
  <2>8. saved <= wire + 1 /\ wire + 1 <= Tip /\ Len(cons.pending) + 1 = (wire + 1) - saved
    BY <1>1, <1>2, <1>3, <2>2
  <2>9. Chain'
    BY <1>2, <2>2, <2>4, <2>5, <2>8 DEF Chain, Tip
  <2> QED BY <2>6, <2>7, <2>9 DEF IInv
<1>4. CASE wire # cons.received
  <2>1. cons' = [cons EXCEPT !.state = "protocol_error"] /\ "protocol_error" \in States
    BY <1>4 DEF Deliver, States, Terminal
  <2>2. wire' \in Nat
    BY <1>1, <1>2
  <2> QED BY <1>2, <2>1, <2>2, StateStep
<1> QED BY <1>3, <1>4

\* A consumer that begins afresh at a revision that exists.
LEMMA FreshStep ==
  ASSUME IInv, UNCHANGED <<hub, wire, prep>>, NEW s \in States,
         saved' \in Nat, saved' > 0, saved' <= Tip,
         cons' = [state |-> s, consumed |-> saved', received |-> saved', pending |-> <<>>],
         run' \in Runs, run'.base = run.base, run'.approved, run.approved
  PROVE  IInv'
<1>1. cons' \in Consumers
  BY DEF Consumers
<1>2. Typed'
  BY <1>1 DEF IInv, Typed
<1>3. /\ cons'.consumed = saved' /\ cons'.received = saved' /\ cons'.pending = <<>>
  OBVIOUS
<1>4. Chain'
  <2>1. Len(cons'.pending) = 0 /\ cons'.received - saved' = 0 /\ saved' <= Len(hub')
    BY <1>3 DEF Tip
  <2>2. cons'.consumed = saved' /\ saved' <= cons'.received /\ cons'.received <= Len(hub')
    BY <1>3, <2>1
  <2>3. \A i \in 1..Len(cons'.pending) : FALSE
    BY <2>1
  <2> QED BY <1>3, <2>1, <2>2, <2>3 DEF Chain, Tip
<1>5. Cursors'
  BY DEF IInv, Cursors, Tip
<1> QED BY <1>2, <1>4, <1>5 DEF IInv

\* The steps of the run's session.
LEMMA SessionSteps ==
  ASSUME IInv, Approve \/ Activate \/ Deactivate \/ Crash
  PROVE  IInv'
<1>1. /\ Typed /\ run \in Runs /\ cons \in Consumers /\ saved \in Nat /\ wire \in Nat
      /\ Tip \in Nat /\ run.base \in Nat
  BY DEF IInv, Typed, Tip, Runs
<1>2. CASE Approve
  <2>1. PICK r \in 1..Tip, reset \in BOOLEAN :
          run' = [run EXCEPT !.approved = TRUE, !.base = r, !.consent = reset]
    BY <1>2 DEF Approve
  <2>2. UNCHANGED <<hub, saved, cons, wire, prep>>
    BY <1>2 DEF Approve
  <2>3. r \in Nat /\ r > 0 /\ r <= Tip
    BY <1>1, <2>1
  <2>4. run' \in Runs /\ run'.base = r
    BY <1>1, <2>1, <2>3 DEF Runs
  <2>5. Typed'
    BY <1>1, <2>2, <2>4 DEF Typed
  <2>6. run'.approved
    BY <1>1, <2>1 DEF Runs
  <2>7. Cursors'
    BY <2>2, <2>3, <2>4, <2>6 DEF IInv, Cursors, Tip
  <2>8. Chain'
    BY <2>2 DEF IInv, Chain, Tip
  <2> QED BY <2>5, <2>7, <2>8 DEF IInv
<1>3. CASE Activate
  <2>1. run' \in Runs /\ run'.base = run.base /\ run'.approved /\ run.approved
    BY <1>1, <1>3 DEF Activate, Runs
  <2>2. saved' \in Nat /\ saved' > 0 /\ saved' <= Tip
    BY <1>1, <1>3 DEF Activate, IInv, Cursors
  <2>3. ASSUME NEW s \in States, UNCHANGED <<hub, wire, prep>>,
               cons' = [state |-> s, consumed |-> saved', received |-> saved', pending |-> <<>>]
        PROVE  IInv'
    BY <2>1, <2>2, <2>3, FreshStep
  <2>4. UNCHANGED <<hub, wire, prep>>
    BY <1>3 DEF Activate
  <2>5. (IF run.consent THEN "stopped" ELSE "connecting") \in States
    BY DEF States, Runnable
  <2> QED BY <1>3, <2>3, <2>4, <2>5 DEF Activate
<1>4. CASE Deactivate
  <2>1. run' \in Runs /\ run'.base = run.base /\ ~run'.active /\ (run'.approved => run.approved)
    BY <1>1, <1>4 DEF Deactivate, Runs
  <2>2. cons' \in Consumers /\ cons'.state = "closed"
    BY <1>1, <1>4 DEF Deactivate, Consumers, States
  <2>3. UNCHANGED <<hub, saved, wire, prep>>
    BY <1>4 DEF Deactivate
  <2>4. Typed'
    BY <1>1, <2>1, <2>2, <2>3 DEF Typed
  <2>5. Cursors' /\ Chain'
    BY <2>1, <2>2, <2>3 DEF IInv, Cursors, Chain, Tip
  <2> QED BY <2>4, <2>5 DEF IInv
<1>5. CASE Crash
  <2>1. run' \in Runs /\ run'.base = run.base /\ ~run'.approved /\ ~run'.active
    BY <1>1, <1>5 DEF Crash, Runs
  <2>2. cons' \in Consumers /\ cons'.state = "closed"
    <3>1. cons' = [cons EXCEPT !.state = "closed", !.pending = <<>>, !.consumed = saved, !.received = saved]
      BY <1>5 DEF Crash
    <3>2. <<>> \in Seq(Nat) /\ "closed" \in States
      BY DEF States
    <3> QED BY <1>1, <3>1, <3>2 DEF Consumers
  <2>3. UNCHANGED <<hub, saved, wire>> /\ prep' = NoPrep
    BY <1>5 DEF Crash
  <2>4. prep' \in Preps /\ prep'.snap = 0
    <3>1. <<>> \in Seq(Nat)
      OBVIOUS
    <3> QED BY <2>3, <3>1 DEF NoPrep, Preps
  <2>5. Typed'
    BY <1>1, <2>1, <2>2, <2>3, <2>4 DEF Typed
  <2>6. Cursors' /\ Chain'
    BY <1>1, <2>1, <2>2, <2>3, <2>4 DEF IInv, Cursors, Chain, Tip
  <2> QED BY <2>5, <2>6 DEF IInv
<1> QED BY <1>2, <1>3, <1>4, <1>5

\* A safe point that does not touch the inbox.
LEMMA PrepStep ==
  ASSUME IInv, UNCHANGED <<hub, saved, run, cons, wire>>, prep' \in Preps, prep'.snap <= Tip
  PROVE  IInv'
BY DEF IInv, Typed, Cursors, Chain, Tip

\* Capture, snapshot, binding and their failures.
LEMMA PrepareSteps ==
  ASSUME IInv, Capture \/ TakeSnapshot \/ Bind \/ Recapture \/ PrepareFails
  PROVE  IInv'
<1>1. /\ prep \in Preps /\ cons \in Consumers /\ Tip \in Nat /\ prep.snap <= Tip
      /\ cons.consumed \in Nat /\ cons.pending \in Seq(Nat)
  BY DEF IInv, Typed, Tip, Cursors, Consumers
<1>2. UNCHANGED <<hub, saved, run, cons, wire>>
  BY DEF Capture, TakeSnapshot, Bind, Recapture, PrepareFails
<1>3. CASE Capture
  <2>1. prep' = [pc |-> "snap", consumed |-> cons.consumed, captured |-> cons.pending, snap |-> 0]
    BY <1>3 DEF Capture
  <2>2. prep' \in Preps /\ prep'.snap <= Tip
    BY <1>1, <2>1 DEF Preps
  <2> QED BY <1>2, <2>2, PrepStep
<1>4. CASE TakeSnapshot
  <2>1. prep' = [prep EXCEPT !.pc = "wait", !.snap = Tip]
    BY <1>4 DEF TakeSnapshot
  <2>2. prep'.snap = Tip /\ prep' \in Preps
    BY <1>1, <2>1 DEF Preps
  <2>3. prep'.snap <= Tip
    BY <1>1, <2>2
  <2> QED BY <1>2, <2>2, <2>3, PrepStep
<1>5. CASE Bind
  <2>1. prep' = [prep EXCEPT !.pc = "bound"]
    BY <1>5 DEF Bind
  <2>2. prep' \in Preps /\ prep'.snap <= Tip
    BY <1>1, <2>1 DEF Preps
  <2> QED BY <1>2, <2>2, PrepStep
<1>6. CASE Recapture
  <2>1. prep' = [prep EXCEPT !.pc = "snap", !.captured = cons.pending]
    BY <1>6 DEF Recapture
  <2>2. prep' \in Preps /\ prep'.snap <= Tip
    BY <1>1, <2>1 DEF Preps
  <2> QED BY <1>2, <2>2, PrepStep
<1>7. CASE PrepareFails
  <2>1. prep' \in Preps /\ prep'.snap <= Tip
    BY <1>1, <1>7 DEF PrepareFails, NoPrep, Preps
  <2> QED BY <1>2, <2>1, PrepStep
<1> QED BY <1>3, <1>4, <1>5, <1>6, <1>7

\* The reset that the user consented to.
LEMMA ResetStep == ASSUME IInv, AcceptReset PROVE IInv'
<1>1. run \in Runs /\ run.base \in Nat /\ Tip \in Nat
  BY DEF IInv, Typed, Runs, Tip
<1>2. PICK s \in {"connecting", "stopped"} :
        cons' = [state |-> s, consumed |-> run.base, received |-> run.base, pending |-> <<>>]
  BY DEF AcceptReset
<1>3. /\ saved' = run.base /\ UNCHANGED <<hub, wire, prep>>
      /\ run' = [run EXCEPT !.consent = FALSE] /\ run.active
  BY DEF AcceptReset
<1>4. run.approved /\ run.base > 0 /\ run.base <= Tip
  BY <1>3 DEF IInv, Cursors
<1>5. run' \in Runs /\ run'.base = run.base /\ run'.approved
  BY <1>1, <1>3, <1>4 DEF Runs
<1>6. s \in States
  BY DEF States, Runnable
<1> QED BY <1>1, <1>2, <1>3, <1>4, <1>5, <1>6, FreshStep

\* An acknowledgement takes the front of the inbox off.
LEMMA AcknowledgeStep == ASSUME IInv, Acknowledge PROVE IInv'
<1>1. /\ run \in Runs /\ cons \in Consumers /\ prep \in Preps /\ Tip \in Nat /\ saved \in Nat
      /\ cons.received \in Nat /\ cons.consumed \in Nat /\ cons.pending \in Seq(Nat)
      /\ Len(cons.pending) \in Nat
  BY DEF IInv, Typed, Tip, Consumers
<1>2. UNCHANGED <<hub, wire>> /\ prep' = NoPrep /\ cons.state # "closed" /\ Consume(prep.snap)
  BY DEF Acknowledge, StillUsable, Runnable, AckRevision
<1>3. prep' \in Preps /\ prep'.snap = 0
  <2>1. <<>> \in Seq(Nat)
    OBVIOUS
  <2> QED BY <1>2, <2>1 DEF NoPrep, Preps
<1>4. /\ run' \in Runs /\ run'.base = run.base /\ run'.approved = run.approved
      /\ run'.active = run.active
  <2>1. PICK a \in {prep.snap, run.accepted} : run' = [run EXCEPT !.accepted = a]
    BY DEF Acknowledge
  <2>2. a \in Nat
    BY <1>1 DEF Preps, Runs
  <2> QED BY <1>1, <2>1, <2>2 DEF Runs
<1>5. CASE UNCHANGED <<saved, cons>>
  <2>1. Typed'
    BY <1>2, <1>3, <1>4, <1>5 DEF IInv, Typed
  <2>2. Cursors' /\ Chain'
    BY <1>1, <1>2, <1>3, <1>4, <1>5 DEF IInv, Cursors, Chain, Tip
  <2> QED BY <2>1, <2>2 DEF IInv
<1>6. ASSUME NEW i \in DOMAIN cons.pending, cons.pending[i] = prep.snap, saved' = prep.snap,
             cons' = [cons EXCEPT !.consumed = prep.snap,
                                  !.pending = SubSeq(cons.pending, i + 1, Len(cons.pending))]
      PROVE  IInv'
  <2>1. /\ cons.consumed = saved /\ saved <= cons.received /\ cons.received <= Tip
        /\ Len(cons.pending) = cons.received - saved
        /\ \A j \in 1..Len(cons.pending) : cons.pending[j] = saved + j
    BY <1>2 DEF IInv, Chain
  <2>2. i \in 1..Len(cons.pending) /\ i \in Nat
    BY <1>1
  <2>3. prep.snap = saved + i /\ prep.snap \in Nat
    BY <1>1, <1>6, <2>1, <2>2
  <2> DEFINE t == SubSeq(cons.pending, i + 1, Len(cons.pending))
  <2>4. /\ t \in Seq(Nat) /\ Len(t) = Len(cons.pending) - i
        /\ \A j \in 1..Len(t) : t[j] = (saved + i) + j
    BY <1>1, <2>1, Prefix
  <2> HIDE DEF t
  <2>5. cons' = [cons EXCEPT !.consumed = prep.snap, !.pending = t]
    BY <1>6 DEF t
  <2>6. /\ cons' \in Consumers /\ cons'.state = cons.state /\ cons'.consumed = prep.snap
        /\ cons'.received = cons.received /\ cons'.pending = t
    BY <1>1, <2>3, <2>4, <2>5 DEF Consumers
  <2>7. Typed'
    BY <1>2, <1>3, <1>4, <1>6, <2>3, <2>6 DEF IInv, Typed
  <2>8. saved' = saved + i /\ saved' <= cons.received /\ Len(t) = cons.received - saved' /\ saved' > 0
    <3>1. Len(t) = Len(cons.pending) - i /\ i >= 1 /\ i <= Len(cons.pending)
      BY <2>2, <2>4, <1>1
    <3>2. Len(cons.pending) = cons.received - saved
      BY <2>1
    <3>3. saved' = prep.snap
      BY <1>6
    <3>4. saved' = saved + i /\ saved \in Nat /\ i \in Nat /\ cons.received \in Nat
      BY <1>1, <2>2, <2>3, <3>3
    <3> QED BY <3>1, <3>2, <3>4, SMTT(30)
  <2>9. Chain'
    BY <1>2, <1>6, <2>1, <2>4, <2>6, <2>8 DEF Chain, Tip
  <2>10. Cursors'
    BY <1>1, <1>2, <1>3, <1>4, <2>1, <2>8 DEF IInv, Cursors, Tip
  <2> QED BY <2>7, <2>9, <2>10 DEF IInv
<1> QED BY <1>2, <1>5, <1>6 DEF Consume

-----------------------------------------------------------------------------
(* The theorem.                                                            *)

\* Every step keeps the invariant.
LEMMA InvStep == IInv /\ [Next]_vars => IInv'
<1> SUFFICES ASSUME IInv, [Next]_vars PROVE IInv'
  OBVIOUS
<1>1. CASE Advance
  BY <1>1, AdvanceStep
<1>2. CASE Deliver
  BY <1>2, DeliverStep
<1>3. CASE Connect \/ Park \/ Unpark \/ ConsumerFault \/ FellBehind
  BY <1>3, ConnectionSteps
<1>4. CASE Approve \/ Activate \/ Deactivate \/ Crash
  BY <1>4, SessionSteps
<1>5. CASE Capture \/ TakeSnapshot \/ Bind \/ Recapture \/ PrepareFails
  BY <1>5, PrepareSteps
<1>6. CASE AcceptReset
  BY <1>6, ResetStep
<1>7. CASE Acknowledge
  BY <1>7, AcknowledgeStep
<1>8. CASE UNCHANGED vars
  BY <1>8 DEF vars, IInv, Typed, Cursors, Chain, Tip
<1> QED BY <1>1, <1>2, <1>3, <1>4, <1>5, <1>6, <1>7, <1>8 DEF Next, Consumer, SafePoint

\* The inbox, as the property states it.
LEMMA InboxContiguous == IInv => Contiguous
<1> SUFFICES ASSUME IInv, cons.state # "closed"
             PROVE  /\ cons.consumed = saved /\ cons.received <= Tip
                    /\ cons.pending = [i \in 1..(cons.received - saved) |-> saved + i]
  BY DEF Contiguous
<1>1. /\ cons.consumed = saved /\ saved <= cons.received /\ cons.received <= Tip
      /\ Len(cons.pending) = cons.received - saved
      /\ \A i \in 1..Len(cons.pending) : cons.pending[i] = saved + i
  BY DEF IInv, Chain
<1>2. cons.pending \in Seq(Nat) /\ saved \in Nat /\ cons.received - saved \in Nat
  <2>1. cons.pending \in Seq(Nat) /\ saved \in Nat
    BY DEF IInv, Typed, Consumers
  <2> QED BY <1>1, <2>1
<1>3. cons.pending = [i \in 1..(cons.received - saved) |-> saved + i]
  BY <1>1, <1>2, SeqAsFunction
<1> QED BY <1>1, <1>3

\* The durable cursor moves only to the input of a worker or to what the user approved.
LEMMA CursorMoves ==
  ASSUME IInv, [Next]_vars, saved' # saved
  PROVE  saved' \in {prep.snap, run.base}
<1>1. CASE Acknowledge
  BY <1>1 DEF Acknowledge, Consume, AckRevision
<1>2. CASE AcceptReset \/ Activate
  BY <1>2 DEF AcceptReset, Activate
<1>3. ~UNCHANGED saved
  OBVIOUS
<1> QED BY <1>1, <1>2, <1>3 DEF Next, vars, Consumer, SafePoint, Advance, Deliver, Connect, Park,
           Unpark, ConsumerFault, FellBehind, Approve, Deactivate, Crash, Capture, TakeSnapshot,
           Bind, Recapture, PrepareFails

\* What every reachable state satisfies.
THEOREM Invariance == Spec => []IInv
BY InvInit, InvStep, PTL DEF Spec

\* No revision is skipped: the inbox is always the unbroken run of revisions after the
\* durable cursor, which itself only moves to the input a worker was given or to what
\* the user approved, through reconnections, resets, cancelled safe points and crashes.
THEOREM NothingSkipped == Spec => NoSkippedRevision
<1>1. IInv /\ [Next]_vars => [saved' # saved => saved' \in {prep.snap, run.base}]_vars
  BY CursorMoves
<1> QED BY <1>1, InboxContiguous, Invariance, PTL DEF Spec, NoSkippedRevision
=============================================================================
