---------------------------- MODULE EventStream ----------------------------
(***************************************************************************)
(* What RunRuntime promises to a reader of one Run's event log, without    *)
(* saying how: the log only grows, and each tail is handed the log's       *)
(* events after its start position, in order, none skipped and none twice. *)
(* EventTail (bus + store + DurableEventTail + ActivityStreamer) is shown  *)
(* to implement this module.                                               *)
(***************************************************************************)
EXTENDS Naturals, Sequences

CONSTANTS Tails,      \* the readers
          AfterSeq    \* AfterSeq[t]: the seq after which reader t starts

VARIABLES log,        \* the events of the Run, log[i] has seq i
          delivered   \* delivered[t]: the events reader t was handed so far

streamVars == <<log, delivered>>

Start == /\ log = <<>>
         /\ delivered = [t \in Tails |-> <<>>]

\* A writer commits one event or a batch: what was there stays there.
Grow == /\ Len(log') >= Len(log)
        /\ \A i \in 1..Len(log) : log'[i] = log[i]
        /\ UNCHANGED delivered

\* Reader t is handed the next events of the log, at least one.
Hand(t) ==
  LET at == AfterSeq[t] + Len(delivered[t]) IN
  \E n \in 1..(Len(log) - at) :
     /\ delivered' = [delivered EXCEPT
                        ![t] = @ \o [i \in 1..n |-> log[at + i]]]
     /\ UNCHANGED log

StreamNext == Grow \/ \E t \in Tails : Hand(t)

StreamSpec == Start /\ [][StreamNext]_streamVars
=============================================================================
