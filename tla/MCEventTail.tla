---------------------------- MODULE MCEventTail ----------------------------
(***************************************************************************)
(* TLC instance of EventTail: behaviours in which one reader, a streamer   *)
(* or a plain reader that waits without a timeout, is still to come, and   *)
(* the others have opened, been closed and left.                           *)
(***************************************************************************)
EXTENDS EventTail

\* Every reader replays the Run from its first event.
FromStart == [t \in Tails |-> 0]

OneReaderInit ==
  \E one \in Tails :
    /\ log = <<>> /\ owed = 0
    /\ prod = [p \in Producers |-> Idle]
    /\ subscribers = {}
    /\ sub = [t \in Tails |-> [dirty |-> FALSE, closed |-> t # one, latest |-> 0]]
    /\ tail = [t \in Tails |-> [cursor |-> AfterSeq[t], closed |-> t # one]]
    /\ pc = [t \in Tails |-> IF t = one THEN "new" ELSE "done"]
    /\ closer = [t \in Tails |-> IF t \in Waiters \ {one} THEN "done" ELSE "idle"]
    /\ stop = [t \in Tails |-> t \in Streamers \ {one}]
    /\ final = [t \in Tails |-> t \in Streamers \ {one}]
    /\ late = [t \in Tails |-> FALSE]
    /\ pending = [t \in Tails |-> NothingPending]
    /\ emitted = [t \in Tails |-> NothingPending]
    /\ delivered = [t \in Tails |-> <<>>]
    /\ stopLen = [t \in Tails |-> 0]
    /\ torn = [t \in Tails |-> FALSE]

OneReaderSpec == OneReaderInit /\ [][Next]_vars /\ Fairness
=============================================================================
