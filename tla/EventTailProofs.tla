-------------------------- MODULE EventTailProofs --------------------------
(***************************************************************************)
(* For any number of producers and readers, any page limit and any log     *)
(* bound: EventTail keeps its types, a blocked reader never misses an      *)
(* event, and the tail implements EventStream.                             *)
(***************************************************************************)
EXTENDS EventTail, WellFoundedInduction, TLAPS

\* The reader owns a live subscription between subscribe() and close().
Live(t) == pc[t] \in {"verify", "loop", "check", "query", "wait", "tick", "flush"}

\* The store numbers events 1, 2, 3, ... and owed is the seq of one of them.
Numbering == /\ owed <= Len(log)
             /\ \A i \in 1..Len(log) : log[i].seq = i

\* close() by another thread has always set the tail's flag first.
CloserFlagged == \A t \in Tails : closer[t] # "idle" => tail[t].closed

\* A reader that has not subscribed has nothing to close.
Fresh == \A t \in Tails : pc[t] = "new" => closer[t] = "idle" /\ ~sub[t].closed

\* As long as its tail is open, a live reader is registered on the bus and
\* its subscription is open.
Registered ==
  \A t \in Tails : Live(t) /\ ~tail[t].closed => t \in subscribers /\ ~sub[t].closed

\* The cursor counts exactly what was handed out.
CursorCounts ==
  \A t \in Tails : tail[t].cursor = AfterSeq[t] + Len(delivered[t])

\* The states of a producer and of a subscription.
ProdState == [pc : {"idle", "publish", "notify"}, seq : Nat, todo : SUBSET Tails]
SubState == [dirty : BOOLEAN, closed : BOOLEAN, latest : Nat]

TailState == [cursor : Nat, closed : BOOLEAN]

-----------------------------------------------------------------------------
\* A non-empty set of positions of a page has a last one (dict overwriting in
\* ActivityStreamer._collect keeps exactly that one).
LEMMA MaxExists ==
  ASSUME NEW n \in Nat, NEW S, S \subseteq 1..n, S # {}
  PROVE  \E k \in S : \A j \in S : j <= k
<1> DEFINE R == {ss \in Nat \X Nat : ss[1] < ss[2]}
           T == {n - k : k \in S}
<1>1. IsWellFoundedOn(R, Nat)
  <2>1. OpToRel(<, Nat) = R
    BY DEF OpToRel
  <2> QED BY <2>1, NatLessThanWellFounded
<1>2. T \subseteq Nat /\ T # {}
  <2>1. \A k \in S : k \in 1..n
    OBVIOUS
  <2>2. \A k \in S : n - k \in Nat
    BY <2>1
  <2>3. PICK k \in S : TRUE
    OBVIOUS
  <2>4. n - k \in T
    BY <2>3
  <2> QED BY <2>2, <2>4
<1> HIDE DEF R, T
<1>3. PICK m \in T : \A y \in T : ~(<<y, m>> \in R)
  BY <1>1, <1>2, WFMin
<1>4. PICK k \in S : m = n - k
  BY DEF T
<1>5. \A j \in S : n - j \in T /\ n - j \in Nat /\ j \in Nat
  BY DEF T
<1>6. \A j \in S : ~(n - j < n - k)
  BY <1>3, <1>4, <1>5 DEF R
<1> QED BY <1>4, <1>5, <1>6

\* A batch numbered by the store is a sequence of events of the same length.
LEMMA NumberedType ==
  ASSUME TypeOK, NEW b \in Batches
  PROVE  /\ Len(b) \in Nat \ {0}
         /\ Numbered(b) \in Seq(Events)
         /\ Len(Numbered(b)) = Len(b)
         /\ \A i \in 1..Len(b) : Numbered(b)[i].seq = Len(log) + i
<1>1. PICK n \in 1..MaxBatch : b \in [1..n -> Items \cup {NoItem}]
  BY DEF Batches
<1>2. n \in Nat \ {0} /\ b \in Seq(Items \cup {NoItem}) /\ Len(b) = n
  BY <1>1, TailAssumption
<1>3. Len(log) \in Nat
  BY DEF TypeOK
<1>4. \A i \in 1..n : [seq |-> Len(log) + i, item |-> b[i]] \in Events
  BY <1>1, <1>2, <1>3 DEF Events
<1>5. Numbered(b) = [i \in 1..n |-> [seq |-> Len(log) + i, item |-> b[i]]]
  BY <1>2 DEF Numbered
<1> QED
  BY <1>2, <1>3, <1>4, <1>5

\* A page is a sequence of events; a non-empty one ends with the event whose
\* seq is the cursor plus its length.
LEMMA PageType ==
  ASSUME TypeOK, Numbering, NEW after \in Nat
  PROVE  /\ PageLen(after) \in Nat
         /\ Page(after) \in Seq(Events)
         /\ Len(Page(after)) = PageLen(after)
         /\ after + PageLen(after) <= Len(log) \/ PageLen(after) = 0
         /\ Page(after) = <<>> <=> after >= Len(log)
         /\ Page(after) # <<>> =>
              Page(after)[Len(Page(after))].seq = after + PageLen(after)
<1>1. Len(log) \in Nat /\ log \in [1..Len(log) -> Events]
  BY DEF TypeOK
<1>2. /\ PageLen(after) \in Nat
      /\ after + PageLen(after) <= Len(log) \/ PageLen(after) = 0
      /\ PageLen(after) = 0 <=> after >= Len(log)
  <2>1. PageLimit \in Nat /\ PageLimit > 0
    BY TailAssumption
  <2>2. CASE after >= Len(log)
    BY <1>1, <2>2 DEF PageLen
  <2>3. CASE after < Len(log)
    <3>1. PageLen(after) = MinOf(PageLimit, Len(log) - after)
      BY <1>1, <2>3 DEF PageLen
    <3>2. Len(log) - after \in Nat /\ Len(log) - after > 0
      BY <1>1, <2>3
    <3>3. \/ PageLen(after) = PageLimit /\ PageLimit < Len(log) - after
          \/ PageLen(after) = Len(log) - after
      BY <3>1 DEF MinOf
    <3> QED BY <1>1, <2>1, <2>3, <3>2, <3>3
  <2> QED BY <1>1, <2>2, <2>3
<1>3. \A i \in 1..PageLen(after) : log[after + i] \in Events /\ log[after + i].seq = after + i
  BY <1>1, <1>2 DEF Numbering
<1>4. Page(after) \in Seq(Events) /\ Len(Page(after)) = PageLen(after)
  BY <1>2, <1>3 DEF Page
<1>5. Page(after) = <<>> <=> PageLen(after) = 0
  BY <1>2, <1>4 DEF Page
<1> QED
  BY <1>2, <1>3, <1>4, <1>5 DEF Page

\* Appending numbered events keeps the numbering.
LEMMA GrowNumbering ==
  ASSUME TypeOK, Numbering, NEW b \in Batches, log' = log \o Numbered(b)
  PROVE  /\ log' \in Seq(Events)
         /\ Len(log') = Len(log) + Len(b)
         /\ \A i \in 1..Len(log') : log'[i].seq = i
         /\ \A i \in 1..Len(log) : log'[i] = log[i]
<1> DEFINE nb == Numbered(b)
<1>1. /\ Len(b) \in Nat \ {0} /\ nb \in Seq(Events) /\ Len(nb) = Len(b)
      /\ \A i \in 1..Len(b) : nb[i].seq = Len(log) + i
  BY NumberedType
<1>2. log \in Seq(Events) /\ Len(log) \in Nat
  BY DEF TypeOK
<1> HIDE DEF nb
<1>3. log' = log \o nb
  BY DEF nb
<1>4. log' \in Seq(Events) /\ Len(log') = Len(log) + Len(b)
  BY <1>1, <1>2, <1>3
<1>5. \A i \in 1..Len(log) : log'[i] = log[i]
  BY <1>1, <1>2, <1>3
<1>6. \A i \in (Len(log) + 1)..(Len(log) + Len(b)) : log'[i] = nb[i - Len(log)]
  BY <1>1, <1>2, <1>3
<1>7. \A i \in 1..Len(log') : log'[i].seq = i
  <2> SUFFICES ASSUME NEW i \in 1..Len(log') PROVE log'[i].seq = i
    OBVIOUS
  <2>1. CASE i <= Len(log)
    BY <1>2, <1>5, <2>1 DEF Numbering
  <2>2. CASE i > Len(log)
    <3>1. i \in (Len(log) + 1)..(Len(log) + Len(b)) /\ i - Len(log) \in 1..Len(b)
      BY <1>1, <1>2, <1>4, <2>2
    <3>2. log'[i] = nb[i - Len(log)]
      BY <1>6, <3>1
    <3>3. nb[i - Len(log)].seq = Len(log) + (i - Len(log))
      BY <1>1, <3>1
    <3> QED BY <1>2, <3>1, <3>2, <3>3
  <2> QED BY <1>2, <1>4, <2>1, <2>2
<1> QED BY <1>4, <1>5, <1>7

\* Collecting a page into the buffer keeps a seq per item.
LEMMA CollectedType ==
  ASSUME NEW page, Len(page) \in Nat, \A k \in 1..Len(page) : page[k].seq \in Nat,
         NEW buffer \in [Items -> Nat]
  PROVE  Collected(buffer, page) \in [Items -> Nat]
<1> SUFFICES ASSUME NEW i \in Items PROVE Collected(buffer, page)[i] \in Nat
  BY DEF Collected
<1> DEFINE hits == {k \in 1..Len(page) : page[k].item = i}
           last == CHOOSE k \in hits : \A j \in hits : j <= k
<1>1. Collected(buffer, page)[i] = IF hits = {} THEN buffer[i] ELSE page[last].seq
  BY DEF Collected
<1>2. CASE hits = {}
  BY <1>1, <1>2
<1>3. CASE hits # {}
  <2>1. \E k \in hits : \A j \in hits : j <= k
    <3>1. hits \subseteq 1..Len(page)
      OBVIOUS
    <3> HIDE DEF hits
    <3> QED BY <1>3, <3>1, MaxExists
  <2>2. last \in hits
    <3> HIDE DEF hits
    <3> QED BY <2>1
  <2> QED BY <1>1, <1>3, <2>2
<1> QED BY <1>2, <1>3

-----------------------------------------------------------------------------
\* The shape of the state and the numbering of the log, together inductive:
\* a cursor is a seq of the log only because the log is numbered.
TypeInv == TypeOK /\ Numbering

\* Setting a closed flag, in EventSubscription.close and in
\* DurableEventTail.close, keeps the type of the record it is in.
LEMMA SubscriptionCloses ==
  ASSUME NEW S \in [Tails -> SubState], NEW t \in Tails
  PROVE  [S EXCEPT ![t].closed = TRUE] \in [Tails -> SubState]
<1>1. S[t] \in SubState
  OBVIOUS
<1>2. [S[t] EXCEPT !.closed = TRUE] \in SubState
  BY <1>1 DEF SubState
<1> QED BY <1>2

LEMMA TailCloses ==
  ASSUME NEW T \in [Tails -> TailState], NEW t \in Tails
  PROVE  [T EXCEPT ![t].closed = TRUE] \in [Tails -> TailState]
<1>1. T[t] \in TailState
  OBVIOUS
<1>2. [T[t] EXCEPT !.closed = TRUE] \in TailState
  BY <1>1 DEF TailState
<1> QED BY <1>2

LEMMA InitTypeInv == Init => TypeInv
BY TailAssumption
   DEF Init, TypeInv, TypeOK, Numbering, Idle, NothingPending, ReaderPcs, Events

LEMMA StepTypeInv == TypeInv /\ [Next]_vars => TypeInv'
<1> SUFFICES ASSUME TypeOK, Numbering, [Next]_vars
             PROVE  TypeOK' /\ Numbering'
  BY DEF TypeInv
<1> USE DEF ReaderPcs
<1>1. ASSUME NEW p \in Producers, Commit(p) PROVE TypeOK' /\ Numbering'
  <2>1. PICK b \in Batches :
          /\ log' = log \o Numbered(b)
          /\ owed' = Len(log) + Len(b)
          /\ prod' = [prod EXCEPT ![p] = [pc |-> "publish", todo |-> {},
                                          seq |-> Len(log) + Len(b)]]
    BY <1>1 DEF Commit
  <2>2. Len(b) \in Nat /\ Len(log) \in Nat
    BY NumberedType DEF TypeOK
  <2>3. /\ log' \in Seq(Events) /\ Len(log') = Len(log) + Len(b)
        /\ \A i \in 1..Len(log') : log'[i].seq = i
    BY <2>1, GrowNumbering
  <2>4. owed' \in Nat /\ owed' <= Len(log')
    BY <2>1, <2>2, <2>3
  <2>5. prod' \in [Producers -> [pc : {"idle", "publish", "notify"},
                                 seq : Nat, todo : SUBSET Tails]]
    BY <2>1, <2>2 DEF TypeOK
  <2> QED BY <1>1, <2>3, <2>4, <2>5 DEF Commit, TypeOK, Numbering, busVars, streamVars
<1>2. ASSUME ForeignCommit PROVE TypeOK' /\ Numbering'
  <2>1. PICK b \in Batches : log' = log \o Numbered(b)
    BY <1>2 DEF ForeignCommit
  <2>2. Len(b) \in Nat /\ Len(log) \in Nat
    BY NumberedType DEF TypeOK
  <2>3. /\ log' \in Seq(Events) /\ Len(log') = Len(log) + Len(b)
        /\ \A i \in 1..Len(log') : log'[i].seq = i
    BY <2>1, GrowNumbering
  <2>4. owed' = owed /\ owed' <= Len(log')
    BY <1>2, <2>2, <2>3 DEF ForeignCommit, Numbering, TypeOK
  <2> QED BY <1>2, <2>3, <2>4 DEF ForeignCommit, TypeOK, Numbering, busVars, streamVars
<1>3. ASSUME NEW p \in Producers, Snapshot(p) PROVE TypeOK' /\ Numbering'
  <2>1. prod[p] \in ProdState /\ Idle \in ProdState
    BY DEF TypeOK, ProdState, Idle
  <2>2. [prod[p] EXCEPT !.pc = "notify", !.todo = subscribers] \in ProdState
    BY <2>1 DEF TypeOK, ProdState
  <2>3. prod' \in [Producers -> ProdState]
    BY <1>3, <2>1, <2>2 DEF Snapshot, TypeOK, ProdState
  <2> QED BY <1>3, <2>3 DEF Snapshot, TypeOK, Numbering, ProdState, busVars, streamVars
<1>4. ASSUME NEW p \in Producers, NEW t \in Tails, Notify(p, t)
      PROVE  TypeOK' /\ Numbering'
  <2>1. sub[t] \in SubState /\ prod[p].seq \in Nat
    BY DEF TypeOK, SubState
  <2>2. MaxOf(sub[t].latest, prod[p].seq) \in Nat
    BY <2>1 DEF MaxOf, SubState
  <2>3. Notified(sub[t], prod[p].seq) \in SubState
    BY <2>1, <2>2 DEF Notified, SubState
  <2>4. sub' \in [Tails -> SubState]
    BY <1>4, <2>3 DEF Notify, TypeOK, SubState
  <2>5. prod[p] \in ProdState /\ Idle \in ProdState
    BY DEF TypeOK, ProdState, Idle
  <2>6. [prod[p] EXCEPT !.todo = prod[p].todo \ {t}] \in ProdState
    BY <2>5 DEF ProdState
  <2>7. prod' \in [Producers -> ProdState]
    BY <1>4, <2>5, <2>6 DEF Notify, TypeOK, ProdState
  <2> QED BY <1>4, <2>4, <2>7 DEF Notify, TypeOK, Numbering, ProdState, SubState, streamVars
<1>5. ASSUME NEW t \in Tails, Subscribe(t) PROVE TypeOK' /\ Numbering'
  BY <1>5 DEF Subscribe, TypeOK, Numbering, streamVars
<1>6. ASSUME NEW t \in Tails, VerifyRun(t) PROVE TypeOK' /\ Numbering'
  BY <1>6 DEF VerifyRun, TypeOK, Numbering, busVars, streamVars
<1>7. ASSUME NEW t \in Tails, VerifyFails(t) PROVE TypeOK' /\ Numbering'
  <2>1. sub \in [Tails -> SubState] /\ sub' = [sub EXCEPT ![t].closed = TRUE]
    BY <1>7 DEF VerifyFails, TypeOK, SubState
  <2>2. sub' \in [Tails -> SubState]
    BY <2>1, SubscriptionCloses
  <2> QED BY <1>7, <2>2 DEF VerifyFails, TypeOK, Numbering, SubState, streamVars
<1>8. ASSUME NEW t \in Tails, LoopTop(t) PROVE TypeOK' /\ Numbering'
  BY <1>8 DEF LoopTop, TypeOK, Numbering, busVars
<1>9. ASSUME NEW t \in Tails, CheckClosed(t) PROVE TypeOK' /\ Numbering'
  BY <1>9 DEF CheckClosed, TypeOK, Numbering, busVars, streamVars
<1>10. ASSUME NEW t \in Tails, QueryHit(t) PROVE TypeOK' /\ Numbering'
  <2> DEFINE c == tail[t].cursor
             page == Page(c)
  <2>1. c \in Nat /\ tail[t] \in [cursor : Nat, closed : BOOLEAN]
    BY DEF TypeOK
  <2>2. page \in Seq(Events) /\ Len(page) \in Nat /\ page[Len(page)].seq \in Nat
    BY <1>10, <2>1, PageType DEF QueryHit
  <2> HIDE DEF c, page
  <2>3. \A k \in 1..Len(page) : page[k] \in Events
    BY <2>2
  <2>4. \A k \in 1..Len(page) : page[k].seq \in Nat
    BY <2>3 DEF Events
  <2>5. \A buffer \in [Items -> Nat] : Collected(buffer, page) \in [Items -> Nat]
    BY <2>2, <2>4, CollectedType
  <2>6. pending' \in [Tails -> [Items -> Nat]]
    BY <1>10, <2>5 DEF QueryHit, TypeOK, c, page
  <2>7. tail' \in [Tails -> [cursor : Nat, closed : BOOLEAN]]
    BY <1>10, <2>1, <2>2 DEF QueryHit, TypeOK, c, page
  <2>8. delivered' \in [Tails -> Seq(Events)]
    <3>1. delivered[t] \o page \in Seq(Events)
      BY <2>2 DEF TypeOK
    <3> QED BY <1>10, <3>1 DEF QueryHit, TypeOK, c, page
  <2>9. pc' \in [Tails -> ReaderPcs]
    BY <1>10 DEF QueryHit, TypeOK, AfterPage
  <2> QED BY <1>10, <2>6, <2>7, <2>8, <2>9 DEF QueryHit, TypeOK, Numbering, busVars
<1>11. ASSUME NEW t \in Tails, QueryMiss(t) PROVE TypeOK' /\ Numbering'
  BY <1>11 DEF QueryMiss, TypeOK, Numbering, busVars, streamVars
<1>12. ASSUME NEW t \in Tails, QueryFails(t) PROVE TypeOK' /\ Numbering'
  <2>1. torn' \in [Tails -> BOOLEAN] /\ final' \in [Tails -> BOOLEAN]
    BY <1>12, Zenon DEF QueryFails, TypeOK
  <2>2. pc' \in [Tails -> ReaderPcs]
    BY <1>12 DEF QueryFails, TypeOK
  <2> QED BY <1>12, <2>1, <2>2 DEF QueryFails, TypeOK, Numbering, busVars
<1>13. ASSUME NEW t \in Tails, Wake(t) PROVE TypeOK' /\ Numbering'
  <2>1. sub[t] \in SubState
    BY DEF TypeOK, SubState
  <2>2. [sub[t] EXCEPT !.dirty = FALSE] \in SubState
    BY <2>1 DEF SubState
  <2>3. sub' \in [Tails -> SubState]
    BY <1>13, <2>2 DEF Wake, TypeOK, SubState
  <2> QED BY <1>13, <2>3 DEF Wake, TypeOK, Numbering, SubState, streamVars
<1>14. ASSUME NEW t \in Tails, WaitTimeout(t) PROVE TypeOK' /\ Numbering'
  BY <1>14 DEF WaitTimeout, TypeOK, Numbering, busVars
<1>15. ASSUME NEW t \in Tails, Flushed(t)
       PROVE  pending' \in [Tails -> [Items -> Nat]] /\ emitted' \in [Tails -> [Items -> Nat]]
  <2>1. NothingPending \in [Items -> Nat]
    BY DEF NothingPending
  <2>2. pending[t] \in [Items -> Nat] /\ emitted[t] \in [Items -> Nat]
    BY DEF TypeOK
  <2>3. [i \in Items |-> IF pending[t][i] # 0 THEN pending[t][i] ELSE emitted[t][i]]
          \in [Items -> Nat]
    BY <2>2
  <2> QED BY <1>15, <2>1, <2>3 DEF Flushed, TypeOK
<1>16. ASSUME NEW t \in Tails, Tick(t) PROVE TypeOK' /\ Numbering'
  <2>1. pending' \in [Tails -> [Items -> Nat]] /\ emitted' \in [Tails -> [Items -> Nat]]
    BY <1>15, <1>16 DEF Tick, TypeOK
  <2> QED BY <1>16, <2>1 DEF Tick, TypeOK, Numbering, busVars
<1>17. ASSUME NEW t \in Tails, FlushAndClose(t) PROVE TypeOK' /\ Numbering'
  <2>1. pending' \in [Tails -> [Items -> Nat]] /\ emitted' \in [Tails -> [Items -> Nat]]
    BY <1>15, <1>17 DEF FlushAndClose
  <2>2. sub' \in [Tails -> SubState]
    <3>1. sub \in [Tails -> SubState] /\ sub' = [sub EXCEPT ![t].closed = TRUE]
      BY <1>17 DEF FlushAndClose, TypeOK, SubState
    <3> QED BY <3>1, SubscriptionCloses
  <2>3. tail' \in [Tails -> TailState]
    <3>1. tail \in [Tails -> TailState] /\ tail' = [tail EXCEPT ![t].closed = TRUE]
      BY <1>17 DEF FlushAndClose, TypeOK, TailState
    <3> QED BY <3>1, TailCloses
  <2> QED BY <1>17, <2>1, <2>2, <2>3 DEF FlushAndClose, TypeOK, Numbering, SubState, TailState
<1>18. ASSUME NEW t \in Tails, Unsubscribe(t) PROVE TypeOK' /\ Numbering'
  BY <1>18 DEF Unsubscribe, TypeOK, Numbering, streamVars
<1>19. ASSUME NEW t \in Tails, RequestStop(t) PROVE TypeOK' /\ Numbering'
  BY <1>19 DEF RequestStop, TypeOK, Numbering, busVars
<1>20. ASSUME NEW t \in Tails, CloseFlag(t) PROVE TypeOK' /\ Numbering'
  <2>1. tail \in [Tails -> TailState] /\ tail' = [tail EXCEPT ![t].closed = TRUE]
    BY <1>20 DEF CloseFlag, TypeOK, TailState
  <2>2. tail' \in [Tails -> TailState]
    BY <2>1, TailCloses
  <2> QED BY <1>20, <2>2 DEF CloseFlag, TypeOK, Numbering, TailState, busVars, streamVars
<1>21. ASSUME NEW t \in Tails, CloseSubscription(t) PROVE TypeOK' /\ Numbering'
  <2>1. sub \in [Tails -> SubState] /\ sub' = [sub EXCEPT ![t].closed = TRUE]
    BY <1>21 DEF CloseSubscription, TypeOK, SubState
  <2>2. sub' \in [Tails -> SubState]
    BY <2>1, SubscriptionCloses
  <2> QED BY <1>21, <2>2 DEF CloseSubscription, TypeOK, Numbering, SubState, streamVars
<1>22. ASSUME NEW t \in Tails, CloseUnsubscribe(t) PROVE TypeOK' /\ Numbering'
  BY <1>22 DEF CloseUnsubscribe, TypeOK, Numbering, streamVars
<1>23. CASE UNCHANGED vars
  BY <1>23 DEF vars, TypeOK, Numbering, busVars, streamVars
<1> QED
  BY <1>1, <1>2, <1>3, <1>4, <1>5, <1>6, <1>7, <1>8, <1>9, <1>10, <1>11, <1>12, <1>13,
     <1>14, <1>16, <1>17, <1>18, <1>19, <1>20, <1>21, <1>22, <1>23
     DEF Next, Publisher, Reader, Closer

\* Every reachable state has the shape TypeOK gives it: no handler of the bus,
\* the tail or the streamer leaves a field half-updated.
THEOREM TypeCorrect == Spec => []TypeOK
<1>1. TypeInv => TypeOK
  BY DEF TypeInv
<1> QED BY <1>1, InitTypeInv, StepTypeInv, PTL DEF Spec

-----------------------------------------------------------------------------
(* The inductive step for the reader's side of the invariant: who is       *)
(* registered, whose tail is flagged, and that a blocked reader is covered.*)

ReaderInv == CloserFlagged /\ Fresh /\ Registered /\ CursorCounts /\ NoLostWakeup

LEMMA InitReaderInv == Init => ReaderInv
BY TailAssumption
   DEF Init, ReaderInv, CloserFlagged, Fresh, Registered, CursorCounts, NoLostWakeup, Live

\* A step that commits, publishes and notifies nothing, and puts no reader to
\* sleep, loses no wake-up.
LEMMA Calm ==
  ASSUME NoLostWakeup, prod' = prod, owed' = owed,
         \A t \in Tails :
           pc'[t] = "wait" /\ ~sub'[t].dirty /\ ~tail'[t].closed
             => /\ pc[t] = "wait" /\ ~sub[t].dirty /\ ~tail[t].closed
                /\ tail'[t].cursor = tail[t].cursor
                /\ t \in subscribers => t \in subscribers'
  PROVE  NoLostWakeup'
<1> SUFFICES ASSUME NEW t \in Tails, pc'[t] = "wait", ~sub'[t].dirty, ~tail'[t].closed,
                    tail'[t].cursor < owed'
             PROVE  InFlight(t, tail[t].cursor)'
  BY DEF NoLostWakeup
<1>1. /\ pc[t] = "wait" /\ ~sub[t].dirty /\ ~tail[t].closed
      /\ tail'[t].cursor = tail[t].cursor /\ t \in subscribers => t \in subscribers'
  OBVIOUS
<1>2. PICK q \in Producers : Covers(q, t, tail[t].cursor)
  BY <1>1 DEF NoLostWakeup, InFlight
<1>3. Covers(q, t, tail[t].cursor)'
  BY <1>1, <1>2 DEF Covers
<1> QED BY <1>3 DEF InFlight

LEMMA StepReaderInv == TypeInv /\ TypeInv' /\ ReaderInv /\ [Next]_vars => ReaderInv'
<1> SUFFICES ASSUME TypeOK, Numbering, TypeOK', CloserFlagged, Fresh, Registered,
                    CursorCounts, NoLostWakeup, [Next]_vars
             PROVE  CloserFlagged' /\ Fresh' /\ Registered' /\ CursorCounts' /\ NoLostWakeup'
  BY DEF TypeInv, ReaderInv
<1> DEFINE Goal == CloserFlagged' /\ Fresh' /\ Registered' /\ CursorCounts' /\ NoLostWakeup'
<1> USE DEF CloserFlagged, Fresh, Registered, CursorCounts, Live
<1>1. ASSUME NEW p \in Producers, Commit(p) PROVE Goal
  <2>1. PICK b \in Batches :
          /\ owed' = Len(log) + Len(b)
          /\ prod' = [prod EXCEPT ![p] = [pc |-> "publish", todo |-> {},
                                          seq |-> Len(log) + Len(b)]]
    BY <1>1 DEF Commit
  <2>2. prod'[p].pc = "publish" /\ prod'[p].seq = owed'
    BY <2>1 DEF TypeOK
  <2>3. NoLostWakeup'
    <3> SUFFICES ASSUME NEW t \in Tails, pc[t] = "wait", ~tail[t].closed,
                        tail[t].cursor < owed'
                 PROVE  InFlight(t, tail[t].cursor)'
      BY <1>1 DEF NoLostWakeup, Commit, busVars
    <3>1. t \in subscribers /\ subscribers' = subscribers /\ tail' = tail
      BY <1>1 DEF Commit, busVars
    <3>2. tail[t].cursor \in Nat /\ owed' \in Nat
      BY DEF TypeOK
    <3>3. Covers(p, t, tail[t].cursor)'
      BY <2>2, <3>1, <3>2 DEF Covers
    <3> QED BY <3>3 DEF InFlight
  <2> QED BY <1>1, <2>3 DEF Commit, busVars
<1>2. ASSUME ForeignCommit PROVE Goal
  <2>1. NoLostWakeup'
    BY <1>2, Calm DEF ForeignCommit, busVars
  <2> QED BY <1>2, <2>1 DEF ForeignCommit, busVars
<1>3. ASSUME NEW p \in Producers, Snapshot(p) PROVE Goal
  <2>1. ASSUME NEW t \in Tails, NEW q \in Producers, NEW n \in Nat, Covers(q, t, n)
        PROVE  Covers(q, t, n)'
    <3>1. CASE q = p
      <4>1. prod[p].pc = "publish" /\ t \in subscribers /\ prod[p].seq > n
        BY <1>3, <2>1, <3>1 DEF Snapshot, Covers
      <4>2. prod'[p] = [prod[p] EXCEPT !.pc = "notify", !.todo = subscribers]
        BY <1>3, <4>1 DEF Snapshot, TypeOK
      <4>3. prod[p] \in ProdState
        BY DEF TypeOK, ProdState
      <4>4. prod'[p].pc = "notify" /\ prod'[p].todo = subscribers /\ prod'[p].seq = prod[p].seq
        BY <4>2, <4>3 DEF ProdState
      <4> QED BY <3>1, <4>1, <4>4 DEF Covers
    <3>2. CASE q # p
      BY <1>3, <2>1, <3>2 DEF Snapshot, Covers, busVars, TypeOK
    <3> QED BY <3>1, <3>2
  <2>2. NoLostWakeup'
    <3> SUFFICES ASSUME NEW t \in Tails, pc[t] = "wait", ~sub[t].dirty, ~tail[t].closed,
                        tail[t].cursor < owed
                 PROVE  InFlight(t, tail[t].cursor)'
      BY <1>3 DEF NoLostWakeup, Snapshot, busVars
    <3>1. PICK q \in Producers : Covers(q, t, tail[t].cursor)
      BY DEF NoLostWakeup, InFlight
    <3>2. tail[t].cursor \in Nat /\ tail' = tail
      BY <1>3 DEF Snapshot, TypeOK
    <3> QED BY <2>1, <3>1, <3>2 DEF InFlight, Covers
  <2> QED BY <1>3, <2>2 DEF Snapshot, busVars
<1>4. ASSUME NEW p \in Producers, NEW u \in Tails, Notify(p, u) PROVE Goal
  <2>1. /\ \A t \in Tails : sub'[t].closed = sub[t].closed
        /\ \A t \in Tails : t # u => sub'[t] = sub[t]
        /\ ~sub[u].closed => sub'[u].dirty
    BY <1>4 DEF Notify, Notified, TypeOK
  <2>2. ASSUME NEW t \in Tails, t # u, NEW n \in Nat, NEW q \in Producers, Covers(q, t, n)
        PROVE  Covers(q, t, n)'
    <3>1. CASE q = p
      <4>1. prod[p].pc = "notify" /\ t \in prod[p].todo /\ prod[p].seq > n
        BY <1>4, <2>2, <3>1 DEF Notify, Covers
      <4>2. prod'[p] = [prod[p] EXCEPT !.todo = prod[p].todo \ {u}]
        <5>1. prod[p].todo # {u}
          BY <2>2, <4>1
        <5>2. prod \in [Producers -> ProdState]
          BY DEF TypeOK, ProdState
        <5> QED BY <1>4, <5>1, <5>2 DEF Notify
      <4>3. /\ prod'[p].pc = prod[p].pc /\ prod'[p].seq = prod[p].seq
            /\ prod'[p].todo = prod[p].todo \ {u}
        BY <4>2 DEF TypeOK
      <4> QED BY <2>2, <3>1, <4>1, <4>3 DEF Covers
    <3>2. CASE q # p
      BY <1>4, <2>2, <3>2 DEF Notify, Covers, TypeOK
    <3> QED BY <3>1, <3>2
  <2>3. NoLostWakeup'
    <3> SUFFICES ASSUME NEW t \in Tails, pc[t] = "wait", ~sub'[t].dirty, ~tail[t].closed,
                        tail[t].cursor < owed
                 PROVE  InFlight(t, tail[t].cursor)'
      BY <1>4 DEF NoLostWakeup, Notify
    <3>1. t # u
      BY <2>1
    <3>2. ~sub[t].dirty
      BY <2>1, <3>1
    <3>3. PICK q \in Producers : Covers(q, t, tail[t].cursor)
      BY <3>2 DEF NoLostWakeup, InFlight
    <3>4. tail[t].cursor \in Nat /\ tail' = tail
      BY <1>4 DEF Notify, TypeOK
    <3> QED BY <2>2, <3>1, <3>3, <3>4 DEF InFlight, Covers
  <2> QED BY <1>4, <2>1, <2>3 DEF Notify
<1>5. ASSUME NEW u \in Tails, Subscribe(u) PROVE Goal
  <2>1. NoLostWakeup'
    BY <1>5, Calm DEF Subscribe, TypeOK
  <2>2. /\ \A t \in Tails : t # u => pc'[t] = pc[t]
        /\ subscribers' = subscribers \cup {u} /\ pc[u] = "new" /\ pc'[u] = "verify"
        /\ UNCHANGED <<sub, tail, closer, delivered>>
    BY <1>5 DEF Subscribe, TypeOK
  <2>3. Registered'
    BY <2>2
  <2> QED BY <2>1, <2>2, <2>3
<1>6. ASSUME NEW u \in Tails,
             VerifyRun(u) \/ LoopTop(u) \/ CheckClosed(u) \/ WaitTimeout(u) \/ Tick(u)
               \/ QueryFails(u)
      PROVE  Goal
  <2>1. /\ \A t \in Tails : t # u => pc'[t] = pc[t]
        /\ Live(u) /\ pc'[u] \notin {"new", "wait"}
        /\ UNCHANGED <<owed, prod, subscribers, sub, tail, closer, delivered>>
    <3>1. CASE VerifyRun(u)
      BY <3>1 DEF VerifyRun, TypeOK, busVars
    <3>2. CASE LoopTop(u)
      BY <3>2 DEF LoopTop, TypeOK, busVars
    <3>3. CASE CheckClosed(u)
      BY <3>3 DEF CheckClosed, TypeOK, busVars
    <3>4. CASE WaitTimeout(u)
      BY <3>4 DEF WaitTimeout, TypeOK, busVars
    <3>5. CASE Tick(u)
      BY <3>5 DEF Tick, TypeOK, busVars
    <3>6. CASE QueryFails(u)
      BY <3>6 DEF QueryFails, TypeOK, busVars
    <3> QED BY <1>6, <3>1, <3>2, <3>3, <3>4, <3>5, <3>6
  <2>2. NoLostWakeup'
    BY <2>1, Calm
  <2> QED BY <2>1, <2>2
<1>7. ASSUME NEW u \in Tails, VerifyFails(u) \/ Wake(u) PROVE Goal
  <2>1. /\ \A t \in Tails : t # u => pc'[t] = pc[t] /\ sub'[t] = sub[t]
        /\ Live(u) /\ pc'[u] \notin {"new", "wait"}
        /\ pc'[u] = "unsub" \/ sub'[u].closed = sub[u].closed
        /\ UNCHANGED <<owed, prod, subscribers, tail, closer, delivered>>
    BY <1>7 DEF VerifyFails, Wake, TypeOK
  <2>2. NoLostWakeup'
    BY <2>1, Calm
  <2> QED BY <2>1, <2>2
<1>8. ASSUME NEW u \in Tails, QueryHit(u) PROVE Goal
  <2> DEFINE c == tail[u].cursor
             page == Page(c)
  <2>1. c \in Nat
    BY DEF TypeOK
  <2>2. /\ page \in Seq(Events) /\ Len(page) \in Nat
        /\ page[Len(page)].seq = c + Len(page)
    BY <1>8, <2>1, PageType DEF QueryHit
  <2> HIDE DEF c, page
  <2>3. /\ \A t \in Tails : t # u => pc'[t] = pc[t] /\ tail'[t] = tail[t]
                                     /\ delivered'[t] = delivered[t]
        /\ Live(u) /\ pc'[u] \in {"loop", "check", "tick"}
        /\ tail'[u].closed = tail[u].closed
        /\ tail'[u].cursor = c + Len(page)
        /\ delivered'[u] = delivered[u] \o page
        /\ UNCHANGED <<owed, prod, subscribers, sub, closer>>
    <3>1. /\ pc[u] = "query" /\ pc' = [pc EXCEPT ![u] = AfterPage(u)]
          /\ tail' = [tail EXCEPT ![u].cursor = page[Len(page)].seq]
          /\ delivered' = [delivered EXCEPT ![u] = @ \o page]
          /\ UNCHANGED <<owed, prod, subscribers, sub, closer>>
      BY <1>8 DEF QueryHit, busVars, c, page
    <3>2. AfterPage(u) \in {"loop", "check", "tick"}
      BY DEF AfterPage
    <3>3. tail[u] \in TailState /\ tail'[u] = [tail[u] EXCEPT !.cursor = page[Len(page)].seq]
      BY <3>1 DEF TypeOK, TailState
    <3>4. tail'[u].closed = tail[u].closed /\ tail'[u].cursor = page[Len(page)].seq
      BY <3>3 DEF TailState
    <3> QED BY <2>2, <3>1, <3>2, <3>4 DEF TypeOK
  <2>4. Len(delivered'[u]) = Len(delivered[u]) + Len(page) /\ Len(delivered[u]) \in Nat
    BY <2>2, <2>3 DEF TypeOK
  <2>5. c = AfterSeq[u] + Len(delivered[u])
    BY DEF c
  <2>6. AfterSeq[u] \in Nat
    BY TailAssumption
  <2>7. CursorCounts'
    <3> SUFFICES ASSUME NEW t \in Tails
                 PROVE  tail'[t].cursor = AfterSeq[t] + Len(delivered'[t])
      OBVIOUS
    <3>1. CASE t = u
      <4>1. (AfterSeq[u] + Len(delivered[u])) + Len(page)
              = AfterSeq[u] + (Len(delivered[u]) + Len(page))
        BY <2>2, <2>4, <2>6
      <4>2. tail'[u].cursor = c + Len(page)
        BY <2>3
      <4> QED BY <2>4, <2>5, <3>1, <4>1, <4>2
    <3>2. CASE t # u
      BY <2>3, <3>2
    <3> QED BY <3>1, <3>2
  <2>8. NoLostWakeup'
    BY <2>3, Calm
  <2> QED BY <2>3, <2>7, <2>8
<1>9. ASSUME NEW u \in Tails, QueryMiss(u) PROVE Goal
  <2>1. /\ \A t \in Tails : t # u => pc'[t] = pc[t]
        /\ Live(u) /\ pc'[u] \in {"wait", "flush", "tick"}
        /\ UNCHANGED <<owed, prod, subscribers, sub, tail, closer, delivered>>
    BY <1>9 DEF QueryMiss, TypeOK, busVars
  <2>2. tail[u].cursor \in Nat /\ Len(log) \in Nat /\ owed \in Nat
    BY DEF TypeOK
  <2>3. tail[u].cursor >= Len(log)
    BY <1>9, <2>2, PageType DEF QueryMiss
  <2>4. ~(tail'[u].cursor < owed')
    BY <2>1, <2>2, <2>3 DEF Numbering
  <2>5. NoLostWakeup'
    <3> SUFFICES ASSUME NEW t \in Tails, t # u, pc[t] = "wait", ~sub[t].dirty,
                        ~tail[t].closed, tail[t].cursor < owed
                 PROVE  InFlight(t, tail[t].cursor)'
      BY <2>1, <2>4 DEF NoLostWakeup
    <3>1. PICK q \in Producers : Covers(q, t, tail[t].cursor)
      BY DEF NoLostWakeup, InFlight
    <3>2. Covers(q, t, tail[t].cursor)'
      BY <2>1, <3>1 DEF Covers
    <3> QED BY <3>2 DEF InFlight
  <2> QED BY <2>1, <2>5
<1>10. ASSUME NEW u \in Tails, FlushAndClose(u) PROVE Goal
  <2>1. /\ \A t \in Tails : t # u => pc'[t] = pc[t] /\ sub'[t] = sub[t] /\ tail'[t] = tail[t]
        /\ Live(u) /\ pc'[u] = "unsub" /\ tail'[u].closed
        /\ tail'[u].cursor = tail[u].cursor
        /\ UNCHANGED <<owed, prod, subscribers, closer, delivered>>
    BY <1>10 DEF FlushAndClose, TypeOK
  <2>2. NoLostWakeup'
    BY <2>1, Calm
  <2> QED BY <2>1, <2>2
<1>11. ASSUME NEW u \in Tails, Unsubscribe(u) PROVE Goal
  <2>1. /\ \A t \in Tails : t # u => pc'[t] = pc[t] /\ (t \in subscribers => t \in subscribers')
        /\ pc[u] = "unsub" /\ pc'[u] = "done"
        /\ UNCHANGED <<owed, prod, sub, tail, closer, delivered>>
    BY <1>11 DEF Unsubscribe, TypeOK
  <2>2. NoLostWakeup'
    BY <2>1, Calm
  <2> QED BY <2>1, <2>2
<1>12. ASSUME NEW u \in Tails, RequestStop(u) PROVE Goal
  <2>1. NoLostWakeup'
    BY <1>12, Calm DEF RequestStop, busVars
  <2> QED BY <1>12, <2>1 DEF RequestStop, busVars
<1>13. ASSUME NEW u \in Tails, CloseFlag(u) PROVE Goal
  <2>1. /\ \A t \in Tails : t # u => tail'[t] = tail[t] /\ closer'[t] = closer[t]
        /\ Live(u) /\ tail'[u].closed /\ tail'[u].cursor = tail[u].cursor
        /\ UNCHANGED <<owed, prod, subscribers, sub, pc, delivered>>
    BY <1>13 DEF CloseFlag, TypeOK, busVars
  <2>2. NoLostWakeup'
    BY <2>1, Calm
  <2> QED BY <2>1, <2>2
<1>14. ASSUME NEW u \in Tails, CloseSubscription(u) PROVE Goal
  <2>1. /\ \A t \in Tails : t # u => sub'[t] = sub[t] /\ closer'[t] = closer[t]
        /\ closer[u] # "idle" /\ sub'[u].dirty = sub[u].dirty
        /\ UNCHANGED <<owed, prod, subscribers, tail, pc, delivered>>
    BY <1>14 DEF CloseSubscription, TypeOK
  <2>2. NoLostWakeup'
    BY <2>1, Calm
  <2> QED BY <2>1, <2>2
<1>15. ASSUME NEW u \in Tails, CloseUnsubscribe(u) PROVE Goal
  <2>1. /\ \A t \in Tails : t # u => (t \in subscribers => t \in subscribers')
                                     /\ closer'[t] = closer[t]
        /\ closer[u] # "idle"
        /\ UNCHANGED <<owed, prod, sub, tail, pc, delivered>>
    BY <1>15 DEF CloseUnsubscribe, TypeOK
  <2>2. NoLostWakeup'
    BY <2>1, Calm
  <2> QED BY <2>1, <2>2
<1>16. CASE UNCHANGED vars
  <2>1. NoLostWakeup'
    BY <1>16, Calm DEF vars, busVars
  <2> QED BY <1>16, <2>1 DEF vars, busVars
<1> HIDE DEF CloserFlagged, Fresh, Registered, CursorCounts, Live
<1> QED
  BY <1>1, <1>2, <1>3, <1>4, <1>5, <1>6, <1>7, <1>8, <1>9, <1>10, <1>11, <1>12, <1>13,
     <1>14, <1>15, <1>16
     DEF Next, Publisher, Reader, Closer

\* No lost-event window: for any number of threads, a reader that blocks in
\* EventSubscription.wait while a recorded event is ahead of its cursor has a
\* notice pending or on its way, or its tail is being closed.
THEOREM NoLostWakeupHolds == Spec => []NoLostWakeup
<1>1. Init => TypeInv /\ ReaderInv
  BY InitTypeInv, InitReaderInv
<1>2. (TypeInv /\ ReaderInv) /\ [Next]_vars => (TypeInv /\ ReaderInv)'
  BY StepTypeInv, StepReaderInv
<1>3. ReaderInv => NoLostWakeup
  BY DEF ReaderInv
<1> QED BY <1>1, <1>2, <1>3, PTL DEF Spec

-----------------------------------------------------------------------------
(* EventTail implements EventStream.                                       *)

LEMMA InitStream == Init => Stream!Start
BY DEF Init, Stream!Start

\* A commit grows the stream, a page hands out its next events, and no other
\* step touches log or delivered.
LEMMA StepStream ==
  TypeInv /\ ReaderInv /\ [Next]_vars => [Stream!StreamNext]_(Stream!streamVars)
<1> SUFFICES ASSUME TypeOK, Numbering, CursorCounts, [Next]_vars
             PROVE  Stream!StreamNext \/ UNCHANGED <<log, delivered>>
  BY DEF TypeInv, ReaderInv, Stream!streamVars
<1> DEFINE Goal == Stream!StreamNext \/ UNCHANGED <<log, delivered>>
<1>1. ASSUME NEW b \in Batches, log' = log \o Numbered(b), UNCHANGED delivered PROVE Goal
  <2>1. /\ Len(log') = Len(log) + Len(b) /\ Len(b) \in Nat /\ Len(log) \in Nat
        /\ \A i \in 1..Len(log) : log'[i] = log[i]
    <3>1. Len(b) \in Nat /\ Len(log) \in Nat
      BY NumberedType DEF TypeOK
    <3> QED BY <1>1, <3>1, GrowNumbering
  <2>2. Stream!Grow
    BY <1>1, <2>1 DEF Stream!Grow
  <2> QED BY <2>2 DEF Stream!StreamNext
<1>2. ASSUME NEW p \in Producers, Commit(p) PROVE Goal
  BY <1>1, <1>2 DEF Commit
<1>3. ASSUME ForeignCommit PROVE Goal
  BY <1>1, <1>3 DEF ForeignCommit
<1>4. ASSUME NEW t \in Tails, QueryHit(t) PROVE Goal
  <2> DEFINE c == tail[t].cursor
             at == AfterSeq[t] + Len(delivered[t])
             n == PageLen(c)
  <2>1. c \in Nat /\ c = at /\ Len(log) \in Nat
    BY DEF TypeOK, CursorCounts
  <2>2. n \in Nat /\ n # 0 /\ at + n <= Len(log)
    BY <1>4, <2>1, PageType DEF QueryHit
  <2>3. n \in 1..(Len(log) - at)
    BY <2>1, <2>2
  <2>4. Page(c) = [i \in 1..n |-> log[at + i]]
    BY <2>1 DEF Page
  <2>5. delivered' = [delivered EXCEPT ![t] = @ \o [i \in 1..n |-> log[at + i]]]
    BY <1>4, <2>4 DEF QueryHit
  <2>6. UNCHANGED log
    BY <1>4 DEF QueryHit
  <2> HIDE DEF n
  <2>7. Stream!Hand(t)
    BY <2>3, <2>5, <2>6 DEF Stream!Hand
  <2> QED BY <2>7 DEF Stream!StreamNext
<1>5. ASSUME NEW p \in Producers, Publisher(p) PROVE Goal
  BY <1>5 DEF Publisher, Snapshot, Notify
<1>6. ASSUME NEW t \in Tails, Reader(t), ~QueryHit(t) PROVE Goal
  BY <1>6 DEF Reader, Subscribe, VerifyRun, LoopTop, CheckClosed, QueryMiss, Wake,
              Tick, FlushAndClose, Unsubscribe
<1>7. ASSUME NEW t \in Tails,
             Closer(t) \/ VerifyFails(t) \/ QueryFails(t) \/ WaitTimeout(t)
               \/ RequestStop(t) \/ CloseFlag(t)
      PROVE  Goal
  BY <1>7 DEF Closer, CloseSubscription, CloseUnsubscribe, VerifyFails, QueryFails,
              WaitTimeout, RequestStop, CloseFlag
<1>8. CASE UNCHANGED vars
  BY <1>8 DEF vars
<1> QED
  BY <1>2, <1>3, <1>4, <1>5, <1>6, <1>7, <1>8 DEF Next

\* Every reader is handed the log in order, without a gap and without a
\* repetition, whatever the threads, the stop requests and the failed reads do.
THEOREM TailImplementsStream == Spec => InOrderOnce
<1>1. Init => TypeInv /\ ReaderInv
  BY InitTypeInv, InitReaderInv
<1>2. (TypeInv /\ ReaderInv) /\ [Next]_vars => (TypeInv /\ ReaderInv)'
  BY StepTypeInv, StepReaderInv
<1> QED BY <1>1, <1>2, InitStream, StepStream, PTL DEF Spec, InOrderOnce, Stream!StreamSpec

-----------------------------------------------------------------------------
(* The streamer shows every item in its newest version.                    *)

\* What the user sees of an item, or will see at the next flush.
Shown(t, i) == IF pending[t][i] # 0 THEN pending[t][i] ELSE emitted[t][i]

\* Everything the tail has handed out since the start is shown.
Covered(t) ==
  \A i \in Items : \A k \in 1..Len(log) :
    log[k].item = i /\ AfterSeq[t] < k /\ k <= tail[t].cursor => Shown(t, i) >= k

\* A tail that has moved is inside the log, and so is the mark of a stop.
Positioned(t) ==
  /\ tail[t].cursor <= Len(log) \/ tail[t].cursor = AfterSeq[t]
  /\ stopLen[t] <= Len(log)

\* The catch-up loop runs only after a stop or a failure, and reads to the
\* mark of the stop before the last flush, after which nothing is buffered.
Ending(t) ==
  /\ final[t] => stop[t] \/ torn[t]
  /\ pc[t] = "flush" => final[t] /\ (~torn[t] => tail[t].cursor >= stopLen[t])
  /\ tail[t].closed => /\ pc[t] \in {"unsub", "done"} /\ final[t]
                       /\ pending[t] = NothingPending
                       /\ ~torn[t] => tail[t].cursor >= stopLen[t]

StreamerInv == \A t \in Streamers : Covered(t) /\ Positioned(t) /\ Ending(t)

LEMMA InitStreamerInv == Init => StreamerInv
BY TailAssumption
   DEF Init, StreamerInv, Covered, Positioned, Ending, Tails

\* The log is only appended to.
Grows == /\ Len(log') \in Nat /\ Len(log) \in Nat /\ Len(log) <= Len(log')
         /\ \A k \in 1..Len(log) : log'[k] = log[k]

LEMMA CommitGrows ==
  ASSUME TypeOK, Numbering, NEW b \in Batches, log' = log \o Numbered(b)
  PROVE  Grows
<1>1. Len(b) \in Nat /\ Len(log) \in Nat
  BY NumberedType DEF TypeOK
<1>2. Len(log') = Len(log) + Len(b) /\ \A i \in 1..Len(log) : log'[i] = log[i]
  BY GrowNumbering
<1> QED BY <1>1, <1>2 DEF Grows

\* What is shown stays enough while the tail does not move: events that are
\* appended lie ahead of it.
LEMMA StillCovered ==
  ASSUME TypeOK, NEW t \in Streamers, Covered(t), Positioned(t), Grows,
         tail'[t].cursor = tail[t].cursor, stopLen'[t] = stopLen[t],
         \A i \in Items : Shown(t, i)' = Shown(t, i)
  PROVE  Covered(t)' /\ Positioned(t)'
<1>1. /\ tail[t].cursor \in Nat /\ AfterSeq[t] \in Nat /\ stopLen[t] \in Nat
      /\ Len(log) \in Nat /\ Len(log') \in Nat /\ Len(log) <= Len(log')
  BY TailAssumption DEF TypeOK, Tails, Grows
<1>2. Positioned(t)'
  BY <1>1 DEF Positioned
<1>3. Covered(t)'
  <2> SUFFICES ASSUME NEW i \in Items, NEW k \in 1..Len(log'), log'[k].item = i,
                      AfterSeq[t] < k, k <= tail'[t].cursor
               PROVE  Shown(t, i)' >= k
    BY DEF Covered
  <2>1. k <= tail[t].cursor /\ k \in Nat
    OBVIOUS
  <2>2. k \in 1..Len(log)
    BY <1>1, <2>1 DEF Positioned
  <2>3. log[k].item = i
    BY <2>2 DEF Grows
  <2> QED BY <2>1, <2>2, <2>3 DEF Covered
<1> QED BY <1>2, <1>3

\* A step leaves streamer t alone.
Same(t) ==
  /\ tail'[t] = tail[t] /\ pc'[t] = pc[t] /\ stop'[t] = stop[t] /\ final'[t] = final[t]
  /\ torn'[t] = torn[t] /\ pending'[t] = pending[t] /\ emitted'[t] = emitted[t]
  /\ stopLen'[t] = stopLen[t]

LEMMA Undisturbed ==
  ASSUME TypeOK, NEW t \in Streamers, Covered(t), Positioned(t), Ending(t), Grows, Same(t)
  PROVE  Covered(t)' /\ Positioned(t)' /\ Ending(t)'
<1>1. Covered(t)' /\ Positioned(t)'
  BY StillCovered DEF Same, Shown
<1>2. Ending(t)'
  BY DEF Ending, Same
<1> QED BY <1>1, <1>2

\* A page is the next stretch of the log.
LEMMA PageIsLog ==
  ASSUME TypeOK, Numbering, NEW after \in Nat, NEW k \in 1..PageLen(after)
  PROVE  /\ after + k \in 1..Len(log)
         /\ Page(after)[k] = log[after + k] /\ Page(after)[k].seq = after + k
<1>1. /\ PageLen(after) \in Nat /\ Len(log) \in Nat
      /\ after + PageLen(after) <= Len(log) \/ PageLen(after) = 0
  BY PageType DEF TypeOK
<1>2. after + k \in 1..Len(log)
  BY <1>1
<1>3. Page(after)[k] = log[after + k]
  BY <1>1 DEF Page
<1> QED BY <1>2, <1>3 DEF Numbering

\* _collect keeps, of each item of the page, its newest event.
LEMMA CollectedNewest ==
  ASSUME TypeOK, Numbering, NEW after \in Nat, NEW buffer \in [Items -> Nat], NEW i \in Items
  PROVE  \/ /\ \A k \in 1..PageLen(after) : log[after + k].item # i
            /\ Collected(buffer, Page(after))[i] = buffer[i]
         \/ \E m \in 1..PageLen(after) :
              /\ Collected(buffer, Page(after))[i] = after + m
              /\ \A k \in 1..PageLen(after) : log[after + k].item = i => k <= m
<1> DEFINE page == Page(after)
           hits == {k \in 1..Len(page) : page[k].item = i}
           last == CHOOSE k \in hits : \A j \in hits : j <= k
<1>1. PageLen(after) \in Nat /\ Len(page) = PageLen(after)
  BY PageType
<1>2. Collected(buffer, page)[i] = IF hits = {} THEN buffer[i] ELSE page[last].seq
  BY DEF Collected
<1>3. \A k \in 1..PageLen(after) : page[k] = log[after + k] /\ page[k].seq = after + k
  BY PageIsLog
<1>4. CASE hits = {}
  BY <1>1, <1>2, <1>3, <1>4
<1>5. CASE hits # {}
  <2>1. hits \subseteq 1..Len(page)
    OBVIOUS
  <2>2. \E k \in hits : \A j \in hits : j <= k
    <3> HIDE DEF hits, page
    <3> QED BY <1>1, <1>5, <2>1, MaxExists
  <2>3. last \in hits /\ \A j \in hits : j <= last
    <3> HIDE DEF hits
    <3> QED BY <2>2
  <2>4. last \in 1..PageLen(after)
    BY <1>1, <2>1, <2>3
  <2>5. page[last].seq = after + last
    BY <1>3, <2>4
  <2>6. \A k \in 1..PageLen(after) : log[after + k].item = i => k \in hits
    BY <1>1, <1>3
  <2> HIDE DEF hits, last, page
  <2>7. Collected(buffer, page)[i] = after + last
    BY <1>2, <1>5, <2>5
  <2>8. \A k \in 1..PageLen(after) : log[after + k].item = i => k <= last
    BY <2>3, <2>6
  <2> QED BY <2>4, <2>7, <2>8 DEF page
<1> QED BY <1>4, <1>5

LEMMA StepStreamerInv == TypeInv /\ StreamerInv /\ [Next]_vars => StreamerInv'
<1> SUFFICES ASSUME TypeOK, Numbering, StreamerInv, [Next]_vars, NEW t \in Streamers
             PROVE  Covered(t)' /\ Positioned(t)' /\ Ending(t)'
  BY DEF TypeInv, StreamerInv
<1> DEFINE Goal == Covered(t)' /\ Positioned(t)' /\ Ending(t)'
<1>0. /\ Covered(t) /\ Positioned(t) /\ Ending(t) /\ t \in Tails /\ t \notin Waiters
      /\ Len(log) \in Nat /\ tail[t].cursor \in Nat /\ stopLen[t] \in Nat
      /\ AfterSeq[t] \in Nat
      /\ pending[t] \in [Items -> Nat] /\ emitted[t] \in [Items -> Nat]
  BY TailAssumption DEF StreamerInv, TypeOK, Tails
<1>g. UNCHANGED log => Grows
  BY <1>0 DEF Grows
<1>s. ASSUME Grows, Same(t) PROVE Goal
  BY <1>0, <1>s, Undisturbed
<1>c. ASSUME UNCHANGED log, tail'[t].cursor = tail[t].cursor, stopLen'[t] = stopLen[t],
             pending'[t] = pending[t], emitted'[t] = emitted[t]
      PROVE  Covered(t)' /\ Positioned(t)'
  BY <1>0, <1>g, <1>c, StillCovered DEF Shown
<1>1. ASSUME NEW p \in Producers, Commit(p) PROVE Goal
  <2>1. Grows
    BY <1>1, CommitGrows DEF Commit
  <2>2. Same(t)
    BY <1>1 DEF Commit, Same, streamVars
  <2> QED BY <1>s, <2>1, <2>2
<1>2. ASSUME ForeignCommit PROVE Goal
  <2>1. Grows
    BY <1>2, CommitGrows DEF ForeignCommit
  <2>2. Same(t)
    BY <1>2 DEF ForeignCommit, Same, streamVars
  <2> QED BY <1>s, <2>1, <2>2
<1>3. ASSUME NEW p \in Producers, Publisher(p) PROVE Goal
  <2>1. UNCHANGED log /\ Same(t)
    BY <1>3 DEF Publisher, Snapshot, Notify, Same, streamVars
  <2> QED BY <1>s, <1>g, <2>1
<1>4. ASSUME NEW u \in Tails,
             Subscribe(u) \/ VerifyRun(u) \/ VerifyFails(u) \/ CheckClosed(u) \/ Wake(u)
               \/ WaitTimeout(u) \/ Unsubscribe(u)
      PROVE  Goal
  <2>1. /\ UNCHANGED <<log, tail, stop, final, torn, pending, emitted, stopLen>>
        /\ pc'[t] = pc[t] \/ (pc[t] = "unsub" /\ pc'[t] = "done")
           \/ (pc[t] \notin {"flush", "unsub", "done"} /\ pc'[t] # "flush")
    <3>1. CASE Subscribe(u) \/ VerifyRun(u) \/ VerifyFails(u)
      BY <1>0, <3>1 DEF Subscribe, VerifyRun, VerifyFails, TypeOK, streamVars
    <3>2. CASE CheckClosed(u) \/ Wake(u) \/ WaitTimeout(u) \/ Unsubscribe(u)
      BY <1>0, <3>2 DEF CheckClosed, Wake, WaitTimeout, Unsubscribe, TypeOK, streamVars
    <3> QED BY <1>4, <3>1, <3>2
  <2>2. Covered(t)' /\ Positioned(t)'
    BY <1>c, <2>1
  <2>3. Ending(t)'
    BY <1>0, <2>1 DEF Ending
  <2> QED BY <2>2, <2>3
<1>5. ASSUME NEW u \in Tails, LoopTop(u) PROVE Goal
  <2>1. /\ UNCHANGED <<log, tail, stop, torn, pending, emitted, stopLen>>
        /\ \/ pc'[t] = pc[t] /\ final'[t] = final[t]
           \/ pc[t] = "loop" /\ pc'[t] = "check" /\ final'[t] = stop[t]
    BY <1>0, <1>5 DEF LoopTop, TypeOK
  <2>2. Covered(t)' /\ Positioned(t)'
    BY <1>c, <2>1
  <2>3. Ending(t)'
    BY <1>0, <2>1 DEF Ending
  <2> QED BY <2>2, <2>3
<1>6. ASSUME NEW u \in Tails, QueryMiss(u) PROVE Goal
  <2>1. /\ UNCHANGED <<log, tail, stop, final, torn, pending, emitted, stopLen>>
        /\ u # t => pc'[t] = pc[t]
        /\ u = t => /\ pc[t] = "query" /\ pc'[t] \in {"wait", "flush", "tick"}
                    /\ pc'[t] = "flush" => final[t]
    BY <1>0, <1>6 DEF QueryMiss, TypeOK, streamVars
  <2>2. Covered(t)' /\ Positioned(t)'
    BY <1>c, <2>1
  <2>3. u = t => tail[t].cursor >= stopLen[t]
    <3> SUFFICES ASSUME u = t PROVE tail[t].cursor >= stopLen[t]
      OBVIOUS
    <3>1. tail[t].cursor >= Len(log)
      BY <1>0, <1>6, PageType DEF QueryMiss
    <3> QED BY <1>0, <3>1 DEF Positioned
  <2>4. Ending(t)'
    BY <1>0, <2>1, <2>3 DEF Ending
  <2> QED BY <2>2, <2>4
<1>7. ASSUME NEW u \in Tails, QueryFails(u) PROVE Goal
  <2>1. /\ UNCHANGED <<log, tail, stop, pending, emitted, stopLen>>
        /\ u # t => pc'[t] = pc[t] /\ final'[t] = final[t] /\ torn'[t] = torn[t]
        /\ u = t => /\ pc[t] = "query" /\ final'[t]
                    /\ pc'[t] \in {"flush", "check"}
                    /\ pc'[t] = "flush" => final[t]
    BY <1>0, <1>7 DEF QueryFails, TypeOK
  <2>2. u = t => (torn'[t] <=> torn[t] \/ final[t] \/ ~stop[t])
    BY <1>0, <1>7, Zenon DEF QueryFails, TypeOK
  <2>3. Covered(t)' /\ Positioned(t)'
    BY <1>c, <2>1
  <2>4. Ending(t)'
    BY <1>0, <2>1, <2>2 DEF Ending
  <2> QED BY <2>3, <2>4
<1>8. ASSUME NEW u \in Tails, Flushed(u)
      PROVE  /\ u # t => pending'[t] = pending[t] /\ emitted'[t] = emitted[t]
             /\ u = t => /\ pending'[t] = NothingPending
                         /\ \A i \in Items : emitted'[t][i] = Shown(t, i)
  BY <1>0, <1>8 DEF Flushed, Shown, TypeOK
<1>9. ASSUME NEW u \in Tails, Flushed(u), UNCHANGED <<log, stopLen>>,
             tail'[t].cursor = tail[t].cursor
      PROVE  Covered(t)' /\ Positioned(t)'
  <2>1. CASE u = t
    <3>1. \A i \in Items : Shown(t, i)' = Shown(t, i)
      BY <1>8, <1>9, <2>1 DEF Shown, NothingPending
    <3> QED BY <1>0, <1>g, <1>9, <3>1, StillCovered
  <2>2. CASE u # t
    BY <1>8, <1>9, <1>c, <2>2
  <2> QED BY <2>1, <2>2
<1>10. ASSUME NEW u \in Tails, Tick(u) PROVE Goal
  <2>1. /\ UNCHANGED <<log, tail, stop, final, torn, stopLen>>
        /\ pc'[t] = pc[t] \/ (u = t /\ pc[t] = "tick" /\ pc'[t] = "loop")
    BY <1>0, <1>10 DEF Tick, TypeOK
  <2>2. Flushed(u) \/ UNCHANGED <<pending, emitted>>
    BY <1>10 DEF Tick
  <2>3. Covered(t)' /\ Positioned(t)'
    BY <1>9, <1>c, <2>1, <2>2
  <2>4. pending'[t] = pending[t] \/ pc[t] = "tick"
    <3>1. CASE u = t
      BY <1>10, <3>1 DEF Tick
    <3>2. CASE u # t
      BY <1>8, <2>2, <3>2
    <3> QED BY <3>1, <3>2
  <2>5. Ending(t)'
    BY <1>0, <2>1, <2>4 DEF Ending
  <2> QED BY <2>3, <2>5
<1>11. ASSUME NEW u \in Tails, FlushAndClose(u) PROVE Goal
  <2>1. /\ UNCHANGED <<log, stop, final, torn, stopLen>> /\ Flushed(u)
        /\ tail'[t].cursor = tail[t].cursor
        /\ u # t => pc'[t] = pc[t] /\ tail'[t] = tail[t]
        /\ u = t => pc[t] = "flush" /\ pc'[t] = "unsub"
    BY <1>0, <1>11 DEF FlushAndClose, TypeOK
  <2>2. Covered(t)' /\ Positioned(t)'
    BY <1>9, <2>1
  <2>3. /\ u # t => pending'[t] = pending[t]
        /\ u = t => pending'[t] = NothingPending
    BY <1>8, <2>1
  <2>4. Ending(t)'
    BY <1>0, <2>1, <2>3 DEF Ending, NothingPending
  <2> QED BY <2>2, <2>4
<1>12. ASSUME NEW u \in Tails, RequestStop(u) PROVE Goal
  <2>1. /\ UNCHANGED <<log, tail, pc, final, torn, pending, emitted>>
        /\ u # t => stop'[t] = stop[t] /\ stopLen'[t] = stopLen[t]
        /\ u = t => ~stop[t] /\ stop'[t] /\ stopLen'[t] = Len(log)
    BY <1>0, <1>12 DEF RequestStop, TypeOK
  <2>2. Positioned(t)'
    BY <1>0, <2>1 DEF Positioned
  <2>3. Covered(t)'
    BY <1>0, <2>1 DEF Covered, Shown
  <2>4. Ending(t)'
    BY <1>0, <2>1 DEF Ending
  <2> QED BY <2>2, <2>3, <2>4
<1>13. ASSUME NEW u \in Tails, Closer(u) \/ CloseFlag(u) PROVE Goal
  <2>1. CASE Closer(u)
    <3>1. UNCHANGED log /\ Same(t)
      BY <2>1 DEF Closer, CloseSubscription, CloseUnsubscribe, Same, streamVars
    <3> QED BY <1>s, <1>g, <3>1
  <2>2. CASE CloseFlag(u)
    <3>1. u # t
      BY <1>0, <2>2 DEF CloseFlag
    <3>2. UNCHANGED log /\ Same(t)
      BY <1>0, <2>2, <3>1 DEF CloseFlag, Same, streamVars, TypeOK
    <3> QED BY <1>s, <1>g, <3>2
  <2> QED BY <1>13, <2>1, <2>2
<1>14. ASSUME NEW u \in Tails, QueryHit(u) PROVE Goal
  <2>1. CASE u # t
    <3>1. UNCHANGED log /\ Same(t)
      BY <1>0, <1>14, <2>1 DEF QueryHit, Same, TypeOK
    <3> QED BY <1>s, <1>g, <3>1
  <2>2. CASE u = t
    <3> DEFINE c == tail[t].cursor
               n == PageLen(c)
    <3>1. /\ Page(c) # <<>> /\ n \in Nat /\ n # 0 /\ c + n <= Len(log)
          /\ Page(c)[Len(Page(c))].seq = c + n
      BY <1>0, <1>14, <2>2, PageType DEF QueryHit
    <3>2. /\ pc[t] = "query" /\ UNCHANGED <<log, stop, final, torn, emitted, stopLen>>
          /\ pc'[t] \in {"loop", "check", "tick"}
          /\ pending'[t] = Collected(pending[t], Page(c))
      BY <1>0, <1>14, <2>2 DEF QueryHit, AfterPage, TypeOK
    <3>3. tail'[t] = [tail[t] EXCEPT !.cursor = c + n] /\ tail[t] \in TailState
      BY <1>0, <1>14, <2>2, <3>1 DEF QueryHit, TypeOK, TailState
    <3>4. tail'[t].cursor = c + n /\ tail'[t].closed = tail[t].closed
      BY <3>3 DEF TailState
    <3>5. c \in Nat
      BY <1>0
    <3>6. \A i \in Items :
            \/ /\ \A k \in 1..n : log[c + k].item # i
               /\ pending'[t][i] = pending[t][i]
            \/ \E m \in 1..n : /\ pending'[t][i] = c + m
                               /\ \A k \in 1..n : log[c + k].item = i => k <= m
      <4> TAKE i \in Items
      <4>1. pending[t] \in [Items -> Nat]
        BY <1>0
      <4> HIDE DEF c
      <4>2. \/ /\ \A k \in 1..PageLen(c) : log[c + k].item # i
               /\ Collected(pending[t], Page(c))[i] = pending[t][i]
            \/ \E m \in 1..PageLen(c) :
                 /\ Collected(pending[t], Page(c))[i] = c + m
                 /\ \A k \in 1..PageLen(c) : log[c + k].item = i => k <= m
        BY <3>5, <4>1, CollectedNewest
      <4> QED BY <3>2, <4>2
    <3> HIDE DEF n, c
    <3>7. Covered(t)'
      <4> SUFFICES ASSUME NEW i \in Items, NEW k \in 1..Len(log), log[k].item = i,
                          AfterSeq[t] < k, k <= c + n
                   PROVE  Shown(t, i)' >= k
        BY <3>2, <3>4 DEF Covered
      <4>1. pending[t][i] \in Nat /\ emitted[t][i] \in Nat
        BY <1>0
      <4>2. CASE k <= c
        <5>1. Shown(t, i) >= k
          BY <1>0, <4>2 DEF Covered, c
        <5>2. CASE pending'[t][i] = pending[t][i]
          BY <3>2, <5>1, <5>2 DEF Shown
        <5>3. CASE \E m \in 1..n : pending'[t][i] = c + m
          BY <3>1, <3>5, <4>2, <5>3 DEF Shown
        <5> QED BY <3>6, <5>2, <5>3
      <4>3. CASE k > c
        <5>1. k - c \in 1..n /\ c + (k - c) = k
          BY <3>1, <3>5, <4>3
        <5>2. PICK m \in 1..n : pending'[t][i] = c + m /\ k - c <= m
          BY <3>6, <5>1
        <5> QED BY <3>1, <3>5, <5>1, <5>2 DEF Shown
      <4> QED BY <3>5, <4>2, <4>3
    <3>8. Positioned(t)'
      BY <1>0, <3>1, <3>2, <3>4 DEF Positioned
    <3>9. Ending(t)'
      BY <1>0, <3>2, <3>4 DEF Ending
    <3> QED BY <3>7, <3>8, <3>9
  <2> QED BY <2>1, <2>2
<1>15. CASE UNCHANGED vars
  <2>1. UNCHANGED log /\ Same(t)
    BY <1>15 DEF vars, Same, streamVars
  <2> QED BY <1>s, <1>g, <2>1
<1> QED
  BY <1>1, <1>2, <1>3, <1>4, <1>5, <1>6, <1>7, <1>10, <1>11, <1>12, <1>13, <1>14, <1>15
     DEF Next, Reader

\* Throttling, a stop request and the catch-up loop together drop nothing: a
\* streamer that finished shows of every item the newest event that was
\* committed before it was told to stop.
THEOREM StreamersComplete == Spec => []StreamerComplete
<1>1. Init => TypeInv /\ StreamerInv
  BY InitTypeInv, InitStreamerInv
<1>2. (TypeInv /\ StreamerInv) /\ [Next]_vars => (TypeInv /\ StreamerInv)'
  BY StepTypeInv, StepStreamerInv
<1>3. TypeInv /\ StreamerInv => StreamerComplete
  <2> SUFFICES ASSUME TypeOK, StreamerInv, NEW t \in Streamers, pc[t] = "done",
                      tail[t].closed, stop[t], ~torn[t], NEW i \in Items,
                      ~(NewestUpTo(i, stopLen[t]) <= AfterSeq[t])
               PROVE  emitted[t][i] >= NewestUpTo(i, stopLen[t])
    BY DEF TypeInv, StreamerComplete
  <2> DEFINE hits == {k \in 1..stopLen[t] : log[k].item = i}
             newest == CHOOSE k \in hits : \A j \in hits : j <= k
  <2>1. /\ AfterSeq[t] \in Nat /\ stopLen[t] \in Nat /\ Len(log) \in Nat
        /\ tail[t].cursor \in Nat
        /\ Covered(t) /\ Positioned(t) /\ Ending(t)
    BY TailAssumption DEF TypeOK, Tails, StreamerInv
  <2>2. NewestUpTo(i, stopLen[t]) = IF hits = {} THEN 0 ELSE newest
    BY DEF NewestUpTo
  <2>3. hits # {}
    BY <2>1, <2>2
  <2>4. hits \subseteq 1..stopLen[t]
    OBVIOUS
  <2>5. \E k \in hits : \A j \in hits : j <= k
    <3> HIDE DEF hits
    <3> QED BY <2>1, <2>3, <2>4, MaxExists
  <2>6. newest \in hits
    <3> HIDE DEF hits
    <3> QED BY <2>5
  <2>7. newest \in 1..stopLen[t] /\ log[newest].item = i
    BY <2>6
  <2>8. NewestUpTo(i, stopLen[t]) = newest
    BY <2>2, <2>3
  <2> HIDE DEF newest, hits
  <2>9. newest \in 1..Len(log) /\ newest <= tail[t].cursor /\ AfterSeq[t] < newest
    BY <2>1, <2>7, <2>8 DEF Positioned, Ending
  <2>10. Shown(t, i) >= newest
    BY <2>1, <2>7, <2>9 DEF Covered
  <2>11. Shown(t, i) = emitted[t][i]
    BY <2>1 DEF Ending, Shown, NothingPending
  <2> QED BY <2>8, <2>10, <2>11
<1> QED BY <1>1, <1>2, <1>3, PTL DEF Spec
=============================================================================
