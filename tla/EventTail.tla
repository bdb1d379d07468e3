----------------------------- MODULE EventTail -----------------------------
(***************************************************************************)
(* The live reading path of one Run: RunRuntime.record (commit, then       *)
(* publish), the process-local EventBus with its coalescing subscriptions, *)
(* DurableEventTail.next_page, and the ActivityStreamer thread built on    *)
(* it.  SQLite is the log; a notice only says "read again".                *)
(***************************************************************************)
EXTENDS Naturals, Sequences, FiniteSets

CONSTANTS Producers,   \* threads of this process that record events
          Streamers,   \* ActivityStreamer threads: next_page with a timeout
          Waiters,     \* readers that call next_page(timeout=None)
          Items,       \* ids of activity items
          NoItem,      \* an event project_event maps to nothing
          AfterSeq,    \* the after_seq each reader opens its tail with
          PageLimit,   \* events per page
          MaxBatch,    \* bound: events committed at once
          MaxEvents    \* bound: length of the log

Tails == Streamers \cup Waiters

ASSUME TailAssumption ==
  /\ Streamers \cap Waiters = {}
  /\ AfterSeq \in [Tails -> Nat]
  /\ PageLimit \in Nat \ {0}
  /\ MaxBatch \in Nat \ {0}
  /\ MaxEvents \in Nat
  /\ NoItem \notin Items

VARIABLES
  log,          \* run_events of the Run in seq order
  owed,         \* history: highest seq committed by this process
  prod,         \* prod[p]: where the producer is between commit and notify
  subscribers,  \* EventBus._subscriptions[run_id]
  sub,          \* sub[t]: EventSubscription (dirty, closed, latest_seq)
  tail,         \* tail[t]: DurableEventTail (cursor, closed)
  pc,           \* pc[t]: where the reader's thread is
  closer,       \* closer[t]: progress of tail.close() called by another thread
  stop,         \* ActivityStreamer._stop_requested
  final,        \* final[t]: the streamer is in its catch-up loop
  late,         \* late[t]: the deadline of the running next_page has passed
  pending,      \* pending[t][i]: seq buffered for item i, 0 if none
  emitted,      \* emitted[t][i]: seq last emitted for item i, 0 if none
  delivered,    \* history: events returned by next_page
  stopLen,      \* history: length of the log when the stop was requested
  torn          \* history: a failed read ended the streamer early

busVars    == <<subscribers, sub>>
streamVars == <<stop, final, late, pending, emitted, stopLen, torn>>
vars == <<log, owed, prod, busVars, tail, pc, closer, delivered, streamVars>>

Idle == [pc |-> "idle", seq |-> 0, todo |-> {}]
NothingPending == [i \in Items |-> 0]

MaxOf(a, b) == IF a > b THEN a ELSE b
MinOf(a, b) == IF a < b THEN a ELSE b

Init ==
  /\ log = <<>>
  /\ owed = 0
  /\ prod = [p \in Producers |-> Idle]
  /\ subscribers = {}
  /\ sub = [t \in Tails |-> [dirty |-> FALSE, closed |-> FALSE, latest |-> 0]]
  /\ tail = [t \in Tails |-> [cursor |-> AfterSeq[t], closed |-> FALSE]]
  /\ pc = [t \in Tails |-> "new"]
  /\ closer = [t \in Tails |-> "idle"]
  /\ stop = [t \in Tails |-> FALSE]
  /\ final = [t \in Tails |-> FALSE]
  /\ late = [t \in Tails |-> FALSE]
  /\ pending = [t \in Tails |-> NothingPending]
  /\ emitted = [t \in Tails |-> NothingPending]
  /\ delivered = [t \in Tails |-> <<>>]
  /\ stopLen = [t \in Tails |-> 0]
  /\ torn = [t \in Tails |-> FALSE]

-----------------------------------------------------------------------------
(* RunRuntime.record / record_many and EventBus.publish                    *)

\* append_event adds one event, append_events a batch; the store numbers them
\* after the last committed seq.
Batches == UNION {[1..n -> Items \cup {NoItem}] : n \in 1..MaxBatch}

Numbered(b) == [i \in 1..Len(b) |-> [seq |-> Len(log) + i, item |-> b[i]]]

\* Mutation: record returns without publishing.
CommitSilently(p) ==
  /\ prod[p].pc = "idle"
  /\ \E b \in Batches :
       /\ Len(log) + Len(b) <= MaxEvents
       /\ log' = log \o Numbered(b)
       /\ owed' = Len(log) + Len(b)
  /\ UNCHANGED <<prod, busVars, tail, pc, closer, delivered, streamVars>>

\* store.append_event(s): committed, and not announced yet.
Commit(p) ==
  /\ prod[p].pc = "idle"
  /\ \E b \in Batches :
       /\ Len(log) + Len(b) <= MaxEvents
       /\ log' = log \o Numbered(b)
       /\ owed' = Len(log) + Len(b)
       /\ prod' = [prod EXCEPT ![p] = [pc |-> "publish", todo |-> {},
                                       seq |-> Len(log) + Len(b)]]
  /\ UNCHANGED <<busVars, tail, pc, closer, delivered, streamVars>>

\* Another process on the same database commits: its bus is not ours.
ForeignCommit ==
  /\ \E b \in Batches :
       /\ Len(log) + Len(b) <= MaxEvents
       /\ log' = log \o Numbered(b)
  /\ UNCHANGED <<owed, prod, busVars, tail, pc, closer, delivered, streamVars>>

\* publish: the subscriber list is copied under the bus lock ...
Snapshot(p) ==
  /\ prod[p].pc = "publish"
  /\ prod' = [prod EXCEPT ![p] = IF subscribers = {} THEN Idle
                                 ELSE [@ EXCEPT !.pc = "notify",
                                                !.todo = subscribers]]
  /\ UNCHANGED <<log, owed, busVars, tail, pc, closer, delivered, streamVars>>

\* EventSubscription._notify: a closed subscription ignores the notice,
\* repeated notices coalesce into the highest seq.
Notified(s, seq) ==
  IF s.closed THEN s
  ELSE [s EXCEPT !.latest = MaxOf(@, seq), !.dirty = TRUE]

\* ... and each subscription is notified outside that lock.
Notify(p, t) ==
  /\ prod[p].pc = "notify"
  /\ t \in prod[p].todo
  /\ sub' = [sub EXCEPT ![t] = Notified(@, prod[p].seq)]
  /\ prod' = [prod EXCEPT ![p] = IF prod[p].todo = {t} THEN Idle
                                 ELSE [prod[p] EXCEPT !.todo = @ \ {t}]]
  /\ UNCHANGED <<log, owed, subscribers, tail, pc, closer, delivered, streamVars>>

-----------------------------------------------------------------------------
(* RunRuntime.open_event_tail                                              *)

Subscribe(t) ==
  /\ pc[t] = "new"
  /\ subscribers' = subscribers \cup {t}
  /\ pc' = [pc EXCEPT ![t] = "verify"]
  /\ UNCHANGED <<log, owed, prod, sub, tail, closer, delivered, streamVars>>

\* get_run finds the Run: the tail exists from here on.
VerifyRun(t) ==
  /\ pc[t] = "verify"
  /\ pc' = [pc EXCEPT ![t] = "loop"]
  /\ UNCHANGED <<log, owed, prod, busVars, tail, closer, delivered, streamVars>>

\* get_run raises: the new subscription is closed, no tail is returned.
VerifyFails(t) ==
  /\ pc[t] = "verify"
  /\ sub' = [sub EXCEPT ![t].closed = TRUE]
  /\ pc' = [pc EXCEPT ![t] = "unsub"]
  /\ UNCHANGED <<log, owed, prod, subscribers, tail, closer, delivered, streamVars>>

-----------------------------------------------------------------------------
(* DurableEventTail.next_page, called in a loop by the reader              *)

\* Mutation: a stop request skips the catch-up loop.
LoopTopNoCatchUp(t) ==
  /\ pc[t] = "loop"
  /\ final' = [final EXCEPT ![t] = stop[t]]
  /\ late' = [late EXCEPT ![t] = FALSE]
  /\ pc' = [pc EXCEPT ![t] = IF stop[t] THEN "flush" ELSE "check"]
  /\ UNCHANGED <<log, owed, prod, busVars, tail, closer, delivered,
                 stop, pending, emitted, stopLen, torn>>

\* ActivityStreamer.run tests the stop flag before each next_page; a plain
\* reader calls next_page again.
LoopTop(t) ==
  /\ pc[t] = "loop"
  /\ final' = [final EXCEPT ![t] = stop[t]]
  /\ late' = [late EXCEPT ![t] = FALSE]
  /\ pc' = [pc EXCEPT ![t] = "check"]
  /\ UNCHANGED <<log, owed, prod, busVars, tail, closer, delivered,
                 stop, pending, emitted, stopLen, torn>>

\* The closed test at the head of every iteration.  A closed tail raises
\* EventStreamClosedError: the reader is done.
CheckClosed(t) ==
  /\ pc[t] = "check"
  /\ pc' = [pc EXCEPT ![t] = IF tail[t].closed THEN "done" ELSE "query"]
  /\ UNCHANGED <<log, owed, prod, busVars, tail, closer, delivered, streamVars>>

\* RunStore.events(after_seq, limit): seq > after_seq in seq order.
PageLen(after) ==
  IF after >= Len(log) THEN 0 ELSE MinOf(PageLimit, Len(log) - after)

Page(after) == [i \in 1..PageLen(after) |-> log[after + i]]

\* ActivityStreamer._collect: a later event of an item replaces the earlier.
Collected(buffer, page) ==
  [i \in Items |->
     LET hits == {k \in 1..Len(page) : page[k].item = i} IN
     IF hits = {} THEN buffer[i]
     ELSE page[CHOOSE k \in hits : \A j \in hits : j <= k].seq]

\* Where next_page resumes its caller: the catch-up loop goes on at once.
AfterPage(t) == IF t \in Waiters THEN "loop"
                ELSE IF final[t] THEN "check" ELSE "tick"

\* Mutation: the cursor stops short of the page's last event.
QueryHitStopsShort(t) ==
  LET page == Page(tail[t].cursor) IN
  /\ pc[t] = "query"
  /\ page # <<>>
  /\ tail' = [tail EXCEPT ![t].cursor = page[Len(page)].seq - 1]
  /\ delivered' = [delivered EXCEPT ![t] = @ \o page]
  /\ pending' = IF t \in Streamers
                THEN [pending EXCEPT ![t] = Collected(@, page)]
                ELSE pending
  /\ pc' = [pc EXCEPT ![t] = AfterPage(t)]
  /\ UNCHANGED <<log, owed, prod, busVars, closer,
                 stop, final, late, emitted, stopLen, torn>>

\* A non-empty page: the cursor moves to its last event and it is returned.
QueryHit(t) ==
  LET page == Page(tail[t].cursor) IN
  /\ pc[t] = "query"
  /\ page # <<>>
  /\ tail' = [tail EXCEPT ![t].cursor = page[Len(page)].seq]
  /\ delivered' = [delivered EXCEPT ![t] = @ \o page]
  /\ pending' = IF t \in Streamers
                THEN [pending EXCEPT ![t] = Collected(@, page)]
                ELSE pending
  /\ pc' = [pc EXCEPT ![t] = AfterPage(t)]
  /\ UNCHANGED <<log, owed, prod, busVars, closer,
                 stop, final, late, emitted, stopLen, torn>>

\* Nothing new: wait for a notice; with timeout=0 or a passed deadline
\* next_page returns None instead.
QueryMiss(t) ==
  /\ pc[t] = "query"
  /\ Page(tail[t].cursor) = <<>>
  /\ \/ /\ ~final[t] /\ ~late[t]
        /\ pc' = [pc EXCEPT ![t] = "wait"]
     \/ /\ t \in Streamers
        /\ pc' = [pc EXCEPT ![t] = IF final[t] THEN "flush" ELSE "tick"]
  /\ UNCHANGED <<log, owed, prod, busVars, tail, closer, delivered, streamVars>>

\* The store raises: the streamer breaks out of its loop into the catch-up
\* loop, and out of that one into the last flush.
QueryFails(t) ==
  /\ pc[t] = "query"
  /\ t \in Streamers
  /\ final' = [final EXCEPT ![t] = TRUE]
  /\ torn' = [torn EXCEPT ![t] = @ \/ final[t] \/ ~stop[t]]
  /\ pc' = [pc EXCEPT ![t] = IF final[t] THEN "flush" ELSE "check"]
  /\ UNCHANGED <<log, owed, prod, busVars, tail, closer, delivered,
                 stop, late, pending, emitted, stopLen>>

\* Mutation: wait() resets the dirty flag on entry, before it blocks.
WakeResetsFirst(t) ==
  /\ pc[t] = "wait"
  /\ sub[t].dirty \/ sub[t].closed
  /\ sub' = [sub EXCEPT ![t].dirty = FALSE]
  /\ pc' = [pc EXCEPT ![t] = IF sub[t].closed THEN "check" ELSE "wait"]
  /\ UNCHANGED <<log, owed, prod, subscribers, tail, closer, delivered, streamVars>>

\* EventSubscription.wait returns because of a notice or a close; a pending
\* notice is consumed even when the subscription was closed meanwhile.
Wake(t) ==
  /\ pc[t] = "wait"
  /\ sub[t].dirty \/ sub[t].closed
  /\ sub' = [sub EXCEPT ![t].dirty = FALSE]
  /\ pc' = [pc EXCEPT ![t] = "check"]
  /\ UNCHANGED <<log, owed, prod, subscribers, tail, closer, delivered, streamVars>>

\* wait reaches its deadline with nothing pending.
WaitTimeout(t) ==
  /\ pc[t] = "wait"
  /\ t \in Streamers
  /\ ~sub[t].dirty /\ ~sub[t].closed
  /\ late' = [late EXCEPT ![t] = TRUE]
  /\ pc' = [pc EXCEPT ![t] = "check"]
  /\ UNCHANGED <<log, owed, prod, busVars, tail, closer, delivered,
                 stop, final, pending, emitted, stopLen, torn>>

-----------------------------------------------------------------------------
(* ActivityStreamer                                                        *)

\* _flush: every buffered item is emitted once, then the buffer is empty.
Flushed(t) ==
  /\ emitted' = [emitted EXCEPT ![t] =
                   [i \in Items |-> IF pending[t][i] # 0 THEN pending[t][i]
                                    ELSE @[i]]]
  /\ pending' = [pending EXCEPT ![t] = NothingPending]

\* After each next_page: flush if the interval has passed, then loop.
Tick(t) ==
  /\ pc[t] = "tick"
  /\ Flushed(t) \/ UNCHANGED <<pending, emitted>>
  /\ pc' = [pc EXCEPT ![t] = "loop"]
  /\ UNCHANGED <<log, owed, prod, busVars, tail, closer, delivered,
                 stop, final, late, stopLen, torn>>

\* The last flush, then tail.close(): flag, subscription.
FlushAndClose(t) ==
  /\ pc[t] = "flush"
  /\ Flushed(t)
  /\ tail' = [tail EXCEPT ![t].closed = TRUE]
  /\ sub' = [sub EXCEPT ![t].closed = TRUE]
  /\ pc' = [pc EXCEPT ![t] = "unsub"]
  /\ UNCHANGED <<log, owed, prod, subscribers, closer, delivered,
                 stop, final, late, stopLen, torn>>

\* Mutation: the closed subscription stays registered on the bus.
UnsubscribeLeaks(t) ==
  /\ pc[t] = "unsub"
  /\ pc' = [pc EXCEPT ![t] = "done"]
  /\ UNCHANGED <<log, owed, prod, busVars, tail, closer, delivered, streamVars>>

\* EventBus._unsubscribe, called outside the subscription's lock.
Unsubscribe(t) ==
  /\ pc[t] = "unsub"
  /\ subscribers' = subscribers \ {t}
  /\ pc' = [pc EXCEPT ![t] = "done"]
  /\ UNCHANGED <<log, owed, prod, sub, tail, closer, delivered, streamVars>>

\* request_stop, from the main thread, at any time: even before the first
\* next_page.
RequestStop(t) ==
  /\ t \in Streamers
  /\ ~stop[t]
  /\ stop' = [stop EXCEPT ![t] = TRUE]
  /\ stopLen' = [stopLen EXCEPT ![t] = Len(log)]
  /\ UNCHANGED <<log, owed, prod, busVars, tail, pc, closer, delivered,
                 final, late, pending, emitted, torn>>

-----------------------------------------------------------------------------
(* DurableEventTail.close called by another thread than the reader's       *)

CloseFlag(t) ==
  /\ t \in Waiters
  /\ pc[t] \in {"loop", "check", "query", "wait"}
  /\ closer[t] = "idle"
  /\ ~tail[t].closed
  /\ tail' = [tail EXCEPT ![t].closed = TRUE]
  /\ closer' = [closer EXCEPT ![t] = "flagged"]
  /\ UNCHANGED <<log, owed, prod, busVars, pc, delivered, streamVars>>

CloseSubscription(t) ==
  /\ closer[t] = "flagged"
  /\ sub' = [sub EXCEPT ![t].closed = TRUE]
  /\ closer' = [closer EXCEPT ![t] = "unsub"]
  /\ UNCHANGED <<log, owed, prod, subscribers, tail, pc, delivered, streamVars>>

CloseUnsubscribe(t) ==
  /\ closer[t] = "unsub"
  /\ subscribers' = subscribers \ {t}
  /\ closer' = [closer EXCEPT ![t] = "done"]
  /\ UNCHANGED <<log, owed, prod, sub, tail, pc, delivered, streamVars>>

-----------------------------------------------------------------------------
Publisher(p) == Snapshot(p) \/ \E t \in Tails : Notify(p, t)

Reader(t) ==
  \/ Subscribe(t) \/ VerifyRun(t)
  \/ LoopTop(t) \/ CheckClosed(t)
  \/ QueryHit(t) \/ QueryMiss(t)
  \/ Wake(t)
  \/ Tick(t) \/ FlushAndClose(t) \/ Unsubscribe(t)

Closer(t) == CloseSubscription(t) \/ CloseUnsubscribe(t)

Next ==
  \/ \E p \in Producers : Commit(p) \/ Publisher(p)
  \/ ForeignCommit
  \/ \E t \in Tails : Reader(t) \/ Closer(t)
  \/ \E t \in Tails : VerifyFails(t) \/ QueryFails(t) \/ WaitTimeout(t)
  \/ \E t \in Tails : RequestStop(t) \/ CloseFlag(t)

Spec == Init /\ [][Next]_vars

\* Threads that have work keep running: a publisher finishes publishing, a
\* reader takes its next step, a deadline passes, a close() that began ends.
\* Nobody is obliged to commit, to stop or to close anything.
Fairness ==
  /\ \A p \in Producers : WF_vars(Publisher(p))
  /\ \A t \in Tails : WF_vars(Reader(t)) /\ WF_vars(Closer(t))
  /\ \A t \in Streamers : WF_vars(WaitTimeout(t))

FairSpec == Spec /\ Fairness

-----------------------------------------------------------------------------
ReaderPcs == {"new", "verify", "loop", "check", "query", "wait", "tick",
              "flush", "unsub", "done"}

Events == [seq : Nat, item : Items \cup {NoItem}]

\* Every variable keeps the shape the code gives it.
TypeOK ==
  /\ log \in Seq(Events)
  /\ owed \in Nat
  /\ prod \in [Producers -> [pc : {"idle", "publish", "notify"},
                             seq : Nat, todo : SUBSET Tails]]
  /\ subscribers \subseteq Tails
  /\ sub \in [Tails -> [dirty : BOOLEAN, closed : BOOLEAN, latest : Nat]]
  /\ tail \in [Tails -> [cursor : Nat, closed : BOOLEAN]]
  /\ pc \in [Tails -> ReaderPcs]
  /\ closer \in [Tails -> {"idle", "flagged", "unsub", "done"}]
  /\ stop \in [Tails -> BOOLEAN]
  /\ final \in [Tails -> BOOLEAN]
  /\ late \in [Tails -> BOOLEAN]
  /\ pending \in [Tails -> [Items -> Nat]]
  /\ emitted \in [Tails -> [Items -> Nat]]
  /\ delivered \in [Tails -> Seq(Events)]
  /\ stopLen \in [Tails -> Nat]
  /\ torn \in [Tails -> BOOLEAN]

\* Producer p will still reach reader t with a seq beyond n.
Covers(p, t, n) ==
  /\ prod[p].seq > n
  /\ \/ prod[p].pc = "publish" /\ t \in subscribers
     \/ prod[p].pc = "notify" /\ t \in prod[p].todo

InFlight(t, n) == \E p \in Producers : Covers(p, t, n)

\* No lost-event window (service.py, open_event_tail): a reader that blocks
\* while an event recorded by this process is still ahead of its cursor has
\* a notice pending, is being closed, or is about to be notified.
NoLostWakeup ==
  \A t \in Tails :
    pc[t] = "wait" /\ ~sub[t].dirty /\ ~tail[t].closed /\ tail[t].cursor < owed
      => InFlight(t, tail[t].cursor)

\* ActivityStreamer: throttling delays an item, it never drops it.  When the
\* thread has finished, and no failed read cut it short, every item shows its
\* newest event among those committed when the stop was requested.
NewestUpTo(i, n) ==
  LET hits == {k \in 1..n : log[k].item = i} IN
  IF hits = {} THEN 0 ELSE CHOOSE k \in hits : \A j \in hits : j <= k

StreamerComplete ==
  \A t \in Streamers :
    pc[t] = "done" /\ tail[t].closed /\ stop[t] /\ ~torn[t]
      => \A i \in Items :
           \/ NewestUpTo(i, stopLen[t]) <= AfterSeq[t]
           \/ emitted[t][i] >= NewestUpTo(i, stopLen[t])

\* The tail implements the abstract stream: contiguous, in order, once.
Stream == INSTANCE EventStream
InOrderOnce == Stream!StreamSpec

\* Every event this process recorded reaches a reader that opened its tail
\* before it, unless the tail is closed.
EventuallyDelivered ==
  \A t \in Tails : \A n \in 1..MaxEvents :
    (owed >= n /\ pc[t] \notin {"new", "verify", "unsub", "done"})
      ~> (tail[t].cursor >= n \/ tail[t].closed \/ pc[t] = "done")

\* close() wakes a blocked reader, a stop request ends the streamer, and a tail
\* that could not be opened closes its subscription: each leaves no
\* subscription behind on the bus.
ClosedReaderLeaves ==
  \A t \in Tails :
    (tail[t].closed \/ sub[t].closed \/ stop[t])
      ~> (pc[t] = "done" /\ t \notin subscribers)
=============================================================================
