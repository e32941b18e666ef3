----------------------------- MODULE RingBuffer -----------------------------
(***************************************************************************)
(* The default queue backend, src/pkg/queue/ringbuffer.go: a circular      *)
(* array under one mutex and ONE condition variable that producers (Block  *)
(* policy) and consumers share.  Every critical section is one action; a   *)
(* goroutine inside cond.Wait is in `waiters` (Go's notify list is FIFO),  *)
(* and after a Signal or Broadcast it is "woken": runnable, but others may *)
(* take the mutex first.                                                   *)
(***************************************************************************)
EXTENDS Integers, Sequences, FiniteSets

CONSTANTS Producers,   \* goroutines calling Enqueue, one per ConnID
          Consumers,   \* goroutines calling Dequeue
          Capacity,    \* r.capacity, > 0 by New
          Policies,    \* overflow policies New may be configured with
          MaxSeq,      \* bound: events a producer offers
          NoEvent      \* nil slot

Event == [conn : Producers, seq : 1..MaxSeq]
Slots == 0..(Capacity - 1)
Procs == Producers \cup Consumers

ASSUME RingAssumption == /\ Capacity \in Nat \ {0}
                         /\ Policies \subseteq {"drop_oldest", "drop_newest", "block"}
                         /\ MaxSeq \in Nat
                         /\ Producers \cap Consumers = {}
                         /\ NoEvent \notin Event
                         /\ IsFiniteSet(Producers)

VARIABLES buf, head, tail, count, closed,   \* the ringBuffer struct
          policy,    \* r.overflow
          waiters,   \* r.cond's notify list
          pc,        \* where each goroutine is
          ctxDone,   \* consumers whose context is cancelled
          watch,     \* Dequeue's context watcher goroutine, per consumer
          overflow,  \* the collector's overflow counter
          sent,      \* events offered so far, per producer
          out,       \* history: events returned by Dequeue
          dropped    \* history: Enqueue calls that discarded an event

ring  == <<buf, head, tail, count>>
ghost == <<sent, out, dropped>>
vars  == <<ring, policy, closed, waiters, pc, ctxDone, watch, overflow, ghost>>

Init == /\ buf = [i \in Slots |-> NoEvent]
        /\ head = 0 /\ tail = 0 /\ count = 0
        /\ policy \in Policies
        /\ closed = FALSE
        /\ waiters = << >>
        /\ pc = [x \in Procs |-> "idle"]
        /\ ctxDone = {}
        /\ watch = [c \in Consumers |-> "off"]
        /\ overflow = 0
        /\ sent = [p \in Producers |-> 0]
        /\ out = << >>
        /\ dropped = 0

----------------------------------------------------------------------------
\* The condition variable.

Succ(i) == (i + 1) % Capacity

\* cond.Wait by x: join the notify list and release the mutex.
Wait(x) == /\ waiters' = Append(waiters, x)
           /\ pc' = [pc EXCEPT ![x] = "waiting"]

\* cond.Signal by x, which then continues at `next`: the longest waiter, of
\* either kind, becomes runnable.
SignalThen(x, next) ==
    IF waiters = << >>
    THEN /\ pc' = [pc EXCEPT ![x] = next]
         /\ UNCHANGED waiters
    ELSE /\ pc' = [pc EXCEPT ![x] = next, ![Head(waiters)] = "woken"]
         /\ waiters' = Tail(waiters)

\* cond.Broadcast: every waiter becomes runnable.
Broadcast ==
    /\ waiters' = << >>
    /\ pc' = [x \in Procs |-> IF pc[x] = "waiting" THEN "woken" ELSE pc[x]]

----------------------------------------------------------------------------
\* Enqueue, by producer p.

\* The event p offers next.
NextEvent(p) == [conn |-> p, seq |-> sent[p] + 1]

\* p calls Enqueue, or re-evaluates Enqueue's wait loop.
Calling(p)   == pc[p] = "idle" /\ sent[p] < MaxSeq
Rechecking(p) == pc[p] = "woken"

Returns(p) == sent' = [sent EXCEPT ![p] = @ + 1]

\* push: write at the tail; the caller made sure there is room.
Push(e) == /\ buf' = [buf EXCEPT ![tail] = e]
           /\ tail' = Succ(tail)

\* Wrong variant, for the mutation runs: closed is not looked at again.
EnqueuePush_IgnoresClose(p) ==
    /\ Calling(p) \/ Rechecking(p)
    /\ count < Capacity
    /\ Push(NextEvent(p))
    /\ count' = count + 1
    /\ SignalThen(p, "idle")
    /\ Returns(p)
    /\ UNCHANGED <<head, closed, ctxDone, watch, overflow, out, dropped>>

\* Wrong variant: off by one in the capacity test.
EnqueuePush_OffByOne(p) ==
    /\ Calling(p) \/ Rechecking(p)
    /\ ~closed
    /\ count <= Capacity
    /\ Push(NextEvent(p))
    /\ count' = count + 1
    /\ SignalThen(p, "idle")
    /\ Returns(p)
    /\ UNCHANGED <<head, closed, ctxDone, watch, overflow, out, dropped>>

EnqueueClosed(p) ==
    /\ Calling(p) \/ Rechecking(p)
    /\ closed
    /\ pc' = [pc EXCEPT ![p] = "idle"]
    /\ Returns(p)
    /\ UNCHANGED <<ring, closed, waiters, ctxDone, watch, overflow, out, dropped>>

\* The fast path, and the push after Block's wait loop.
EnqueuePush(p) ==
    /\ Calling(p) \/ Rechecking(p)
    /\ ~closed
    /\ count < Capacity
    /\ Push(NextEvent(p))
    /\ count' = count + 1
    /\ SignalThen(p, "idle")
    /\ Returns(p)
    /\ UNCHANGED <<head, closed, ctxDone, watch, overflow, out, dropped>>

EnqueueDropNewest(p) ==
    /\ Calling(p)
    /\ ~closed
    /\ count = Capacity
    /\ policy = "drop_newest"
    /\ pc' = [pc EXCEPT ![p] = "overflow"]
    /\ Returns(p)
    /\ dropped' = dropped + 1
    /\ UNCHANGED <<ring, closed, waiters, ctxDone, watch, overflow, out>>

EnqueueBlock(p) ==
    /\ Calling(p) \/ Rechecking(p)
    /\ ~closed
    /\ count = Capacity
    /\ policy = "block"
    /\ Wait(p)
    /\ UNCHANGED <<ring, closed, ctxDone, watch, overflow, ghost>>

\* Wrong variant: the head stays on the slot that is overwritten.
EnqueueDropOldest_KeepHead(p) ==
    /\ Calling(p)
    /\ ~closed
    /\ count = Capacity
    /\ policy = "drop_oldest"
    /\ Push(NextEvent(p))
    /\ SignalThen(p, "overflow")
    /\ Returns(p)
    /\ dropped' = dropped + 1
    /\ UNCHANGED <<head, count, closed, ctxDone, watch, overflow, out>>

\* Wrong variant: the eviction is not counted.
EnqueueDropOldest_Uncounted(p) ==
    /\ Calling(p)
    /\ ~closed
    /\ count = Capacity
    /\ policy = "drop_oldest"
    /\ head' = Succ(head)
    /\ Push(NextEvent(p))
    /\ SignalThen(p, "idle")
    /\ Returns(p)
    /\ dropped' = dropped + 1
    /\ UNCHANGED <<count, closed, ctxDone, watch, overflow, out>>

\* Evict the oldest event, then push over its slot.
EnqueueDropOldest(p) ==
    /\ Calling(p)
    /\ ~closed
    /\ count = Capacity
    /\ policy = "drop_oldest"
    /\ head' = Succ(head)
    /\ Push(NextEvent(p))
    /\ SignalThen(p, "overflow")
    /\ Returns(p)
    /\ dropped' = dropped + 1
    /\ UNCHANGED <<count, closed, ctxDone, watch, overflow, out>>

\* recordOverflow runs after the mutex is released.
RecordOverflow(p) ==
    /\ pc[p] = "overflow"
    /\ overflow' = overflow + 1
    /\ pc' = [pc EXCEPT ![p] = "idle"]
    /\ UNCHANGED <<ring, closed, waiters, ctxDone, watch, ghost>>

Enqueue(p) == \/ EnqueueClosed(p)     \/ EnqueuePush(p)
              \/ EnqueueDropNewest(p) \/ EnqueueBlock(p)
              \/ EnqueueDropOldest(p) \/ RecordOverflow(p)

----------------------------------------------------------------------------
\* Dequeue, by consumer c, and its context watcher.

Running(c) == pc[c] \in {"idle", "woken"}

\* Dequeue's deferred close(stop): an armed watcher is told to exit.
StopWatcher(c) == watch' = [watch EXCEPT ![c] = IF @ = "armed" THEN "stopping" ELSE @]

\* Wrong variant: no Signal, a blocked producer is not told of the free slot.
DequeueTake_NoSignal(c) ==
    /\ Running(c)
    /\ count > 0
    /\ out' = Append(out, buf[head])
    /\ buf' = [buf EXCEPT ![head] = NoEvent]
    /\ head' = Succ(head)
    /\ count' = count - 1
    /\ pc' = [pc EXCEPT ![c] = "idle"]
    /\ StopWatcher(c)
    /\ UNCHANGED <<waiters, tail, closed, ctxDone, overflow, sent, dropped>>

\* Wrong variant: the slot is not set to nil.
DequeueTake_KeepSlot(c) ==
    /\ Running(c)
    /\ count > 0
    /\ out' = Append(out, buf[head])
    /\ head' = Succ(head)
    /\ count' = count - 1
    /\ SignalThen(c, "idle")
    /\ StopWatcher(c)
    /\ UNCHANGED <<buf, tail, closed, ctxDone, overflow, sent, dropped>>

DequeueTake(c) ==
    /\ Running(c)
    /\ count > 0
    /\ out' = Append(out, buf[head])
    /\ buf' = [buf EXCEPT ![head] = NoEvent]
    /\ head' = Succ(head)
    /\ count' = count - 1
    /\ SignalThen(c, "idle")
    /\ StopWatcher(c)
    /\ UNCHANGED <<tail, closed, ctxDone, overflow, sent, dropped>>

\* Wrong variant: the wait is entered without a context watcher.
DequeueWait_Unwatched(c) ==
    /\ Running(c)
    /\ count = 0 /\ ~closed /\ c \notin ctxDone
    /\ Wait(c)
    /\ UNCHANGED <<ring, closed, ctxDone, watch, overflow, ghost>>

\* The first wait arms the watcher; later ones of the same call keep it.
DequeueWait(c) ==
    /\ Running(c)
    /\ count = 0 /\ ~closed /\ c \notin ctxDone
    /\ Wait(c)
    /\ watch' = [watch EXCEPT ![c] = "armed"]
    /\ UNCHANGED <<ring, closed, ctxDone, overflow, ghost>>

\* ok=false: the consumer (replayer.Run) leaves its loop.
DequeueFail(c) ==
    /\ Running(c)
    /\ count = 0 /\ (closed \/ c \in ctxDone)
    /\ pc' = [pc EXCEPT ![c] = "stopped"]
    /\ StopWatcher(c)
    /\ UNCHANGED <<ring, closed, waiters, ctxDone, overflow, ghost>>

Dequeue(c) == DequeueTake(c) \/ DequeueWait(c) \/ DequeueFail(c)

\* The watcher's select: ctx.Done wins (possibly even when stop is closed).
WatcherFire(c) ==
    /\ watch[c] # "off" /\ c \in ctxDone
    /\ Broadcast
    /\ watch' = [watch EXCEPT ![c] = "off"]
    /\ UNCHANGED <<ring, closed, ctxDone, overflow, ghost>>

WatcherExit(c) ==
    /\ watch[c] = "stopping"
    /\ watch' = [watch EXCEPT ![c] = "off"]
    /\ UNCHANGED <<ring, closed, waiters, pc, ctxDone, overflow, ghost>>

Watcher(c) == WatcherFire(c) \/ WatcherExit(c)

\* The consumer's context is cancelled from outside.
CancelCtx(c) ==
    /\ c \notin ctxDone
    /\ ctxDone' = ctxDone \cup {c}
    /\ UNCHANGED <<ring, closed, waiters, pc, watch, overflow, ghost>>

----------------------------------------------------------------------------
\* Wrong variant: Close does not wake the waiters.
Close_NoWake ==
    /\ ~closed
    /\ closed' = TRUE
    /\ UNCHANGED <<ring, waiters, pc, ctxDone, watch, overflow, ghost>>

\* Close wakes everyone; a second Close changes nothing.
Close ==
    /\ ~closed
    /\ closed' = TRUE
    /\ Broadcast
    /\ UNCHANGED <<ring, ctxDone, watch, overflow, ghost>>

Next == /\ \/ \E p \in Producers : Enqueue(p)
           \/ \E c \in Consumers : Dequeue(c) \/ Watcher(c) \/ CancelCtx(c)
           \/ Close
        /\ UNCHANGED policy

Spec == Init /\ [][Next]_vars

\* Go schedules every runnable goroutine and its mutex is starvation free;
\* nothing forces a producer to offer more, a cancellation or a Close, but a
\* producer woken inside Enqueue, or about to count a drop, runs on.
InsideEnqueue(p) == pc[p] # "idle" /\ Enqueue(p) /\ UNCHANGED policy

FairSpec == /\ Spec
            /\ \A p \in Producers : WF_vars(InsideEnqueue(p))
            /\ \A c \in Consumers : /\ WF_vars(Dequeue(c) /\ UNCHANGED policy)
                                    /\ WF_vars(Watcher(c) /\ UNCHANGED policy)
----------------------------------------------------------------------------
\* The buffered events, oldest first: what the circular array represents.
Contents == [i \in 1..count |-> buf[(head + i - 1) % Capacity]]

\* The abstract queue this module implements.
Abs == INSTANCE BufferQueue WITH q <- Contents

TypeOK ==
    /\ buf \in [Slots -> Event \cup {NoEvent}]
    /\ head \in Slots /\ tail \in Slots
    /\ count \in 0..Capacity
    /\ policy \in Policies
    /\ closed \in BOOLEAN
    /\ waiters \in Seq(Procs)
    /\ pc \in [Procs -> {"idle", "waiting", "woken", "overflow", "stopped"}]
    /\ ctxDone \in SUBSET Consumers
    /\ watch \in [Consumers -> {"off", "armed", "stopping"}]
    /\ overflow \in Nat
    /\ sent \in [Producers -> 0..MaxSeq]
    /\ out \in Seq(Event)
    /\ dropped \in Nat

(***************************************************************************)
(* The circular array is consistent (ringbuffer.go:18-30): tail is always  *)
(* count slots after head, exactly the count slots from head on hold       *)
(* events, and every other slot was released (nil), so no event is ever    *)
(* handed out twice or read from an empty slot.                            *)
(***************************************************************************)
Distance(i) == IF i >= head THEN i - head ELSE i - head + Capacity

RingConsistent ==
    /\ tail = (head + count) % Capacity
    /\ \A i \in Slots : buf[i] # NoEvent <=> Distance(i) < count

(***************************************************************************)
(* The ring buffer implements the bounded FIFO queue of BufferQueue: no    *)
(* step of any goroutine adds, loses, reorders or delivers an event except *)
(* as the queue's contract and the configured overflow policy say.         *)
(***************************************************************************)
ImplementsQueue == Abs!QSpec

\* Per-connection order of the events (R6.6), through the abstract queue.
PerConnOrder == Abs!PerConnOrder

(***************************************************************************)
(* No wake-up is lost: while the queue is open, a goroutine asleep in      *)
(* cond.Wait although its condition has come true (events for a consumer,  *)
(* room for a producer) is not left alone: some goroutine has been woken   *)
(* and has yet to run, and will pass the signal on.                        *)
(***************************************************************************)
NoLostWakeup ==
    (~closed /\ \E x \in Procs : /\ pc[x] = "waiting"
                                 /\ IF x \in Consumers THEN count > 0
                                                       ELSE count < Capacity)
        => \E y \in Procs : pc[y] = "woken"

(***************************************************************************)
(* Every discard is counted exactly once (R6.5, R12.2): the overflow       *)
(* counter lags the number of dropped=true results only by the callers     *)
(* that are between releasing the mutex and recordOverflow.                *)
(***************************************************************************)
OverflowCounted ==
    overflow + Cardinality({p \in Producers : pc[p] = "overflow"}) = dropped

(***************************************************************************)
(* Close releases everyone (ringbuffer.go:170-180): after Close every      *)
(* consumer drains what is left and sees ok=false, and no producer stays   *)
(* blocked in Enqueue.                                                     *)
(***************************************************************************)
CloseReleasesAll ==
    closed ~> /\ \A c \in Consumers : pc[c] = "stopped"
              /\ \A p \in Producers : pc[p] \notin {"waiting", "woken"}

(***************************************************************************)
(* A cancelled context ends Dequeue (ringbuffer.go:122-124): a consumer    *)
(* whose context is cancelled while it is asleep on an empty queue gets    *)
(* out of cond.Wait although nobody enqueues or closes.                    *)
(***************************************************************************)
CancelReleases ==
    \A c \in Consumers : c \in ctxDone ~> pc[c] # "waiting"

\* No goroutine sleeps in Wait for ever once Close or its own context should
\* have got it out (the broadcasts of Close and of DequeueContext's watcher).
WaitersReleased == CloseReleasesAll /\ CancelReleases
=============================================================================
