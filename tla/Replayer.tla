------------------------------ MODULE Replayer ------------------------------
(***************************************************************************)
(* The replayer: replayer.Run's dispatch loop with its backpressure, the   *)
(* per-connection lanes and their workers, the concurrency semaphore, the  *)
(* error policy, and the affinity pool that leases one target connection   *)
(* per source connection (src/pkg/replayer/replayer_impl.go,               *)
(* unbounded_lane.go, exec_decorators.go, pool.go; session_affinity on).   *)
(*                                                                         *)
(* The target database is external.  Each source connection repeats the    *)
(* transaction <<write, commit>> on one row: `write` needs the row lock    *)
(* and keeps it until `commit`, a ROLLBACK or the end of the session.      *)
(* Pacing, rate limiting and the guard's rewriting only delay or shorten a *)
(* statement and are left out; a statement may take any time.              *)
(***************************************************************************)
EXTENDS Integers, Sequences, FiniteSets, SequencesExt

CONSTANTS Conns,          \* source connections (ConnIDs)
          MaxSeq,         \* bound: events per source connection
          SerialKey,      \* serialLaneKey, the zero ConnID: any name for the one lane
          Modes,          \* the configurations a run may have
          None            \* nil

\* serial: r.serial, one lane for every ConnID; slots: r.concurrency, capacity
\* of sem; pool: cfg.PoolMaxConns; lanes: r.maxLaneDepth; queue: the guard's
\* max_queue_depth, 0 if not configured; lag: its max_replay_lag_seconds is
\* configured; policy: cfg.ErrorPolicy; attempts: defaultRetryAttempts; faults:
\* statements may fail and connections may die; cancels: the run context may
\* be cancelled from outside.
Mode == [serial : BOOLEAN, slots : Nat \ {0}, pool : Nat \ {0}, lanes : Nat \ {0}, queue : Nat,
         lag : BOOLEAN, policy : {"skip", "retry", "abort"}, attempts : Nat,
         faults : BOOLEAN, cancels : BOOLEAN]

ASSUME ReplayerAssumption == /\ MaxSeq \in Nat
                             /\ SerialKey \in Conns
                             /\ Modes \subseteq Mode
                             /\ IsFiniteSet(Conns)

Event == [conn : Conns, seq : 1..MaxSeq]
IsCommit(e) == e.seq % 2 = 0

VARIABLES mode,               \* New's configuration
          upstream, qClosed,  \* the Buffer_Queue
          disp,               \* Run: check, dequeue, closing, waiting, returned
          lagging,            \* replayLagSec of the last dequeued event is too high
          lane, laneState,    \* unboundedLane.buf; none, open or closed
          w, ev, attempts,    \* lane worker: its step, its event, its retries
          sem,                \* tokens in sem
          leased, dead,       \* affinityPool.leases; leased connections that died
          lock,               \* the ConnID whose session holds the row lock
          ctxDone,            \* Run's context
          arrived, done       \* history: events captured; events dealt with

pool == <<leased, dead, lock>>
worker == <<w, ev, attempts, sem>>
dispatcher == <<mode, upstream, disp, lagging>>
vars == <<dispatcher, qClosed, lane, laneState, worker, pool, ctxDone, arrived, done>>

Keys == IF mode.serial THEN {SerialKey} ELSE Conns
laneKey(e) == IF mode.serial THEN SerialKey ELSE e.conn

Init == /\ mode \in Modes
        /\ upstream = << >> /\ qClosed = FALSE
        /\ disp = "check"
        /\ lagging = FALSE
        /\ lane = [k \in Keys |-> << >>]
        /\ laneState = [k \in Keys |-> "none"]
        /\ w = [k \in Keys |-> "idle"]
        /\ ev = [k \in Keys |-> None]
        /\ attempts = [k \in Keys |-> 0]
        /\ sem = 0
        /\ leased = {} /\ dead = {} /\ lock = None
        /\ ctxDone = FALSE
        /\ arrived = << >> /\ done = << >>
----------------------------------------------------------------------------
\* What the pipeline does to the replayer: Enqueue, Close, consumerCancel.

\* The events of one source connection are numbered in captured order.
Arrive(c) ==
    /\ ~qClosed
    /\ \E n \in 1..MaxSeq :
          /\ \A i \in DOMAIN arrived : arrived[i].conn = c => arrived[i].seq < n
          /\ n > 1 => \E i \in DOMAIN arrived : arrived[i] = [conn |-> c, seq |-> n - 1]
          /\ upstream' = Append(upstream, [conn |-> c, seq |-> n])
          /\ arrived' = Append(arrived, [conn |-> c, seq |-> n])
    /\ UNCHANGED <<mode, qClosed, disp, lagging, lane, laneState, worker, pool, ctxDone, done>>

CloseQueue ==
    /\ ~qClosed
    /\ qClosed' = TRUE
    /\ UNCHANGED <<dispatcher, lane, laneState, worker, pool, ctxDone, arrived, done>>

Cancel ==
    /\ mode.cancels
    /\ ~ctxDone
    /\ ctxDone' = TRUE
    /\ UNCHANGED <<dispatcher, qClosed, lane, laneState, worker, pool, arrived, done>>
----------------------------------------------------------------------------
\* Run, the dispatcher.

\* The sum of the lanes' lengths: the places of the buffered events.
Buffered == UNION {{k} \X DOMAIN lane[k] : k \in Keys}
LaneDepth == Cardinality(Buffered)

\* The condition of Run's wait loop, with Guard.CheckBackpressure.
Backpressure ==
    \/ LaneDepth >= mode.lanes
    \/ mode.queue > 0 /\ Len(upstream) + LaneDepth > mode.queue
    \/ mode.lag /\ lagging

\* Wrong variant: the depth of the lanes is not looked at.
PassBackpressure_Unchecked ==
    /\ disp = "check"
    /\ disp' = "dequeue"
    /\ UNCHANGED <<mode, upstream, lagging, qClosed, lane, laneState, worker, pool,
                   ctxDone, arrived, done>>

PassBackpressure ==
    /\ disp = "check"
    /\ ~Backpressure
    /\ disp' = "dequeue"
    /\ UNCHANGED <<mode, upstream, lagging, qClosed, lane, laneState, worker, pool,
                   ctxDone, arrived, done>>

\* Dequeue, note the event's lag, and route it, opening its lane if needed.
Route ==
    /\ disp = "dequeue"
    /\ upstream # << >>
    /\ LET e == Head(upstream)
           k == laneKey(e)
       IN  /\ lane' = [lane EXCEPT ![k] = Append(@, e)]
           /\ laneState' = [laneState EXCEPT ![k] = "open"]
    /\ upstream' = Tail(upstream)
    /\ lagging' \in IF mode.lag THEN BOOLEAN ELSE {FALSE}
    /\ disp' = "check"
    /\ UNCHANGED <<mode, qClosed, worker, pool, ctxDone, arrived, done>>

\* Wrong variant: the backpressure wait does not look at the context.
DispatchEnds_IgnoreCtx ==
    /\ disp = "dequeue" /\ upstream = << >> /\ (qClosed \/ ctxDone)
    /\ disp' = "closing"
    /\ UNCHANGED <<mode, upstream, lagging, qClosed, lane, laneState, worker, pool,
                   ctxDone, arrived, done>>

\* Dequeue says ok=false, or the context ends the backpressure wait.
DispatchEnds ==
    /\ \/ disp = "dequeue" /\ upstream = << >> /\ (qClosed \/ ctxDone)
       \/ disp = "check" /\ Backpressure /\ ctxDone
    /\ disp' = "closing"
    /\ UNCHANGED <<mode, upstream, lagging, qClosed, lane, laneState, worker, pool,
                   ctxDone, arrived, done>>

\* Wrong variant: the lanes are left open.
CloseLanes_Forgotten ==
    /\ disp = "closing"
    /\ disp' = "waiting"
    /\ UNCHANGED <<mode, upstream, lagging, qClosed, lane, laneState, worker, pool,
                   ctxDone, arrived, done>>

CloseLanes ==
    /\ disp = "closing"
    /\ laneState' = [k \in Keys |-> IF laneState[k] = "open" THEN "closed" ELSE laneState[k]]
    /\ disp' = "waiting"
    /\ UNCHANGED <<mode, upstream, lagging, qClosed, lane, worker, pool, ctxDone, arrived, done>>

\* Wrong variant: Run returns without laneWG.Wait.
RunReturns_NoWait ==
    /\ disp = "waiting"
    /\ disp' = "returned"
    /\ UNCHANGED <<mode, upstream, lagging, qClosed, lane, laneState, worker, pool,
                   ctxDone, arrived, done>>

\* laneWG.Wait.
RunReturns ==
    /\ disp = "waiting"
    /\ \A k \in Keys : laneState[k] # "none" => w[k] = "retired"
    /\ disp' = "returned"
    /\ UNCHANGED <<mode, upstream, lagging, qClosed, lane, laneState, worker, pool,
                   ctxDone, arrived, done>>

Dispatcher == PassBackpressure \/ Route \/ DispatchEnds \/ CloseLanes \/ RunReturns
----------------------------------------------------------------------------
\* A lane's worker, runLaneUnbounded.

\* The session of a connection that leaves the pool's hands ends, or is
\* discarded by the pool if a transaction is open: its row lock goes.
Unlocked(cs) == IF lock \in cs THEN None ELSE lock

\* The deferred releaseConn of every ConnID the lane has seen.
Retire(k) ==
    LET seen == IF mode.serial THEN Conns ELSE {k}
    IN  /\ leased' = leased \ seen
        /\ dead' = dead \ seen
        /\ lock' = Unlocked(seen)
        /\ w' = [w EXCEPT ![k] = "retired"]
        /\ ev' = [ev EXCEPT ![k] = None]

\* Wrong variant: the lane is read from its newest end.
LaneTake_Newest(k) ==
    /\ w[k] = "idle"
    /\ lane[k] # << >>
    /\ ev' = [ev EXCEPT ![k] = Last(lane[k])]
    /\ lane' = [lane EXCEPT ![k] = Front(@)]
    /\ w' = [w EXCEPT ![k] = "sem"]
    /\ UNCHANGED <<dispatcher, qClosed, laneState, attempts, sem, pool, ctxDone, arrived, done>>

\* Wrong variant: an event of another connection overtakes the oldest one.
LaneTake_Overtakes(k) ==
    /\ w[k] = "idle"
    /\ lane[k] # << >>
    /\ LET others == {i \in DOMAIN lane[k] : lane[k][i].conn # lane[k][1].conn}
           i == IF others = {} THEN 1 ELSE CHOOSE j \in others : \A l \in others : j <= l
       IN  ev' = [ev EXCEPT ![k] = lane[k][i]] /\ lane' = [lane EXCEPT ![k] = RemoveAt(@, i)]
    /\ w' = [w EXCEPT ![k] = "sem"]
    /\ UNCHANGED <<dispatcher, qClosed, laneState, attempts, sem, pool, ctxDone, arrived, done>>

\* unboundedLane.Dequeue.
LaneTake(k) ==
    /\ w[k] = "idle"
    /\ lane[k] # << >>
    /\ ev' = [ev EXCEPT ![k] = Head(lane[k])]
    /\ lane' = [lane EXCEPT ![k] = Tail(@)]
    /\ w' = [w EXCEPT ![k] = "sem"]
    /\ UNCHANGED <<dispatcher, qClosed, laneState, attempts, sem, pool, ctxDone, arrived, done>>

LaneDrained(k) ==
    /\ w[k] = "idle"
    /\ lane[k] = << >> /\ laneState[k] = "closed"
    /\ Retire(k)
    /\ UNCHANGED <<dispatcher, qClosed, lane, laneState, attempts, sem, ctxDone, arrived, done>>

TakeSlot(k) ==
    /\ w[k] = "sem"
    /\ sem < mode.slots
    /\ sem' = sem + 1
    /\ w' = [w EXCEPT ![k] = "acquire"]
    /\ attempts' = [attempts EXCEPT ![k] = 0]
    /\ UNCHANGED <<dispatcher, qClosed, lane, laneState, ev, pool, ctxDone, arrived, done>>

\* The cancelled context wins the select: the lane is abandoned.
SlotCancelled(k) ==
    /\ w[k] = "sem"
    /\ ctxDone
    /\ Retire(k)
    /\ UNCHANGED <<dispatcher, qClosed, lane, laneState, attempts, sem, ctxDone, arrived, done>>

\* execAndRelease returns: the slot is freed, the lane goes on.
Finish(k) == /\ w' = [w EXCEPT ![k] = "idle"]
             /\ ev' = [ev EXCEPT ![k] = None]
             /\ sem' = sem - 1
             /\ done' = Append(done, ev[k])
             /\ UNCHANGED attempts
----------------------------------------------------------------------------
\* affinityPool.acquireFor, for the ConnID c of the worker's event.

\* An existing lease that answers the ping is reused.
ReuseLease(k, c) ==
    /\ w[k] = "acquire" /\ c = ev[k].conn
    /\ c \in leased \ dead
    /\ w' = [w EXCEPT ![k] = "exec"]
    /\ UNCHANGED <<dispatcher, qClosed, lane, laneState, ev, attempts, sem, pool,
                   ctxDone, arrived, done>>

\* A dead one is dropped from leases and released.
DropDeadLease(k, c) ==
    /\ w[k] = "acquire" /\ c = ev[k].conn
    /\ c \in dead
    /\ leased' = leased \ {c}
    /\ dead' = dead \ {c}
    /\ UNCHANGED <<dispatcher, qClosed, lane, laneState, worker, lock, ctxDone, arrived, done>>

\* Wrong variant: the source pool hands out more than it has.
NewLease_Unbounded(k, c) ==
    /\ w[k] = "acquire" /\ c = ev[k].conn
    /\ c \notin leased
    /\ leased' = leased \cup {c}
    /\ w' = [w EXCEPT ![k] = "exec"]
    /\ UNCHANGED <<dispatcher, qClosed, lane, laneState, ev, attempts, sem, dead, lock,
                   ctxDone, arrived, done>>

\* src.Acquire: a connection is free.
NewLease(k, c) ==
    /\ w[k] = "acquire" /\ c = ev[k].conn
    /\ c \notin leased
    /\ Cardinality(leased) < mode.pool
    /\ leased' = leased \cup {c}
    /\ w' = [w EXCEPT ![k] = "exec"]
    /\ UNCHANGED <<dispatcher, qClosed, lane, laneState, ev, attempts, sem, dead, lock,
                   ctxDone, arrived, done>>

Exhausted(c) == c \notin leased /\ Cardinality(leased) >= mode.pool

\* Wrong variant: one attempt too many.
Fail_OneMore(k) ==
    \/ /\ ctxDone
       /\ Finish(k) /\ UNCHANGED ctxDone
    \/ /\ ~ctxDone /\ mode.policy = "retry" /\ attempts[k] <= mode.attempts
       /\ attempts' = [attempts EXCEPT ![k] = @ + 1]
       /\ w' = [w EXCEPT ![k] = "acquire"]
       /\ UNCHANGED <<ev, sem, ctxDone, done>>

\* errorPolicyExecutor.Exec after a failed attempt.
Fail(k) ==
    \/ /\ ctxDone
       /\ Finish(k) /\ UNCHANGED ctxDone
    \/ /\ ~ctxDone /\ mode.policy = "retry" /\ attempts[k] < mode.attempts
       /\ attempts' = [attempts EXCEPT ![k] = @ + 1]
       /\ w' = [w EXCEPT ![k] = "acquire"]
       /\ UNCHANGED <<ev, sem, ctxDone, done>>
    \/ /\ ~ctxDone /\ (mode.policy = "skip" \/ (mode.policy = "retry" /\ attempts[k] >= mode.attempts))
       /\ w' = [w EXCEPT ![k] = "reset"]
       /\ UNCHANGED <<ev, attempts, sem, ctxDone, done>>
    \/ /\ ~ctxDone /\ mode.policy = "abort"
       /\ ctxDone' = TRUE
       /\ Finish(k)

\* AcquireFor's timeout, or the context, ends the wait for a connection.
AcquireFails(k, c) ==
    /\ w[k] = "acquire" /\ c = ev[k].conn
    /\ Exhausted(c)
    /\ Fail(k)
    /\ UNCHANGED <<dispatcher, qClosed, lane, laneState, pool, arrived>>
----------------------------------------------------------------------------
\* The statement on the target.

ExecOk(k, c) ==
    /\ w[k] = "exec" /\ c = ev[k].conn
    /\ c \notin dead
    /\ IF IsCommit(ev[k]) THEN lock' = Unlocked({c})
       ELSE lock \in {None, c} /\ lock' = c
    /\ Finish(k)
    /\ UNCHANGED <<dispatcher, qClosed, lane, laneState, leased, dead, ctxDone, arrived>>

\* The statement fails, or its connection is gone.
ExecFails(k, c) ==
    /\ w[k] = "exec" /\ c = ev[k].conn
    /\ mode.faults
    /\ Fail(k)
    /\ UNCHANGED <<dispatcher, qClosed, lane, laneState, pool, arrived>>

\* The cancelled context interrupts it; the driver closes the connection.
ExecInterrupted(k, c) ==
    /\ w[k] = "exec" /\ c = ev[k].conn
    /\ ctxDone
    /\ dead' = dead \cup {c}
    /\ lock' = Unlocked({c})
    /\ Finish(k)
    /\ UNCHANGED <<dispatcher, qClosed, lane, laneState, leased, ctxDone, arrived>>

\* Wrong variant: the slot is not given back after the ROLLBACK.
ResetTx_KeepSlot(k, c) ==
    /\ w[k] = "reset" /\ c = ev[k].conn
    /\ lock' = Unlocked({c})
    /\ dead' = dead \ {c}
    /\ leased' \in {leased \ (dead \cap {c})} \cup
                   (IF Exhausted(c) THEN {} ELSE {leased \cup {c}})
    /\ w' = [w EXCEPT ![k] = "idle"]
    /\ ev' = [ev EXCEPT ![k] = None]
    /\ done' = Append(done, ev[k])
    /\ UNCHANGED <<dispatcher, qClosed, lane, laneState, attempts, sem, ctxDone, arrived>>

\* resetTxState: a ROLLBACK through the pool, whose own failure is ignored; the
\* connection it runs on stays leased.
ResetTx(k, c) ==
    /\ w[k] = "reset" /\ c = ev[k].conn
    /\ lock' = Unlocked({c})
    /\ dead' = dead \ {c}
    /\ leased' \in {leased \ (dead \cap {c})} \cup
                   (IF Exhausted(c) THEN {} ELSE {leased \cup {c}})
    /\ Finish(k)
    /\ UNCHANGED <<dispatcher, qClosed, lane, laneState, ctxDone, arrived>>

\* A leased connection breaks; the server ends its session.
ConnDies(c) ==
    /\ mode.faults
    /\ c \in leased \ dead
    /\ dead' = dead \cup {c}
    /\ lock' = Unlocked({c})
    /\ UNCHANGED <<dispatcher, qClosed, lane, laneState, worker, leased, ctxDone, arrived, done>>

\* What a worker does by itself.  A statement on a dead connection fails; one
\* that waits for the row lock of another session may wait for ever, because
\* neither the replayer nor the statements it sends set a timeout.
Proceeds(k) ==
    \/ LaneTake(k) \/ LaneDrained(k) \/ TakeSlot(k) \/ SlotCancelled(k)
    \/ \E c \in Conns :
          \/ ReuseLease(k, c) \/ DropDeadLease(k, c) \/ NewLease(k, c) \/ AcquireFails(k, c)
          \/ ExecOk(k, c) \/ ExecInterrupted(k, c) \/ ResetTx(k, c)
          \/ c \in dead /\ ExecFails(k, c)

Worker(k) == Proceeds(k) \/ \E c \in Conns : ExecFails(k, c)

Next == \/ \E c \in Conns : Arrive(c) \/ ConnDies(c)
        \/ CloseQueue \/ Cancel
        \/ Dispatcher
        \/ \E k \in Keys : Worker(k)

Spec == Init /\ [][Next]_vars

\* Go runs runnable goroutines, timers fire, and the target answers a
\* statement that is not waiting for a lock.  Nothing is assumed of one that
\* is: no failure is owed to it.
FairSpec == /\ Spec
            /\ WF_vars(Dispatcher)
            /\ \A k \in Conns : /\ WF_vars(k \in Keys /\ Proceeds(k))
                                /\ SF_vars(k \in Keys /\ TakeSlot(k))
----------------------------------------------------------------------------
TypeOK ==
    /\ mode \in Modes
    /\ upstream \in Seq(Event) /\ qClosed \in BOOLEAN
    /\ disp \in {"check", "dequeue", "closing", "waiting", "returned"}
    /\ lagging \in BOOLEAN
    /\ lane \in [Keys -> Seq(Event)]
    /\ laneState \in [Keys -> {"none", "open", "closed"}]
    /\ w \in [Keys -> {"idle", "sem", "acquire", "exec", "reset", "retired"}]
    /\ ev \in [Keys -> Event \cup {None}]
    /\ attempts \in [Keys -> 0..mode.attempts]
    /\ sem \in 0..mode.slots
    /\ leased \in SUBSET Conns /\ dead \in SUBSET Conns
    /\ lock \in Conns \cup {None}
    /\ ctxDone \in BOOLEAN
    /\ arrived \in Seq(Event) /\ done \in Seq(Event)

(***************************************************************************)
(* Per-connection order (R7.13, runLaneUnbounded): the events of one       *)
(* source connection are dealt with in captured order and at most once,    *)
(* whatever fails, is retried, or runs on other lanes.                     *)
(***************************************************************************)
PerConnOrder ==
    \A i, j \in 1..Len(done) :
        i < j /\ done[i].conn = done[j].conn => done[i].seq < done[j].seq

(***************************************************************************)
(* Serial mode keeps the captured order across connections (R7.12): what   *)
(* has been dealt with is a prefix of what was captured.                   *)
(***************************************************************************)
SerialOrder == mode.serial => IsPrefix(done, arrived)

(***************************************************************************)
(* The pool is never oversubscribed (R7.10, R9.2) and a statement only     *)
(* runs on a connection that its source connection has leased.             *)
(***************************************************************************)
LeasesWithinPool ==
    /\ Cardinality(leased) <= mode.pool
    /\ dead \subseteq leased
    /\ \A k \in Keys : w[k] = "exec" => ev[k].conn \in leased

(***************************************************************************)
(* Semaphore slots are neither leaked nor given back twice                 *)
(* (execAndRelease): the tokens are those of the workers inside Exec, so a *)
(* failing, retried or interrupted statement never costs concurrency.      *)
(***************************************************************************)
SlotsAccounted ==
    sem = Cardinality({k \in Keys : w[k] \in {"acquire", "exec", "reset"}})

(***************************************************************************)
(* Lane memory is bounded (defaultMaxLaneDepth): the lanes together never  *)
(* buffer more than maxLaneDepth events.                                   *)
(***************************************************************************)
LanesBounded == LaneDepth <= mode.lanes

(***************************************************************************)
(* Nothing is forgotten: when Run has returned without being cancelled     *)
(* (by the drain's deadline or the abort policy), every captured event has *)
(* been executed or skipped by policy, and every lease is back.            *)
(***************************************************************************)
ReturnedMeansDrained ==
    disp = "returned" =>
        /\ leased = {}
        /\ ~ctxDone => Len(done) = Len(arrived)

(***************************************************************************)
(* Run returns when the queue is closed and drained (replayer_impl.go:     *)
(* 251-252), even if lanes contend for row locks on the target (257-260).  *)
(***************************************************************************)
RunReturnsOnClose == qClosed ~> (disp = "returned")

\* Run returns when its context is cancelled (replayer_impl.go:251-252).
RunReturnsOnCancel == ctxDone ~> (disp = "returned")

\* k's statement waits for the row lock of another connection's session.
Blocked(k) == /\ w[k] = "exec" /\ ~IsCommit(ev[k])
              /\ ev[k].conn \notin dead
              /\ lock \notin {None, ev[k].conn}

\* A statement waits for a lock whose holder cannot get to its COMMIT because
\* of the waiting statement: the COMMIT is behind it in the one serial lane, or
\* needs the slot it keeps, or is held back by a dispatcher that waits for the
\* lanes, the waiting one among them, to become shorter.
Inverted == \E k \in Keys : /\ Blocked(k)
                            /\ \/ mode.serial
                               \/ w[lock] = "sem" /\ sem = mode.slots
                               \/ disp = "check" /\ Backpressure

\* Events reach the target in the order of their connection, and in the order
\* of the whole stream in serial mode, through retries, aborts and lanes that
\* end (runLane, dispatch).
ReplayOrder == PerConnOrder /\ SerialOrder

\* Slots, leases and lane entries are given back on every path and never exceed
\* their limits (the semaphore, the affinity pool, maxLaneDepth).
ResourcesBounded == SlotsAccounted /\ LeasesWithinPool /\ LanesBounded

\* Run returns after cancellation, whatever the dispatcher and the lanes wait
\* for at that moment, and after Close of the queue unless the replay's own
\* order has made a lock wait permanent (Inverted): lock waits between lanes
\* that have their slots, exhausted pools, dying connections, aborts and retries
\* never keep Run from returning.
RunReturnsInTheEnd ==
    /\ <>qClosed => <>(disp = "returned") \/ <>[]Inverted
    /\ RunReturnsOnCancel
=============================================================================
