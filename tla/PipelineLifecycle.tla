-------------------------- MODULE PipelineLifecycle --------------------------
(***************************************************************************)
(* How pgshadow's pipeline is started, paused, resumed, restarted after a  *)
(* failover, and drained (src/cmd/pgshadow/pipeline.go and main.go), with  *)
(* the two components that call into it: the control plane's HTTP handlers *)
(* (src/internal/control/control.go) and the failover detector             *)
(* (src/internal/monitor/monitor.go).                                      *)
(*                                                                         *)
(* The callbacks pauseCapture, resumeCapture and restartCapture serialise  *)
(* on pipelineState.mu; drainWithin, run by main after the shutdown        *)
(* signal, does not take it.  The i-th successful capture.Open and the     *)
(* producer started on it share the number i (0 is the one of startup).    *)
(* The replayer is kept to what the drain relies on; capture modes whose   *)
(* restart is a no-op (eBPF) behave as if the detector were off.           *)
(***************************************************************************)
EXTENDS Integers, FiniteSets

CONSTANTS Handlers,     \* concurrent HTTP requests to the control plane
          Detectors,    \* the failover detector, a singleton
          Setups,       \* the sets of callers that there may be together
          IPs,          \* addresses the source host may resolve to
          OpenMayFail,  \* capture.Open can fail after startup
          QueueCap,     \* capacity of the queue (Block policy)
          LaneCap,      \* r.maxLaneDepth of the replayer
          MaxCalls,     \* bound: control requests plus switchovers
          MaxEvents,    \* bound: events framed by the producers
          None          \* nil

ASSUME LifecycleAssumption == /\ Handlers \cap Detectors = {}
                              /\ Setups \subseteq SUBSET (Handlers \cup Detectors)
                              /\ None \notin Handlers \cup Detectors
                              /\ IPs # {}
                              /\ OpenMayFail \in BOOLEAN
                              /\ QueueCap \in Nat \ {0}
                              /\ LaneCap \in Nat \ {0}
                              /\ MaxCalls \in Nat
                              /\ MaxEvents \in Nat
                              /\ None \notin Nat

Callers == Handlers \cup Detectors
Ids == 0..MaxCalls

VARIABLES
    present,    \* the callers of this run; without the detector it is off
    ctl,        \* control.Server.state
    dns,        \* what the source host resolves to now
    knownIP,    \* FailoverDetector.currentIP
    pc, op,     \* per caller: where it is, and in which callback
    mu,         \* holder of pipelineState.mu
    paused,     \* pipelineState.paused
    srcHost,    \* cfg.Capture.SourceHost
    capture,    \* components.capture
    open, host, \* open capture handles, and the address each one filters on
    prod,       \* per producer: none, running, enqueue, exited
    cancelled,  \* producers whose own context is cancelled
    cur,        \* the producer prodCancel and producerDone belong to
    last,       \* the latest handle opened
    calls,      \* requests and switchovers so far
    queueClosed, depth,         \* the Buffer_Queue
    dispatch, inLanes,          \* replayer.Run: its dispatch loop, its lanes
    consCancelled, poolClosed,  \* consumerCancel called; Connection_Pool closed
    main, timedOut,             \* main's position in run; drainWithin.timedOut
    framed, accepted, replayed, \* history: events framed, queued, executed
    late,       \* history: producers started after the shutdown signal
    crashed     \* a nil interface was dereferenced: the process is gone

ctlVars  == <<present, ctl, dns, knownIP, calls>>
capVars  == <<srcHost, capture, open, host, last>>
prodVars == <<prod, cancelled, cur, late>>
consVars == <<depth, dispatch, inLanes, replayed>>
mainVars == <<queueClosed, consCancelled, poolClosed, main, timedOut>>
vars == <<ctlVars, pc, op, mu, paused, capVars, prodVars, consVars, mainVars,
          framed, accepted, crashed>>

\* startup and startPipeline succeeded: handle 0 open, producer 0 running.
Init == /\ present \in Setups
        /\ ctl = "active"
        /\ dns \in IPs /\ knownIP = dns /\ srcHost = dns
        /\ pc = [a \in Callers |-> "idle"]
        /\ op = [a \in Callers |-> None]
        /\ mu = None
        /\ paused = FALSE
        /\ capture = 0 /\ open = {0} /\ last = 0
        /\ host = [i \in Ids |-> srcHost]
        /\ prod = [i \in Ids |-> IF i = 0 THEN "running" ELSE "none"]
        /\ cancelled = {} /\ cur = 0
        /\ calls = 0
        /\ queueClosed = FALSE /\ depth = 0
        /\ dispatch = TRUE /\ inLanes = 0
        /\ consCancelled = FALSE /\ poolClosed = FALSE
        /\ main = "running" /\ timedOut = FALSE
        /\ framed = 0 /\ accepted = 0 /\ replayed = 0
        /\ late = {}
        /\ crashed = FALSE

\* The shutdown signal has cancelled ctx, the parent of every producer context.
Signalled == main # "running"
Active(i) == prod[i] \in {"running", "enqueue"}
ConsumerDone == ~dispatch /\ inLanes = 0
\* The deferred fd.Stop and ctrlSrv.Shutdown have not run yet.
Serving == main # "closing"
\* The failover detector is configured.
Detects == present \cap Detectors # {}
\* The process is still there.
Alive == ~crashed /\ main # "exited"

----------------------------------------------------------------------------
\* Who calls into the pipeline.

\* handleActivate and handlePause: the state is set first, the callback runs
\* afterwards, outside s.mu, and only on a change.
Request(h, want) ==
    /\ Alive
    /\ Serving
    /\ h \in present /\ pc[h] = "idle"
    /\ calls < MaxCalls
    /\ calls' = calls + 1
    /\ ctl' = want
    /\ IF ctl = want
       THEN UNCHANGED <<pc, op>>
       ELSE /\ pc' = [pc EXCEPT ![h] = "lock"]
            /\ op' = [op EXCEPT ![h] = IF want = "active" THEN "resume" ELSE "pause"]
    /\ UNCHANGED <<present, dns, knownIP, mu, paused, capVars, prodVars, consVars, mainVars,
                   framed, accepted, crashed>>

\* The source's primary moves: its host name resolves to another address.  Only
\* the detector ever looks.
Switchover(ip) ==
    /\ Alive /\ Detects
    /\ ip # dns
    /\ calls < MaxCalls
    /\ calls' = calls + 1
    /\ dns' = ip
    /\ UNCHANGED <<present, ctl, knownIP, pc, op, mu, paused, capVars, prodVars, consVars,
                   mainVars, framed, accepted, crashed>>

\* monitorLoop: a tick that resolves to another address.  currentIP moves on
\* before the callback runs; the loop waits for it.
Failover(d) ==
    /\ Alive
    /\ Serving
    /\ d \in present /\ pc[d] = "idle"
    /\ dns # knownIP
    /\ knownIP' = dns
    /\ pc' = [pc EXCEPT ![d] = "lock"]
    /\ op' = [op EXCEPT ![d] = "restart"]
    /\ UNCHANGED <<present, ctl, dns, calls, mu, paused, capVars, prodVars, consVars,
                   mainVars, framed, accepted, crashed>>
----------------------------------------------------------------------------
\* pauseCapture, resumeCapture and restartCapture.

Return(a) == /\ pc' = [pc EXCEPT ![a] = "idle"]
             /\ op' = [op EXCEPT ![a] = None]
             /\ mu' = None

\* Nothing to do: already paused, or already active.
Skips(a) == (op[a] = "pause" /\ paused) \/ (op[a] = "resume" /\ ~paused)

Lock(a) ==
    /\ Alive
    /\ pc[a] = "lock"
    /\ mu = None
    /\ IF Skips(a)
       THEN Return(a)
       ELSE /\ mu' = a
            /\ pc' = [pc EXCEPT ![a] = IF op[a] = "resume" THEN "open" ELSE "stop"]
            /\ UNCHANGED op
    /\ UNCHANGED <<ctlVars, paused, capVars, prodVars, consVars, mainVars,
                   framed, accepted, crashed>>

\* prodCancel, then close the handle; pauseCapture also forgets it.
StopProducer(a) ==
    /\ Alive
    /\ pc[a] = "stop"
    /\ cancelled' = cancelled \cup {cur}
    /\ open' = open \ {capture}
    /\ capture' = IF op[a] = "pause" THEN None ELSE capture
    /\ pc' = [pc EXCEPT ![a] = "await"]
    /\ UNCHANGED <<ctlVars, op, mu, paused, srcHost, host, last, prod, cur, late,
                   consVars, mainVars, framed, accepted, crashed>>

\* Wrong variant: the pause does not wait for the producer to finish.
AwaitProducer_NoWait(a) ==
    /\ Alive
    /\ pc[a] = "await"
    /\ IF op[a] = "pause"
       THEN paused' = TRUE /\ Return(a)
       ELSE /\ pc' = [pc EXCEPT ![a] = "open"]
            /\ UNCHANGED <<op, mu, paused>>
    /\ UNCHANGED <<ctlVars, capVars, prodVars, consVars, mainVars,
                   framed, accepted, crashed>>

\* <-p.producerDone
AwaitProducer(a) ==
    /\ Alive
    /\ pc[a] = "await"
    /\ prod[cur] = "exited"
    /\ IF op[a] = "pause"
       THEN paused' = TRUE /\ Return(a)
       ELSE /\ pc' = [pc EXCEPT ![a] = "open"]
            /\ UNCHANGED <<op, mu, paused>>
    /\ UNCHANGED <<ctlVars, capVars, prodVars, consVars, mainVars,
                   framed, accepted, crashed>>

\* Wrong variant: the failover does not update the address of the filter.
NewHost_Stale(a) == srcHost

\* restartCapture puts the new address into the config before it opens.
NewHost(a) == IF op[a] = "restart" THEN knownIP ELSE srcHost

OpenCapture(a) ==
    /\ Alive
    /\ pc[a] = "open"
    /\ srcHost' = NewHost(a)
    /\ last' = last + 1
    /\ capture' = last + 1
    /\ open' = open \cup {last + 1}
    /\ host' = [host EXCEPT ![last + 1] = NewHost(a)]
    /\ pc' = [pc EXCEPT ![a] = "start"]
    /\ UNCHANGED <<ctlVars, op, mu, paused, prodVars, consVars, mainVars,
                   framed, accepted, crashed>>

\* capture.Open fails: resumeCapture returns the error and stays paused;
\* restartCapture detaches the old handle and only logs.
OpenFails(a) ==
    /\ Alive
    /\ pc[a] = "open"
    /\ OpenMayFail
    /\ srcHost' = NewHost(a)
    /\ capture' = IF op[a] = "restart" THEN None ELSE capture
    /\ Return(a)
    /\ UNCHANGED <<ctlVars, paused, open, host, last, prodVars, consVars,
                   mainVars, framed, accepted, crashed>>

\* startProducer reads c.capture.Packets(), which panics if the drain has
\* detached the handle in the meantime; the new context descends from ctx.
StartProducer(a) ==
    /\ Alive
    /\ pc[a] = "start"
    /\ IF capture = None
       THEN /\ crashed' = TRUE
            /\ UNCHANGED <<pc, op, mu, paused, prod, cur, late>>
       ELSE /\ prod' = [prod EXCEPT ![last] = "running"]
            /\ cur' = last
            /\ late' = IF Signalled THEN late \cup {last} ELSE late
            /\ paused' = (paused /\ op[a] # "resume")
            /\ Return(a)
            /\ UNCHANGED crashed
    /\ UNCHANGED <<ctlVars, capVars, cancelled, consVars, mainVars, framed, accepted>>

Callback(a) == \/ Lock(a)        \/ StopProducer(a) \/ AwaitProducer(a)
               \/ OpenCapture(a) \/ OpenFails(a)    \/ StartProducer(a)
----------------------------------------------------------------------------
\* The producer goroutines of startProducer: reader and processor.

\* The source's channel closes without a Close (a read error).
SourceEnds(i) ==
    /\ Alive
    /\ i \in open
    /\ open' = open \ {i}
    /\ UNCHANGED <<ctlVars, pc, op, mu, paused, srcHost, capture, host, last,
                   prodVars, consVars, mainVars, framed, accepted, crashed>>

\* A packet, or reasm.Close's flush, yields an event: the select over ctx.Done
\* and pktCh is unordered, so this also happens after the cancellation.
Frame(i) ==
    /\ Alive
    /\ prod[i] = "running"
    /\ framed < MaxEvents
    /\ framed' = framed + 1
    /\ prod' = [prod EXCEPT ![i] = "enqueue"]
    /\ UNCHANGED <<ctlVars, pc, op, mu, paused, capVars, cancelled, cur, late,
                   consVars, mainVars, accepted, crashed>>

\* Wrong variant: the queue's capacity is not respected.
ProducerEnqueue_Unbounded(i) ==
    /\ Alive
    /\ prod[i] = "enqueue"
    /\ IF queueClosed
       THEN UNCHANGED <<depth, accepted>>
       ELSE /\ depth' = depth + 1
            /\ accepted' = accepted + 1
    /\ prod' = [prod EXCEPT ![i] = "running"]
    /\ UNCHANGED <<ctlVars, pc, op, mu, paused, capVars, cancelled, cur, late,
                   dispatch, inLanes, replayed, mainVars, framed, crashed>>

\* Enqueue: blocks while the queue is full, and is refused once it is closed.
ProducerEnqueue(i) ==
    /\ Alive
    /\ prod[i] = "enqueue"
    /\ IF queueClosed
       THEN UNCHANGED <<depth, accepted>>
       ELSE /\ depth < QueueCap
            /\ depth' = depth + 1
            /\ accepted' = accepted + 1
    /\ prod' = [prod EXCEPT ![i] = "running"]
    /\ UNCHANGED <<ctlVars, pc, op, mu, paused, capVars, cancelled, cur, late,
                   dispatch, inLanes, replayed, mainVars, framed, crashed>>

\* Both goroutines have returned and producerDone is closed.
ProducerExit(i) ==
    /\ Alive
    /\ prod[i] = "running"
    /\ Signalled \/ i \in cancelled \/ i \notin open
    /\ prod' = [prod EXCEPT ![i] = "exited"]
    /\ UNCHANGED <<ctlVars, pc, op, mu, paused, capVars, cancelled, cur, late,
                   consVars, mainVars, framed, accepted, crashed>>

ProducerStops(i) == ProducerEnqueue(i) \/ ProducerExit(i)
----------------------------------------------------------------------------
\* replayer.Run, as far as the drain depends on it.

\* Dequeue and route to a lane, unless backpressure holds the loop back; a
\* cancelled context does not keep Dequeue from handing out what is buffered.
Dispatch ==
    /\ Alive
    /\ dispatch
    /\ inLanes < LaneCap
    /\ depth > 0
    /\ depth' = depth - 1
    /\ inLanes' = inLanes + 1
    /\ UNCHANGED <<ctlVars, pc, op, mu, paused, capVars, prodVars, dispatch,
                   replayed, mainVars, framed, accepted, crashed>>

\* Wrong variant: a closed queue ends the loop although events are buffered.
DispatchEnds_Undrained ==
    /\ Alive
    /\ dispatch
    /\ queueClosed \/ consCancelled
    /\ dispatch' = FALSE
    /\ UNCHANGED <<ctlVars, pc, op, mu, paused, capVars, prodVars, depth, inLanes,
                   replayed, mainVars, framed, accepted, crashed>>

\* The loop ends: Dequeue said ok=false, or backpressure met the cancellation.
DispatchEnds ==
    /\ Alive
    /\ dispatch
    /\ \/ depth = 0 /\ (queueClosed \/ consCancelled)
       \/ inLanes >= LaneCap /\ consCancelled
    /\ dispatch' = FALSE
    /\ UNCHANGED <<ctlVars, pc, op, mu, paused, capVars, prodVars, depth, inLanes,
                   replayed, mainVars, framed, accepted, crashed>>

\* A lane's event is executed against the target.
Execute ==
    /\ Alive
    /\ inLanes > 0
    /\ inLanes' = inLanes - 1
    /\ replayed' = replayed + 1
    /\ UNCHANGED <<ctlVars, pc, op, mu, paused, capVars, prodVars, depth, dispatch,
                   mainVars, framed, accepted, crashed>>

\* The cancelled context interrupts a lane's event.
Abandon ==
    /\ Alive
    /\ consCancelled
    /\ inLanes > 0
    /\ inLanes' = inLanes - 1
    /\ UNCHANGED <<ctlVars, pc, op, mu, paused, capVars, prodVars, depth, dispatch,
                   replayed, mainVars, framed, accepted, crashed>>
----------------------------------------------------------------------------
\* main: the signal, drainWithin, and run's deferred calls.

callVars == <<ctlVars, pc, op, mu, paused, consVars, framed, accepted, crashed>>

Signal ==
    /\ Alive
    /\ main = "running"
    /\ main' = "stop"
    /\ UNCHANGED <<callVars, capVars, prodVars, queueClosed, consCancelled,
                   poolClosed, timedOut>>

\* Step 1, without p.mu: cancel the producer and close the handle ...
DrainStop ==
    /\ Alive
    /\ main = "stop"
    /\ cancelled' = cancelled \cup {cur}
    /\ open' = open \ {capture}
    /\ main' = IF capture = None THEN "awaitProducer" ELSE "detach"
    /\ UNCHANGED <<callVars, srcHost, capture, host, last, prod, cur, late,
                   queueClosed, consCancelled, poolClosed, timedOut>>

\* ... then set c.capture to nil.
DrainDetach ==
    /\ Alive
    /\ main = "detach"
    /\ capture' = None
    /\ main' = "awaitProducer"
    /\ UNCHANGED <<callVars, srcHost, open, host, last, prodVars,
                   queueClosed, consCancelled, poolClosed, timedOut>>

\* Wrong variant: step 2 is skipped, the producer is still flushing.
DrainAwaitProducer_Skip ==
    /\ Alive
    /\ main = "awaitProducer"
    /\ main' = "closeQueue"
    /\ UNCHANGED <<callVars, capVars, prodVars, queueClosed, consCancelled,
                   poolClosed, timedOut>>

\* Step 2: wait for producerDone ...
DrainAwaitProducer ==
    /\ Alive
    /\ main = "awaitProducer"
    /\ prod[cur] = "exited"
    /\ main' = "closeQueue"
    /\ UNCHANGED <<callVars, capVars, prodVars, queueClosed, consCancelled,
                   poolClosed, timedOut>>

\* ... or for the deadline.
DrainProducerDeadline ==
    /\ Alive
    /\ main = "awaitProducer"
    /\ timedOut' = TRUE
    /\ main' = "closeQueue"
    /\ UNCHANGED <<callVars, capVars, prodVars, queueClosed, consCancelled, poolClosed>>

\* Step 3.
DrainCloseQueue ==
    /\ Alive
    /\ main = "closeQueue"
    /\ queueClosed' = TRUE
    /\ main' = "awaitConsumer"
    /\ UNCHANGED <<callVars, capVars, prodVars, consCancelled, poolClosed, timedOut>>

\* Step 4: the replayer returned in time, or is cancelled at the deadline.
DrainAwaitConsumer ==
    /\ Alive
    /\ main = "awaitConsumer"
    /\ ConsumerDone
    /\ consCancelled' = timedOut
    /\ main' = "awaitExit"
    /\ UNCHANGED <<callVars, capVars, prodVars, queueClosed, poolClosed, timedOut>>

\* Wrong variant: the deadline passes but the replayer is not cancelled.
DrainConsumerDeadline_NoCancel ==
    /\ Alive
    /\ main = "awaitConsumer"
    /\ timedOut' = TRUE
    /\ main' = "awaitExit"
    /\ UNCHANGED <<callVars, capVars, prodVars, queueClosed, consCancelled, poolClosed>>

DrainConsumerDeadline ==
    /\ Alive
    /\ main = "awaitConsumer"
    /\ timedOut' = TRUE
    /\ consCancelled' = TRUE
    /\ main' = "awaitExit"
    /\ UNCHANGED <<callVars, capVars, prodVars, queueClosed, poolClosed>>

\* Wrong variant: the pool is closed under the workers.
DrainClosePool_NoWait ==
    /\ Alive
    /\ main = "awaitExit"
    /\ consCancelled' = TRUE
    /\ poolClosed' = TRUE
    /\ main' = "closing"
    /\ UNCHANGED <<callVars, capVars, prodVars, queueClosed, timedOut>>

\* Step 5, after <-p.consumerDone.
DrainClosePool ==
    /\ Alive
    /\ main = "awaitExit"
    /\ ConsumerDone
    /\ consCancelled' = TRUE
    /\ poolClosed' = TRUE
    /\ main' = "closing"
    /\ UNCHANGED <<callVars, capVars, prodVars, queueClosed, timedOut>>

\* The deferred calls: the detector and the control plane are told to stop (a
\* running callback is waited for at most 5 seconds), components.Close.
Exit ==
    /\ Alive
    /\ main = "closing"
    /\ open' = open \ {capture}
    /\ main' = "exited"
    /\ UNCHANGED <<callVars, srcHost, capture, host, last, prodVars,
                   queueClosed, consCancelled, poolClosed, timedOut>>

Drain == \/ DrainStop             \/ DrainDetach     \/ DrainAwaitProducer
         \/ DrainProducerDeadline \/ DrainCloseQueue \/ DrainAwaitConsumer
         \/ DrainConsumerDeadline \/ DrainClosePool  \/ Exit

Next == \/ \E h \in Handlers, w \in {"active", "paused"} : Request(h, w)
        \/ \E ip \in IPs : Switchover(ip)
        \/ \E d \in Detectors : Failover(d)
        \/ \E a \in Callers : Callback(a)
        \/ \E i \in Ids : SourceEnds(i) \/ Frame(i) \/ ProducerStops(i)
        \/ Dispatch \/ DispatchEnds \/ Execute \/ Abandon
        \/ Signal \/ Drain

Spec == Init /\ [][Next]_vars

\* Runnable goroutines run, timers fire, a cancelled target call returns.  No
\* fairness for what is outside: requests, switchovers, the signal, packets, and
\* the target's answer (Execute).
FairSpec == /\ Spec
            /\ WF_vars(Drain)
            /\ WF_vars(Dispatch) /\ WF_vars(DispatchEnds)
            /\ WF_vars(Abandon)
            /\ \A i \in Ids : WF_vars(ProducerStops(i))
            /\ \A a \in Callers : WF_vars(Callback(a))
            /\ \A d \in Detectors : WF_vars(Failover(d))
----------------------------------------------------------------------------
TypeOK ==
    /\ present \in Setups /\ ctl \in {"active", "paused"}
    /\ dns \in IPs /\ knownIP \in IPs /\ srcHost \in IPs
    /\ pc \in [Callers -> {"idle", "lock", "stop", "await", "open", "start"}]
    /\ op \in [Callers -> {None, "pause", "resume", "restart"}]
    /\ mu \in Callers \cup {None}
    /\ paused \in BOOLEAN
    /\ last \in Ids
    /\ capture \in Ids \cup {None}
    /\ open \in SUBSET Ids
    /\ host \in [Ids -> IPs]
    /\ prod \in [Ids -> {"none", "running", "enqueue", "exited"}]
    /\ cancelled \in SUBSET Ids
    /\ cur \in Ids
    /\ calls \in 0..MaxCalls
    /\ queueClosed \in BOOLEAN /\ depth \in 0..QueueCap
    /\ dispatch \in BOOLEAN /\ inLanes \in 0..LaneCap
    /\ consCancelled \in BOOLEAN /\ poolClosed \in BOOLEAN
    /\ main \in {"running", "stop", "detach", "awaitProducer", "closeQueue",
                 "awaitConsumer", "awaitExit", "closing", "exited"}
    /\ timedOut \in BOOLEAN
    /\ framed \in 0..MaxEvents /\ accepted \in 0..MaxEvents /\ replayed \in 0..MaxEvents
    /\ late \in SUBSET Ids
    /\ crashed \in BOOLEAN

(***************************************************************************)
(* The StreamProcessor and its reassembler have one owner                  *)
(* (pkg/pipeline/processor.go:7-9): whatever pauses, resumes, failovers    *)
(* and the drain do in whatever order, a producer is started only after    *)
(* the previous one has exited.                                            *)
(***************************************************************************)
SingleProcessor == \A i, j \in Ids : Active(i) /\ Active(j) => i = j

(***************************************************************************)
(* While the failover detector is off this holds: crossing pause and       *)
(* resume requests, failing reopens and the drain never leave two          *)
(* producers on the StreamProcessor.                                       *)
(***************************************************************************)
RequestsKeepOneProducer == ~Detects => SingleProcessor

(***************************************************************************)
(* A pause is effective (pauseCapture): once the callback has returned,    *)
(* no producer is left running and no capture handle is left open, until   *)
(* a resume or a failover.  (From the shutdown signal on the drain owns    *)
(* both, and does not look at `paused`.)                                   *)
(***************************************************************************)
PausedIsStopped ==
    ~Detects /\ paused /\ mu = None /\ ~Signalled => open = {} /\ \A i \in Ids : ~Active(i)

(***************************************************************************)
(* After a failover pgshadow follows the new primary (restartCapture): no  *)
(* callback being under way, an attached capture handle filters on the     *)
(* address the detector last saw, also if a pause, a resume or a failed    *)
(* reopen came in between.                                                 *)
(***************************************************************************)
CaptureFollowsSource ==
    (capture # None /\ \A a \in Callers : pc[a] = "idle") => host[capture] = knownIP

(***************************************************************************)
(* No worker executes against a closed pool (drainWithin step 5): when the *)
(* pool is closed the replayer has returned, and nothing can start it.     *)
(***************************************************************************)
NoWorkOnClosedPool == poolClosed => ConsumerDone

(***************************************************************************)
(* A drain that meets no deadline replays everything (drainWithin steps    *)
(* 2-4): every event that was accepted by the queue has been executed when *)
(* the pool is closed.                                                     *)
(***************************************************************************)
CleanDrainReplaysAll == poolClosed /\ ~timedOut => replayed = accepted

(***************************************************************************)
(* A drain that meets no deadline refuses nothing (drainWithin step 2):    *)
(* the queue is closed only after every producer has flushed what it       *)
(* framed, whatever pauses and resumes came before, unless a callback that *)
(* was under way started one more producer after the signal.  (A failover  *)
(* during a pause can leave a second producer that nobody waits for.)      *)
(***************************************************************************)
CleanDrainAcceptsAll ==
    ~Detects /\ queueClosed /\ ~timedOut /\ late = {}
        => accepted = framed /\ \A i \in Ids : ~Active(i)

(***************************************************************************)
(* Shutdown terminates (drainWithin): after the signal, the process exits  *)
(* whatever the target, the producers and the callbacks do; a hanging      *)
(* target delays it only until the deadline.                               *)
(***************************************************************************)
ShutdownTerminates == (main = "stop") ~> (main = "exited" \/ crashed)

\* A request to pause or restart goes on only when the producer it stops has
\* left, so that a pause is a pause and requests alone never make two producers
\* (stopProducer's wait on producerDone).
RequestsAwaitProducer == RequestsKeepOneProducer /\ PausedIsStopped

\* A drain in which no deadline passes loses nothing that was captured, and the
\* pool is closed last (the order of the steps of drainWithin).
CleanDrainLosesNothing == CleanDrainAcceptsAll /\ CleanDrainReplaysAll /\ NoWorkOnClosedPool
=============================================================================
