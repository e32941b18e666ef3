---------------------- MODULE PipelineLifecycleProofs ----------------------
(***************************************************************************)
(* Theorems about PipelineLifecycle for every set of requests, detectors   *)
(* and addresses, every capacity and every bound on the calls and events.  *)
(* The inductive invariant is LifecycleInv.  Types alone are not inductive *)
(* (that there is a number left for the next capture handle is a count of  *)
(* the callbacks under way), and neither are the properties: what a pause  *)
(* leaves behind depends on who holds pipelineState.mu and what it has     *)
(* done so far.                                                            *)
(***************************************************************************)
EXTENDS PipelineLifecycle, FiniteSetTheorems, TLAPS

\* The callbacks that may still open a handle.
Pending == {a \in Callers : pc[a] \in {"lock", "stop", "await", "open"}}

\* An address change the detector has not seen yet will become a callback.
Unseen == IF dns = knownIP THEN 0 ELSE 1

\* Every handle opened, and every one that may still be, was called for.
CallsCoverHandles ==
    IsFiniteSet(Pending) /\ last + Cardinality(Pending) + Unseen <= calls

\* The producers that hold an event they have framed and not yet queued.
Holding == {i \in Ids : prod[i] = "enqueue"}

\* Framed events are queued, held by a producer or, once the queue is closed, lost.
FramedCounted ==
    /\ accepted + Cardinality(Holding) <= framed
    /\ ~queueClosed => accepted + Cardinality(Holding) = framed

\* Queued events are executed, in a lane, queued or, after a deadline, abandoned.
QueuedCounted ==
    /\ replayed + inLanes + depth <= accepted
    /\ ~timedOut => replayed + inLanes + depth = accepted

\* The drain's steps happen in the order of drainWithin.
DrainOrder ==
    /\ poolClosed <=> main \in {"closing", "exited"}
    /\ queueClosed <=> main \in {"awaitConsumer", "awaitExit", "closing", "exited"}
    /\ consCancelled => main \in {"awaitExit", "closing", "exited"}
    /\ consCancelled /\ ~timedOut => poolClosed
    /\ poolClosed => ConsumerDone
    /\ ~timedOut /\ ~dispatch => queueClosed /\ depth = 0

\* Whoever is inside a callback's critical section is the holder of p.mu, and
\* where it is tells which callback it runs.
Mutex ==
    \A a \in Callers :
        /\ pc[a] \in {"stop", "await", "open", "start"} <=> mu = a
        /\ pc[a] # "idle" => op[a] \in {"pause", "resume", "restart"}
        /\ pc[a] \in {"stop", "await"} => op[a] \in {"pause", "restart"}
        /\ pc[a] \in {"open", "start"} => op[a] \in {"resume", "restart"}
        /\ mu = a /\ op[a] = "resume" => paused
        /\ mu = a /\ op[a] = "pause" => ~paused

\* A producer belongs to a handle that was opened before, and the handle just
\* opened has none yet.
ProducersHaveHandles ==
    /\ \A i \in Ids : prod[i] # "none" => i <= last
    /\ \A a \in Callers : pc[a] = "start" => prod[last] = "none"

\* Only a failover restarts.
RestartsDetect ==
    \A a \in Callers : pc[a] # "idle" /\ op[a] = "restart" => Detects

\* With the detector off, the producer that runs is the one the pipeline knows,
\* and a paused pipeline has none.
KnownProducer ==
    ~Detects => /\ \A i \in Ids : Active(i) => i = cur
                /\ paused => \A i \in Ids : ~Active(i)

\* With the detector off and no signal yet, the handle that is open is the one
\* the pipeline knows, and a pause has closed it.
KnownHandle ==
    ~Detects /\ ~Signalled =>
        /\ open \subseteq {capture}
        /\ \A a \in Callers : pc[a] = "await" => open = {}
        /\ paused /\ (\A a \in Callers : pc[a] # "start") => open = {}

\* Without a deadline or a late producer the queue is closed on idle producers.
DrainedProducers ==
    ~Detects /\ main \notin {"running", "stop", "detach", "awaitProducer"}
             /\ ~timedOut /\ late = {}
        => accepted = framed /\ \A i \in Ids : ~Active(i)

\* The configured address is the one last seen unless a failover is on its way,
\* and an attached handle filters on the configured address.
FollowsConfig ==
    /\ \/ srcHost = knownIP
       \/ \E a \in Callers : op[a] = "restart" /\ pc[a] \in {"lock", "stop", "await", "open"}
    /\ capture # None => host[capture] = srcHost

LifecycleInv ==
    /\ TypeOK /\ CallsCoverHandles /\ FramedCounted /\ QueuedCounted /\ DrainOrder
    /\ Mutex /\ ProducersHaveHandles /\ RestartsDetect /\ KnownProducer /\ KnownHandle
    /\ DrainedProducers /\ FollowsConfig

----------------------------------------------------------------------------
LEMMA LifecycleInit == Init => LifecycleInv
  <1> SUFFICES ASSUME Init PROVE LifecycleInv
    OBVIOUS
  <1> USE LifecycleAssumption DEF Init
  <1>1. TypeOK
    <2>1. /\ paused \in BOOLEAN /\ queueClosed \in BOOLEAN /\ dispatch \in BOOLEAN
          /\ consCancelled \in BOOLEAN /\ poolClosed \in BOOLEAN /\ timedOut \in BOOLEAN
          /\ crashed \in BOOLEAN
      BY Zenon
    <2>2. pc \in [Callers -> {"idle", "lock", "stop", "await", "open", "start"}]
      OBVIOUS
    <2>3. op \in [Callers -> {None, "pause", "resume", "restart"}]
      OBVIOUS
    <2>4. 0 \in Ids
      BY DEF Ids
    <2>5. host \in [Ids -> IPs]
      OBVIOUS
    <2>6. prod \in [Ids -> {"none", "running", "enqueue", "exited"}]
      OBVIOUS
    <2> QED BY <2>1, <2>2, <2>3, <2>4, <2>5, <2>6 DEF TypeOK
  <1>2. CallsCoverHandles
    <2>1. Pending = {}
      BY DEF Pending
    <2> QED BY <2>1, FS_EmptySet DEF CallsCoverHandles, Unseen
  <1>3. FramedCounted
    <2>1. Holding = {}
      BY DEF Holding
    <2> QED BY <2>1, FS_EmptySet DEF FramedCounted
  <1>4. QueuedCounted /\ DrainOrder
    BY DEF QueuedCounted, DrainOrder
  <1>5. Mutex
    BY DEF Mutex, Callers
  <1>6. ProducersHaveHandles /\ RestartsDetect
    BY DEF ProducersHaveHandles, RestartsDetect, Ids
  <1>7. KnownProducer /\ KnownHandle /\ DrainedProducers
    BY DEF KnownProducer, KnownHandle, DrainedProducers, Active, Ids
  <1>8. FollowsConfig
    BY DEF FollowsConfig, Ids
  <1> QED BY <1>1, <1>2, <1>3, <1>4, <1>5, <1>6, <1>7, <1>8 DEF LifecycleInv

----------------------------------------------------------------------------
\* The counts.

\* The callbacks under way are finitely many.
LEMMA PendingType ==
    ASSUME CallsCoverHandles
    PROVE  IsFiniteSet(Pending) /\ Cardinality(Pending) \in Nat
  BY FS_CardinalityType DEF CallsCoverHandles

\* A callback that has not opened its handle yet has a number left for it.
LEMMA HandleLeft ==
    ASSUME TypeOK, CallsCoverHandles, NEW a \in Callers, pc[a] = "open"
    PROVE  last + 1 \in Ids
  <1>1. a \in Pending
    BY DEF Pending
  <1>2. Cardinality(Pending) # 0
    BY <1>1, FS_EmptySet DEF CallsCoverHandles
  <1>3. Cardinality(Pending) \in Nat /\ Unseen \in Nat
    BY PendingType DEF Unseen
  <1>4. last \in Nat /\ calls \in Nat /\ calls <= MaxCalls
    BY LifecycleAssumption DEF TypeOK, Ids
  <1>5. last + Cardinality(Pending) + Unseen <= calls
    BY DEF CallsCoverHandles
  <1> QED BY <1>2, <1>3, <1>4, <1>5, LifecycleAssumption DEF Ids

LEMMA HoldingType ==
    /\ IsFiniteSet(Holding) /\ Cardinality(Holding) \in Nat
    /\ \A i \in Holding : Cardinality(Holding) # 0
  <1>1. IsFiniteSet(Ids) /\ Holding \in SUBSET Ids
    BY FS_Interval, LifecycleAssumption DEF Ids, Holding
  <1>2. IsFiniteSet(Holding)
    BY <1>1, FS_Subset
  <1> QED BY <1>2, FS_CardinalityType, FS_EmptySet

\* A producer that holds an event is counted, so its event is within MaxEvents.
LEMMA RoomForAccepted ==
    ASSUME TypeOK, FramedCounted, NEW i \in Ids, prod[i] = "enqueue"
    PROVE  accepted < framed
  <1>1. i \in Holding
    BY DEF Holding
  <1>2. Cardinality(Holding) \in Nat /\ Cardinality(Holding) # 0
    BY <1>1, HoldingType
  <1>3. accepted \in Nat /\ framed \in Nat
    BY LifecycleAssumption DEF TypeOK
  <1>4. accepted + Cardinality(Holding) <= framed
    BY DEF FramedCounted
  <1> QED BY <1>2, <1>3, <1>4

----------------------------------------------------------------------------
\* Types.

LEMMA TypeStep ==
    ASSUME TypeOK, CallsCoverHandles, FramedCounted, QueuedCounted, Next
    PROVE  TypeOK'
  <1> USE LifecycleAssumption
  <1>1. ASSUME NEW h \in Handlers, NEW w \in {"active", "paused"}, Request(h, w)
        PROVE  TypeOK'
    BY <1>1 DEF TypeOK, Request, Callers, capVars, prodVars, consVars, mainVars
  <1>2. ASSUME NEW ip \in IPs, Switchover(ip) PROVE TypeOK'
    BY <1>2 DEF TypeOK, Switchover, capVars, prodVars, consVars, mainVars
  <1>3. ASSUME NEW d \in Detectors, Failover(d) PROVE TypeOK'
    BY <1>3 DEF TypeOK, Failover, Callers, capVars, prodVars, consVars, mainVars
  <1>4. ASSUME NEW a \in Callers, Lock(a) PROVE TypeOK'
    BY <1>4 DEF TypeOK, Lock, Return, ctlVars, capVars, prodVars, consVars, mainVars
  <1>5. ASSUME NEW a \in Callers, StopProducer(a) PROVE TypeOK'
    BY <1>5 DEF TypeOK, StopProducer, ctlVars, consVars, mainVars
  <1>6. ASSUME NEW a \in Callers, AwaitProducer(a) PROVE TypeOK'
    <2>1. paused' \in BOOLEAN
      BY <1>6, Zenon DEF TypeOK, AwaitProducer
    <2> QED BY <1>6, <2>1 DEF TypeOK, AwaitProducer, Return, ctlVars, capVars, prodVars, consVars, mainVars
  <1>7. ASSUME NEW a \in Callers, OpenCapture(a) PROVE TypeOK'
    <2>1. last + 1 \in Ids
      BY <1>7, HandleLeft DEF OpenCapture
    <2> QED BY <1>7, <2>1 DEF TypeOK, OpenCapture, NewHost, ctlVars, prodVars, consVars, mainVars
  <1>8. ASSUME NEW a \in Callers, OpenFails(a) PROVE TypeOK'
    BY <1>8 DEF TypeOK, OpenFails, NewHost, Return, ctlVars, prodVars, consVars, mainVars
  <1>9. ASSUME NEW a \in Callers, StartProducer(a) PROVE TypeOK'
    <2>1. paused' \in BOOLEAN /\ crashed' \in BOOLEAN
      BY <1>9, Zenon DEF TypeOK, StartProducer
    <2> QED BY <1>9, <2>1 DEF TypeOK, StartProducer, Return, ctlVars, capVars, consVars, mainVars
  <1>10. ASSUME NEW i \in Ids, SourceEnds(i) PROVE TypeOK'
    BY <1>10 DEF TypeOK, SourceEnds, ctlVars, prodVars, consVars, mainVars
  <1>11. ASSUME NEW i \in Ids, Frame(i) PROVE TypeOK'
    BY <1>11 DEF TypeOK, Frame, ctlVars, capVars, consVars, mainVars
  <1>12. ASSUME NEW i \in Ids, ProducerEnqueue(i) PROVE TypeOK'
    <2>1. accepted < framed
      BY <1>12, RoomForAccepted DEF ProducerEnqueue
    <2> QED BY <1>12, <2>1 DEF TypeOK, ProducerEnqueue, ctlVars, capVars, mainVars
  <1>13. ASSUME NEW i \in Ids, ProducerExit(i) PROVE TypeOK'
    BY <1>13 DEF TypeOK, ProducerExit, ctlVars, capVars, consVars, mainVars
  <1>14. ASSUME Dispatch \/ DispatchEnds \/ Abandon PROVE TypeOK'
    <2>1. dispatch' \in BOOLEAN
      BY <1>14, Zenon DEF TypeOK, Dispatch, DispatchEnds, Abandon
    <2> QED BY <1>14, <2>1 DEF TypeOK, Dispatch, DispatchEnds, Abandon, ctlVars, capVars,
                               prodVars, mainVars
  <1>15. ASSUME Execute PROVE TypeOK'
    BY <1>15 DEF TypeOK, Execute, QueuedCounted, ctlVars, capVars, prodVars, mainVars
  <1>16. ASSUME Signal \/ DrainStop \/ DrainDetach \/ Exit PROVE TypeOK'
    BY <1>16 DEF TypeOK, Signal, DrainStop, DrainDetach, Exit, callVars, ctlVars, capVars,
                 prodVars, consVars
  <1>17. ASSUME \/ DrainAwaitProducer \/ DrainProducerDeadline \/ DrainCloseQueue
                \/ DrainAwaitConsumer \/ DrainConsumerDeadline \/ DrainClosePool
         PROVE  TypeOK'
    <2> USE DEF DrainAwaitProducer, DrainProducerDeadline, DrainCloseQueue,
                DrainAwaitConsumer, DrainConsumerDeadline, DrainClosePool
    <2>1. /\ queueClosed' \in BOOLEAN /\ consCancelled' \in BOOLEAN
          /\ poolClosed' \in BOOLEAN /\ timedOut' \in BOOLEAN
      BY <1>17, Zenon DEF TypeOK
    <2> QED BY <1>17, <2>1 DEF TypeOK, callVars, ctlVars, capVars, prodVars, consVars
  <1> QED
    BY <1>1, <1>2, <1>3, <1>4, <1>5, <1>6, <1>7, <1>8, <1>9, <1>10, <1>11, <1>12, <1>13,
       <1>14, <1>15, <1>16, <1>17 DEF Next, Callback, ProducerStops, Drain

----------------------------------------------------------------------------
\* Handles.

LEMMA CallsStep ==
    ASSUME TypeOK, TypeOK', CallsCoverHandles, Next
    PROVE  CallsCoverHandles'
  <1>t. /\ last \in Nat /\ last' \in Nat /\ calls \in Nat /\ calls' \in Nat
        /\ pc \in [Callers -> {"idle", "lock", "stop", "await", "open", "start"}]
    BY LifecycleAssumption DEF TypeOK, Ids
  <1>p. IsFiniteSet(Pending) /\ Cardinality(Pending) \in Nat
    BY PendingType
  <1>u. Unseen \in {0, 1} /\ Unseen' \in {0, 1}
    BY DEF Unseen
  <1>i. last + Cardinality(Pending) + Unseen <= calls
    BY DEF CallsCoverHandles
  <1>1. ASSUME NEW h \in Callers, Pending' \in {Pending, Pending \cup {h}},
               last' = last, calls + 1 + Unseen' <= calls' + Unseen
        PROVE  CallsCoverHandles'
    <2>1. IsFiniteSet(Pending') /\ Cardinality(Pending') <= Cardinality(Pending) + 1
      BY <1>1, <1>p, FS_AddElement
    <2>2. Cardinality(Pending') \in Nat
      BY <2>1, FS_CardinalityType
    <2>3. last' + Cardinality(Pending') + Unseen' <= calls'
      <3>1. Unseen \in Nat /\ Unseen' \in Nat
        BY <1>u
      <3>2. last' = last /\ calls + 1 + Unseen' <= calls' + Unseen
        BY <1>1
      <3>3. \A l, k, k2, u, u2, c, c2 \in Nat :
                l + k + u <= c /\ k2 <= k + 1 /\ c + 1 + u2 <= c2 + u => l + k2 + u2 <= c2
        OBVIOUS
      <3>4. last + Cardinality(Pending') + Unseen' <= calls'
        BY <1>t, <1>p, <1>i, <2>1, <2>2, <3>1, <3>2, <3>3
      <3> QED BY <3>2, <3>4
    <2> QED BY <2>1, <2>3 DEF CallsCoverHandles
  <1>2. ASSUME Pending' \subseteq Pending, last' = last, Unseen' = Unseen, calls' = calls
        PROVE  CallsCoverHandles'
    <2>1. IsFiniteSet(Pending') /\ Cardinality(Pending') <= Cardinality(Pending)
      BY <1>2, <1>p, FS_Subset
    <2>2. Cardinality(Pending') \in Nat
      BY <2>1, FS_CardinalityType
    <2>3. last' + Cardinality(Pending') + Unseen' <= calls'
      BY <1>2, <1>t, <1>p, <1>u, <1>i, <2>1, <2>2
    <2> QED BY <2>1, <2>3 DEF CallsCoverHandles
  <1>3. ASSUME NEW h \in Handlers, NEW w \in {"active", "paused"}, Request(h, w)
        PROVE  CallsCoverHandles'
    <2>1. h \in Callers /\ Pending' \in {Pending, Pending \cup {h}}
      BY <1>3, <1>t DEF Request, Pending, Callers
    <2>2. last' = last /\ calls' = calls + 1 /\ Unseen' = Unseen
      BY <1>3 DEF Request, capVars, Unseen
    <2> QED BY <1>1, <1>t, <1>u, <2>1, <2>2
  <1>4. ASSUME NEW ip \in IPs, Switchover(ip) PROVE CallsCoverHandles'
    <2>1. Pending' = Pending /\ last' = last /\ calls' = calls + 1
      BY <1>4 DEF Switchover, Pending, capVars
    <2>2. Cardinality(Pending') = Cardinality(Pending)
      BY <2>1
    <2>3. last' + Cardinality(Pending') + Unseen' <= calls'
      BY <1>t, <1>p, <1>u, <1>i, <2>1, <2>2, <1>4 DEF Unseen, Switchover
    <2> QED BY <2>1, <2>3, <1>p DEF CallsCoverHandles
  <1>5. ASSUME NEW d \in Detectors, Failover(d) PROVE CallsCoverHandles'
    <2>1. d \in Callers /\ Pending' = Pending \cup {d}
      BY <1>5, <1>t DEF Failover, Pending, Callers
    <2>2. last' = last /\ calls' = calls /\ Unseen = 1 /\ Unseen' = 0
      BY <1>5 DEF Failover, capVars, Unseen
    <2> QED BY <1>1, <1>t, <2>1, <2>2
  <1>6. ASSUME NEW a \in Callers, Callback(a), ~OpenCapture(a) PROVE CallsCoverHandles'
    <2>1. last' = last /\ calls' = calls /\ Unseen' = Unseen
      BY <1>6 DEF Callback, Lock, StopProducer, AwaitProducer, OpenFails, StartProducer,
                  ctlVars, capVars, Unseen
    <2>2. Pending' \subseteq Pending
      BY <1>6, <1>t DEF Callback, Lock, StopProducer, AwaitProducer, OpenFails, StartProducer,
                        Return, Pending
    <2> QED BY <1>2, <2>1, <2>2
  <1>7. ASSUME NEW a \in Callers, OpenCapture(a) PROVE CallsCoverHandles'
    <2>1. Pending' = Pending \ {a} /\ a \in Pending
      BY <1>7, <1>t DEF OpenCapture, Pending
    <2>2. last' = last + 1 /\ calls' = calls /\ Unseen' = Unseen
      BY <1>7 DEF OpenCapture, ctlVars, Unseen
    <2>3. IsFiniteSet(Pending') /\ Cardinality(Pending') = Cardinality(Pending) - 1
      BY <2>1, <1>p, FS_RemoveElement
    <2>4. last' + Cardinality(Pending') + Unseen' <= calls'
      BY <1>t, <1>p, <1>u, <1>i, <2>2, <2>3
    <2> QED BY <2>3, <2>4 DEF CallsCoverHandles
  <1>8. ASSUME UNCHANGED <<pc, last, calls, dns, knownIP>> PROVE CallsCoverHandles'
    BY <1>8 DEF CallsCoverHandles, Pending, Unseen
  <1> QED
    BY <1>3, <1>4, <1>5, <1>6, <1>7, <1>8
       DEF Next, SourceEnds, Frame, ProducerStops, ProducerEnqueue, ProducerExit, Dispatch,
           DispatchEnds, Execute, Abandon, Signal, Drain, DrainStop, DrainDetach,
           DrainAwaitProducer, DrainProducerDeadline, DrainCloseQueue, DrainAwaitConsumer,
           DrainConsumerDeadline, DrainClosePool, Exit, callVars, ctlVars, capVars

\* Events.

LEMMA FramedStep ==
    ASSUME TypeOK, TypeOK', FramedCounted, ProducersHaveHandles, Next
    PROVE  FramedCounted'
  <1>t. /\ framed \in Nat /\ framed' \in Nat /\ accepted \in Nat /\ accepted' \in Nat
        /\ prod \in [Ids -> {"none", "running", "enqueue", "exited"}]
    BY LifecycleAssumption DEF TypeOK
  <1>h. IsFiniteSet(Holding) /\ Cardinality(Holding) \in Nat
    BY HoldingType
  <1>1. ASSUME Holding' = Holding, framed' = framed, accepted' = accepted,
               queueClosed => queueClosed'
        PROVE  FramedCounted'
    <2>1. Cardinality(Holding') = Cardinality(Holding)
      BY <1>1
    <2> QED BY <1>1, <2>1 DEF FramedCounted
  <1>2. ASSUME NEW i \in Ids, Frame(i) PROVE FramedCounted'
    <2>1. Holding' = Holding \cup {i} /\ i \notin Holding
      BY <1>2, <1>t DEF Frame, Holding
    <2>2. Cardinality(Holding') = Cardinality(Holding) + 1
      BY <2>1, <1>h, FS_AddElement
    <2>3. accepted' = accepted /\ framed' = framed + 1 /\ queueClosed' = queueClosed
      BY <1>2 DEF Frame, mainVars
    <2> QED BY <1>t, <1>h, <2>2, <2>3 DEF FramedCounted
  <1>3. ASSUME NEW i \in Ids, ProducerEnqueue(i) PROVE FramedCounted'
    <2>1. Holding' = Holding \ {i} /\ i \in Holding
      BY <1>3, <1>t DEF ProducerEnqueue, Holding
    <2>2. Cardinality(Holding') = Cardinality(Holding) - 1
      BY <2>1, <1>h, FS_RemoveElement
    <2>3. /\ accepted' = IF queueClosed THEN accepted ELSE accepted + 1
          /\ framed' = framed /\ queueClosed' = queueClosed
      BY <1>3 DEF ProducerEnqueue, mainVars
    <2> QED BY <1>t, <1>h, <2>2, <2>3 DEF FramedCounted
  <1>4. ASSUME NEW i \in Ids, ProducerExit(i) PROVE FramedCounted'
    <2>1. Holding' = Holding
      BY <1>4, <1>t DEF ProducerExit, Holding
    <2> QED BY <1>1, <1>4, <2>1 DEF ProducerExit, mainVars
  <1>5. ASSUME NEW a \in Callers, StartProducer(a) PROVE FramedCounted'
    <2>1. prod[last] = "none"
      BY <1>5 DEF StartProducer, ProducersHaveHandles
    <2>2. Holding' = Holding
      BY <1>5, <1>t, <2>1 DEF StartProducer, Holding
    <2> QED BY <1>1, <1>5, <2>2 DEF StartProducer, mainVars
  <1>6. ASSUME UNCHANGED <<prod, framed, accepted>>, queueClosed => queueClosed'
        PROVE  FramedCounted'
    BY <1>1, <1>6 DEF Holding
  <1> QED
    BY <1>2, <1>3, <1>4, <1>5, <1>6
       DEF Next, Request, Switchover, Failover, Callback, Lock, StopProducer, AwaitProducer,
           OpenCapture, OpenFails, SourceEnds, ProducerStops, Dispatch, DispatchEnds, Execute,
           Abandon, Signal, Drain, DrainStop, DrainDetach, DrainAwaitProducer,
           DrainProducerDeadline, DrainCloseQueue, DrainAwaitConsumer, DrainConsumerDeadline,
           DrainClosePool, Exit, callVars, prodVars, mainVars

LEMMA QueuedStep ==
    ASSUME TypeOK, QueuedCounted, DrainOrder, Next
    PROVE  QueuedCounted'
  <1>t. replayed \in Nat /\ inLanes \in Nat /\ depth \in Nat /\ accepted \in Nat
    BY LifecycleAssumption DEF TypeOK
  <1>1. ASSUME NEW i \in Ids, ProducerEnqueue(i) PROVE QueuedCounted'
    BY <1>1, <1>t DEF ProducerEnqueue, QueuedCounted, mainVars
  <1>2. CASE Dispatch
    BY <1>2, <1>t DEF Dispatch, QueuedCounted, mainVars
  <1>3. CASE Execute
    BY <1>3, <1>t DEF Execute, QueuedCounted, mainVars
  <1>4. CASE Abandon
    <2>1. timedOut
      BY <1>4 DEF Abandon, DrainOrder, ConsumerDone
    <2> QED BY <1>4, <1>t, <2>1 DEF Abandon, QueuedCounted, mainVars
  <1>5. ASSUME UNCHANGED <<replayed, inLanes, depth, accepted>>, timedOut => timedOut'
        PROVE  QueuedCounted'
    BY <1>5 DEF QueuedCounted
  <1> QED
    BY <1>1, <1>2, <1>3, <1>4, <1>5
       DEF Next, Request, Switchover, Failover, Callback, Lock, StopProducer, AwaitProducer,
           OpenCapture, OpenFails, StartProducer, SourceEnds, Frame, ProducerStops,
           ProducerExit, DispatchEnds, Signal, Drain, DrainStop, DrainDetach,
           DrainAwaitProducer, DrainProducerDeadline, DrainCloseQueue, DrainAwaitConsumer,
           DrainConsumerDeadline, DrainClosePool, Exit, callVars, consVars, mainVars

\* The drain.
LEMMA DrainStep ==
    ASSUME TypeOK, DrainOrder, Next
    PROVE  DrainOrder'
  <1>t. /\ inLanes \in Nat /\ depth \in Nat
        /\ main \in {"running", "stop", "detach", "awaitProducer", "closeQueue",
                     "awaitConsumer", "awaitExit", "closing", "exited"}
    BY LifecycleAssumption DEF TypeOK
  <1>1. ASSUME NEW i \in Ids, ProducerEnqueue(i) PROVE DrainOrder'
    BY <1>1, <1>t DEF ProducerEnqueue, DrainOrder, ConsumerDone, mainVars
  <1>2. CASE Dispatch \/ DispatchEnds \/ Execute \/ Abandon
    BY <1>2, <1>t DEF Dispatch, DispatchEnds, Execute, Abandon, DrainOrder, ConsumerDone,
                      mainVars
  <1>3. CASE Signal \/ DrainStop \/ DrainDetach \/ Exit
    BY <1>3, <1>t DEF Signal, DrainStop, DrainDetach, Exit, DrainOrder, ConsumerDone, callVars,
                      consVars, Alive
  <1>4. CASE DrainAwaitProducer \/ DrainProducerDeadline \/ DrainCloseQueue
    BY <1>4, <1>t DEF DrainAwaitProducer, DrainProducerDeadline, DrainCloseQueue, DrainOrder,
                      ConsumerDone, callVars, consVars
  <1>5. CASE DrainAwaitConsumer \/ DrainConsumerDeadline \/ DrainClosePool
    BY <1>5, <1>t DEF DrainAwaitConsumer, DrainConsumerDeadline, DrainClosePool, DrainOrder,
                      ConsumerDone, callVars, consVars
  <1>6. CASE UNCHANGED <<consVars, mainVars>>
    BY <1>6 DEF DrainOrder, ConsumerDone, consVars, mainVars
  <1> QED
    BY <1>1, <1>2, <1>3, <1>4, <1>5, <1>6
       DEF Next, Request, Switchover, Failover, Callback, Lock, StopProducer, AwaitProducer,
           OpenCapture, OpenFails, StartProducer, SourceEnds, Frame, ProducerStops,
           ProducerExit, Drain

----------------------------------------------------------------------------
\* The callbacks.

LEMMA MutexStep ==
    ASSUME TypeOK, Mutex, Next
    PROVE  Mutex'
  <1>t. /\ pc \in [Callers -> {"idle", "lock", "stop", "await", "open", "start"}]
        /\ op \in [Callers -> {None, "pause", "resume", "restart"}]
        /\ None \notin Callers
    BY LifecycleAssumption DEF TypeOK, Callers
  <1>1. ASSUME NEW h \in Handlers, NEW w \in {"active", "paused"}, Request(h, w) PROVE Mutex'
    BY <1>1, <1>t DEF Request, Mutex, Callers
  <1>2. ASSUME NEW d \in Detectors, Failover(d) PROVE Mutex'
    BY <1>2, <1>t DEF Failover, Mutex, Callers
  <1>3. ASSUME NEW a \in Callers, Lock(a) PROVE Mutex'
    <2>1. CASE Skips(a)
      BY <1>3, <1>t, <2>1 DEF Lock, Return, Mutex
    <2>2. CASE ~Skips(a)
      BY <1>3, <1>t, <2>2 DEF Lock, Skips, Mutex
    <2> QED BY <2>1, <2>2
  <1>4. ASSUME NEW a \in Callers, StopProducer(a) PROVE Mutex'
    BY <1>4, <1>t DEF StopProducer, Mutex
  <1>5. ASSUME NEW a \in Callers, AwaitProducer(a) PROVE Mutex'
    BY <1>5, <1>t DEF AwaitProducer, Return, Mutex
  <1>6. ASSUME NEW a \in Callers, OpenCapture(a) PROVE Mutex'
    BY <1>6, <1>t DEF OpenCapture, Mutex
  <1>7. ASSUME NEW a \in Callers, OpenFails(a) PROVE Mutex'
    BY <1>7, <1>t DEF OpenFails, Return, Mutex
  <1>8. ASSUME NEW a \in Callers, StartProducer(a) PROVE Mutex'
    BY <1>8, <1>t DEF StartProducer, Return, Mutex
  <1>9. CASE UNCHANGED <<pc, op, mu, paused>>
    BY <1>9 DEF Mutex
  <1> QED
    BY <1>1, <1>2, <1>3, <1>4, <1>5, <1>6, <1>7, <1>8, <1>9
       DEF Next, Switchover, Callback, SourceEnds, Frame, ProducerStops, ProducerEnqueue,
           ProducerExit, Dispatch, DispatchEnds, Execute, Abandon, Signal, Drain, DrainStop,
           DrainDetach, DrainAwaitProducer, DrainProducerDeadline, DrainCloseQueue,
           DrainAwaitConsumer, DrainConsumerDeadline, DrainClosePool, Exit, callVars

LEMMA ProducersStep ==
    ASSUME TypeOK, TypeOK', Mutex, Mutex', ProducersHaveHandles, Next
    PROVE  ProducersHaveHandles'
  <1>t. /\ pc \in [Callers -> {"idle", "lock", "stop", "await", "open", "start"}]
        /\ prod \in [Ids -> {"none", "running", "enqueue", "exited"}]
        /\ last \in Ids /\ last' \in Ids
    BY DEF TypeOK
  <1>n. Ids \subseteq Nat
    BY LifecycleAssumption DEF Ids
  <1>m. \A a, b \in Callers : pc[a] = "start" /\ pc[b] = "start" => a = b
    BY DEF Mutex
  <1>1. ASSUME NEW h \in Handlers, NEW w \in {"active", "paused"}, Request(h, w)
        PROVE  ProducersHaveHandles'
    BY <1>1, <1>t DEF Request, ProducersHaveHandles, Callers, capVars, prodVars
  <1>2. ASSUME NEW d \in Detectors, Failover(d) PROVE ProducersHaveHandles'
    BY <1>2, <1>t DEF Failover, ProducersHaveHandles, Callers, capVars, prodVars
  <1>3. ASSUME NEW a \in Callers, Lock(a) \/ StopProducer(a) \/ AwaitProducer(a) \/ OpenFails(a)
        PROVE  ProducersHaveHandles'
    BY <1>3, <1>t DEF Lock, StopProducer, AwaitProducer, OpenFails, Return,
                      ProducersHaveHandles, capVars, prodVars
  <1>4. ASSUME NEW a \in Callers, OpenCapture(a) PROVE ProducersHaveHandles'
    BY <1>4, <1>t, <1>n DEF OpenCapture, ProducersHaveHandles, prodVars
  <1>5. ASSUME NEW a \in Callers, StartProducer(a) PROVE ProducersHaveHandles'
    BY <1>5, <1>t, <1>n, <1>m DEF StartProducer, Return, ProducersHaveHandles, capVars
  <1>6. ASSUME NEW i \in Ids, Frame(i) \/ ProducerEnqueue(i) \/ ProducerExit(i)
        PROVE  ProducersHaveHandles'
    BY <1>6, <1>t DEF Frame, ProducerEnqueue, ProducerExit, ProducersHaveHandles, capVars
  <1>7. CASE UNCHANGED <<pc, prod, last>>
    BY <1>7 DEF ProducersHaveHandles
  <1> QED
    BY <1>1, <1>2, <1>3, <1>4, <1>5, <1>6, <1>7
       DEF Next, Switchover, Callback, SourceEnds, ProducerStops, Dispatch, DispatchEnds,
           Execute, Abandon, Signal, Drain, DrainStop, DrainDetach, DrainAwaitProducer,
           DrainProducerDeadline, DrainCloseQueue, DrainAwaitConsumer, DrainConsumerDeadline,
           DrainClosePool, Exit, callVars, capVars, prodVars

LEMMA RestartsStep ==
    ASSUME TypeOK, RestartsDetect, Next
    PROVE  RestartsDetect' /\ present' = present
  <1>t. /\ pc \in [Callers -> {"idle", "lock", "stop", "await", "open", "start"}]
        /\ op \in [Callers -> {None, "pause", "resume", "restart"}]
    BY DEF TypeOK
  <1>1. present' = present
    BY DEF Next, Request, Switchover, Failover, Callback, Lock, StopProducer, AwaitProducer,
           OpenCapture, OpenFails, StartProducer, SourceEnds, Frame, ProducerStops,
           ProducerEnqueue, ProducerExit, Dispatch, DispatchEnds, Execute, Abandon, Signal,
           Drain, DrainStop, DrainDetach, DrainAwaitProducer, DrainProducerDeadline,
           DrainCloseQueue, DrainAwaitConsumer, DrainConsumerDeadline, DrainClosePool, Exit,
           callVars, ctlVars
  <1>2. ASSUME NEW h \in Handlers, NEW w \in {"active", "paused"}, Request(h, w)
        PROVE  RestartsDetect'
    BY <1>1, <1>2, <1>t DEF Request, RestartsDetect, Detects, Callers
  <1>3. ASSUME NEW d \in Detectors, Failover(d) PROVE RestartsDetect'
    BY <1>1, <1>3, <1>t DEF Failover, RestartsDetect, Detects, Callers
  <1>4. ASSUME NEW a \in Callers, Callback(a) PROVE RestartsDetect'
    BY <1>1, <1>4, <1>t DEF Callback, Lock, StopProducer, AwaitProducer, OpenCapture,
                            OpenFails, StartProducer, Return, RestartsDetect, Detects
  <1>5. CASE UNCHANGED <<pc, op>>
    BY <1>1, <1>5 DEF RestartsDetect, Detects
  <1> QED
    BY <1>1, <1>2, <1>3, <1>4, <1>5
       DEF Next, Switchover, SourceEnds, Frame, ProducerStops, ProducerEnqueue, ProducerExit,
           Dispatch, DispatchEnds, Execute, Abandon, Signal, Drain, DrainStop, DrainDetach,
           DrainAwaitProducer, DrainProducerDeadline, DrainCloseQueue, DrainAwaitConsumer,
           DrainConsumerDeadline, DrainClosePool, Exit, callVars

\* With the detector off.
LEMMA KnownProducerStep ==
    ASSUME TypeOK, TypeOK', Mutex, RestartsDetect, KnownProducer, Next
    PROVE  KnownProducer'
  <1>t. /\ pc \in [Callers -> {"idle", "lock", "stop", "await", "open", "start"}]
        /\ prod \in [Ids -> {"none", "running", "enqueue", "exited"}]
        /\ last \in Ids /\ cur \in Ids
    BY DEF TypeOK
  <1>d. Detects' = Detects
    BY RestartsStep DEF Detects
  <1>1. ASSUME NEW a \in Callers, AwaitProducer(a) PROVE KnownProducer'
    BY <1>1, <1>d DEF AwaitProducer, KnownProducer, Active, prodVars
  <1>2. ASSUME NEW a \in Callers, StartProducer(a) PROVE KnownProducer'
    <2>1. CASE Detects
      BY <1>d, <2>1 DEF KnownProducer
    <2>2. CASE capture = None
      BY <1>2, <1>d, <2>2 DEF StartProducer, KnownProducer, Active
    <2>3. CASE ~Detects /\ capture # None
      <3>1. op[a] = "resume" /\ paused
        BY <1>2, <1>t, <2>3 DEF StartProducer, Mutex, RestartsDetect
      <3>2. \A i \in Ids : ~Active(i)
        BY <2>3, <3>1 DEF KnownProducer
      <3>3. \A i \in Ids : Active(i)' => i = cur'
        BY <1>2, <1>t, <2>3, <3>2 DEF StartProducer, Active
      <3>4. ~paused'
        BY <1>2, <2>3, <3>1 DEF StartProducer
      <3> QED BY <3>3, <3>4 DEF KnownProducer
    <2> QED BY <2>1, <2>2, <2>3
  <1>3. ASSUME NEW i \in Ids, Frame(i) \/ ProducerEnqueue(i) \/ ProducerExit(i)
        PROVE  KnownProducer'
    <2>1. \A j \in Ids : Active(j)' => Active(j)
      BY <1>3, <1>t DEF Frame, ProducerEnqueue, ProducerExit, Active
    <2>2. cur' = cur /\ paused' = paused
      BY <1>3 DEF Frame, ProducerEnqueue, ProducerExit
    <2> QED BY <1>d, <2>1, <2>2 DEF KnownProducer
  <1>4. CASE UNCHANGED <<prod, cur, paused>>
    BY <1>4, <1>d DEF KnownProducer, Active
  <1> QED
    BY <1>1, <1>2, <1>3, <1>4
       DEF Next, Request, Switchover, Failover, Callback, Lock, StopProducer, OpenCapture,
           OpenFails, SourceEnds, ProducerStops, Dispatch, DispatchEnds, Execute, Abandon,
           Signal, Drain, DrainStop, DrainDetach, DrainAwaitProducer, DrainProducerDeadline,
           DrainCloseQueue, DrainAwaitConsumer, DrainConsumerDeadline, DrainClosePool, Exit,
           callVars, prodVars

LEMMA KnownHandleStep ==
    ASSUME TypeOK, TypeOK', Mutex, RestartsDetect, KnownHandle, Next
    PROVE  KnownHandle'
  <1> SUFFICES ASSUME ~Detects', ~Signalled' PROVE KnownHandle'
    BY DEF KnownHandle
  <1>t. /\ pc \in [Callers -> {"idle", "lock", "stop", "await", "open", "start"}]
        /\ open \in SUBSET Ids
    BY DEF TypeOK
  <1>s. ~Detects /\ ~Signalled
    BY RestartsStep DEF Detects, Signalled, Next, Request, Switchover, Failover, Callback, Lock,
       StopProducer, AwaitProducer, OpenCapture, OpenFails, StartProducer, SourceEnds, Frame,
       ProducerStops, ProducerEnqueue, ProducerExit, Dispatch, DispatchEnds, Execute, Abandon,
       Signal, Drain, DrainStop, DrainDetach, DrainAwaitProducer, DrainProducerDeadline,
       DrainCloseQueue, DrainAwaitConsumer, DrainConsumerDeadline, DrainClosePool, Exit,
       mainVars
  <1>k. /\ open \subseteq {capture}
        /\ \A a \in Callers : pc[a] = "await" => open = {}
        /\ paused /\ (\A a \in Callers : pc[a] # "start") => open = {}
    BY <1>s DEF KnownHandle
  <1>m. \A a \in Callers : pc[a] \in {"stop", "await", "open", "start"} => mu = a
    BY DEF Mutex
  <1>1. ASSUME NEW h \in Handlers, NEW w \in {"active", "paused"}, Request(h, w)
        PROVE  KnownHandle'
    BY <1>1, <1>t, <1>k DEF Request, KnownHandle, Callers, capVars
  <1>2. ASSUME NEW d \in Detectors, Failover(d) PROVE KnownHandle'
    BY <1>2, <1>s DEF Failover, Detects
  <1>3. ASSUME NEW a \in Callers, Lock(a) PROVE KnownHandle'
    BY <1>3, <1>t, <1>k, <1>m DEF Lock, Return, KnownHandle, capVars
  <1>4. ASSUME NEW a \in Callers, StopProducer(a) PROVE KnownHandle'
    <2>1. open' = {}
      BY <1>4, <1>k DEF StopProducer
    <2> QED BY <2>1 DEF KnownHandle
  <1>5. ASSUME NEW a \in Callers, AwaitProducer(a) PROVE KnownHandle'
    <2>1. open' = {}
      BY <1>5, <1>k DEF AwaitProducer, capVars
    <2> QED BY <2>1 DEF KnownHandle
  <1>6. ASSUME NEW a \in Callers, OpenCapture(a) PROVE KnownHandle'
    <2>1. op[a] = "resume" /\ paused
      BY <1>6, <1>s DEF OpenCapture, Mutex, RestartsDetect
    <2>2. open = {}
      BY <1>6, <1>k, <1>m, <2>1 DEF OpenCapture
    <2>3. open' = {capture'} /\ pc'[a] = "start" /\ \A b \in Callers : pc'[b] # "await"
      BY <1>6, <1>t, <1>m, <2>2 DEF OpenCapture
    <2> QED BY <2>3 DEF KnownHandle
  <1>7. ASSUME NEW a \in Callers, OpenFails(a) PROVE KnownHandle'
    <2>1. op[a] = "resume"
      BY <1>7, <1>s DEF OpenFails, Mutex, RestartsDetect
    <2>2. capture' = capture
      BY <1>7, <2>1 DEF OpenFails
    <2> QED BY <1>7, <1>t, <1>k, <1>m, <2>2 DEF OpenFails, Return, KnownHandle
  <1>8. ASSUME NEW a \in Callers, StartProducer(a) PROVE KnownHandle'
    <2>1. op[a] = "resume"
      BY <1>8, <1>s DEF StartProducer, Mutex, RestartsDetect
    <2> QED BY <1>8, <1>t, <1>k, <1>m, <2>1 DEF StartProducer, Return, KnownHandle, capVars
  <1>9. ASSUME NEW i \in Ids, SourceEnds(i) PROVE KnownHandle'
    BY <1>9, <1>k DEF SourceEnds, KnownHandle
  <1>10. CASE UNCHANGED <<pc, open, capture, paused>>
    BY <1>10, <1>k DEF KnownHandle
  <1>11. CASE main # "running"
    BY <1>11, <1>s DEF Signalled
  <1> QED
    BY <1>1, <1>2, <1>3, <1>4, <1>5, <1>6, <1>7, <1>8, <1>9, <1>10, <1>11
       DEF Next, Switchover, Callback, Frame, ProducerStops, ProducerEnqueue, ProducerExit,
           Dispatch, DispatchEnds, Execute, Abandon, Signal, Drain, DrainStop, DrainDetach,
           DrainAwaitProducer, DrainProducerDeadline, DrainCloseQueue, DrainAwaitConsumer,
           DrainConsumerDeadline, DrainClosePool, Exit, callVars, capVars

LEMMA DrainedStep ==
    ASSUME TypeOK, TypeOK', FramedCounted, DrainOrder, RestartsDetect, KnownProducer,
           DrainedProducers, Next
    PROVE  DrainedProducers'
  <1>t. /\ prod \in [Ids -> {"none", "running", "enqueue", "exited"}]
        /\ framed \in Nat /\ accepted \in Nat /\ cur \in Ids
    BY LifecycleAssumption DEF TypeOK
  <1>d. Detects' = Detects
    BY RestartsStep DEF Detects
  <1>1. ASSUME NEW a \in Callers, StartProducer(a) PROVE DrainedProducers'
    BY <1>1, <1>d DEF StartProducer, DrainedProducers, Active, Signalled, mainVars
  <1>2. ASSUME NEW i \in Ids, Frame(i) \/ ProducerEnqueue(i) \/ ProducerExit(i)
        PROVE  DrainedProducers'
    <2>1. Active(i)
      BY <1>2 DEF Frame, ProducerEnqueue, ProducerExit, Active
    <2>2. UNCHANGED <<main, timedOut, late>>
      BY <1>2 DEF Frame, ProducerEnqueue, ProducerExit, mainVars
    <2> QED BY <1>d, <2>1, <2>2 DEF DrainedProducers
  <1>3. CASE DrainAwaitProducer
    <2> SUFFICES ASSUME ~Detects PROVE accepted = framed /\ \A i \in Ids : ~Active(i)
      BY <1>3, <1>d DEF DrainAwaitProducer, DrainedProducers, Active, callVars, prodVars
    <2>1. \A i \in Ids : ~Active(i)
      BY <1>3 DEF DrainAwaitProducer, KnownProducer, Active
    <2>2. Holding = {}
      BY <2>1 DEF Holding, Active
    <2>3. Cardinality(Holding) = 0
      BY <2>2, FS_EmptySet
    <2>4. ~queueClosed
      BY <1>3 DEF DrainAwaitProducer, DrainOrder
    <2> QED BY <1>t, <2>1, <2>3, <2>4 DEF FramedCounted
  <1>4. CASE DrainStop \/ DrainDetach \/ Signal \/ DrainProducerDeadline
    BY <1>4 DEF DrainStop, DrainDetach, Signal, DrainProducerDeadline, DrainedProducers
  <1>5. CASE DrainCloseQueue \/ DrainAwaitConsumer \/ DrainConsumerDeadline \/ DrainClosePool \/ Exit
    BY <1>5, <1>d DEF DrainCloseQueue, DrainAwaitConsumer, DrainConsumerDeadline,
                      DrainClosePool, Exit, DrainedProducers, Active, callVars, prodVars
  <1>6. CASE UNCHANGED <<prod, framed, accepted, main, timedOut, late>>
    BY <1>6, <1>d DEF DrainedProducers, Active
  <1> QED
    BY <1>1, <1>2, <1>3, <1>4, <1>5, <1>6
       DEF Next, Request, Switchover, Failover, Callback, Lock, StopProducer, AwaitProducer,
           OpenCapture, OpenFails, SourceEnds, ProducerStops, Dispatch, DispatchEnds, Execute,
           Abandon, Drain, prodVars, mainVars

\* Failover.
LEMMA FollowsStep ==
    ASSUME TypeOK, TypeOK', CallsCoverHandles, Mutex, FollowsConfig, Next
    PROVE  FollowsConfig'
  <1>t. /\ pc \in [Callers -> {"idle", "lock", "stop", "await", "open", "start"}]
        /\ op \in [Callers -> {None, "pause", "resume", "restart"}]
        /\ host \in [Ids -> IPs] /\ capture \in Ids \cup {None}
    BY DEF TypeOK
  <1> DEFINE Restarting(a) == op[a] = "restart" /\ pc[a] \in {"lock", "stop", "await", "open"}
  <1>a. srcHost = knownIP \/ \E a \in Callers : Restarting(a)
    BY DEF FollowsConfig
  <1>b. capture # None => host[capture] = srcHost
    BY DEF FollowsConfig
  <1>1. ASSUME NEW h \in Handlers, NEW w \in {"active", "paused"}, Request(h, w)
        PROVE  FollowsConfig'
    <2>1. \A a \in Callers : Restarting(a) => Restarting(a)'
      BY <1>1, <1>t DEF Request, Callers
    <2>2. UNCHANGED <<srcHost, knownIP, capture, host>>
      BY <1>1 DEF Request, capVars
    <2> QED BY <1>a, <1>b, <2>1, <2>2 DEF FollowsConfig
  <1>2. ASSUME NEW d \in Detectors, Failover(d) PROVE FollowsConfig'
    <2>1. d \in Callers /\ Restarting(d)'
      BY <1>2, <1>t DEF Failover, Callers
    <2>2. UNCHANGED <<srcHost, capture, host>>
      BY <1>2 DEF Failover, capVars
    <2> QED BY <1>b, <2>1, <2>2 DEF FollowsConfig
  <1>3. ASSUME NEW a \in Callers, Lock(a) \/ AwaitProducer(a) PROVE FollowsConfig'
    <2>1. \A b \in Callers : Restarting(b) => Restarting(b)'
      BY <1>3, <1>t DEF Lock, Skips, AwaitProducer, Return
    <2>2. UNCHANGED <<srcHost, knownIP, capture, host>>
      BY <1>3 DEF Lock, AwaitProducer, capVars, ctlVars
    <2> QED BY <1>a, <1>b, <2>1, <2>2 DEF FollowsConfig
  <1>4. ASSUME NEW a \in Callers, StopProducer(a) PROVE FollowsConfig'
    <2>1. \A b \in Callers : Restarting(b) => Restarting(b)'
      BY <1>4, <1>t DEF StopProducer
    <2>2. UNCHANGED <<srcHost, knownIP, host>> /\ capture' \in {capture, None}
      BY <1>4 DEF StopProducer, ctlVars
    <2> QED BY <1>a, <1>b, <2>1, <2>2 DEF FollowsConfig
  <1>5. ASSUME NEW a \in Callers, OpenCapture(a) \/ OpenFails(a)
        PROVE  /\ srcHost' = NewHost(a)
               /\ srcHost' = knownIP' \/ \E b \in Callers : Restarting(b)'
    <2>1. srcHost' = NewHost(a) /\ knownIP' = knownIP
      BY <1>5 DEF OpenCapture, OpenFails, ctlVars
    <2>2. CASE op[a] = "restart"
      BY <2>1, <2>2 DEF NewHost
    <2>3. CASE op[a] # "restart"
      <3>1. srcHost' = srcHost
        BY <2>1, <2>3 DEF NewHost
      <3>2. \A b \in Callers : Restarting(b) => Restarting(b)'
        BY <1>5, <1>t, <2>3 DEF OpenCapture, OpenFails, Return
      <3> QED BY <1>a, <2>1, <3>1, <3>2
    <2> QED BY <2>1, <2>2, <2>3
  <1>6. ASSUME NEW a \in Callers, OpenCapture(a) PROVE FollowsConfig'
    <2>1. last + 1 \in Ids
      BY <1>6, HandleLeft DEF OpenCapture
    <2>2. host'[capture'] = srcHost'
      BY <1>6, <1>t, <2>1 DEF OpenCapture
    <2> QED BY <1>5, <1>6, <2>2 DEF FollowsConfig
  <1>7. ASSUME NEW a \in Callers, OpenFails(a) PROVE FollowsConfig'
    <2>1. capture' # None => srcHost' = srcHost /\ capture' = capture /\ host' = host
      BY <1>7 DEF OpenFails, NewHost
    <2> QED BY <1>b, <1>5, <1>7, <2>1 DEF FollowsConfig
  <1>8. ASSUME NEW a \in Callers, StartProducer(a) PROVE FollowsConfig'
    <2>1. \A b \in Callers : Restarting(b) => Restarting(b)'
      BY <1>8, <1>t DEF StartProducer, Return
    <2>2. UNCHANGED <<srcHost, knownIP, capture, host>>
      BY <1>8 DEF StartProducer, capVars, ctlVars
    <2> QED BY <1>a, <1>b, <2>1, <2>2 DEF FollowsConfig
  <1>9. CASE UNCHANGED <<pc, op, srcHost, knownIP, host>> /\ capture' \in {capture, None}
    BY <1>9 DEF FollowsConfig
  <1> QED
    BY <1>1, <1>2, <1>3, <1>4, <1>6, <1>7, <1>8, <1>9
       DEF Next, Switchover, Callback, SourceEnds, Frame, ProducerStops, ProducerEnqueue,
           ProducerExit, Dispatch, DispatchEnds, Execute, Abandon, Signal, Drain, DrainStop,
           DrainDetach, DrainAwaitProducer, DrainProducerDeadline, DrainCloseQueue,
           DrainAwaitConsumer, DrainConsumerDeadline, DrainClosePool, Exit, callVars, ctlVars,
           capVars

----------------------------------------------------------------------------
LEMMA LifecycleNext == LifecycleInv /\ [Next]_vars => LifecycleInv'
  <1> SUFFICES ASSUME LifecycleInv, [Next]_vars PROVE LifecycleInv'
    OBVIOUS
  <1> USE DEF LifecycleInv
  <1>1. CASE Next
    <2>1. TypeOK'
      BY <1>1, TypeStep
    <2>2. CallsCoverHandles' /\ FramedCounted' /\ QueuedCounted' /\ DrainOrder'
      BY <1>1, <2>1, CallsStep, FramedStep, QueuedStep, DrainStep
    <2>3. Mutex'
      BY <1>1, MutexStep
    <2>4. ProducersHaveHandles' /\ RestartsDetect'
      BY <1>1, <2>1, <2>3, ProducersStep, RestartsStep
    <2>5. KnownProducer' /\ KnownHandle' /\ DrainedProducers' /\ FollowsConfig'
      BY <1>1, <2>1, KnownProducerStep, KnownHandleStep, DrainedStep, FollowsStep
    <2> QED BY <2>1, <2>2, <2>3, <2>4, <2>5
  <1>2. CASE UNCHANGED vars
    BY <1>2 DEF TypeOK, CallsCoverHandles, Pending, Unseen, FramedCounted, Holding,
                QueuedCounted, DrainOrder, ConsumerDone, Mutex, ProducersHaveHandles,
                RestartsDetect, Detects, KnownProducer, KnownHandle, Active, Signalled,
                DrainedProducers, FollowsConfig, vars, ctlVars, capVars, prodVars, consVars,
                mainVars
  <1> QED BY <1>1, <1>2

LEMMA LifecycleAlways == Spec => []LifecycleInv
  BY LifecycleInit, LifecycleNext, PTL DEF Spec

(***************************************************************************)
(* Type correctness of the pipeline's lifecycle for every set of callers,  *)
(* every capacity and every bound.  It says that each capture.Open of      *)
(* resumeCapture and restartCapture answers a request or a failover of its *)
(* own, and that the queue and the lanes stay within their capacities.     *)
(***************************************************************************)
THEOREM LifecycleTypeCorrect == Spec => []TypeOK
  <1>1. LifecycleInv => TypeOK
    BY DEF LifecycleInv
  <1> QED BY <1>1, LifecycleAlways, PTL

(***************************************************************************)
(* pauseCapture and resumeCapture keep one producer and pause for good,    *)
(* for any number of crossing requests, failing reopens and shutdown       *)
(* signals, as long as the failover detector is off.                       *)
(***************************************************************************)
THEOREM PauseIsEffective == Spec => []RequestsAwaitProducer
  <1>1. LifecycleInv => RequestsAwaitProducer
    <2> SUFFICES ASSUME LifecycleInv PROVE RequestsAwaitProducer
      OBVIOUS
    <2>1. RequestsKeepOneProducer
      BY DEF LifecycleInv, KnownProducer, RequestsKeepOneProducer, SingleProcessor
    <2>2. PausedIsStopped
      <3> SUFFICES ASSUME ~Detects, paused, mu = None, ~Signalled
                   PROVE  open = {} /\ \A i \in Ids : ~Active(i)
        BY DEF PausedIsStopped
      <3>1. \A a \in Callers : pc[a] # "start"
        BY LifecycleAssumption DEF LifecycleInv, Mutex, Callers
      <3> QED BY <3>1 DEF LifecycleInv, KnownHandle, KnownProducer
    <2> QED BY <2>1, <2>2 DEF RequestsAwaitProducer
  <1> QED BY <1>1, LifecycleAlways, PTL

(***************************************************************************)
(* drainWithin loses nothing when no deadline passes, for any number of    *)
(* requests, capture handles, events and any capacities: everything framed *)
(* was queued, everything queued was executed, and the pool is closed only *)
(* under an idle replayer.                                                 *)
(***************************************************************************)
THEOREM DrainIsComplete == Spec => []CleanDrainLosesNothing
  <1>1. LifecycleInv => CleanDrainLosesNothing
    <2> SUFFICES ASSUME LifecycleInv PROVE CleanDrainLosesNothing
      OBVIOUS
    <2>1. CleanDrainAcceptsAll
      BY DEF LifecycleInv, DrainedProducers, DrainOrder, CleanDrainAcceptsAll
    <2>2. NoWorkOnClosedPool
      BY DEF LifecycleInv, DrainOrder, NoWorkOnClosedPool
    <2>3. CleanDrainReplaysAll
      <3> SUFFICES ASSUME poolClosed, ~timedOut PROVE replayed = accepted
        BY DEF CleanDrainReplaysAll
      <3>1. replayed \in Nat /\ accepted \in Nat
        BY LifecycleAssumption DEF LifecycleInv, TypeOK
      <3>2. inLanes = 0 /\ depth = 0
        BY DEF LifecycleInv, DrainOrder, ConsumerDone
      <3>3. replayed + inLanes + depth = accepted
        BY DEF LifecycleInv, QueuedCounted
      <3> QED BY <3>1, <3>2, <3>3
    <2> QED BY <2>1, <2>2, <2>3 DEF CleanDrainLosesNothing
  <1> QED BY <1>1, LifecycleAlways, PTL

(***************************************************************************)
(* restartCapture follows the primary for any number of switchovers, of    *)
(* requests crossing them and of failing reopens: with no callback under   *)
(* way an attached handle filters on the address the detector last saw.    *)
(***************************************************************************)
THEOREM FailoverIsFollowed == Spec => []CaptureFollowsSource
  <1>1. LifecycleInv => CaptureFollowsSource
    BY DEF LifecycleInv, FollowsConfig, CaptureFollowsSource
  <1> QED BY <1>1, LifecycleAlways, PTL
=============================================================================
