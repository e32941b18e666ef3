--------------------------- MODULE ReplayerProofs ---------------------------
(***************************************************************************)
(* Theorems about Replayer for every set of source connections, every      *)
(* number of events and every configuration.  The inductive invariant is   *)
(* ReplayInv: none of the properties is inductive by itself, because what  *)
(* has been executed says nothing of the events that are still under way   *)
(* (in a worker's hands, in a lane, upstream), and it is their order and   *)
(* their number that the properties need.                                  *)
(***************************************************************************)
EXTENDS Replayer, FiniteSetTheorems, SequenceTheorems, TLAPS

\* The steps of a worker that has an event in its hands, and those of them at
\* which it also holds a slot.
Busy == {"sem", "acquire", "exec", "reset"}
InExec == {"acquire", "exec", "reset"}

\* The lane of a source connection.
KeyOf(c) == IF mode.serial THEN SerialKey ELSE c

\* A worker's event, and those of its lane, belong to the lane.
OwnEvents ==
    \A k \in Keys :
        /\ w[k] \in Busy => ev[k] \in Event /\ KeyOf(ev[k].conn) = k
        /\ \A i \in DOMAIN lane[k] : KeyOf(lane[k][i].conn) = k

\* A lane is opened before it is used and closed once the dispatcher has ended.
LanesOpened ==
    \A k \in Keys :
        /\ laneState[k] = "none" => w[k] = "idle" /\ lane[k] = << >>
        /\ laneState[k] = "closed" => disp \in {"waiting", "returned"}
        /\ laneState[k] = "open" => disp \notin {"waiting", "returned"}

\* Without cancellation a lane retires when it is closed and empty, and the
\* dispatcher ends when the queue is.
EndsEmpty ==
    ~ctxDone => /\ \A k \in Keys : w[k] = "retired" => lane[k] = << >> /\ laneState[k] = "closed"
                /\ disp \in {"closing", "waiting", "returned"} => qClosed /\ upstream = << >>

\* Run returns after the workers.
ReturnsLast ==
    disp = "returned" => \A k \in Keys : laneState[k] # "none" => w[k] = "retired"

\* A lease belongs to a lane whose worker will give it back.
LeasesHeld ==
    \A c \in leased : laneState[KeyOf(c)] # "none" /\ w[KeyOf(c)] # "retired"

\* The dispatcher takes an event only when the lanes have room for it.
RoomToRoute == disp = "dequeue" => LaneDepth < mode.lanes

\* Without cancellation a captured event is upstream, in a lane, in a worker's
\* hands or dealt with.
BusyKeys == {k \in Keys : w[k] \in Busy}
Counted ==
    ~ctxDone => Len(done) + Cardinality(BusyKeys) + LaneDepth + Len(upstream) = Len(arrived)

----------------------------------------------------------------------------
LEMMA KeysFinite == TypeOK => IsFiniteSet(Keys) /\ Keys \subseteq Conns
  <1> SUFFICES ASSUME TypeOK PROVE IsFiniteSet(Keys) /\ Keys \subseteq Conns
    OBVIOUS
  <1>1. Keys \subseteq Conns
    BY ReplayerAssumption DEF Keys
  <1> QED BY <1>1, ReplayerAssumption, FS_Subset

LEMMA ModeType == TypeOK => /\ mode \in Mode /\ mode.slots \in Nat /\ mode.pool \in Nat
                            /\ mode.lanes \in Nat /\ mode.lanes > 0 /\ mode.attempts \in Nat
  BY ReplayerAssumption DEF TypeOK, Mode

LEMMA KeyOfType == \A c \in Conns : KeyOf(c) \in Keys
  BY ReplayerAssumption DEF KeyOf, Keys

\* The configuration of a replayer is New's.
LEMMA ModeFixed == [Next]_vars => mode' = mode /\ Keys' = Keys /\ \A c : KeyOf(c)' = KeyOf(c)
  <1> SUFFICES ASSUME [Next]_vars PROVE mode' = mode
    BY DEF Keys, KeyOf
  <1>1. CASE \E k \in Keys : Proceeds(k)
    BY <1>1 DEF Proceeds, dispatcher, worker, LaneTake, LaneDrained, TakeSlot, SlotCancelled,
       ReuseLease, DropDeadLease, NewLease, AcquireFails, ExecOk, ExecFails, ExecInterrupted, ResetTx
  <1>2. CASE \E k \in Keys : \E c \in Conns : ExecFails(k, c)
    BY <1>2 DEF ExecFails, dispatcher
  <1> QED BY <1>1, <1>2 DEF Next, Worker, vars, dispatcher, worker, pool, Arrive, ConnDies, CloseQueue,
        Cancel, Dispatcher, PassBackpressure, Route, DispatchEnds, CloseLanes, RunReturns

----------------------------------------------------------------------------
\* What a worker's step does to the events, whatever the pool and the error
\* policy do meanwhile.

\* It goes on with the event it has.
Keeps(k) ==
    /\ \/ w[k] = "sem" /\ sem' = sem + 1
       \/ w[k] \in InExec /\ sem' = sem
    /\ \E s \in InExec : w' = [w EXCEPT ![k] = s]
    /\ UNCHANGED <<lane, ev, done, ctxDone>>

\* It takes the next event of its lane.
Takes(k) ==
    /\ w[k] = "idle" /\ lane[k] # << >>
    /\ w' = [w EXCEPT ![k] = "sem"]
    /\ ev' = [ev EXCEPT ![k] = Head(lane[k])]
    /\ lane' = [lane EXCEPT ![k] = Tail(lane[k])]
    /\ UNCHANGED <<done, ctxDone, sem>>

\* It is finished with its event.
Deals(k) ==
    /\ w[k] \in InExec
    /\ w' = [w EXCEPT ![k] = "idle"]
    /\ ev' = [ev EXCEPT ![k] = None]
    /\ done' = Append(done, ev[k])
    /\ sem' = sem - 1
    /\ ctxDone' \in BOOLEAN /\ (ctxDone => ctxDone')
    /\ UNCHANGED lane

\* It ends, because its lane is drained or abandoned.
Stops(k) ==
    /\ \/ w[k] = "idle" /\ lane[k] = << >> /\ laneState[k] = "closed"
       \/ w[k] = "sem" /\ ctxDone
    /\ Retire(k)
    /\ UNCHANGED <<lane, done, ctxDone, sem>>

LEMMA WorkerOutcomes ==
    ASSUME TypeOK, NEW k \in Keys, Worker(k)
    PROVE  /\ Keeps(k) \/ Takes(k) \/ Deals(k) \/ Stops(k)
           /\ UNCHANGED <<mode, upstream, disp, lagging, qClosed, laneState, arrived>>
  <1> USE DEF dispatcher, pool, worker, Busy, InExec
  <1>f. ASSUME Fail(k), w[k] \in InExec, UNCHANGED <<lane, laneState>>
        PROVE  Keeps(k) \/ Deals(k)
    <2>1. CASE Finish(k)
      <3>1. ctxDone' \in BOOLEAN /\ (ctxDone => ctxDone')
        <4>1. UNCHANGED ctxDone \/ ctxDone' = TRUE
          BY <1>f DEF Fail
        <4>2. CASE UNCHANGED ctxDone
          BY <4>2, Zenon DEF TypeOK
        <4>3. CASE ctxDone' = TRUE
          BY <4>3, Zenon
        <4> QED BY <4>1, <4>2, <4>3
      <3> QED BY <1>f, <2>1, <3>1 DEF Finish, Deals
    <2>2. CASE ~Finish(k)
      BY <1>f, <2>2 DEF Fail, Keeps
    <2> QED BY <2>1, <2>2
  <1>1. CASE LaneTake(k)
    BY <1>1 DEF LaneTake, Takes
  <1>2. CASE LaneDrained(k)
    BY <1>2 DEF LaneDrained, Stops
  <1>3. CASE TakeSlot(k)
    BY <1>3 DEF TakeSlot, Keeps
  <1>4. CASE SlotCancelled(k)
    BY <1>4 DEF SlotCancelled, Stops
  <1>5. ASSUME NEW c \in Conns, ReuseLease(k, c) \/ NewLease(k, c) PROVE Keeps(k)
    BY <1>5 DEF ReuseLease, NewLease, Keeps
  <1>6. ASSUME NEW c \in Conns, DropDeadLease(k, c) PROVE Keeps(k)
    <2>1. w = [w EXCEPT ![k] = w[k]]
      BY DEF TypeOK
    <2> QED BY <1>6, <2>1 DEF DropDeadLease, Keeps
  <1>7. ASSUME NEW c \in Conns, AcquireFails(k, c) \/ ExecFails(k, c) PROVE Keeps(k) \/ Deals(k)
    BY <1>7, <1>f DEF AcquireFails, ExecFails
  <1>8. ASSUME NEW c \in Conns, ExecOk(k, c) \/ ExecInterrupted(k, c) \/ ResetTx(k, c)
        PROVE  Deals(k)
    <2>1. ctxDone' \in BOOLEAN /\ (ctxDone => ctxDone')
      BY <1>8, Zenon DEF ExecOk, ExecInterrupted, ResetTx, TypeOK
    <2> QED BY <1>8, <2>1 DEF ExecOk, ExecInterrupted, ResetTx, Finish, Deals
  <1>9. UNCHANGED <<mode, upstream, disp, lagging, qClosed, laneState, arrived>>
    BY DEF Worker, Proceeds, LaneTake, LaneDrained, TakeSlot, SlotCancelled, ReuseLease, DropDeadLease,
           NewLease, AcquireFails, ExecOk, ExecFails, ExecInterrupted, ResetTx
  <1> QED BY <1>1, <1>2, <1>3, <1>4, <1>5, <1>6, <1>7, <1>8, <1>9 DEF Worker, Proceeds

----------------------------------------------------------------------------
LEMMA ReplayTypeInit == Init => TypeOK
  <1> SUFFICES ASSUME Init PROVE TypeOK
    OBVIOUS
  <1>1. mode \in Modes /\ mode.attempts \in Nat /\ mode.slots \in Nat
    BY ReplayerAssumption DEF Init, Mode
  <1>2. qClosed \in BOOLEAN /\ lagging \in BOOLEAN /\ ctxDone \in BOOLEAN
    BY Zenon DEF Init
  <1>3. << >> \in Seq(Event)
    OBVIOUS
  <1>4. lane \in [Keys -> Seq(Event)]
    BY <1>3 DEF Init
  <1>5. attempts \in [Keys -> 0..mode.attempts] /\ sem \in 0..mode.slots
    BY <1>1 DEF Init
  <1> QED BY <1>1, <1>2, <1>3, <1>4, <1>5 DEF Init, TypeOK

\* A step inside Exec holds a slot, which is one of the semaphore's.
LEMMA SlotHeld ==
    ASSUME TypeOK, SlotsAccounted, NEW k \in Keys, w[k] \in InExec
    PROVE  sem \in Nat /\ sem > 0
  <1>1. IsFiniteSet({l \in Keys : w[l] \in {"acquire", "exec", "reset"}})
    BY KeysFinite, FS_Subset
  <1>2. k \in {l \in Keys : w[l] \in {"acquire", "exec", "reset"}}
    BY DEF InExec
  <1>3. sem # 0
    BY <1>1, <1>2, FS_EmptySet DEF SlotsAccounted
  <1> QED BY <1>3, ModeType DEF TypeOK

\* What only the pool and the counters of a worker's step decide.
LEMMA WorkerTypes ==
    ASSUME TypeOK, SlotsAccounted, OwnEvents, NEW k \in Keys, Worker(k)
    PROVE  /\ attempts' \in [Keys -> 0..mode.attempts]
           /\ sem' \in 0..mode.slots
           /\ leased' \in SUBSET Conns /\ dead' \in SUBSET Conns
           /\ lock' \in Conns \cup {None}
  <1>t. /\ attempts \in [Keys -> 0..mode.attempts] /\ sem \in 0..mode.slots
        /\ mode.attempts \in Nat /\ mode.slots \in Nat
        /\ leased \in SUBSET Conns /\ dead \in SUBSET Conns /\ lock \in Conns \cup {None}
    BY ModeType DEF TypeOK
  <1>1. attempts' \in [Keys -> 0..mode.attempts]
    <2>1. CASE UNCHANGED attempts
      BY <1>t, <2>1
    <2>2. CASE attempts' = [attempts EXCEPT ![k] = 0]
      BY <1>t, <2>2
    <2>3. CASE attempts[k] < mode.attempts /\ attempts' = [attempts EXCEPT ![k] = @ + 1]
      <3>1. attempts[k] + 1 \in 0..mode.attempts
        BY <1>t, <2>3
      <3> QED BY <1>t, <2>3, <3>1
    <2>4. ASSUME Fail(k)
          PROVE  UNCHANGED attempts \/
                 (attempts[k] < mode.attempts /\ attempts' = [attempts EXCEPT ![k] = @ + 1])
      BY <2>4 DEF Fail, Finish
    <2> QED BY <2>1, <2>2, <2>3, <2>4
            DEF worker, Worker, Proceeds, LaneTake, LaneDrained, TakeSlot, SlotCancelled, ReuseLease,
                DropDeadLease, NewLease, AcquireFails, ExecOk, ExecFails, ExecInterrupted,
                ResetTx, Finish
  <1>2. sem' \in 0..mode.slots
    <2>1. CASE UNCHANGED sem
      BY <1>t, <2>1
    <2>2. CASE TakeSlot(k)
      BY <1>t, <2>2 DEF TakeSlot
    <2>3. CASE w[k] \in InExec /\ sem' = sem - 1
      BY <1>t, <2>3, SlotHeld
    <2>4. ASSUME Fail(k) PROVE UNCHANGED sem \/ sem' = sem - 1
      BY <2>4 DEF Fail, Finish
    <2> QED BY <2>1, <2>2, <2>3, <2>4
            DEF worker, Worker, Proceeds, LaneTake, LaneDrained, SlotCancelled, ReuseLease, InExec,
                DropDeadLease, NewLease, AcquireFails, ExecOk, ExecFails, ExecInterrupted,
                ResetTx, Finish
  <1>3. leased' \in SUBSET Conns /\ dead' \in SUBSET Conns
    BY <1>t DEF pool, Worker, Proceeds, LaneTake, LaneDrained, TakeSlot, SlotCancelled, ReuseLease,
          DropDeadLease, NewLease, AcquireFails, ExecOk, ExecFails, ExecInterrupted,
          ResetTx, Retire
  <1>4. lock' \in Conns \cup {None}
    BY <1>t DEF pool, Worker, Proceeds, LaneTake, LaneDrained, TakeSlot, SlotCancelled, ReuseLease,
          DropDeadLease, NewLease, AcquireFails, ExecOk, ExecFails, ExecInterrupted,
          ResetTx, Retire, Unlocked
  <1> QED BY <1>1, <1>2, <1>3, <1>4

LEMMA EventType == \A e \in Event : e.conn \in Conns /\ e.seq \in Nat /\ KeyOf(e.conn) \in Keys
                                      /\ laneKey(e) = KeyOf(e.conn)
  BY ReplayerAssumption, KeyOfType DEF Event, laneKey, KeyOf

LEMMA ReplayTypeNext ==
    ASSUME TypeOK, SlotsAccounted, OwnEvents, Next
    PROVE  TypeOK'
  <1>t. /\ mode \in Modes
        /\ upstream \in Seq(Event) /\ lane \in [Keys -> Seq(Event)]
        /\ arrived \in Seq(Event) /\ done \in Seq(Event)
        /\ laneState \in [Keys -> {"none", "open", "closed"}]
        /\ w \in [Keys -> {"idle", "sem", "acquire", "exec", "reset", "retired"}]
        /\ ev \in [Keys -> Event \cup {None}]
    BY DEF TypeOK
  <1>m. mode' = mode /\ Keys' = Keys
    BY ModeFixed
  <1>1. CASE \E c \in Conns : Arrive(c)
    <2>1. PICK c \in Conns, n \in 1..MaxSeq :
             /\ upstream' = Append(upstream, [conn |-> c, seq |-> n])
             /\ arrived' = Append(arrived, [conn |-> c, seq |-> n])
      BY <1>1 DEF Arrive
    <2>2. [conn |-> c, seq |-> n] \in Event
      BY DEF Event
    <2>3. upstream' \in Seq(Event) /\ arrived' \in Seq(Event)
      BY <1>t, <2>1, <2>2
    <2> QED BY <1>1, <1>m, <2>3 DEF Arrive, TypeOK, worker, pool
  <1>2. CASE Route
    <2> DEFINE e == Head(upstream)
    <2>1. e \in Event /\ Tail(upstream) \in Seq(Event)
      BY <1>t, <1>2 DEF Route
    <2>2. laneKey(e) \in Keys
      BY <2>1, EventType
    <2>3. lane' = [lane EXCEPT ![laneKey(e)] = Append(lane[laneKey(e)], e)]
      BY <1>2 DEF Route
    <2>4. Append(lane[laneKey(e)], e) \in Seq(Event)
      BY <1>t, <2>1, <2>2
    <2>5. lane' \in [Keys -> Seq(Event)]
      BY <1>t, <2>3, <2>4, <2>2
    <2>6. laneState' \in [Keys -> {"none", "open", "closed"}]
      BY <1>t, <1>2 DEF Route
    <2>7. lagging' \in BOOLEAN
      BY <1>2, Zenon DEF Route
    <2> QED BY <1>2, <1>m, <2>1, <2>5, <2>6, <2>7 DEF Route, TypeOK, worker, pool
  <1>3. CASE CloseQueue \/ Cancel
    <2>1. qClosed' \in BOOLEAN /\ ctxDone' \in BOOLEAN
      BY <1>3, Zenon DEF CloseQueue, Cancel, TypeOK
    <2> QED BY <1>3, <1>m, <2>1 DEF CloseQueue, Cancel, TypeOK, worker, pool, dispatcher
  <1>4. CASE PassBackpressure \/ DispatchEnds \/ RunReturns
    BY <1>4, <1>m DEF PassBackpressure, DispatchEnds, RunReturns, TypeOK, worker, pool
  <1>5. CASE CloseLanes
    <2>1. laneState' \in [Keys -> {"none", "open", "closed"}]
      BY <1>t, <1>5 DEF CloseLanes
    <2> QED BY <1>5, <1>m, <2>1 DEF CloseLanes, TypeOK, worker, pool
  <1>6. CASE \E c \in Conns : ConnDies(c)
    <2>1. dead' \in SUBSET Conns /\ lock' \in Conns \cup {None}
      BY <1>6 DEF ConnDies, TypeOK, Unlocked
    <2> QED BY <1>6, <1>m, <2>1 DEF ConnDies, TypeOK, worker, pool, dispatcher
  <1>7. CASE \E k \in Keys : Worker(k)
    <2>1. PICK k \in Keys : Worker(k)
      BY <1>7
    <2>2. /\ Keeps(k) \/ Takes(k) \/ Deals(k) \/ Stops(k)
          /\ UNCHANGED <<mode, upstream, disp, lagging, qClosed, laneState, arrived>>
      BY <2>1, WorkerOutcomes
    <2>3. ctxDone' \in BOOLEAN
      BY <2>2, Zenon DEF Keeps, Takes, Deals, Stops, TypeOK
    <2>4. w' \in [Keys -> {"idle", "sem", "acquire", "exec", "reset", "retired"}]
      BY <1>t, <2>2 DEF Keeps, Takes, Deals, Stops, Retire, Busy, InExec
    <2>5. lane' \in [Keys -> Seq(Event)]
      <3>1. CASE Takes(k)
        <4>1. Tail(lane[k]) \in Seq(Event)
          BY <1>t, <3>1 DEF Takes
        <4> QED BY <1>t, <3>1, <4>1 DEF Takes
      <3> QED BY <1>t, <2>2, <3>1 DEF Keeps, Deals, Stops
    <2>6. ev' \in [Keys -> Event \cup {None}]
      <3>1. CASE Takes(k)
        <4>1. Head(lane[k]) \in Event
          BY <1>t, <3>1 DEF Takes
        <4> QED BY <1>t, <3>1, <4>1 DEF Takes
      <3> QED BY <1>t, <2>2, <3>1 DEF Keeps, Deals, Stops, Retire
    <2>7. done' \in Seq(Event)
      <3>1. CASE Deals(k)
        <4>1. ev[k] \in Event
          BY <3>1 DEF Deals, OwnEvents, Busy, InExec
        <4> QED BY <1>t, <3>1, <4>1 DEF Deals
      <3> QED BY <1>t, <2>2, <3>1 DEF Keeps, Takes, Stops
    <2>8. /\ attempts' \in [Keys -> 0..mode.attempts] /\ sem' \in 0..mode.slots
          /\ leased' \in SUBSET Conns /\ dead' \in SUBSET Conns
          /\ lock' \in Conns \cup {None}
      BY <2>1, WorkerTypes
    <2> QED BY <1>m, <2>2, <2>3, <2>4, <2>5, <2>6, <2>7, <2>8 DEF TypeOK
  <1> QED BY <1>1, <1>2, <1>3, <1>4, <1>5, <1>6, <1>7 DEF Next, Dispatcher

\* The events of a lane are routed to it by their connection.
LEMMA OwnEventsNext ==
    ASSUME TypeOK, OwnEvents, Next
    PROVE  OwnEvents'
  <1>t. /\ upstream \in Seq(Event) /\ lane \in [Keys -> Seq(Event)]
        /\ w \in [Keys -> {"idle", "sem", "acquire", "exec", "reset", "retired"}]
        /\ ev \in [Keys -> Event \cup {None}]
    BY DEF TypeOK
  <1>m. Keys' = Keys /\ \A c : KeyOf(c)' = KeyOf(c)
    BY ModeFixed
  <1>1. CASE Route
    <2> DEFINE e == Head(upstream)
    <2>1. e \in Event
      BY <1>t, <1>1 DEF Route
    <2>2. laneKey(e) \in Keys /\ laneKey(e) = KeyOf(e.conn)
      BY <2>1, EventType
    <2>3. lane' = [lane EXCEPT ![laneKey(e)] = Append(lane[laneKey(e)], e)] /\ UNCHANGED <<w, ev>>
      BY <1>1 DEF Route, worker
    <2> HIDE DEF e
    <2>4. \A k \in Keys : k # laneKey(e) => lane'[k] = lane[k]
      BY <1>t, <2>2, <2>3
    <2>5. \A i \in DOMAIN lane'[laneKey(e)] :
             lane'[laneKey(e)][i] = e \/ (i \in DOMAIN lane[laneKey(e)] /\
                                         lane'[laneKey(e)][i] = lane[laneKey(e)][i])
      BY <1>t, <2>1, <2>2, <2>3
    <2>6. \A k \in Keys : \A i \in DOMAIN lane'[k] : KeyOf(lane'[k][i].conn) = k
      BY <2>2, <2>4, <2>5 DEF OwnEvents
    <2> QED BY <1>m, <2>3, <2>6 DEF OwnEvents
  <1>2. CASE \E k \in Keys : Worker(k)
    <2>1. PICK k \in Keys : Keeps(k) \/ Takes(k) \/ Deals(k) \/ Stops(k)
      BY <1>2, WorkerOutcomes
    <2>2. CASE Takes(k)
      <3>1. Head(lane[k]) = lane[k][1] /\ 1 \in DOMAIN lane[k] /\ lane[k][1] \in Event
        BY <1>t, <2>2 DEF Takes
      <3>2. \A i \in DOMAIN Tail(lane[k]) : i + 1 \in DOMAIN lane[k] /\ Tail(lane[k])[i] = lane[k][i + 1]
        BY <1>t, <2>2 DEF Takes
      <3>3. lane'[k] = Tail(lane[k]) /\ ev'[k] = Head(lane[k])
        BY <1>t, <2>2 DEF Takes
      <3>4. \A l \in Keys : l # k => lane'[l] = lane[l] /\ ev'[l] = ev[l] /\ w'[l] = w[l]
        BY <1>t, <2>2 DEF Takes
      <3>5. ev'[k] \in Event /\ KeyOf(ev'[k].conn) = k
        BY <3>1, <3>3 DEF OwnEvents
      <3>6. \A i \in DOMAIN lane'[k] : KeyOf(lane'[k][i].conn) = k
        BY <3>2, <3>3 DEF OwnEvents
      <3> QED BY <1>m, <3>4, <3>5, <3>6 DEF OwnEvents
    <2>3. CASE Keeps(k)
      BY <1>t, <1>m, <2>3 DEF Keeps, OwnEvents, Busy, InExec
    <2>4. CASE Deals(k)
      BY <1>t, <1>m, <2>4 DEF Deals, OwnEvents, Busy
    <2>5. CASE Stops(k)
      BY <1>t, <1>m, <2>5 DEF Stops, Retire, OwnEvents, Busy
    <2> QED BY <2>1, <2>2, <2>3, <2>4, <2>5
  <1>3. CASE UNCHANGED <<lane, w, ev>>
    BY <1>m, <1>3 DEF OwnEvents
  <1> QED BY <1>1, <1>2, <1>3
          DEF Next, Dispatcher, worker, Arrive, ConnDies, CloseQueue, Cancel, PassBackpressure,
              DispatchEnds, CloseLanes, RunReturns

LEMMA LanesOpenedNext ==
    ASSUME TypeOK, OwnEvents, LanesOpened, Next
    PROVE  LanesOpened'
  <1>t. /\ upstream \in Seq(Event) /\ lane \in [Keys -> Seq(Event)]
        /\ laneState \in [Keys -> {"none", "open", "closed"}]
        /\ w \in [Keys -> {"idle", "sem", "acquire", "exec", "reset", "retired"}]
        /\ disp \in {"check", "dequeue", "closing", "waiting", "returned"}
    BY DEF TypeOK
  <1>m. Keys' = Keys
    BY ModeFixed
  <1>1. CASE Route
    <2>1. laneKey(Head(upstream)) \in Keys
      BY <1>t, <1>1, EventType DEF Route
    <2>2. PICK k \in Keys :
             /\ \A l \in Keys : l # k => lane'[l] = lane[l] /\ laneState'[l] = laneState[l]
             /\ laneState'[k] = "open"
      BY <1>t, <1>1, <2>1 DEF Route
    <2> QED BY <1>1, <1>m, <2>2 DEF Route, LanesOpened, worker
  <1>2. CASE \E k \in Keys : Worker(k)
    <2>1. PICK k \in Keys : /\ Keeps(k) \/ Takes(k) \/ Deals(k) \/ Stops(k)
                            /\ UNCHANGED <<disp, laneState>>
      BY <1>2, WorkerOutcomes
    <2>2. /\ \A l \in Keys : l # k => lane'[l] = lane[l] /\ w'[l] = w[l]
          /\ w[k] # "idle" \/ lane[k] # << >> \/ laneState[k] = "closed"
      BY <1>t, <2>1 DEF Keeps, Takes, Deals, Stops, Retire, Busy, InExec
    <2> QED BY <1>m, <2>1, <2>2 DEF LanesOpened
  <1>3. CASE CloseLanes
    BY <1>t, <1>m, <1>3 DEF CloseLanes, LanesOpened, worker
  <1>4. CASE PassBackpressure \/ DispatchEnds \/ RunReturns
    BY <1>m, <1>4 DEF PassBackpressure, DispatchEnds, RunReturns, LanesOpened, worker
  <1>5. CASE UNCHANGED <<lane, laneState, w, disp>>
    BY <1>m, <1>5 DEF LanesOpened
  <1> QED BY <1>1, <1>2, <1>3, <1>4, <1>5
          DEF Next, Dispatcher, dispatcher, worker, Arrive, ConnDies, CloseQueue, Cancel

LEMMA EndsEmptyNext ==
    ASSUME TypeOK, LanesOpened, EndsEmpty, Next
    PROVE  EndsEmpty'
  <1>t. /\ upstream \in Seq(Event) /\ lane \in [Keys -> Seq(Event)]
        /\ laneState \in [Keys -> {"none", "open", "closed"}]
        /\ w \in [Keys -> {"idle", "sem", "acquire", "exec", "reset", "retired"}]
    BY DEF TypeOK
  <1>m. Keys' = Keys
    BY ModeFixed
  <1>1. CASE Route
    <2>1. laneKey(Head(upstream)) \in Keys
      BY <1>t, <1>1, EventType DEF Route
    <2>2. PICK k \in Keys :
             \A l \in Keys : l # k => lane'[l] = lane[l] /\ laneState'[l] = laneState[l]
      BY <1>t, <1>1, <2>1 DEF Route
    <2>3. \A l \in Keys : laneState[l] # "closed"
      BY <1>1 DEF Route, LanesOpened
    <2> QED BY <1>1, <1>m, <2>2, <2>3 DEF Route, EndsEmpty, worker
  <1>2. CASE \E k \in Keys : Worker(k)
    <2>1. PICK k \in Keys : /\ Keeps(k) \/ Takes(k) \/ Deals(k) \/ Stops(k)
                            /\ UNCHANGED <<disp, laneState, upstream, qClosed>>
      BY <1>2, WorkerOutcomes
    <2>2. \A l \in Keys : l # k => lane'[l] = lane[l] /\ w'[l] = w[l]
      BY <1>t, <2>1 DEF Keeps, Takes, Deals, Stops, Retire
    <2>3. ctxDone => ctxDone'
      BY <2>1 DEF Keeps, Takes, Deals, Stops
    <2>4. w'[k] = "retired" => ctxDone \/ (lane'[k] = << >> /\ laneState[k] = "closed")
      BY <1>t, <2>1 DEF Keeps, Takes, Deals, Stops, Retire, Busy, InExec
    <2> QED BY <1>m, <2>1, <2>2, <2>3, <2>4 DEF EndsEmpty
  <1>3. CASE CloseLanes
    BY <1>t, <1>m, <1>3 DEF CloseLanes, EndsEmpty, worker
  <1>4. CASE PassBackpressure \/ DispatchEnds \/ RunReturns
    BY <1>m, <1>4 DEF PassBackpressure, DispatchEnds, RunReturns, EndsEmpty, worker
  <1>5. CASE CloseQueue \/ Cancel
    BY <1>m, <1>5 DEF CloseQueue, Cancel, EndsEmpty, worker, dispatcher
  <1>6. CASE \E c \in Conns : Arrive(c)
    BY <1>m, <1>6 DEF Arrive, EndsEmpty, worker
  <1>7. CASE UNCHANGED <<lane, laneState, w, disp, upstream, qClosed, ctxDone>>
    BY <1>m, <1>7 DEF EndsEmpty
  <1> QED BY <1>1, <1>2, <1>3, <1>4, <1>5, <1>6, <1>7
          DEF Next, Dispatcher, dispatcher, worker, ConnDies

LEMMA ReturnsLastNext ==
    ASSUME TypeOK, ReturnsLast, LanesOpened, Next
    PROVE  ReturnsLast'
  <1>t. /\ lane \in [Keys -> Seq(Event)]
        /\ w \in [Keys -> {"idle", "sem", "acquire", "exec", "reset", "retired"}]
    BY DEF TypeOK
  <1>m. Keys' = Keys
    BY ModeFixed
  <1>1. CASE \E k \in Keys : Worker(k)
    <2>1. PICK k \in Keys : /\ Keeps(k) \/ Takes(k) \/ Deals(k) \/ Stops(k)
                            /\ UNCHANGED <<disp, laneState>>
      BY <1>1, WorkerOutcomes
    <2>2. \A l \in Keys : l # k => w'[l] = w[l]
      BY <1>t, <2>1 DEF Keeps, Takes, Deals, Stops, Retire
    <2>3. w[k] # "retired" /\ (w[k] # "idle" \/ lane[k] # << >> \/ laneState[k] = "closed")
      BY <2>1 DEF Keeps, Takes, Deals, Stops, Busy, InExec
    <2> QED BY <1>m, <2>1, <2>2, <2>3 DEF ReturnsLast, LanesOpened
  <1>2. CASE RunReturns
    BY <1>m, <1>2 DEF RunReturns, ReturnsLast, worker
  <1>3. CASE Route \/ CloseLanes \/ PassBackpressure \/ DispatchEnds
    BY <1>3 DEF Route, CloseLanes, PassBackpressure, DispatchEnds, ReturnsLast
  <1>4. CASE UNCHANGED <<laneState, w, disp>>
    BY <1>m, <1>4 DEF ReturnsLast
  <1> QED BY <1>1, <1>2, <1>3, <1>4
          DEF Next, Dispatcher, dispatcher, worker, ConnDies, Arrive, CloseQueue, Cancel

----------------------------------------------------------------------------
\* Slots and leases.

LEMMA SlotsNext ==
    ASSUME TypeOK, SlotsAccounted, Next
    PROVE  SlotsAccounted'
  <1> DEFINE S == {k \in Keys : w[k] \in {"acquire", "exec", "reset"}}
  <1>t. /\ w \in [Keys -> {"idle", "sem", "acquire", "exec", "reset", "retired"}]
        /\ sem \in Nat /\ IsFiniteSet(S) /\ sem = Cardinality(S)
    BY KeysFinite, ModeType, FS_Subset DEF TypeOK, SlotsAccounted
  <1>m. Keys' = Keys
    BY ModeFixed
  <1>a. ASSUME NEW k \in Keys, NEW s \in InExec, w[k] = "sem", w' = [w EXCEPT ![k] = s], sem' = sem + 1
        PROVE  SlotsAccounted'
    <2>1. S' = S \cup {k} /\ k \notin S
      BY <1>t, <1>m, <1>a DEF InExec
    <2>2. Cardinality(S \cup {k}) = Cardinality(S) + 1
      BY <1>t, <2>1, FS_AddElement
    <2> QED BY <1>t, <1>a, <2>1, <2>2 DEF SlotsAccounted
  <1>b. ASSUME NEW k \in Keys, Deals(k) PROVE SlotsAccounted'
    <2>1. S' = S \ {k} /\ k \in S
      BY <1>t, <1>m, <1>b DEF Deals, InExec
    <2>2. Cardinality(S \ {k}) = Cardinality(S) - 1
      BY <1>t, <2>1, FS_RemoveElement
    <2> QED BY <1>t, <1>b, <2>1, <2>2 DEF SlotsAccounted, Deals
  <1>c. ASSUME NEW k \in Keys, NEW s, w' = [w EXCEPT ![k] = s], sem' = sem,
               w[k] \in {"acquire", "exec", "reset"} <=> s \in {"acquire", "exec", "reset"}
        PROVE  SlotsAccounted'
    <2>1. S' = S
      BY <1>t, <1>m, <1>c
    <2> QED BY <1>t, <1>c, <2>1 DEF SlotsAccounted
  <1>d. ASSUME UNCHANGED <<w, sem>> PROVE SlotsAccounted'
    <2>1. S' = S
      BY <1>m, <1>d
    <2> QED BY <1>t, <1>d, <2>1 DEF SlotsAccounted
  <1> HIDE DEF S
  <1>1. CASE \E k \in Keys : Worker(k)
    <2>1. PICK k \in Keys : Worker(k)
      BY <1>1
    <2>2. CASE Keeps(k)
      <3>1. PICK s \in InExec : w' = [w EXCEPT ![k] = s]
        BY <2>2 DEF Keeps
      <3> QED BY <1>a, <1>c, <2>2, <3>1 DEF Keeps, InExec
    <2>3. CASE Deals(k)
      BY <1>b, <2>3
    <2>4. CASE Takes(k)
      BY <1>c, <2>4 DEF Takes
    <2>5. CASE Stops(k)
      BY <1>c, <2>5 DEF Stops, Retire
    <2> QED BY <2>1, <2>2, <2>3, <2>4, <2>5, WorkerOutcomes
  <1> QED BY <1>1, <1>d
          DEF Next, Dispatcher, dispatcher, worker, ConnDies, Arrive, CloseQueue, Cancel,
              Route, CloseLanes, PassBackpressure, DispatchEnds, RunReturns

\* The connections of two workers' events are different.
LEMMA WorkersApart ==
    ASSUME OwnEvents, NEW k \in Keys, NEW l \in Keys, k # l, w[k] \in Busy, w[l] \in Busy
    PROVE  ev[k].conn # ev[l].conn
  BY DEF OwnEvents

\* What a step does to the leases: nothing, or it adds the lease of a worker's
\* connection, or it drops leases that no running statement uses.
Unleased(cs) == /\ leased' = leased \ cs
                /\ dead' = dead \ cs
                /\ \A k \in Keys : w'[k] = "exec" => w[k] = "exec" /\ ev'[k] = ev[k] /\ ev[k].conn \notin cs
Leased(c) == /\ leased' = leased \cup {c}
             /\ c \in leased \/ Cardinality(leased) < mode.pool
             /\ dead' \in {dead, dead \ {c}, dead \cup {c}}
             /\ \A k \in Keys : w'[k] = "exec" => ev'[k] = ev[k] /\ (w[k] = "exec" \/ ev[k].conn = c)

LEMMA LeaseOutcomes ==
    ASSUME TypeOK, OwnEvents, LeasesWithinPool, NEW k \in Keys, Worker(k)
    PROVE  \/ \E cs \in SUBSET Conns : Unleased(cs)
           \/ \E c \in Conns : KeyOf(c) = k /\ w[k] \in Busy /\ w'[k] # "retired" /\ Leased(c)
  <1>t. /\ w \in [Keys -> {"idle", "sem", "acquire", "exec", "reset", "retired"}]
        /\ ev \in [Keys -> Event \cup {None}] /\ leased \in SUBSET Conns /\ dead \subseteq leased
    BY DEF TypeOK, LeasesWithinPool
  <1>n. ASSUME w'[k] # "exec", \A l \in Keys : l # k => w'[l] = w[l] /\ ev'[l] = ev[l],
               UNCHANGED <<leased, dead>>
        PROVE  Unleased({})
    BY <1>n DEF Unleased
  <1>f. ASSUME Fail(k), w[k] \in InExec, UNCHANGED <<leased, dead>> PROVE Unleased({})
    BY <1>t, <1>f, <1>n DEF Fail, Finish, InExec
  <1>1. CASE LaneTake(k)
    BY <1>t, <1>1, <1>n DEF LaneTake, pool
  <1>2. CASE LaneDrained(k) \/ SlotCancelled(k)
    <2> DEFINE seen == IF mode.serial THEN Conns ELSE {k}
    <2>1. \A l \in Keys : l # k /\ w[l] = "exec" => ev[l].conn \notin seen
      <3>1. CASE mode.serial
        BY <3>1 DEF Keys
      <3>2. CASE ~mode.serial
        BY <3>2 DEF OwnEvents, KeyOf, Busy
      <3> QED BY <3>1, <3>2
    <2>2. seen \in SUBSET Conns
      BY ReplayerAssumption DEF Keys
    <2>3. Unleased(seen)
      BY <1>t, <1>2, <2>1 DEF LaneDrained, SlotCancelled, Retire, Unleased
    <2> QED BY <2>2, <2>3
  <1>3. CASE TakeSlot(k)
    BY <1>t, <1>3, <1>n DEF TakeSlot, pool
  <1>4. ASSUME NEW c \in Conns, ReuseLease(k, c) \/ NewLease(k, c)
        PROVE  KeyOf(c) = k /\ w[k] \in Busy /\ w'[k] # "retired" /\ Leased(c)
    <2>1. KeyOf(c) = k /\ w[k] \in Busy
      BY <1>4 DEF ReuseLease, NewLease, OwnEvents, Busy
    <2>2. w'[k] = "exec" /\ \A l \in Keys : l # k => w'[l] = w[l]
      BY <1>t, <1>4 DEF ReuseLease, NewLease
    <2> QED BY <1>t, <1>4, <2>1, <2>2 DEF ReuseLease, NewLease, Leased, pool
  <1>5. ASSUME NEW c \in Conns, DropDeadLease(k, c) PROVE Unleased({c})
    <2>1. \A l \in Keys : w[l] = "exec" => ev[l].conn # c
      BY <1>5, WorkersApart DEF DropDeadLease, Busy
    <2> QED BY <1>5, <2>1 DEF DropDeadLease, Unleased, worker
  <1>6. ASSUME NEW c \in Conns, AcquireFails(k, c) \/ ExecFails(k, c) PROVE Unleased({})
    BY <1>6, <1>f DEF AcquireFails, ExecFails, InExec, pool
  <1>7. ASSUME NEW c \in Conns, ExecOk(k, c) PROVE Unleased({})
    BY <1>t, <1>7, <1>n DEF ExecOk, Finish
  <1>8. ASSUME NEW c \in Conns, ExecInterrupted(k, c)
        PROVE  KeyOf(c) = k /\ w[k] \in Busy /\ w'[k] # "retired" /\ Leased(c)
    <2>1. KeyOf(c) = k /\ w[k] \in Busy /\ c \in leased
      BY <1>8 DEF ExecInterrupted, OwnEvents, Busy, LeasesWithinPool
    <2>2. w'[k] = "idle" /\ \A l \in Keys : l # k => w'[l] = w[l] /\ ev'[l] = ev[l]
      BY <1>t, <1>8 DEF ExecInterrupted, Finish
    <2>3. leased' = leased \cup {c} /\ dead' = dead \cup {c}
      BY <1>8, <2>1 DEF ExecInterrupted
    <2> QED BY <2>1, <2>2, <2>3 DEF Leased
  <1>9. ASSUME NEW c \in Conns, ResetTx(k, c)
        PROVE  Unleased(dead \cap {c}) \/
               (KeyOf(c) = k /\ w[k] \in Busy /\ w'[k] # "retired" /\ Leased(c))
    <2>1. KeyOf(c) = k /\ w[k] \in Busy
      BY <1>9 DEF ResetTx, OwnEvents, Busy
    <2>2. w'[k] = "idle" /\ \A l \in Keys : l # k => w'[l] = w[l] /\ ev'[l] = ev[l]
      BY <1>t, <1>9 DEF ResetTx, Finish
    <2>3. \A l \in Keys : l # k /\ w[l] = "exec" => ev[l].conn # c
      BY <1>9, WorkersApart DEF ResetTx, Busy
    <2>4. dead' = dead \ {c}
      BY <1>9 DEF ResetTx
    <2>5. CASE leased' = leased \ (dead \cap {c})
      BY <2>2, <2>3, <2>4, <2>5 DEF Unleased
    <2>6. CASE ~Exhausted(c) /\ leased' = leased \cup {c}
      <3>1. c \in leased \/ Cardinality(leased) < mode.pool
        <4>1. Cardinality(leased) \in Nat /\ mode.pool \in Nat
          BY <1>t, ReplayerAssumption, FS_Subset, FS_CardinalityType, ModeType
        <4> QED BY <2>6, <4>1 DEF Exhausted
      <3> QED BY <2>1, <2>2, <2>4, <2>6, <3>1 DEF Leased
    <2> QED BY <1>9, <2>5, <2>6 DEF ResetTx
  <1>e. dead \cap Conns \in SUBSET Conns /\ \A c \in Conns : dead \cap {c} \in SUBSET Conns /\ {c} \in SUBSET Conns
    BY <1>t
  <1> QED BY <1>1, <1>2, <1>3, <1>4, <1>5, <1>6, <1>7, <1>8, <1>9, <1>e DEF Worker, Proceeds

LEMMA LeasesNext ==
    ASSUME TypeOK, OwnEvents, LanesOpened, LeasesWithinPool, LeasesHeld, Next
    PROVE  LeasesWithinPool' /\ LeasesHeld'
  <1>t. /\ w \in [Keys -> {"idle", "sem", "acquire", "exec", "reset", "retired"}]
        /\ laneState \in [Keys -> {"none", "open", "closed"}]
        /\ leased \in SUBSET Conns /\ upstream \in Seq(Event)
        /\ IsFiniteSet(leased) /\ Cardinality(leased) \in Nat
    BY ReplayerAssumption, FS_Subset, FS_CardinalityType DEF TypeOK
  <1>m. mode' = mode /\ Keys' = Keys /\ (\A c : KeyOf(c)' = KeyOf(c)) /\ mode.pool \in Nat
    BY ModeFixed, ModeType
  <1>1. ASSUME NEW k \in Keys, Worker(k) PROVE LeasesWithinPool'
    <2>1. CASE \E cs \in SUBSET Conns : Unleased(cs)
      <3>1. PICK cs \in SUBSET Conns : Unleased(cs)
        BY <2>1
      <3>2. Cardinality(leased') \in Nat /\ Cardinality(leased') <= Cardinality(leased)
        BY <1>t, <3>1, FS_Subset, FS_CardinalityType DEF Unleased
      <3>3. Cardinality(leased') <= mode.pool
        BY <1>t, <1>m, <3>2 DEF LeasesWithinPool
      <3> QED BY <1>m, <3>1, <3>3 DEF Unleased, LeasesWithinPool
    <2>2. CASE \E c \in Conns : Leased(c)
      <3>1. PICK c \in Conns : Leased(c)
        BY <2>2
      <3>2. Cardinality(leased') = IF c \in leased THEN Cardinality(leased) ELSE Cardinality(leased) + 1
        BY <1>t, <3>1, FS_AddElement DEF Leased
      <3>3. Cardinality(leased') <= mode.pool
        BY <1>t, <1>m, <3>1, <3>2 DEF LeasesWithinPool, Leased
      <3>4. dead' \subseteq leased'
        BY <3>1 DEF LeasesWithinPool, Leased
      <3>5. \A l \in Keys : w'[l] = "exec" => ev'[l].conn \in leased'
        BY <3>1 DEF LeasesWithinPool, Leased
      <3> QED BY <1>m, <3>3, <3>4, <3>5 DEF LeasesWithinPool
    <2> QED BY <1>1, <2>1, <2>2, LeaseOutcomes
  <1>2. ASSUME NEW k \in Keys, Worker(k) PROVE LeasesHeld'
    <2>1. UNCHANGED laneState /\ (Keeps(k) \/ Takes(k) \/ Deals(k) \/ Stops(k))
      BY <1>2, WorkerOutcomes
    <2>2. \A l \in Keys : l # k => w'[l] = w[l]
      BY <1>t, <2>1 DEF Keeps, Takes, Deals, Stops, Retire
    <2>3. \A c \in leased' : c \in leased \/ (KeyOf(c) = k /\ w[k] \in Busy /\ w'[k] # "retired")
      BY <1>2, LeaseOutcomes DEF Unleased, Leased
    <2>4. w'[k] = "retired" => \A c \in leased' : c \in Conns /\ KeyOf(c) # k
      <3>1. SUFFICES ASSUME w'[k] = "retired" PROVE \A c \in leased' : c \in Conns /\ KeyOf(c) # k
        OBVIOUS
      <3>2. Retire(k)
        BY <1>t, <2>1, <3>1 DEF Keeps, Takes, Deals, Stops, InExec
      <3> QED BY <1>t, <3>2 DEF Retire, KeyOf
    <2>5. w[k] \in Busy => laneState[k] # "none"
      BY DEF Busy, LanesOpened
    <2>6. \A c \in Conns : KeyOf(c) \in Keys
      BY KeyOfType
    <2> QED BY <1>t, <1>m, <2>1, <2>2, <2>3, <2>4, <2>5, <2>6 DEF LeasesHeld
  <1>3. CASE \E c \in Conns : ConnDies(c)
    BY <1>m, <1>3 DEF ConnDies, LeasesWithinPool, LeasesHeld, worker
  <1>4. CASE Route \/ CloseLanes
    <2>1. \A c \in Conns : KeyOf(c) \in Keys
      BY KeyOfType
    <2>2. \A k \in Keys : laneState[k] # "none" => laneState'[k] # "none"
      BY <1>t, <1>4 DEF Route, CloseLanes
    <2> QED BY <1>t, <1>m, <1>4, <2>1, <2>2
            DEF Route, CloseLanes, worker, pool, LeasesWithinPool, LeasesHeld
  <1>5. CASE UNCHANGED <<leased, dead, w, ev, laneState>>
    BY <1>m, <1>5 DEF LeasesWithinPool, LeasesHeld
  <1> QED BY <1>1, <1>2, <1>3, <1>4, <1>5
          DEF Next, Dispatcher, worker, pool, Arrive, CloseQueue, Cancel, PassBackpressure,
              DispatchEnds, RunReturns

----------------------------------------------------------------------------
\* The depth of the lanes.

\* The places of the elements of a family of sequences.
Places(K, f) == UNION {{k} \X DOMAIN f[k] : k \in K}

\* Two families that differ at most in one of their sequences.
EqualBut(K, f, g, k) == \A l \in K : l # k => g[l] = f[l]

\* x is the place of an element.
IsPlace(K, f, x) == \E k \in K : \E i \in 1..Len(f[k]) : x = <<k, i>>

LEMMA InPlaces ==
    ASSUME NEW K, NEW f \in [K -> Seq(Event)], NEW x
    PROVE  x \in Places(K, f) <=> IsPlace(K, f, x)
  <1>1. \A k \in K : DOMAIN f[k] = 1..Len(f[k])
    OBVIOUS
  <1>2. x \in Places(K, f) <=> \E k \in K : x \in {k} \X DOMAIN f[k]
    BY DEF Places
  <1> QED BY <1>1, <1>2 DEF IsPlace

LEMMA PlacesFinite ==
    ASSUME NEW K, IsFiniteSet(K), NEW f \in [K -> Seq(Event)]
    PROVE  IsFiniteSet(Places(K, f))
  <1> DEFINE Parts == {{k} \X DOMAIN f[k] : k \in K}
             part == [k \in K |-> {k} \X DOMAIN f[k]]
  <1>1. part \in Surjection(K, Parts)
    BY DEF Surjection
  <1>2. IsFiniteSet(Parts)
    BY <1>1, FS_Surjection
  <1>3. ASSUME NEW k \in K PROVE IsFiniteSet({k} \X DOMAIN f[k])
    <2>1. DOMAIN f[k] = 1..Len(f[k]) /\ Len(f[k]) \in Nat
      OBVIOUS
    <2>2. IsFiniteSet(1..Len(f[k]))
      BY <2>1, FS_Interval
    <2>3. IsFiniteSet({k})
      BY FS_Singleton
    <2> QED BY <2>1, <2>2, <2>3, FS_Product
  <1>4. \A T \in Parts : IsFiniteSet(T)
    BY <1>3
  <1> QED BY <1>2, <1>4, FS_UNION DEF Places

LEMMA BufferedFinite ==
    ASSUME TypeOK
    PROVE  /\ Buffered = Places(Keys, lane) /\ IsFiniteSet(Buffered)
           /\ LaneDepth = Cardinality(Places(Keys, lane)) /\ LaneDepth \in Nat
  <1>1. Buffered = Places(Keys, lane)
    BY DEF Buffered, Places
  <1>2. IsFiniteSet(Places(Keys, lane))
    BY KeysFinite, PlacesFinite DEF TypeOK
  <1> QED BY <1>1, <1>2, FS_CardinalityType DEF LaneDepth

\* Routing an event makes the lanes one deeper; taking one, one shallower.
LEMMA DeeperByOne ==
    ASSUME NEW K, IsFiniteSet(K), NEW f \in [K -> Seq(Event)], NEW k \in K, NEW e \in Event,
           NEW g \in [K -> Seq(Event)],
           EqualBut(K, f, g, k), g[k] = Append(f[k], e)
    PROVE  Cardinality(Places(K, g)) = Cardinality(Places(K, f)) + 1
  <1> DEFINE x == <<k, Len(f[k]) + 1>>
  <1>1. /\ Len(f[k]) \in Nat
        /\ Len(g[k]) = Len(f[k]) + 1
        /\ \A l \in K : l # k => g[l] = f[l]
    BY DEF EqualBut
  <1>2. x \notin Places(K, f)
    <2>1. Len(f[k]) + 1 \notin 1..Len(f[k])
      BY <1>1
    <2>2. ASSUME NEW l \in K, NEW i \in 1..Len(f[l]) PROVE x # <<l, i>>
      BY <2>1
    <2>3. ~IsPlace(K, f, x)
      BY <2>2, Zenon DEF IsPlace
    <2> QED BY <2>3, InPlaces
  <1>3. Places(K, g) = Places(K, f) \cup {x}
    <2>1. ASSUME NEW y PROVE y \in Places(K, g) <=> y \in Places(K, f) \cup {x}
      <3>1. y \in Places(K, g) <=> IsPlace(K, g, y)
        BY InPlaces
      <3>2. y \in Places(K, f) <=> IsPlace(K, f, y)
        BY InPlaces
      <3>3. 1..Len(g[k]) = 1..Len(f[k]) \cup {Len(f[k]) + 1}
        BY <1>1
      <3>4. \A l \in K : l # k => 1..Len(g[l]) = 1..Len(f[l])
        BY <1>1
      <3>5. IsPlace(K, g, y) <=> IsPlace(K, f, y) \/ y = x
        BY <3>3, <3>4, Zenon DEF IsPlace
      <3> QED BY <3>1, <3>2, <3>5
    <2> HIDE DEF x
    <2> QED BY <2>1
  <1> HIDE DEF x
  <1> QED BY <1>2, <1>3, PlacesFinite, FS_AddElement

LEMMA ShallowerByOne ==
    ASSUME NEW K, IsFiniteSet(K), NEW f \in [K -> Seq(Event)], NEW k \in K, f[k] # << >>,
           NEW g \in [K -> Seq(Event)],
           EqualBut(K, f, g, k), g[k] = Tail(f[k])
    PROVE  Cardinality(Places(K, g)) = Cardinality(Places(K, f)) - 1
  <1> DEFINE x == <<k, Len(f[k])>>
  <1>0. Tail(f[k]) \in Seq(Event) /\ Len(Tail(f[k])) = Len(f[k]) - 1 /\ Len(f[k]) \in Nat /\ Len(f[k]) > 0
    BY EmptySeq
  <1>1. /\ Len(g[k]) = Len(f[k]) - 1
        /\ \A l \in K : l # k => g[l] = f[l]
    BY <1>0 DEF EqualBut
  <1>2. x \in Places(K, f)
    <2>1. Len(f[k]) \in 1..Len(f[k])
      BY <1>0
    <2>2. IsPlace(K, f, x)
      BY <2>1, Zenon DEF IsPlace
    <2> QED BY <2>2, InPlaces
  <1>3. Places(K, g) = Places(K, f) \ {x}
    <2>1. ASSUME NEW y PROVE y \in Places(K, g) <=> y \in Places(K, f) \ {x}
      <3>1. y \in Places(K, g) <=> IsPlace(K, g, y)
        BY InPlaces
      <3>2. y \in Places(K, f) <=> IsPlace(K, f, y)
        BY InPlaces
      <3>3. 1..Len(g[k]) = 1..Len(f[k]) \ {Len(f[k])}
        BY <1>0, <1>1
      <3>4. \A l \in K : l # k => 1..Len(g[l]) = 1..Len(f[l])
        BY <1>1
      <3>5. IsPlace(K, g, y) <=> IsPlace(K, f, y) /\ y # x
        <4>1. ASSUME NEW l \in K, NEW i PROVE i \in 1..Len(g[l]) <=> i \in 1..Len(f[l]) /\ <<l, i>> # x
          <5>1. CASE l = k
            BY <3>3, <5>1
          <5>2. CASE l # k
            BY <3>4, <5>2
          <5> QED BY <5>1, <5>2
        <4> QED BY <4>1, Zenon DEF IsPlace
      <3> QED BY <3>1, <3>2, <3>5
    <2> HIDE DEF x
    <2> QED BY <2>1
  <1> HIDE DEF x
  <1> QED BY <1>2, <1>3, PlacesFinite, FS_RemoveElement

LEMMA SameDepth == ASSUME UNCHANGED lane, Keys' = Keys PROVE LaneDepth' = LaneDepth
  BY DEF LaneDepth, Buffered

LEMMA RouteStep ==
    ASSUME TypeOK, Route, TypeOK'
    PROVE  \E k \in Keys, e \in Event :
              /\ KeyOf(e.conn) = k /\ e = upstream[1]
              /\ lane'[k] = Append(lane[k], e) /\ EqualBut(Keys, lane, lane', k)
              /\ LaneDepth' = LaneDepth + 1
              /\ upstream # << >> /\ upstream' = Tail(upstream)
  <1>t. /\ upstream \in Seq(Event) /\ lane \in [Keys -> Seq(Event)] /\ IsFiniteSet(Keys)
    BY KeysFinite DEF TypeOK
  <1>m. Keys' = Keys
    BY ModeFixed DEF Next, Dispatcher
  <1> DEFINE e == Head(upstream)
             k == laneKey(e)
  <1>1. e \in Event /\ e = upstream[1] /\ upstream # << >>
    BY <1>t DEF Route
  <1>2. k \in Keys /\ KeyOf(e.conn) = k
    BY <1>1, EventType
  <1>3. lane' = [lane EXCEPT ![k] = Append(lane[k], e)] /\ upstream' = Tail(upstream)
    BY DEF Route
  <1> HIDE DEF e, k
  <1>4. lane' \in [Keys -> Seq(Event)]
    BY <1>m DEF TypeOK
  <1>5. lane'[k] = Append(lane[k], e) /\ EqualBut(Keys, lane, lane', k)
    BY <1>t, <1>2, <1>3 DEF EqualBut
  <1>6. Cardinality(Places(Keys, lane')) = Cardinality(Places(Keys, lane)) + 1
    BY <1>t, <1>1, <1>2, <1>4, <1>5, DeeperByOne
  <1>7. LaneDepth = Cardinality(Places(Keys, lane)) /\ LaneDepth' = Cardinality(Places(Keys, lane'))
    BY <1>m DEF LaneDepth, Buffered, Places
  <1> QED BY <1>1, <1>2, <1>3, <1>5, <1>6, <1>7

LEMMA TakeStep ==
    ASSUME TypeOK, TypeOK', Keys' = Keys, NEW k \in Keys, Takes(k)
    PROVE  /\ LaneDepth' = LaneDepth - 1
           /\ lane'[k] = Tail(lane[k]) /\ EqualBut(Keys, lane, lane', k)
           /\ Len(lane[k]) \in Nat /\ Len(lane[k]) > 0 /\ Head(lane[k]) = lane[k][1]
           /\ lane[k][1] \in Event
  <1>t. /\ lane \in [Keys -> Seq(Event)] /\ IsFiniteSet(Keys)
    BY KeysFinite DEF TypeOK
  <1>1. lane' = [lane EXCEPT ![k] = Tail(lane[k])] /\ lane[k] # << >>
    BY DEF Takes
  <1>4. lane' \in [Keys -> Seq(Event)]
    BY DEF TypeOK
  <1>5. lane'[k] = Tail(lane[k]) /\ EqualBut(Keys, lane, lane', k)
    BY <1>t, <1>1 DEF EqualBut
  <1>6. Cardinality(Places(Keys, lane')) = Cardinality(Places(Keys, lane)) - 1
    BY <1>t, <1>1, <1>4, <1>5, ShallowerByOne
  <1>7. LaneDepth = Cardinality(Places(Keys, lane)) /\ LaneDepth' = Cardinality(Places(Keys, lane'))
    BY DEF LaneDepth, Buffered, Places
  <1>8. /\ Len(lane[k]) \in Nat /\ Len(lane[k]) > 0 /\ Head(lane[k]) = lane[k][1]
        /\ lane[k][1] \in Event
    BY <1>t, <1>1, EmptySeq
  <1> QED BY <1>5, <1>6, <1>7, <1>8

\* The dispatcher checks the depth before every event it routes, and nobody
\* else makes the lanes deeper.
LEMMA RoomNext ==
    ASSUME TypeOK, TypeOK', LanesBounded, RoomToRoute, Next
    PROVE  LanesBounded' /\ RoomToRoute'
  <1>t. LaneDepth \in Nat /\ mode.lanes \in Nat
    BY BufferedFinite, ModeType
  <1>m. mode' = mode /\ Keys' = Keys
    BY ModeFixed
  <1>1. CASE Route
    <2>1. LaneDepth' = LaneDepth + 1
      BY <1>1, RouteStep
    <2>2. disp = "dequeue" /\ disp' = "check"
      BY <1>1 DEF Route
    <2> QED BY <1>t, <1>m, <2>1, <2>2 DEF LanesBounded, RoomToRoute
  <1>2. CASE \E k \in Keys : Worker(k)
    <2>1. PICK k \in Keys : /\ Keeps(k) \/ Takes(k) \/ Deals(k) \/ Stops(k)
                            /\ UNCHANGED disp
      BY <1>2, WorkerOutcomes
    <2>2. LaneDepth' \in {LaneDepth, LaneDepth - 1}
      BY <1>m, <2>1, TakeStep, SameDepth DEF Keeps, Deals, Stops
    <2> QED BY <1>t, <1>m, <2>1, <2>2 DEF LanesBounded, RoomToRoute
  <1>3. CASE PassBackpressure
    <2>1. LaneDepth' = LaneDepth
      BY <1>m, <1>3, SameDepth DEF PassBackpressure
    <2>2. LaneDepth < mode.lanes
      BY <1>t, <1>3 DEF PassBackpressure, Backpressure
    <2> QED BY <1>m, <2>1, <2>2 DEF LanesBounded, RoomToRoute
  <1>4. CASE UNCHANGED lane /\ (UNCHANGED disp \/ disp' # "dequeue")
    <2>1. LaneDepth' = LaneDepth
      BY <1>m, <1>4, SameDepth
    <2> QED BY <1>m, <1>4, <2>1 DEF LanesBounded, RoomToRoute
  <1> QED BY <1>1, <1>2, <1>3, <1>4
          DEF Next, Dispatcher, dispatcher, Arrive, ConnDies, CloseQueue, Cancel,
              DispatchEnds, CloseLanes, RunReturns

LEMMA CountedNext ==
    ASSUME TypeOK, TypeOK', Counted, Next
    PROVE  Counted'
  <1> SUFFICES ASSUME ~ctxDone'
               PROVE  Len(done') + Cardinality(BusyKeys') + LaneDepth' + Len(upstream') = Len(arrived')
    BY DEF Counted
  <1>t. /\ upstream \in Seq(Event) /\ arrived \in Seq(Event) /\ done \in Seq(Event)
        /\ w \in [Keys -> {"idle", "sem", "acquire", "exec", "reset", "retired"}]
        /\ ev \in [Keys -> Event \cup {None}]
        /\ LaneDepth \in Nat /\ IsFiniteSet(BusyKeys) /\ Cardinality(BusyKeys) \in Nat
        /\ Len(done) \in Nat /\ Len(upstream) \in Nat /\ Len(arrived) \in Nat
    BY BufferedFinite, KeysFinite, FS_Subset, FS_CardinalityType DEF TypeOK, BusyKeys
  <1>m. Keys' = Keys
    BY ModeFixed
  <1>n. /\ Len(done) \in Nat /\ Cardinality(BusyKeys) \in Nat /\ LaneDepth \in Nat
        /\ Len(upstream) \in Nat /\ Len(arrived) \in Nat
    BY <1>t
  <1>c. ASSUME ~ctxDone
        PROVE  Len(done) + Cardinality(BusyKeys) + LaneDepth + Len(upstream) = Len(arrived)
    BY <1>c DEF Counted
  <1>1. CASE \E c \in Conns : Arrive(c)
    <2>1. LaneDepth' = LaneDepth /\ BusyKeys' = BusyKeys /\ done' = done /\ ctxDone' = ctxDone
      BY <1>m, <1>1, SameDepth DEF Arrive, BusyKeys, worker
    <2>2. PICK e \in Event : upstream' = Append(upstream, e) /\ arrived' = Append(arrived, e)
      BY <1>1 DEF Arrive, Event
    <2>4. Len(upstream') = Len(upstream) + 1 /\ Len(arrived') = Len(arrived) + 1
      BY <1>t, <2>2
    <2>5. \A a, b, c, d, n \in Nat : a + b + c + d = n => a + b + c + (d + 1) = n + 1
      OBVIOUS
    <2>6. Len(done) + Cardinality(BusyKeys) + LaneDepth + Len(upstream) = Len(arrived)
      BY <1>c, <2>1
    <2>7. Len(done) + Cardinality(BusyKeys) + LaneDepth + (Len(upstream) + 1) = Len(arrived) + 1
      BY <1>n, <2>5, <2>6
    <2> QED BY <2>1, <2>4, <2>7
  <1>2. CASE Route
    <2>1. LaneDepth' = LaneDepth + 1 /\ upstream # << >> /\ upstream' = Tail(upstream)
      BY <1>2, RouteStep
    <2>2. Len(upstream') = Len(upstream) - 1
      BY <1>t, <2>1
    <2>3. BusyKeys' = BusyKeys /\ UNCHANGED <<done, arrived, ctxDone>>
      BY <1>m, <1>2 DEF Route, BusyKeys, worker
    <2> QED BY <1>t, <1>c, <2>1, <2>2, <2>3
  <1>3. CASE \E k \in Keys : Worker(k)
    <2>1. PICK k \in Keys : /\ Keeps(k) \/ Takes(k) \/ Deals(k) \/ Stops(k)
                            /\ UNCHANGED <<upstream, arrived>>
      BY <1>3, WorkerOutcomes
    <2>2. CASE Keeps(k)
      <3>1. BusyKeys' = BusyKeys
        BY <1>t, <1>m, <2>2 DEF Keeps, BusyKeys, Busy, InExec
      <3>2. LaneDepth' = LaneDepth /\ UNCHANGED <<done, ctxDone>>
        BY <1>m, <2>2, SameDepth DEF Keeps
      <3> QED BY <1>c, <2>1, <3>1, <3>2
    <2>3. CASE Takes(k)
      <3>1. BusyKeys' = BusyKeys \cup {k} /\ k \notin BusyKeys
        BY <1>t, <1>m, <2>3 DEF Takes, BusyKeys, Busy
      <3>2. Cardinality(BusyKeys') = Cardinality(BusyKeys) + 1
        BY <1>t, <3>1, FS_AddElement
      <3>3. LaneDepth' = LaneDepth - 1
        BY <1>m, <2>3, TakeStep
      <3>4. UNCHANGED <<done, ctxDone>>
        BY <2>3 DEF Takes
      <3> QED BY <1>t, <1>c, <2>1, <3>2, <3>3, <3>4
    <2>4. CASE Deals(k)
      <3>1. BusyKeys' = BusyKeys \ {k} /\ k \in BusyKeys
        BY <1>t, <1>m, <2>4 DEF Deals, BusyKeys, Busy, InExec
      <3>2. Cardinality(BusyKeys') = Cardinality(BusyKeys) - 1
        BY <1>t, <3>1, FS_RemoveElement
      <3>3. LaneDepth' = LaneDepth
        BY <1>m, <2>4, SameDepth DEF Deals
      <3>4. done' = Append(done, ev[k]) /\ ~ctxDone
        BY <2>4 DEF Deals
      <3>5. done' \in Seq(Event)
        BY DEF TypeOK
      <3>6. Len(done') = Len(done) + 1
        BY <1>t, <3>4
      <3> QED BY <1>t, <1>c, <2>1, <3>2, <3>3, <3>4, <3>6
    <2>5. CASE Stops(k)
      <3>1. ~ctxDone /\ w[k] = "idle" /\ UNCHANGED done
        BY <2>5 DEF Stops
      <3>2. BusyKeys' = BusyKeys
        BY <1>t, <1>m, <2>5, <3>1 DEF Stops, Retire, BusyKeys, Busy
      <3>3. LaneDepth' = LaneDepth
        BY <1>m, <2>5, SameDepth DEF Stops
      <3> QED BY <1>c, <2>1, <3>1, <3>2, <3>3
    <2> QED BY <2>1, <2>2, <2>3, <2>4, <2>5
  <1>4. CASE UNCHANGED <<lane, w, upstream, arrived, done>> /\ (UNCHANGED ctxDone \/ ctxDone')
    <2>1. LaneDepth' = LaneDepth /\ BusyKeys' = BusyKeys /\ ~ctxDone
      BY <1>m, <1>4, SameDepth DEF BusyKeys
    <2> QED BY <1>c, <1>4, <2>1
  <1> QED BY <1>1, <1>2, <1>3, <1>4
          DEF Next, Dispatcher, dispatcher, worker, ConnDies, CloseQueue, Cancel,
              PassBackpressure, DispatchEnds, CloseLanes, RunReturns

----------------------------------------------------------------------------
\* Order.  e may follow all of s; it precedes all of s; s is in order; all of s
\* precedes all of t.
After(e, s) == \A i \in 1..Len(s) : s[i].conn = e.conn => s[i].seq < e.seq
Ahead(e, s) == \A i \in 1..Len(s) : s[i].conn = e.conn => e.seq < s[i].seq
Ordered(s) == \A i, j \in 1..Len(s) : i < j /\ s[i].conn = s[j].conn => s[i].seq < s[j].seq
Before(s, t) ==
    \A i \in 1..Len(s), j \in 1..Len(t) : s[i].conn = t[j].conn => s[i].seq < t[j].seq

\* e is one of s; every event that is under way or dealt with was captured.
Occurs(e, s) == \E i \in 1..Len(s) : s[i] = e
FromCapture ==
    /\ \A i \in 1..Len(upstream) : Occurs(upstream[i], arrived)
    /\ \A i \in 1..Len(done) : Occurs(done[i], arrived)
    /\ \A k \in Keys : \A i \in 1..Len(lane[k]) : Occurs(lane[k][i], arrived)
    /\ \A k \in Keys : w[k] \in Busy => Occurs(ev[k], arrived)

\* What is dealt with precedes what a worker holds, which precedes what is in
\* its lane, which precedes what is upstream.
InOrder ==
    /\ Ordered(done) /\ Ordered(upstream) /\ Before(done, upstream)
    /\ \A k \in Keys : Ordered(lane[k]) /\ Before(done, lane[k]) /\ Before(lane[k], upstream)
    /\ \A k \in Keys : w[k] \in Busy => /\ After(ev[k], done)
                                        /\ Ahead(ev[k], lane[k]) /\ Ahead(ev[k], upstream)

LEMMA AppendOrder ==
    ASSUME NEW s \in Seq(Event), NEW e \in Event
    PROVE  LET s2 == Append(s, e)
           IN  /\ Ordered(s) /\ After(e, s) => Ordered(s2)
               /\ \A t \in Seq(Event) : Before(t, s) /\ After(e, t) => Before(t, s2)
               /\ \A t \in Seq(Event) : Before(s, t) /\ Ahead(e, t) => Before(s2, t)
               /\ \A d \in Event : Ahead(d, s) /\ (d.conn = e.conn => d.seq < e.seq) => Ahead(d, s2)
               /\ \A d \in Event : After(d, s) /\ (d.conn = e.conn => e.seq < d.seq) => After(d, s2)
  <1> DEFINE s2 == Append(s, e)
  <1>1. /\ Len(s2) = Len(s) + 1 /\ s2[Len(s) + 1] = e /\ Len(s) \in Nat
        /\ \A i \in 1..Len(s) : s2[i] = s[i]
    OBVIOUS
  <1>2. \A i \in 1..Len(s2) : i = Len(s) + 1 \/ i \in 1..Len(s)
    BY <1>1
  <1> HIDE DEF s2
  <1>3. ASSUME Ordered(s), After(e, s) PROVE Ordered(s2)
    BY <1>1, <1>2, <1>3 DEF Ordered, After
  <1>4. ASSUME NEW t \in Seq(Event), Before(t, s), After(e, t) PROVE Before(t, s2)
    BY <1>1, <1>2, <1>4 DEF Before, After
  <1>5. ASSUME NEW t \in Seq(Event), Before(s, t), Ahead(e, t) PROVE Before(s2, t)
    BY <1>1, <1>2, <1>5 DEF Before, Ahead
  <1>6. ASSUME NEW d \in Event, Ahead(d, s), d.conn = e.conn => d.seq < e.seq PROVE Ahead(d, s2)
    BY <1>1, <1>2, <1>6 DEF Ahead
  <1>7. ASSUME NEW d \in Event, After(d, s), d.conn = e.conn => e.seq < d.seq PROVE After(d, s2)
    BY <1>1, <1>2, <1>7 DEF After
  <1> QED BY <1>3, <1>4, <1>5, <1>6, <1>7 DEF s2

LEMMA TailOrder ==
    ASSUME NEW s \in Seq(Event), s # << >>
    PROVE  /\ Ordered(s) => Ordered(Tail(s)) /\ Ahead(s[1], Tail(s))
           /\ \A t : Before(t, s) => Before(t, Tail(s)) /\ After(s[1], t)
           /\ \A t : Before(s, t) => Before(Tail(s), t) /\ Ahead(s[1], t)
           /\ \A d : Ahead(d, s) => Ahead(d, Tail(s)) /\ (s[1].conn = d.conn => d.seq < s[1].seq)
  <1> DEFINE u == Tail(s)
  <1>1. Len(s) \in Nat /\ Len(s) > 0 /\ Len(u) = Len(s) - 1
    BY EmptySeq
  <1>2. \A i \in 1..Len(u) : u[i] = s[i + 1] /\ i + 1 \in 1..Len(s) /\ i + 1 > 1 /\ i \in Int
    BY <1>1
  <1>3. 1 \in 1..Len(s)
    BY <1>1
  <1> HIDE DEF u
  <1>4. ASSUME Ordered(s) PROVE Ordered(u) /\ Ahead(s[1], u)
    <2>1. \A i, j \in 1..Len(u) : i < j => i + 1 < j + 1
      BY <1>2
    <2>2. Ordered(u)
      BY <1>2, <1>4, <2>1 DEF Ordered
    <2>3. Ahead(s[1], u)
      BY <1>2, <1>3, <1>4 DEF Ordered, Ahead
    <2> QED BY <2>2, <2>3
  <1>5. ASSUME NEW t, Before(t, s) PROVE Before(t, u) /\ After(s[1], t)
    BY <1>2, <1>3, <1>5 DEF Before, After
  <1>6. ASSUME NEW t, Before(s, t) PROVE Before(u, t) /\ Ahead(s[1], t)
    BY <1>2, <1>3, <1>6 DEF Before, Ahead
  <1>7. ASSUME NEW d, Ahead(d, s) PROVE Ahead(d, u) /\ (s[1].conn = d.conn => d.seq < s[1].seq)
    BY <1>2, <1>3, <1>7 DEF Ahead
  <1> QED BY <1>4, <1>5, <1>6, <1>7 DEF u

LEMMA ArriveStep ==
    ASSUME TypeOK, NEW c \in Conns, Arrive(c)
    PROVE  \E e \in Event : /\ After(e, arrived)
                            /\ upstream' = Append(upstream, e) /\ arrived' = Append(arrived, e)
                            /\ UNCHANGED <<lane, w, ev, done, mode, ctxDone>>
  <1>1. PICK n \in 1..MaxSeq :
            /\ \A i \in DOMAIN arrived : arrived[i].conn = c => arrived[i].seq < n
            /\ upstream' = Append(upstream, [conn |-> c, seq |-> n])
            /\ arrived' = Append(arrived, [conn |-> c, seq |-> n])
    BY DEF Arrive
  <1> DEFINE e == [conn |-> c, seq |-> n]
  <1>2. e \in Event /\ e.conn = c /\ e.seq = n
    BY DEF Event
  <1>3. DOMAIN arrived = 1..Len(arrived)
    BY DEF TypeOK
  <1>4. After(e, arrived)
    BY <1>1, <1>2, <1>3 DEF After
  <1>5. UNCHANGED <<lane, w, ev, done, mode, ctxDone>>
    BY DEF Arrive, worker
  <1> QED BY <1>1, <1>2, <1>4, <1>5

LEMMA FromCaptureNext ==
    ASSUME TypeOK, TypeOK', FromCapture, Next
    PROVE  FromCapture'
  <1>t. /\ upstream \in Seq(Event) /\ lane \in [Keys -> Seq(Event)]
        /\ arrived \in Seq(Event) /\ done \in Seq(Event)
        /\ w \in [Keys -> {"idle", "sem", "acquire", "exec", "reset", "retired"}]
        /\ ev \in [Keys -> Event \cup {None}]
    BY DEF TypeOK
  <1>m. Keys' = Keys
    BY ModeFixed
  <1>1. CASE \E c \in Conns : Arrive(c)
    <2>1. PICK e \in Event : /\ upstream' = Append(upstream, e) /\ arrived' = Append(arrived, e)
                             /\ UNCHANGED <<lane, w, ev, done>>
      BY <1>1, ArriveStep
    <2>2. /\ Len(arrived') = Len(arrived) + 1 /\ Len(arrived) \in Nat
          /\ arrived'[Len(arrived) + 1] = e /\ \A i \in 1..Len(arrived) : arrived'[i] = arrived[i]
      BY <1>t, <2>1
    <2>3. \A x : Occurs(x, arrived) => Occurs(x, arrived')
      <3>1. \A i \in 1..Len(arrived) : i \in 1..Len(arrived')
        BY <2>2
      <3> QED BY <2>2, <3>1 DEF Occurs
    <2>4. Occurs(e, arrived')
      <3>1. Len(arrived) + 1 \in 1..Len(arrived')
        BY <2>2
      <3> QED BY <2>2, <3>1 DEF Occurs
    <2>5. \A i \in 1..Len(upstream') : upstream'[i] = e \/ (i \in 1..Len(upstream) /\ upstream'[i] = upstream[i])
      BY <1>t, <2>1
    <2>6. \A i \in 1..Len(upstream') : Occurs(upstream'[i], arrived')
      BY <2>3, <2>4, <2>5 DEF FromCapture
    <2>7. /\ \A i \in 1..Len(done) : Occurs(done[i], arrived')
          /\ \A k \in Keys : \A i \in 1..Len(lane[k]) : Occurs(lane[k][i], arrived')
          /\ \A k \in Keys : w[k] \in Busy => Occurs(ev[k], arrived')
      BY <2>3 DEF FromCapture
    <2> QED BY <1>m, <2>1, <2>6, <2>7 DEF FromCapture
  <1>2. CASE Route
    <2>0. UNCHANGED <<arrived, done, w, ev>>
      BY <1>2 DEF Route, worker
    <2>1. PICK k \in Keys, e \in Event :
              /\ e = upstream[1] /\ upstream # << >> /\ upstream' = Tail(upstream)
              /\ lane'[k] = Append(lane[k], e) /\ EqualBut(Keys, lane, lane', k)
      BY <1>2, RouteStep
    <2>2. /\ 1 \in 1..Len(upstream)
          /\ \A i \in 1..Len(upstream') : i + 1 \in 1..Len(upstream) /\ upstream'[i] = upstream[i + 1]
      BY <1>t, <2>1
    <2>3. \A i \in 1..Len(lane'[k]) : lane'[k][i] = e \/ (i \in 1..Len(lane[k]) /\ lane'[k][i] = lane[k][i])
      BY <1>t, <2>1
    <2>4. \A i \in 1..Len(upstream') : Occurs(upstream'[i], arrived)
      BY <2>2 DEF FromCapture
    <2>5. \A l \in Keys : \A i \in 1..Len(lane'[l]) : Occurs(lane'[l][i], arrived)
      BY <2>1, <2>2, <2>3 DEF FromCapture, EqualBut
    <2> QED BY <1>m, <2>0, <2>4, <2>5 DEF FromCapture
  <1>3. CASE \E k \in Keys : Worker(k)
    <2>1. PICK k \in Keys : /\ Keeps(k) \/ Takes(k) \/ Deals(k) \/ Stops(k)
                            /\ UNCHANGED <<upstream, arrived>>
      BY <1>3, WorkerOutcomes
    <2>o. \A l \in Keys : l # k => w'[l] = w[l] /\ ev'[l] = ev[l] /\ lane'[l] = lane[l]
      BY <1>t, <2>1 DEF Keeps, Takes, Deals, Stops, Retire
    <2>2. CASE Keeps(k)
      BY <1>t, <1>m, <2>1, <2>2 DEF Keeps, FromCapture, Busy, InExec
    <2>3. CASE Takes(k)
      <3>1. /\ lane'[k] = Tail(lane[k]) /\ Len(lane[k]) \in Nat /\ Len(lane[k]) > 0
            /\ Head(lane[k]) = lane[k][1] /\ lane[k] # << >>
        BY <1>m, <2>3, TakeStep DEF Takes
      <3>2. /\ 1 \in 1..Len(lane[k])
            /\ \A i \in 1..Len(lane'[k]) : i + 1 \in 1..Len(lane[k]) /\ lane'[k][i] = lane[k][i + 1]
        BY <1>t, <3>1
      <3>3. ev'[k] = lane[k][1] /\ done' = done
        BY <1>t, <2>3, <3>1 DEF Takes
      <3>4. Occurs(ev'[k], arrived) /\ \A i \in 1..Len(lane'[k]) : Occurs(lane'[k][i], arrived)
        BY <3>2, <3>3 DEF FromCapture
      <3> QED BY <1>m, <2>o, <2>1, <3>3, <3>4 DEF FromCapture
    <2>4. CASE Deals(k)
      <3>1. Occurs(ev[k], arrived) /\ w'[k] = "idle" /\ ev[k] \in Event \cup {None} /\ lane' = lane
        BY <1>t, <2>4 DEF Deals, FromCapture, Busy, InExec
      <3>2. ev[k] \in Event
        BY <1>t, <3>1 DEF Occurs
      <3>3. \A i \in 1..Len(done') : done'[i] = ev[k] \/ (i \in 1..Len(done) /\ done'[i] = done[i])
        BY <1>t, <2>4, <3>2 DEF Deals
      <3>4. \A i \in 1..Len(done') : Occurs(done'[i], arrived)
        BY <3>1, <3>3 DEF FromCapture
      <3> QED BY <1>m, <2>o, <2>1, <3>1, <3>4 DEF FromCapture, Busy
    <2>5. CASE Stops(k)
      BY <1>t, <1>m, <2>1, <2>5 DEF Stops, Retire, FromCapture, Busy
    <2> QED BY <2>1, <2>2, <2>3, <2>4, <2>5
  <1>4. CASE UNCHANGED <<upstream, lane, w, ev, arrived, done>>
    BY <1>m, <1>4 DEF FromCapture
  <1> QED BY <1>1, <1>2, <1>3, <1>4
          DEF Next, Dispatcher, dispatcher, worker, ConnDies, CloseQueue, Cancel,
              PassBackpressure, DispatchEnds, CloseLanes, RunReturns

LEMMA OccursAfter ==
    ASSUME NEW e \in Event, NEW s \in Seq(Event), After(e, s)
    PROVE  /\ \A t : (\A i \in 1..Len(t) : Occurs(t[i], s)) => After(e, t)
           /\ \A d : Occurs(d, s) => (d.conn = e.conn => d.seq < e.seq)
  BY DEF After, Occurs

LEMMA InOrderNext ==
    ASSUME TypeOK, TypeOK', OwnEvents, FromCapture, InOrder, Next
    PROVE  InOrder'
  <1>t. /\ upstream \in Seq(Event) /\ lane \in [Keys -> Seq(Event)]
        /\ arrived \in Seq(Event) /\ done \in Seq(Event)
        /\ w \in [Keys -> {"idle", "sem", "acquire", "exec", "reset", "retired"}]
        /\ ev \in [Keys -> Event \cup {None}]
        /\ \A k \in Keys : lane[k] \in Seq(Event)
    BY DEF TypeOK
  <1>b. \A k \in Keys : w[k] \in Busy => ev[k] \in Event
    BY DEF OwnEvents
  <1>m. Keys' = Keys
    BY ModeFixed
  <1>1. CASE \E c \in Conns : Arrive(c)
    <2>1. PICK e \in Event : /\ After(e, arrived) /\ upstream' = Append(upstream, e)
                             /\ UNCHANGED <<lane, w, ev, done>>
      BY <1>1, ArriveStep
    <2>2. After(e, upstream) /\ After(e, done) /\ \A k \in Keys : After(e, lane[k])
      BY <1>t, <2>1, OccursAfter DEF FromCapture
    <2>3. \A k \in Keys : w[k] \in Busy => (ev[k].conn = e.conn => ev[k].seq < e.seq)
      BY <1>t, <2>1, OccursAfter DEF FromCapture
    <2>4. Ordered(upstream') /\ Before(done, upstream')
      BY <1>t, <2>1, <2>2, AppendOrder DEF InOrder
    <2>5. \A k \in Keys : Before(lane[k], upstream')
      BY <1>t, <2>1, <2>2, AppendOrder DEF InOrder
    <2>6. \A k \in Keys : w[k] \in Busy => Ahead(ev[k], upstream')
      BY <1>t, <1>b, <2>1, <2>3, AppendOrder DEF InOrder
    <2> QED BY <1>m, <2>1, <2>4, <2>5, <2>6 DEF InOrder
  <1>2. CASE Route
    <2>0. UNCHANGED <<done, w, ev>>
      BY <1>2 DEF Route, worker
    <2>1. PICK k \in Keys, e \in Event :
              /\ e = upstream[1] /\ upstream # << >> /\ upstream' = Tail(upstream)
              /\ lane'[k] = Append(lane[k], e) /\ EqualBut(Keys, lane, lane', k)
      BY <1>2, RouteStep
    <2>a. After(e, done) /\ After(e, lane[k]) /\ Ahead(e, upstream')
      BY <1>t, <2>1, TailOrder DEF InOrder
    <2>2. Ordered(upstream') /\ Before(done, upstream')
      BY <1>t, <2>1, TailOrder DEF InOrder
    <2>3. \A l \in Keys : Before(lane[l], upstream')
      BY <1>t, <2>1, TailOrder DEF InOrder
    <2>4. \A l \in Keys : w[l] \in Busy => Ahead(ev[l], upstream') /\ (e.conn = ev[l].conn => ev[l].seq < e.seq)
      BY <1>t, <2>1, TailOrder DEF InOrder
    <2>5. Ordered(lane'[k]) /\ Before(done, lane'[k])
      BY <1>t, <2>1, <2>a, AppendOrder DEF InOrder
    <2>6. upstream' \in Seq(Event)
      BY DEF TypeOK
    <2>7. Before(lane'[k], upstream')
      BY <1>t, <2>1, <2>3, <2>6, <2>a, AppendOrder
    <2>8. w[k] \in Busy => Ahead(ev[k], lane'[k])
      BY <1>t, <1>b, <2>1, <2>4, AppendOrder DEF InOrder
    <2>9. \A l \in Keys : l # k => lane'[l] = lane[l]
      BY <2>1 DEF EqualBut
    <2>10. \A l \in Keys : Ordered(lane'[l]) /\ Before(done, lane'[l]) /\ Before(lane'[l], upstream')
      BY <2>3, <2>5, <2>7, <2>9 DEF InOrder
    <2>11. \A l \in Keys : w[l] \in Busy => After(ev[l], done) /\ Ahead(ev[l], lane'[l]) /\ Ahead(ev[l], upstream')
      BY <2>4, <2>8, <2>9 DEF InOrder
    <2> QED BY <1>m, <2>0, <2>2, <2>10, <2>11 DEF InOrder
  <1>3. CASE \E k \in Keys : Worker(k)
    <2>1. PICK k \in Keys : /\ Keeps(k) \/ Takes(k) \/ Deals(k) \/ Stops(k)
                            /\ UNCHANGED upstream
      BY <1>3, WorkerOutcomes
    <2>o. \A l \in Keys : l # k => w'[l] = w[l] /\ ev'[l] = ev[l] /\ lane'[l] = lane[l]
      BY <1>t, <2>1 DEF Keeps, Takes, Deals, Stops, Retire
    <2>2. CASE Keeps(k)
      <3>1. \A l \in Keys : w'[l] \in Busy => w[l] \in Busy
        BY <1>t, <2>2 DEF Keeps, Busy, InExec
      <3> QED BY <1>m, <2>1, <2>2, <3>1 DEF Keeps, InOrder
    <2>3. CASE Takes(k)
      <3>1. /\ lane'[k] = Tail(lane[k]) /\ lane[k] # << >> /\ Head(lane[k]) = lane[k][1]
        BY <1>m, <2>3, TakeStep DEF Takes
      <3>2. ev'[k] = lane[k][1] /\ done' = done
        BY <1>t, <2>3, <3>1 DEF Takes
      <3>3. Ordered(lane'[k]) /\ Before(done, lane'[k]) /\ Before(lane'[k], upstream)
        BY <1>t, <3>1, TailOrder DEF InOrder
      <3>4. After(ev'[k], done) /\ Ahead(ev'[k], lane'[k]) /\ Ahead(ev'[k], upstream)
        BY <1>t, <3>1, <3>2, TailOrder DEF InOrder
      <3>5. \A l \in Keys : /\ Ordered(lane'[l]) /\ Before(done, lane'[l]) /\ Before(lane'[l], upstream)
                            /\ w'[l] \in Busy => /\ After(ev'[l], done) /\ Ahead(ev'[l], lane'[l])
                                                 /\ Ahead(ev'[l], upstream)
        BY <2>o, <3>3, <3>4 DEF InOrder
      <3> QED BY <1>m, <2>1, <3>2, <3>5 DEF InOrder
    <2>4. CASE Deals(k)
      <3>1. /\ w[k] \in Busy /\ ev[k] \in Event /\ lane' = lane /\ w'[k] \notin Busy
            /\ done' = Append(done, ev[k])
        BY <1>t, <1>b, <2>4 DEF Deals, Busy, InExec
      <3>2. Ordered(done') /\ Before(done', upstream)
        BY <1>t, <3>1, AppendOrder DEF InOrder
      <3>3. \A l \in Keys : Ahead(ev[k], lane[l])
        <4>1. ASSUME NEW l \in Keys, l # k PROVE Ahead(ev[k], lane[l])
          <5>1. \A i \in 1..Len(lane[l]) : lane[l][i].conn # ev[k].conn
            BY <1>t, <3>1, <4>1 DEF OwnEvents
          <5> QED BY <5>1 DEF Ahead
        <4> QED BY <3>1, <4>1 DEF InOrder
      <3>4. \A l \in Keys : Before(done', lane[l])
        BY <1>t, <3>1, <3>3, AppendOrder DEF InOrder
      <3>5. \A l \in Keys : l # k /\ w[l] \in Busy => After(ev[l], done')
        BY <1>t, <1>b, <3>1, AppendOrder, WorkersApart DEF InOrder
      <3>6. \A l \in Keys : w'[l] \in Busy => /\ After(ev'[l], done') /\ Ahead(ev'[l], lane[l])
                                               /\ Ahead(ev'[l], upstream)
        BY <2>o, <3>1, <3>5 DEF InOrder
      <3>7. \A l \in Keys : Ordered(lane[l]) /\ Before(done', lane[l]) /\ Before(lane[l], upstream)
        BY <3>4 DEF InOrder
      <3>8. Ordered(upstream)
        BY DEF InOrder
      <3> QED BY <1>m, <2>1, <3>1, <3>2, <3>6, <3>7, <3>8 DEF InOrder
    <2>5. CASE Stops(k)
      <3>1. w'[k] \notin Busy /\ UNCHANGED <<lane, done>>
        BY <1>t, <2>5 DEF Stops, Retire, Busy
      <3> QED BY <1>m, <2>o, <2>1, <3>1 DEF InOrder
    <2> QED BY <2>1, <2>2, <2>3, <2>4, <2>5
  <1>4. CASE UNCHANGED <<upstream, lane, w, ev, done>>
    BY <1>m, <1>4 DEF InOrder
  <1> QED BY <1>1, <1>2, <1>3, <1>4
          DEF Next, Dispatcher, dispatcher, worker, ConnDies, CloseQueue, Cancel,
              PassBackpressure, DispatchEnds, CloseLanes, RunReturns

----------------------------------------------------------------------------
\* Serial mode: what was captured is what is dealt with, in the worker's hands,
\* in the lane and upstream, one after the other, as long as the lane lives.
InHand == IF w[SerialKey] \in Busy THEN 1 ELSE 0
SerialPlaces ==
    mode.serial =>
        /\ Len(done) <= Len(arrived) /\ \A i \in 1..Len(done) : done[i] = arrived[i]
        /\ w[SerialKey] # "retired" =>
              /\ Len(done) + InHand + Len(lane[SerialKey]) + Len(upstream) = Len(arrived)
              /\ InHand = 1 => ev[SerialKey] = arrived[Len(done) + 1]
              /\ \A i \in 1..Len(lane[SerialKey]) :
                    lane[SerialKey][i] = arrived[Len(done) + InHand + i]
              /\ \A i \in 1..Len(upstream) :
                    upstream[i] = arrived[Len(done) + InHand + Len(lane[SerialKey]) + i]

LEMMA SerialNext ==
    ASSUME TypeOK, TypeOK', OwnEvents, SerialPlaces, Next
    PROVE  SerialPlaces'
  <1> SUFFICES ASSUME mode.serial PROVE SerialPlaces'
    BY ModeFixed DEF SerialPlaces
  <1>m. Keys' = Keys /\ Keys = {SerialKey} /\ mode' = mode
    BY ModeFixed DEF Keys
  <1> DEFINE K == SerialKey
             L == lane[K]
  <1>t. /\ upstream \in Seq(Event) /\ L \in Seq(Event)
        /\ arrived \in Seq(Event) /\ done \in Seq(Event)
        /\ lane \in [Keys -> Seq(Event)] /\ K \in Keys
        /\ w \in [Keys -> {"idle", "sem", "acquire", "exec", "reset", "retired"}]
        /\ ev \in [Keys -> Event \cup {None}]
    BY <1>m DEF TypeOK
  <1>n. /\ Len(upstream) \in Nat /\ Len(L) \in Nat /\ Len(arrived) \in Nat /\ Len(done) \in Nat
        /\ InHand \in {0, 1}
    BY <1>t DEF InHand
  <1>s. /\ Len(done) <= Len(arrived) /\ \A i \in 1..Len(done) : done[i] = arrived[i]
        /\ w[K] # "retired" =>
              /\ Len(done) + InHand + Len(L) + Len(upstream) = Len(arrived)
              /\ InHand = 1 => ev[K] = arrived[Len(done) + 1]
              /\ \A i \in 1..Len(L) : L[i] = arrived[Len(done) + InHand + i]
              /\ \A i \in 1..Len(upstream) : upstream[i] = arrived[Len(done) + InHand + Len(L) + i]
    BY DEF SerialPlaces
  <1>1. CASE \E c \in Conns : Arrive(c)
    <2>1. PICK e \in Event : /\ upstream' = Append(upstream, e) /\ arrived' = Append(arrived, e)
                             /\ UNCHANGED <<lane, w, ev, done>>
      BY <1>1, ArriveStep
    <2>2. InHand' = InHand /\ L' = L
      BY <2>1 DEF InHand
    <2>3. /\ Len(arrived') = Len(arrived) + 1 /\ arrived'[Len(arrived) + 1] = e
          /\ \A i \in 1..Len(arrived) : arrived'[i] = arrived[i]
      BY <1>t, <2>1
    <2>4. /\ Len(upstream') = Len(upstream) + 1 /\ upstream'[Len(upstream) + 1] = e
          /\ \A i \in 1..Len(upstream) : upstream'[i] = upstream[i]
      BY <1>t, <2>1
    <2> HIDE DEF L, K
    <2>5. Len(done) <= Len(arrived') /\ \A i \in 1..Len(done) : done[i] = arrived'[i]
      BY <1>n, <1>s, <2>3
    <2>6. ASSUME w[K] # "retired"
          PROVE  /\ Len(done) + InHand + Len(L) + Len(upstream') = Len(arrived')
                 /\ InHand = 1 => ev[K] = arrived'[Len(done) + 1]
                 /\ \A i \in 1..Len(L) : L[i] = arrived'[Len(done) + InHand + i]
                 /\ \A i \in 1..Len(upstream') : upstream'[i] = arrived'[Len(done) + InHand + Len(L) + i]
      <3>s. Len(done) + InHand + Len(L) + Len(upstream) = Len(arrived)
        BY <1>s, <2>6
      <3>1. Len(done) + InHand + Len(L) + Len(upstream') = Len(arrived')
        BY <1>n, <2>3, <2>4, <3>s
      <3>2. InHand = 1 => Len(done) + 1 \in 1..Len(arrived)
        BY <1>n, <3>s
      <3>3. \A i \in 1..Len(L) : Len(done) + InHand + i \in 1..Len(arrived)
        BY <1>n, <3>s
      <3>4. \A i \in 1..Len(upstream) : Len(done) + InHand + Len(L) + i \in 1..Len(arrived)
        BY <1>n, <3>s
      <3>5. \A i \in 1..Len(upstream') : i \in 1..Len(upstream) \/
               (i = Len(upstream) + 1 /\ Len(done) + InHand + Len(L) + i = Len(arrived) + 1)
        BY <1>n, <2>4, <3>s
      <3>6. InHand = 1 => ev[K] = arrived'[Len(done) + 1]
        BY <1>s, <2>3, <2>6, <3>2
      <3>7. \A i \in 1..Len(L) : L[i] = arrived'[Len(done) + InHand + i]
        BY <1>s, <2>3, <2>6, <3>3
      <3>8. \A i \in 1..Len(upstream') : upstream'[i] = arrived'[Len(done) + InHand + Len(L) + i]
        <4> TAKE i \in 1..Len(upstream')
        <4>1. CASE i \in 1..Len(upstream)
          BY <1>s, <2>3, <2>4, <2>6, <3>4, <4>1
        <4>2. CASE i = Len(upstream) + 1 /\ Len(done) + InHand + Len(L) + i = Len(arrived) + 1
          BY <2>3, <2>4, <4>2
        <4> QED BY <3>5, <4>1, <4>2
      <3> QED BY <3>1, <3>6, <3>7, <3>8
    <2> QED BY <2>1, <2>2, <2>5, <2>6 DEF SerialPlaces, L, K
  <1>2. CASE Route
    <2>0. UNCHANGED <<done, w, ev, arrived>>
      BY <1>2 DEF Route, worker
    <2>1. PICK k \in Keys, e \in Event :
              /\ e = upstream[1] /\ upstream # << >> /\ upstream' = Tail(upstream)
              /\ lane'[k] = Append(lane[k], e)
      BY <1>2, RouteStep
    <2>2. L' = Append(L, e) /\ InHand' = InHand
      BY <1>m, <2>0, <2>1 DEF InHand
    <2>3. /\ Len(L') = Len(L) + 1 /\ L'[Len(L) + 1] = upstream[1] /\ \A i \in 1..Len(L) : L'[i] = L[i]
      BY <1>t, <2>1, <2>2
    <2>4. /\ Len(upstream) > 0 /\ Len(upstream') = Len(upstream) - 1
          /\ \A i \in 1..Len(upstream') : upstream'[i] = upstream[i + 1]
      BY <1>t, <2>1, EmptySeq
    <2> HIDE DEF L, K
    <2>5. ASSUME w[K] # "retired"
          PROVE  /\ Len(done) + InHand + Len(L') + Len(upstream') = Len(arrived)
                 /\ \A i \in 1..Len(L') : L'[i] = arrived[Len(done) + InHand + i]
                 /\ \A i \in 1..Len(upstream') : upstream'[i] = arrived[Len(done) + InHand + Len(L') + i]
      <3>s. Len(done) + InHand + Len(L) + Len(upstream) = Len(arrived)
        BY <1>s, <2>5
      <3>1. Len(done) + InHand + Len(L') + Len(upstream') = Len(arrived)
        <4>1. \A a, b, c, d, n \in Nat : a + b + c + d = n => a + b + (c + 1) + (d - 1) = n
          OBVIOUS
        <4>2. InHand \in Nat
          BY <1>n
        <4>3. Len(done) + InHand + (Len(L) + 1) + (Len(upstream) - 1) = Len(arrived)
          BY <1>n, <3>s, <4>1, <4>2
        <4> QED BY <2>3, <2>4, <4>3
      <3>2. 1 \in 1..Len(upstream) /\ \A i \in 1..Len(upstream') : i + 1 \in 1..Len(upstream)
        BY <1>n, <2>4
      <3>3. \A i \in 1..Len(L') : i \in 1..Len(L) \/ i = Len(L) + 1
        BY <1>n, <2>3
      <3>4. upstream[1] = arrived[Len(done) + InHand + (Len(L) + 1)]
        <4>1. Len(done) + InHand + (Len(L) + 1) = Len(done) + InHand + Len(L) + 1
          BY <1>n
        <4> QED BY <1>s, <2>5, <3>2, <4>1
      <3>5. \A i \in 1..Len(L') : L'[i] = arrived[Len(done) + InHand + i]
        BY <1>s, <2>3, <2>5, <3>3, <3>4
      <3>6. \A i \in 1..Len(upstream') : upstream'[i] = arrived[Len(done) + InHand + Len(L') + i]
        <4> TAKE i \in 1..Len(upstream')
        <4>1. Len(done) + InHand + Len(L) + (i + 1) = Len(done) + InHand + Len(L') + i
          BY <1>n, <2>3
        <4>2. upstream'[i] = upstream[i + 1] /\ i + 1 \in 1..Len(upstream)
          BY <2>4, <3>2
        <4> QED BY <1>s, <2>5, <4>1, <4>2
      <3> QED BY <3>1, <3>5, <3>6
    <2> QED BY <1>s, <2>0, <2>2, <2>5 DEF SerialPlaces, L, K
  <1>3. CASE \E k \in Keys : Worker(k)
    <2>1. /\ Keeps(K) \/ Takes(K) \/ Deals(K) \/ Stops(K)
          /\ UNCHANGED <<upstream, arrived>>
      BY <1>3, <1>m, WorkerOutcomes
    <2>2. CASE Keeps(K)
      <3>1. InHand = 1 /\ InHand' = 1 /\ w[K] # "retired" /\ UNCHANGED <<lane, ev, done>>
        BY <1>t, <2>2 DEF Keeps, InHand, Busy, InExec
      <3> QED BY <1>s, <2>1, <3>1 DEF SerialPlaces
    <2>3. CASE Takes(K)
      <3>1. /\ L' = Tail(L) /\ Len(L) > 0 /\ L # << >> /\ Head(L) = L[1]
        BY <1>m, <1>t, <2>3, TakeStep DEF Takes
      <3>2. Len(L') = Len(L) - 1 /\ \A i \in 1..Len(L') : L'[i] = L[i + 1]
        BY <1>t, <3>1
      <3>3. InHand = 0 /\ InHand' = 1 /\ w[K] # "retired" /\ ev'[K] = L[1] /\ done' = done
        BY <1>t, <2>3, <3>1 DEF Takes, InHand, Busy
      <3> HIDE DEF L, K
      <3>4. Len(done) + 1 + Len(L') + Len(upstream) = Len(arrived)
        BY <1>n, <1>s, <3>2, <3>3
      <3>5. 1 \in 1..Len(L) /\ \A i \in 1..Len(L') : i + 1 \in 1..Len(L)
        BY <1>n, <3>1, <3>2
      <3>6. L[1] = arrived[Len(done) + 1]
        <4>1. Len(done) + 0 + 1 = Len(done) + 1
          BY <1>n
        <4> QED BY <1>s, <3>3, <3>5, <4>1
      <3>7. \A i \in 1..Len(L') : L'[i] = arrived[Len(done) + 1 + i]
        <4> TAKE i \in 1..Len(L')
        <4>1. Len(done) + 0 + (i + 1) = Len(done) + 1 + i
          BY <1>n
        <4> QED BY <1>s, <3>2, <3>3, <3>5, <4>1
      <3>8. \A i \in 1..Len(upstream) : upstream[i] = arrived[Len(done) + 1 + Len(L') + i]
        <4> TAKE i \in 1..Len(upstream)
        <4>1. Len(done) + 0 + Len(L) + i = Len(done) + 1 + Len(L') + i
          BY <1>n, <3>2
        <4> QED BY <1>s, <3>3, <4>1
      <3> QED BY <1>s, <2>1, <3>3, <3>4, <3>6, <3>7, <3>8 DEF SerialPlaces, L, K
    <2>4. CASE Deals(K)
      <3>1. /\ InHand = 1 /\ InHand' = 0 /\ w[K] # "retired" /\ lane' = lane
            /\ done' = Append(done, ev[K]) /\ ev[K] \in Event
        BY <1>t, <2>4 DEF Deals, InHand, Busy, InExec, OwnEvents
      <3>2. Len(done') = Len(done) + 1 /\ done'[Len(done) + 1] = ev[K] /\ \A i \in 1..Len(done) : done'[i] = done[i]
        BY <1>t, <3>1
      <3>3. L' = L
        BY <3>1
      <3> HIDE DEF L, K
      <3>4. Len(done') + 0 + Len(L) + Len(upstream) = Len(arrived) /\ Len(done') <= Len(arrived)
        BY <1>n, <1>s, <3>1, <3>2
      <3>5. \A i \in 1..Len(done') : done'[i] = arrived[i]
        <4>1. \A i \in 1..Len(done') : i \in 1..Len(done) \/ i = Len(done) + 1
          BY <1>n, <3>2
        <4> QED BY <1>s, <3>1, <3>2, <4>1
      <3>6. \A i \in 1..Len(L) : L[i] = arrived[Len(done') + 0 + i]
        <4> TAKE i \in 1..Len(L)
        <4>1. Len(done) + 1 + i = Len(done') + 0 + i
          BY <1>n, <3>2
        <4> QED BY <1>s, <3>1, <4>1
      <3>7. \A i \in 1..Len(upstream) : upstream[i] = arrived[Len(done') + 0 + Len(L) + i]
        <4> TAKE i \in 1..Len(upstream)
        <4>1. Len(done) + 1 + Len(L) + i = Len(done') + 0 + Len(L) + i
          BY <1>n, <3>2
        <4> QED BY <1>s, <3>1, <4>1
      <3>8. /\ Len(done') + InHand' + Len(L') + Len(upstream') = Len(arrived')
            /\ \A i \in 1..Len(L') : L'[i] = arrived'[Len(done') + InHand' + i]
            /\ \A i \in 1..Len(upstream') : upstream'[i] = arrived'[Len(done') + InHand' + Len(L') + i]
        BY <2>1, <3>1, <3>3, <3>4, <3>6, <3>7
      <3>9. InHand' # 1
        BY <3>1
      <3>10. Len(done') <= Len(arrived') /\ \A i \in 1..Len(done') : done'[i] = arrived'[i]
        BY <2>1, <3>4, <3>5
      <3> QED BY <3>8, <3>9, <3>10 DEF SerialPlaces, L, K
    <2>5. CASE Stops(K)
      <3>1. w'[K] = "retired" /\ done' = done
        BY <1>t, <2>5 DEF Stops, Retire
      <3> QED BY <1>s, <2>1, <3>1 DEF SerialPlaces
    <2> QED BY <2>1, <2>2, <2>3, <2>4, <2>5
  <1>4. CASE UNCHANGED <<upstream, lane, w, ev, arrived, done>>
    BY <1>m, <1>4 DEF SerialPlaces, InHand
  <1> QED BY <1>1, <1>2, <1>3, <1>4
          DEF Next, Dispatcher, dispatcher, worker, ConnDies, CloseQueue, Cancel,
              PassBackpressure, DispatchEnds, CloseLanes, RunReturns

----------------------------------------------------------------------------
ReplayInv ==
    /\ TypeOK /\ OwnEvents /\ LanesOpened /\ EndsEmpty /\ ReturnsLast
    /\ SlotsAccounted /\ LeasesWithinPool /\ LeasesHeld
    /\ LanesBounded /\ RoomToRoute /\ Counted
    /\ FromCapture /\ InOrder /\ SerialPlaces

LEMMA ReplayInit == Init => ReplayInv
  <1> SUFFICES ASSUME Init PROVE ReplayInv
    OBVIOUS
  <1>1. TypeOK
    BY ReplayTypeInit
  <1>k. mode.serial => SerialKey \in Keys
    BY DEF Keys
  <1>2. OwnEvents /\ LanesOpened /\ EndsEmpty /\ ReturnsLast /\ LeasesHeld
    BY DEF Init, OwnEvents, LanesOpened, EndsEmpty, ReturnsLast, LeasesHeld, Busy
  <1>3. {k \in Keys : w[k] \in {"acquire", "exec", "reset"}} = {} /\ BusyKeys = {}
    BY DEF Init, BusyKeys, Busy
  <1>4. SlotsAccounted
    BY <1>3, FS_EmptySet DEF Init, SlotsAccounted
  <1>5. LeasesWithinPool
    BY <1>1, ModeType, FS_EmptySet DEF Init, LeasesWithinPool
  <1>6. LaneDepth = 0
    <2>1. Buffered = {}
      BY DEF Init, Buffered
    <2> QED BY <2>1, FS_EmptySet DEF LaneDepth
  <1>7. LanesBounded /\ RoomToRoute
    BY <1>1, <1>6, ModeType DEF Init, LanesBounded, RoomToRoute
  <1>8. Len(done) = 0 /\ Len(upstream) = 0 /\ Len(arrived) = 0
    BY DEF Init
  <1>9. Counted
    BY <1>3, <1>6, <1>8, FS_EmptySet DEF Counted
  <1>10. \A k \in Keys : Len(lane[k]) = 0 /\ w[k] \notin Busy
    BY DEF Init, Busy
  <1>11. FromCapture
    BY <1>8, <1>10 DEF FromCapture
  <1>12. InOrder
    BY <1>8, <1>10 DEF InOrder, Ordered, Before
  <1>13. SerialPlaces
    <2>1. CASE mode.serial
      <3>1. InHand = 0 /\ Len(lane[SerialKey]) = 0
        BY <1>k, <1>10, <2>1 DEF InHand
      <3> QED BY <1>8, <3>1 DEF SerialPlaces
    <2>2. CASE ~mode.serial
      BY <2>2 DEF SerialPlaces
    <2> QED BY <2>1, <2>2
  <1> QED BY <1>1, <1>2, <1>4, <1>5, <1>7, <1>9, <1>11, <1>12, <1>13 DEF ReplayInv

LEMMA ReplayNext == ReplayInv /\ [Next]_vars => ReplayInv'
  <1> SUFFICES ASSUME ReplayInv, [Next]_vars PROVE ReplayInv'
    OBVIOUS
  <1>1. CASE Next
    <2>i. /\ TypeOK /\ OwnEvents /\ LanesOpened /\ EndsEmpty /\ ReturnsLast
          /\ SlotsAccounted /\ LeasesWithinPool /\ LeasesHeld
          /\ LanesBounded /\ RoomToRoute /\ Counted
          /\ FromCapture /\ InOrder /\ SerialPlaces
      BY DEF ReplayInv
    <2>1. TypeOK'
      BY <1>1, <2>i, ReplayTypeNext
    <2>2. OwnEvents' /\ LanesOpened' /\ EndsEmpty' /\ ReturnsLast'
      BY <1>1, <2>i, OwnEventsNext, LanesOpenedNext, EndsEmptyNext, ReturnsLastNext
    <2>3. SlotsAccounted' /\ LeasesWithinPool' /\ LeasesHeld'
      BY <1>1, <2>i, SlotsNext, LeasesNext
    <2>4. LanesBounded' /\ RoomToRoute' /\ Counted'
      BY <1>1, <2>i, <2>1, RoomNext, CountedNext
    <2>5. FromCapture' /\ InOrder' /\ SerialPlaces'
      BY <1>1, <2>i, <2>1, FromCaptureNext, InOrderNext, SerialNext
    <2> QED BY <2>1, <2>2, <2>3, <2>4, <2>5 DEF ReplayInv
  <1>2. CASE UNCHANGED vars
    <2>1. UNCHANGED <<mode, upstream, disp, lagging, qClosed, lane, laneState, w, ev, attempts,
                      sem, leased, dead, lock, ctxDone, arrived, done>>
      BY <1>2 DEF vars, dispatcher, worker, pool
    <2>2. Keys' = Keys /\ (\A c : KeyOf(c)' = KeyOf(c)) /\ LaneDepth' = LaneDepth /\ BusyKeys' = BusyKeys
      BY <2>1 DEF Keys, KeyOf, LaneDepth, Buffered, BusyKeys
    <2>3. TypeOK'
      BY <2>1, <2>2 DEF ReplayInv, TypeOK
    <2>4. OwnEvents' /\ LanesOpened' /\ EndsEmpty' /\ ReturnsLast'
      BY <2>1, <2>2 DEF ReplayInv, OwnEvents, LanesOpened, EndsEmpty, ReturnsLast
    <2>5. SlotsAccounted' /\ LeasesWithinPool' /\ LeasesHeld'
      BY <2>1, <2>2 DEF ReplayInv, SlotsAccounted, LeasesWithinPool, LeasesHeld
    <2>6. LanesBounded' /\ RoomToRoute' /\ Counted'
      BY <2>1, <2>2 DEF ReplayInv, LanesBounded, RoomToRoute, Counted
    <2>7. FromCapture' /\ InOrder' /\ SerialPlaces'
      BY <2>1, <2>2 DEF ReplayInv, FromCapture, InOrder, SerialPlaces, InHand
    <2> QED BY <2>3, <2>4, <2>5, <2>6, <2>7 DEF ReplayInv
  <1> QED BY <1>1, <1>2

LEMMA ReplayAlways == Spec => []ReplayInv
  BY ReplayInit, ReplayNext, PTL DEF Spec

(***************************************************************************)
(* The variables keep their types: no retry beyond defaultRetryAttempts,   *)
(* never more tokens in the semaphore than its capacity, whatever fails    *)
(* and whoever cancels (replayer_impl.go, exec_decorators.go, pool.go).    *)
(***************************************************************************)
THEOREM ReplayTypeCorrect == Spec => []TypeOK
  <1>1. ReplayInv => TypeOK
    BY DEF ReplayInv
  <1> QED BY <1>1, ReplayAlways, PTL

(***************************************************************************)
(* Events are dealt with in the order of their source connection, and in   *)
(* serial mode in captured order, for any number of connections, lanes,    *)
(* slots and events and under every error policy (dispatch, runLane).      *)
(***************************************************************************)
THEOREM ReplayKeepsOrder == Spec => []ReplayOrder
  <1>1. ReplayInv => ReplayOrder
    <2> SUFFICES ASSUME ReplayInv PROVE ReplayOrder
      OBVIOUS
    <2>1. PerConnOrder
      BY DEF ReplayInv, InOrder, Ordered, PerConnOrder
    <2>2. ASSUME mode.serial PROVE IsPrefix(done, arrived)
      <3>1. /\ Len(done) <= Len(arrived) /\ \A i \in 1..Len(done) : done[i] = arrived[i]
        BY <2>2 DEF ReplayInv, SerialPlaces
      <3>2. done \in Seq(Event) /\ arrived \in Seq(Event) /\ Len(done) \in Nat /\ Len(arrived) \in Nat
        BY DEF ReplayInv, TypeOK
      <3>3. SubSeq(done, 1, Len(done)) = SubSeq(arrived, 1, Len(done))
        BY <3>1, <3>2
      <3> QED BY <3>1, <3>3 DEF IsPrefix
    <2> QED BY <2>1, <2>2 DEF ReplayOrder, SerialOrder
  <1> QED BY <1>1, ReplayAlways, PTL

(***************************************************************************)
(* The semaphore's tokens are those of the workers inside Exec, the pool   *)
(* is never oversubscribed and a statement runs on its own lease, and the  *)
(* lanes never hold more than maxLaneDepth events (execAndRelease,         *)
(* affinityPool, Run's backpressure).                                      *)
(***************************************************************************)
THEOREM ReplayResourcesBounded == Spec => []ResourcesBounded
  <1>1. ReplayInv => ResourcesBounded
    BY DEF ReplayInv, ResourcesBounded
  <1> QED BY <1>1, ReplayAlways, PTL

(***************************************************************************)
(* When Run has returned every lease is back, and unless it was cancelled  *)
(* every captured event has been dealt with (laneWG.Wait, the drain).      *)
(***************************************************************************)
THEOREM ReplayReturnsDrained == Spec => []ReturnedMeansDrained
  <1>1. ReplayInv => ReturnedMeansDrained
    <2> SUFFICES ASSUME ReplayInv, disp = "returned"
                 PROVE  leased = {} /\ (~ctxDone => Len(done) = Len(arrived))
      BY DEF ReturnedMeansDrained
    <2>t. /\ leased \in SUBSET Conns /\ done \in Seq(Event) /\ arrived \in Seq(Event)
      BY DEF ReplayInv, TypeOK
    <2>1. leased = {}
      <3>1. \A c \in leased : KeyOf(c) \in Keys
        BY <2>t, KeyOfType
      <3> QED BY <3>1 DEF ReplayInv, LeasesHeld, ReturnsLast
    <2>2. ASSUME ~ctxDone PROVE Len(done) = Len(arrived)
      <3>1. \A k \in Keys : lane[k] = << >> /\ w[k] \notin Busy
        BY <2>2 DEF ReplayInv, LanesOpened, ReturnsLast, EndsEmpty, Busy
      <3>2. BusyKeys = {} /\ Buffered = {}
        BY <3>1 DEF BusyKeys, Buffered
      <3>3. upstream = << >>
        BY <2>2 DEF ReplayInv, EndsEmpty
      <3>4. Len(done) + Cardinality(BusyKeys) + LaneDepth + Len(upstream) = Len(arrived)
        BY <2>2 DEF ReplayInv, Counted
      <3>5. Cardinality(BusyKeys) = 0 /\ LaneDepth = 0 /\ Len(upstream) = 0
        BY <3>2, <3>3, FS_EmptySet DEF LaneDepth
      <3>6. Len(done) + 0 + 0 + 0 = Len(arrived)
        BY <3>4, <3>5
      <3>7. Len(done) \in Nat
        BY <2>t
      <3> QED BY <3>6, <3>7
    <2> QED BY <2>1, <2>2
  <1> QED BY <1>1, ReplayAlways, PTL
=============================================================================
