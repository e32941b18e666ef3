-------------------------- MODULE RingBufferProofs --------------------------
(***************************************************************************)
(* Theorems about RingBuffer for every capacity, policy, set of goroutines *)
(* and number of events.  The inductive invariant is RingInv: types alone  *)
(* are not inductive, because Dequeue returns buf[head], which is an event *)
(* only as long as the array is consistent.                                *)
(***************************************************************************)
EXTENDS RingBuffer, FiniteSetTheorems, TLAPS

\* A goroutine inside Enqueue still has its event to offer.
BlockedHasEvent ==
    \A p \in Producers : pc[p] \in {"waiting", "woken"} => sent[p] < MaxSeq

\* The goroutines asleep in cond.Wait are those on the notify list, each once.
NotifyListExact ==
    /\ \A i, j \in 1..Len(waiters) : waiters[i] = waiters[j] => i = j
    /\ \A x \in Procs :
           pc[x] = "waiting" <=> \E i \in 1..Len(waiters) : waiters[i] = x

RingInv == TypeOK /\ RingConsistent /\ BlockedHasEvent /\ NotifyListExact

----------------------------------------------------------------------------
\* Index arithmetic: what % does on the range the ring uses.
LEMMA ModSmall ==
    ASSUME NEW a \in Nat, NEW n \in Nat \ {0}, a < n
    PROVE  a % n = a
  BY SMT

LEMMA ModWrap ==
    ASSUME NEW a \in Nat, NEW n \in Nat \ {0}, n <= a, a < 2 * n
    PROVE  a % n = a - n
  BY SMT

\* Succ stays in the array: it adds one, or wraps to slot 0.
LEMMA SuccDef ==
    ASSUME NEW i \in Slots
    PROVE  /\ Succ(i) \in Slots
           /\ Succ(i) = IF i = Capacity - 1 THEN 0 ELSE i + 1
  <1> USE RingAssumption DEF Slots, Succ
  <1>1. CASE i = Capacity - 1
    <2>1. (i + 1) % Capacity = (i + 1) - Capacity
      BY <1>1, ModWrap
    <2> QED BY <1>1, <2>1
  <1>2. CASE i # Capacity - 1
    <2>1. (i + 1) % Capacity = i + 1
      BY <1>2, ModSmall
    <2> QED BY <1>2, <2>1
  <1> QED BY <1>1, <1>2

\* The tail is the slot at distance count from the head, without %.
LEMMA TailDef ==
    ASSUME NEW h \in Slots, NEW n \in 0..Capacity
    PROVE  (h + n) % Capacity = IF h + n < Capacity THEN h + n ELSE h + n - Capacity
  <1> USE RingAssumption DEF Slots
  <1>1. CASE h + n < Capacity
    BY <1>1, ModSmall
  <1>2. CASE ~(h + n < Capacity)
    <2>1. h + n \in Nat /\ Capacity <= h + n /\ h + n < 2 * Capacity
      BY <1>2
    <2>2. (h + n) % Capacity = h + n - Capacity
      BY <2>1, ModWrap
    <2> QED BY <1>2, <2>2
  <1> QED BY <1>1, <1>2

\* A producer's next event is an event.
LEMMA NextEventType ==
    ASSUME TypeOK, NEW p \in Producers, sent[p] < MaxSeq
    PROVE  NextEvent(p) \in Event /\ NextEvent(p) # NoEvent
  BY RingAssumption DEF TypeOK, NextEvent, Event

----------------------------------------------------------------------------
LEMMA RingInvInit == Init => RingInv
  <1> SUFFICES ASSUME Init PROVE RingInv
    OBVIOUS
  <1> USE RingAssumption DEF Init
  <1>1. TypeOK
    <2>1. waiters \in Seq(Procs) /\ out \in Seq(Event)
      OBVIOUS
    <2>2. /\ buf \in [Slots -> Event \cup {NoEvent}]
          /\ head \in Slots /\ tail \in Slots /\ count \in 0..Capacity
          /\ overflow \in Nat /\ dropped \in Nat
          /\ sent \in [Producers -> 0..MaxSeq]
      BY DEF Slots
    <2>3. /\ closed \in BOOLEAN
          /\ pc \in [Procs -> {"idle", "waiting", "woken", "overflow", "stopped"}]
          /\ ctxDone \in SUBSET Consumers
          /\ watch \in [Consumers -> {"off", "armed", "stopping"}]
      OBVIOUS
    <2> QED BY <2>1, <2>2, <2>3 DEF TypeOK
  <1>2. RingConsistent
    BY ModSmall DEF RingConsistent, Slots, Distance
  <1>3. BlockedHasEvent
    BY DEF BlockedHasEvent, Procs
  <1>4. NotifyListExact
    BY DEF NotifyListExact, Procs
  <1> QED BY <1>1, <1>2, <1>3, <1>4 DEF RingInv


PCs == {"idle", "waiting", "woken", "overflow", "stopped"}

\* cond.Signal keeps the notify list exact and only wakes the sleeping.
LEMMA SignalStep ==
    ASSUME TypeOK, NotifyListExact, NEW x \in Procs, pc[x] # "waiting",
           NEW next \in {"idle", "overflow"}, SignalThen(x, next)
    PROVE  /\ waiters' \in Seq(Procs)
           /\ pc' \in [Procs -> PCs]
           /\ NotifyListExact'
           /\ \A y \in Procs : pc'[y] \in {"waiting", "woken"}
                                 => pc[y] \in {"waiting", "woken"}
  <1> USE DEF TypeOK, SignalThen, NotifyListExact, PCs
  <1>1. CASE waiters = << >>
    <2>1. pc' = [pc EXCEPT ![x] = next] /\ waiters' = << >>
      BY <1>1
    <2>2. waiters' \in Seq(Procs) /\ pc' \in [Procs -> PCs]
      BY <2>1
    <2>3. \A y \in Procs : pc[y] # "waiting" /\ pc'[y] # "waiting"
      BY <2>1, <1>1
    <2> QED BY <2>1, <2>2, <2>3
  <1>2. CASE waiters # << >>
    <2> DEFINE h == Head(waiters)
    <2>1. /\ h \in Procs /\ h = waiters[1] /\ 1 \in 1..Len(waiters)
          /\ Tail(waiters) \in Seq(Procs)
          /\ Len(Tail(waiters)) = Len(waiters) - 1
          /\ \A i \in 1..Len(Tail(waiters)) :
                 i + 1 \in 1..Len(waiters) /\ Tail(waiters)[i] = waiters[i + 1]
      BY <1>2
    <2>2. pc[h] = "waiting" /\ h # x
      BY <2>1
    <2>3. /\ waiters' = Tail(waiters)
          /\ pc' = [pc EXCEPT ![x] = next, ![h] = "woken"]
      BY <1>2
    <2>4. waiters' \in Seq(Procs) /\ pc' \in [Procs -> PCs]
      BY <2>1, <2>3
    <2>5. \A i, j \in 1..Len(waiters') : waiters'[i] = waiters'[j] => i = j
      BY <2>1, <2>3
    <2>6. ASSUME NEW y \in Procs
          PROVE  pc'[y] = "waiting" <=> \E i \in 1..Len(waiters') : waiters'[i] = y
      <3>1. CASE y = h
        BY <3>1, <2>1, <2>2, <2>3
      <3>2. CASE y = x
        BY <3>2, <2>1, <2>2, <2>3
      <3>3. CASE y # h /\ y # x
        <4>1. pc'[y] = pc[y]
          BY <3>3, <2>3
        <4>2. ASSUME NEW i \in 1..Len(waiters), waiters[i] = y
              PROVE  \E k \in 1..Len(waiters') : waiters'[k] = y
          <5>1. i # 1
            BY <4>2, <3>3, <2>1
          <5>2. i - 1 \in 1..Len(waiters') /\ waiters'[i - 1] = y
            BY <4>2, <5>1, <2>1, <2>3
          <5> QED BY <5>2
        <4>3. ASSUME NEW k \in 1..Len(waiters'), waiters'[k] = y
              PROVE  \E i \in 1..Len(waiters) : waiters[i] = y
          BY <4>3, <2>1, <2>3
        <4> QED BY <4>1, <4>2, <4>3
      <3> QED BY <3>1, <3>2, <3>3
    <2>7. \A y \in Procs : pc'[y] \in {"waiting", "woken"}
                             => pc[y] \in {"waiting", "woken"}
      BY <2>2, <2>3
    <2> QED BY <2>4, <2>5, <2>6, <2>7
  <1> QED BY <1>1, <1>2

\* cond.Wait by a running goroutine.
LEMMA WaitStep ==
    ASSUME TypeOK, NotifyListExact, NEW x \in Procs, pc[x] # "waiting", Wait(x)
    PROVE  /\ waiters' \in Seq(Procs)
           /\ pc' \in [Procs -> PCs]
           /\ NotifyListExact'
  <1> USE DEF TypeOK, Wait, NotifyListExact, PCs
  <1>1. waiters' \in Seq(Procs) /\ pc' \in [Procs -> PCs]
    OBVIOUS
  <1>2. /\ Len(waiters') = Len(waiters) + 1
        /\ \A i \in 1..Len(waiters) : waiters'[i] = waiters[i]
        /\ waiters'[Len(waiters) + 1] = x
    OBVIOUS
  <1>3. \A i \in 1..Len(waiters) : waiters[i] # x
    OBVIOUS
  <1>4. \A i, j \in 1..Len(waiters') : waiters'[i] = waiters'[j] => i = j
    BY <1>2, <1>3
  <1>5. ASSUME NEW y \in Procs
        PROVE  pc'[y] = "waiting" <=> \E i \in 1..Len(waiters') : waiters'[i] = y
    <2>1. CASE y = x
      BY <2>1, <1>2
    <2>2. CASE y # x
      <3>1. pc'[y] = pc[y]
        BY <2>2
      <3>2. (\E i \in 1..Len(waiters') : waiters'[i] = y)
               <=> \E i \in 1..Len(waiters) : waiters[i] = y
        BY <2>2, <1>2
      <3> QED BY <3>1, <3>2
    <2> QED BY <2>1, <2>2
  <1> QED BY <1>1, <1>4, <1>5

\* cond.Broadcast.
LEMMA BroadcastStep ==
    ASSUME TypeOK, NotifyListExact, Broadcast
    PROVE  /\ waiters' \in Seq(Procs)
           /\ pc' \in [Procs -> PCs]
           /\ NotifyListExact'
           /\ \A y \in Procs : pc'[y] \in {"waiting", "woken"}
                                 => pc[y] \in {"waiting", "woken"}
  BY DEF TypeOK, Broadcast, NotifyListExact, PCs

----------------------------------------------------------------------------
\* The array: each of its three kinds of update keeps it consistent and does
\* to Contents what the abstract queue does to q.

\* The slot k places after h.
At(h, k) == IF h + k < Capacity THEN h + k ELSE h + k - Capacity

LEMMA AtSlot ==
    ASSUME NEW h \in Slots, NEW k \in 0..(Capacity - 1)
    PROVE  At(h, k) \in Slots
  BY RingAssumption DEF At, Slots

LEMMA WindowAt ==
    ASSUME NEW h \in Slots, NEW n \in 0..Capacity,
           NEW b \in [Slots -> Event \cup {NoEvent}]
    PROVE  LET w == [i \in 1..n |-> b[(h + i - 1) % Capacity]]
           IN  /\ w = [i \in 1..n |-> b[At(h, i - 1)]]
               /\ w \in Seq(Event \cup {NoEvent})
               /\ Len(w) = n
  <1> USE RingAssumption
  <1> DEFINE w == [i \in 1..n |-> b[(h + i - 1) % Capacity]]
  <1>1. ASSUME NEW i \in 1..n
        PROVE  /\ (h + i - 1) % Capacity = At(h, i - 1)
               /\ At(h, i - 1) \in Slots
    <2>1. i - 1 \in 0..(Capacity - 1) /\ h + i - 1 = h + (i - 1)
      BY DEF Slots
    <2> QED BY <2>1, TailDef, AtSlot DEF At
  <1>2. w = [i \in 1..n |-> b[At(h, i - 1)]]
    BY <1>1
  <1>3. \A i \in 1..n : b[At(h, i - 1)] \in Event \cup {NoEvent}
    BY <1>1
  <1>4. w \in Seq(Event \cup {NoEvent}) /\ Len(w) = n
    BY <1>2, <1>3
  <1> QED BY <1>2, <1>4

LEMMA ContentsAt ==
    ASSUME TypeOK
    PROVE  /\ Contents = [i \in 1..count |-> buf[At(head, i - 1)]]
           /\ Contents \in Seq(Event \cup {NoEvent})
           /\ Len(Contents) = count
  BY WindowAt DEF TypeOK, Contents

\* Buffered events are events.
LEMMA ContentsEvents ==
    ASSUME TypeOK, RingConsistent
    PROVE  \A i \in 1..count : Contents[i] \in Event
  <1> SUFFICES ASSUME NEW i \in 1..count PROVE Contents[i] \in Event
    OBVIOUS
  <1> USE RingAssumption DEF TypeOK
  <1>0. i - 1 \in 0..(Capacity - 1)
    OBVIOUS
  <1>1. Contents[i] = buf[At(head, i - 1)] /\ At(head, i - 1) \in Slots
    BY <1>0, ContentsAt, AtSlot
  <1>2. Distance(At(head, i - 1)) < count
    BY DEF Distance, At, Slots
  <1> QED BY <1>1, <1>2 DEF RingConsistent

\* push with room.
LEMMA PushStep ==
    ASSUME TypeOK, RingConsistent, NEW e \in Event, count < Capacity,
           Push(e), count' = count + 1, head' = head
    PROVE  /\ buf' \in [Slots -> Event \cup {NoEvent}]
           /\ tail' \in Slots /\ head' \in Slots /\ count' \in 0..Capacity
           /\ RingConsistent'
  <1> USE RingAssumption DEF TypeOK
  <1>1. tail = At(head, count) /\ tail \in Slots
    BY TailDef DEF RingConsistent, At
  <1>2. tail' = At(head, count + 1) /\ tail' \in Slots
    BY <1>1, SuccDef DEF Push, At, Slots
  <1>3. buf' = [buf EXCEPT ![tail] = e] /\ e # NoEvent
    BY DEF Push
  <1>4. tail' = (head' + count') % Capacity
    <2>1. count' \in 0..Capacity /\ head' \in Slots
      OBVIOUS
    <2>2. (head' + count') % Capacity = At(head', count')
      BY <2>1, TailDef DEF At
    <2> QED BY <1>2, <2>2
  <1>5. ASSUME NEW i \in Slots
        PROVE  buf'[i] # NoEvent <=> (Distance(i))' < count'
    <2>1. (Distance(i))' = Distance(i)
      BY DEF Distance
    <2>2. CASE i = tail
      <3>1. Distance(i) = count
        BY <2>2, <1>1 DEF Distance, At, Slots
      <3> QED BY <2>1, <2>2, <3>1, <1>3
    <2>3. CASE i # tail
      <3>1. Distance(i) # count
        BY <2>3, <1>1 DEF Distance, At, Slots
      <3>2. buf'[i] = buf[i]
        BY <2>3, <1>3
      <3>3. Distance(i) \in Nat
        BY DEF Distance, Slots
      <3> QED BY <2>1, <3>1, <3>2, <3>3 DEF RingConsistent
    <2> QED BY <2>2, <2>3
  <1>6. buf' \in [Slots -> Event \cup {NoEvent}]
    BY <1>3
  <1> QED BY <1>2, <1>4, <1>5, <1>6 DEF RingConsistent

\* Dequeue's pop.
LEMMA TakeStep ==
    ASSUME TypeOK, RingConsistent, count > 0,
           buf' = [buf EXCEPT ![head] = NoEvent], head' = Succ(head),
           count' = count - 1, tail' = tail
    PROVE  /\ buf[head] \in Event
           /\ buf' \in [Slots -> Event \cup {NoEvent}]
           /\ tail' \in Slots /\ head' \in Slots /\ count' \in 0..Capacity
           /\ RingConsistent'
  <1> USE RingAssumption DEF TypeOK
  <1>1. head' = At(head, 1) /\ head' \in Slots
    BY SuccDef DEF At, Slots
  <1>2. Distance(head) = 0 /\ buf[head] \in Event
    BY DEF Distance, RingConsistent, Slots
  <1>3. tail = At(head, count)
    BY TailDef DEF RingConsistent, At
  <1>4. tail = At(head', count - 1)
    BY <1>1, <1>3 DEF At, Slots
  <1>5. tail' = (head' + count') % Capacity
    <2>1. count' \in 0..Capacity
      OBVIOUS
    <2>2. (head' + count') % Capacity = At(head', count')
      BY <1>1, <2>1, TailDef DEF At
    <2> QED BY <1>4, <2>2
  <1>6. ASSUME NEW i \in Slots
        PROVE  buf'[i] # NoEvent <=> (Distance(i))' < count'
    <2>1. CASE i = head
      <3>1. (Distance(i))' = Capacity - 1
        BY <2>1, <1>1 DEF Distance, At, Slots
      <3> QED BY <2>1, <3>1
    <2>2. CASE i # head
      <3>1. (Distance(i))' = Distance(i) - 1 /\ Distance(i) \in Nat
        BY <2>2, <1>1 DEF Distance, At, Slots
      <3>2. buf'[i] = buf[i]
        BY <2>2
      <3> QED BY <3>1, <3>2 DEF RingConsistent
    <2> QED BY <2>1, <2>2
  <1>7. RingConsistent'
    BY <1>5, <1>6 DEF RingConsistent
  <1>8. tail' \in Slots /\ count' \in 0..Capacity
    OBVIOUS
  <1>9. buf' \in [Slots -> Event \cup {NoEvent}]
    OBVIOUS
  <1> QED BY <1>1, <1>2, <1>7, <1>8, <1>9

\* drop_oldest at capacity: the new event replaces the oldest.
LEMMA EvictStep ==
    ASSUME TypeOK, RingConsistent, NEW e \in Event, count = Capacity,
           Push(e), count' = count, head' = Succ(head)
    PROVE  /\ tail = head
           /\ buf' \in [Slots -> Event \cup {NoEvent}]
           /\ tail' \in Slots /\ head' \in Slots /\ count' \in 0..Capacity
           /\ RingConsistent'
  <1> USE RingAssumption DEF TypeOK
  <1>1. tail = head
    BY TailDef DEF RingConsistent, Slots
  <1>2. head' = tail' /\ head' \in Slots
    BY <1>1, SuccDef DEF Push
  <1>3. buf' = [buf EXCEPT ![head] = e] /\ e # NoEvent
    BY <1>1 DEF Push
  <1>4. tail' = (head' + count') % Capacity
    <2>1. \A h \in Slots : (h + Capacity) % Capacity = h
      BY TailDef DEF Slots
    <2> QED BY <1>2, <2>1
  <1>5. ASSUME NEW i \in Slots
        PROVE  Distance(i) < Capacity /\ (Distance(i))' < Capacity
    <2>1. \A h \in Slots : (IF i >= h THEN i - h ELSE i - h + Capacity) < Capacity
      BY DEF Slots
    <2> QED BY <1>2, <2>1 DEF Distance
  <1>6. \A i \in Slots : buf[i] # NoEvent /\ buf'[i] # NoEvent
    BY <1>3, <1>5 DEF RingConsistent
  <1>7. buf' \in [Slots -> Event \cup {NoEvent}]
    BY <1>3
  <1> QED BY <1>1, <1>2, <1>4, <1>5, <1>6, <1>7 DEF RingConsistent

----------------------------------------------------------------------------
\* Every step keeps RingInv: one step per action.
LEMMA RingInvNext == RingInv /\ [Next]_vars => RingInv'
  <1> SUFFICES ASSUME RingInv, [Next]_vars PROVE RingInv'
    OBVIOUS
  <1> USE RingAssumption
  <1>a. TypeOK /\ RingConsistent /\ BlockedHasEvent /\ NotifyListExact
    BY DEF RingInv
  <1>b. \A p \in Producers : Calling(p) \/ Rechecking(p)
                                => /\ p \in Procs /\ pc[p] # "waiting"
                                   /\ sent[p] < MaxSeq /\ sent[p] \in Nat
    BY <1>a DEF Calling, Rechecking, BlockedHasEvent, TypeOK, Procs
  <1>c. \A c \in Consumers : /\ c \in Procs /\ c \notin Producers
                             /\ (Running(c) => pc[c] # "waiting")
    BY <1>a DEF Running, Procs
  <1>d. \A p \in Producers : p \in Procs
    BY DEF Procs
  \* The configuration is fixed.
  <1>p. policy' \in Policies
    BY <1>a DEF Next, vars, TypeOK
  <1> USE <1>p
  \* Steps that leave the array, the counters and the notify list alone.
  <1>0. CASE UNCHANGED vars
    BY <1>0, <1>a DEF vars, ring, ghost, RingInv, TypeOK, RingConsistent,
                      Distance, BlockedHasEvent, NotifyListExact
  <1>1. ASSUME NEW p \in Producers, EnqueueClosed(p) PROVE RingInv'
    <2>1. /\ pc' = [pc EXCEPT ![p] = "idle"]
          /\ sent' = [sent EXCEPT ![p] = @ + 1] /\ pc[p] # "waiting"
          /\ p \in Procs /\ sent[p] < MaxSeq /\ sent[p] \in Nat
          /\ UNCHANGED <<ring, closed, waiters, ctxDone, watch, overflow, out, dropped>>
      BY <1>1, <1>b DEF EnqueueClosed, Returns
    <2>2. TypeOK'
      BY <1>a, <2>1 DEF TypeOK, ring
    <2>3. RingConsistent'
      BY <1>a, <2>1 DEF RingConsistent, Distance, ring
    <2>4. BlockedHasEvent' /\ NotifyListExact'
      BY <1>a, <2>1, <1>d DEF BlockedHasEvent, NotifyListExact, TypeOK
    <2> QED BY <2>2, <2>3, <2>4 DEF RingInv
  <1>2. ASSUME NEW p \in Producers, EnqueuePush(p) PROVE RingInv'
    <2>1. /\ Push(NextEvent(p)) /\ count < Capacity /\ count' = count + 1
          /\ head' = head /\ SignalThen(p, "idle")
          /\ sent' = [sent EXCEPT ![p] = @ + 1] /\ pc[p] # "waiting"
          /\ p \in Procs /\ sent[p] < MaxSeq /\ sent[p] \in Nat
          /\ UNCHANGED <<closed, ctxDone, watch, overflow, out, dropped>>
      BY <1>2, <1>b DEF EnqueuePush, Returns
    <2>2. NextEvent(p) \in Event
      BY <1>a, <2>1, NextEventType
    <2>3. /\ buf' \in [Slots -> Event \cup {NoEvent}]
          /\ tail' \in Slots /\ head' \in Slots /\ count' \in 0..Capacity
          /\ RingConsistent'
      BY <1>a, <2>1, <2>2, PushStep
    <2>4. /\ waiters' \in Seq(Procs)
          /\ pc' \in [Procs -> PCs]
          /\ NotifyListExact'
          /\ \A y \in Procs : pc'[y] \in {"waiting", "woken"}
                                => pc[y] \in {"waiting", "woken"}
      BY <1>a, <2>1, SignalStep
    <2>5. pc'[p] = "idle"
      BY <1>a, <2>1 DEF SignalThen, TypeOK, NotifyListExact
    <2>6. TypeOK'
      BY <1>a, <2>1, <2>3, <2>4 DEF TypeOK, PCs
    <2>7. BlockedHasEvent'
      BY <1>a, <1>d, <2>1, <2>4, <2>5 DEF BlockedHasEvent, TypeOK
    <2> QED BY <2>3, <2>4, <2>6, <2>7 DEF RingInv
  <1>3. ASSUME NEW p \in Producers, EnqueueDropNewest(p) PROVE RingInv'
    <2>1. /\ pc' = [pc EXCEPT ![p] = "overflow"] /\ dropped' = dropped + 1
          /\ sent' = [sent EXCEPT ![p] = @ + 1] /\ pc[p] # "waiting"
          /\ p \in Procs /\ sent[p] < MaxSeq /\ sent[p] \in Nat
          /\ UNCHANGED <<ring, closed, waiters, ctxDone, watch, overflow, out>>
      BY <1>3, <1>b DEF EnqueueDropNewest, Returns
    <2>2. TypeOK'
      BY <1>a, <2>1 DEF TypeOK, ring
    <2>3. RingConsistent'
      BY <1>a, <2>1 DEF RingConsistent, Distance, ring
    <2>4. BlockedHasEvent' /\ NotifyListExact'
      BY <1>a, <2>1, <1>d DEF BlockedHasEvent, NotifyListExact, TypeOK
    <2> QED BY <2>2, <2>3, <2>4 DEF RingInv
  <1>4. ASSUME NEW p \in Producers, EnqueueBlock(p) PROVE RingInv'
    <2>1. /\ Wait(p) /\ pc[p] # "waiting" /\ p \in Procs /\ sent[p] < MaxSeq
          /\ UNCHANGED <<ring, closed, ctxDone, watch, overflow, ghost>>
      BY <1>4, <1>b DEF EnqueueBlock
    <2>2. waiters' \in Seq(Procs) /\ pc' \in [Procs -> PCs] /\ NotifyListExact'
      BY <1>a, <2>1, WaitStep
    <2>3. TypeOK'
      BY <1>a, <2>1, <2>2 DEF TypeOK, PCs, ring, ghost
    <2>4. RingConsistent'
      BY <1>a, <2>1 DEF RingConsistent, Distance, ring
    <2>5. BlockedHasEvent'
      BY <1>a, <1>d, <2>1 DEF BlockedHasEvent, Wait, ghost, TypeOK
    <2> QED BY <2>2, <2>3, <2>4, <2>5 DEF RingInv
  <1>5. ASSUME NEW p \in Producers, EnqueueDropOldest(p) PROVE RingInv'
    <2>1. /\ Push(NextEvent(p)) /\ count = Capacity /\ count' = count
          /\ head' = Succ(head) /\ SignalThen(p, "overflow") /\ dropped' = dropped + 1
          /\ sent' = [sent EXCEPT ![p] = @ + 1] /\ pc[p] # "waiting"
          /\ p \in Procs /\ sent[p] < MaxSeq /\ sent[p] \in Nat
          /\ UNCHANGED <<closed, ctxDone, watch, overflow, out>>
      BY <1>5, <1>b DEF EnqueueDropOldest, Returns
    <2>2. NextEvent(p) \in Event
      BY <1>a, <2>1, NextEventType
    <2>3. /\ buf' \in [Slots -> Event \cup {NoEvent}]
          /\ tail' \in Slots /\ head' \in Slots /\ count' \in 0..Capacity
          /\ RingConsistent'
      BY <1>a, <2>1, <2>2, EvictStep
    <2>4. /\ waiters' \in Seq(Procs)
          /\ pc' \in [Procs -> PCs]
          /\ NotifyListExact'
          /\ \A y \in Procs : pc'[y] \in {"waiting", "woken"}
                                => pc[y] \in {"waiting", "woken"}
      BY <1>a, <2>1, SignalStep
    <2>5. pc'[p] = "overflow"
      BY <1>a, <2>1 DEF SignalThen, TypeOK, NotifyListExact
    <2>6. TypeOK'
      BY <1>a, <2>1, <2>3, <2>4 DEF TypeOK, PCs
    <2>7. BlockedHasEvent'
      BY <1>a, <1>d, <2>1, <2>4, <2>5 DEF BlockedHasEvent, TypeOK
    <2> QED BY <2>3, <2>4, <2>6, <2>7 DEF RingInv
  <1>6. ASSUME NEW p \in Producers, RecordOverflow(p) PROVE RingInv'
    <2>1. /\ pc[p] = "overflow" /\ pc' = [pc EXCEPT ![p] = "idle"]
          /\ overflow' = overflow + 1 /\ p \in Procs
          /\ UNCHANGED <<ring, closed, waiters, ctxDone, watch, ghost>>
      BY <1>6, <1>d DEF RecordOverflow
    <2>2. TypeOK'
      BY <1>a, <2>1 DEF TypeOK, ring, ghost
    <2>3. RingConsistent'
      BY <1>a, <2>1 DEF RingConsistent, Distance, ring
    <2>4. BlockedHasEvent' /\ NotifyListExact'
      BY <1>a, <2>1, <1>d DEF BlockedHasEvent, NotifyListExact, TypeOK, ghost
    <2> QED BY <2>2, <2>3, <2>4 DEF RingInv
  <1>7. ASSUME NEW c \in Consumers, DequeueTake(c) PROVE RingInv'
    <2>1. /\ count > 0 /\ buf' = [buf EXCEPT ![head] = NoEvent]
          /\ head' = Succ(head) /\ count' = count - 1 /\ tail' = tail
          /\ out' = Append(out, buf[head]) /\ SignalThen(c, "idle")
          /\ watch' = [watch EXCEPT ![c] = IF @ = "armed" THEN "stopping" ELSE @]
          /\ c \in Procs /\ pc[c] # "waiting"
          /\ UNCHANGED <<closed, ctxDone, overflow, sent, dropped>>
      BY <1>7, <1>c DEF DequeueTake, StopWatcher
    <2>3. /\ buf[head] \in Event
          /\ buf' \in [Slots -> Event \cup {NoEvent}]
          /\ tail' \in Slots /\ head' \in Slots /\ count' \in 0..Capacity
          /\ RingConsistent'
      BY <1>a, <2>1, TakeStep
    <2>4. /\ waiters' \in Seq(Procs)
          /\ pc' \in [Procs -> PCs]
          /\ NotifyListExact'
          /\ \A y \in Procs : pc'[y] \in {"waiting", "woken"}
                                => pc[y] \in {"waiting", "woken"}
      BY <1>a, <2>1, SignalStep
    <2>5. watch' \in [Consumers -> {"off", "armed", "stopping"}] /\ out' \in Seq(Event)
      BY <1>a, <2>1, <2>3 DEF TypeOK
    <2>6. TypeOK'
      BY <1>a, <2>1, <2>3, <2>4, <2>5 DEF TypeOK, PCs
    <2>7. BlockedHasEvent'
      BY <1>a, <1>d, <2>1, <2>4 DEF BlockedHasEvent
    <2> QED BY <2>3, <2>4, <2>6, <2>7 DEF RingInv
  <1>8. ASSUME NEW c \in Consumers, DequeueWait(c) PROVE RingInv'
    <2>1. /\ Wait(c) /\ pc[c] # "waiting" /\ c \in Procs
          /\ watch' = [watch EXCEPT ![c] = "armed"]
          /\ UNCHANGED <<ring, closed, ctxDone, overflow, ghost>>
      BY <1>8, <1>c DEF DequeueWait
    <2>2. waiters' \in Seq(Procs) /\ pc' \in [Procs -> PCs] /\ NotifyListExact'
      BY <1>a, <2>1, WaitStep
    <2>3. TypeOK'
      BY <1>a, <2>1, <2>2 DEF TypeOK, PCs, ring, ghost
    <2>4. RingConsistent'
      BY <1>a, <2>1 DEF RingConsistent, Distance, ring
    <2>5. BlockedHasEvent'
      BY <1>a, <1>c, <1>d, <2>1 DEF BlockedHasEvent, Wait, ghost, TypeOK
    <2> QED BY <2>2, <2>3, <2>4, <2>5 DEF RingInv
  <1>9. ASSUME NEW c \in Consumers, DequeueFail(c) PROVE RingInv'
    <2>1. /\ pc[c] # "waiting" /\ pc' = [pc EXCEPT ![c] = "stopped"] /\ c \in Procs
          /\ watch' = [watch EXCEPT ![c] = IF @ = "armed" THEN "stopping" ELSE @]
          /\ UNCHANGED <<ring, closed, waiters, ctxDone, overflow, ghost>>
      BY <1>9, <1>c DEF DequeueFail, StopWatcher
    <2>2. TypeOK'
      BY <1>a, <2>1 DEF TypeOK, ring, ghost
    <2>3. RingConsistent'
      BY <1>a, <2>1 DEF RingConsistent, Distance, ring
    <2>4. BlockedHasEvent' /\ NotifyListExact'
      BY <1>a, <2>1, <1>d DEF BlockedHasEvent, NotifyListExact, TypeOK, ghost
    <2> QED BY <2>2, <2>3, <2>4 DEF RingInv
  <1>10. ASSUME NEW c \in Consumers, WatcherFire(c) PROVE RingInv'
    <2>1. /\ Broadcast /\ watch' = [watch EXCEPT ![c] = "off"]
          /\ UNCHANGED <<ring, closed, ctxDone, overflow, ghost>>
      BY <1>10 DEF WatcherFire
    <2>2. /\ waiters' \in Seq(Procs) /\ pc' \in [Procs -> PCs] /\ NotifyListExact'
          /\ \A y \in Procs : pc'[y] \in {"waiting", "woken"}
                                => pc[y] \in {"waiting", "woken"}
      BY <1>a, <2>1, BroadcastStep
    <2>3. TypeOK'
      BY <1>a, <2>1, <2>2 DEF TypeOK, PCs, ring, ghost
    <2>4. RingConsistent'
      BY <1>a, <2>1 DEF RingConsistent, Distance, ring
    <2>5. BlockedHasEvent'
      BY <1>a, <1>d, <2>1, <2>2 DEF BlockedHasEvent, ghost
    <2> QED BY <2>2, <2>3, <2>4, <2>5 DEF RingInv
  <1>11. ASSUME NEW c \in Consumers, WatcherExit(c) \/ CancelCtx(c) PROVE RingInv'
    <2>1. /\ watch' \in [Consumers -> {"off", "armed", "stopping"}]
          /\ ctxDone' \in SUBSET Consumers
          /\ UNCHANGED <<ring, closed, waiters, pc, overflow, ghost>>
      BY <1>11, <1>a DEF WatcherExit, CancelCtx, TypeOK
    <2>2. TypeOK'
      BY <1>a, <2>1 DEF TypeOK, ring, ghost
    <2>3. RingConsistent'
      BY <1>a, <2>1 DEF RingConsistent, Distance, ring
    <2>4. BlockedHasEvent' /\ NotifyListExact'
      BY <1>a, <2>1 DEF BlockedHasEvent, NotifyListExact, ghost
    <2> QED BY <2>2, <2>3, <2>4 DEF RingInv
  <1>12. ASSUME Close PROVE RingInv'
    <2>1. /\ Broadcast /\ closed' = TRUE
          /\ UNCHANGED <<ring, ctxDone, watch, overflow, ghost>>
      BY <1>12 DEF Close
    <2>2. /\ waiters' \in Seq(Procs) /\ pc' \in [Procs -> PCs] /\ NotifyListExact'
          /\ \A y \in Procs : pc'[y] \in {"waiting", "woken"}
                                => pc[y] \in {"waiting", "woken"}
      BY <1>a, <2>1, BroadcastStep
    <2>3. TypeOK'
      BY <1>a, <2>1, <2>2 DEF TypeOK, PCs, ring, ghost
    <2>4. RingConsistent'
      BY <1>a, <2>1 DEF RingConsistent, Distance, ring
    <2>5. BlockedHasEvent'
      BY <1>a, <1>d, <2>1, <2>2 DEF BlockedHasEvent, ghost
    <2> QED BY <2>2, <2>3, <2>4, <2>5 DEF RingInv
  <1> QED
    BY <1>0, <1>1, <1>2, <1>3, <1>4, <1>5, <1>6, <1>7, <1>8, <1>9, <1>10,
       <1>11, <1>12 DEF Next, Enqueue, Dequeue, Watcher

LEMMA RingInvAlways == Spec => []RingInv
  BY RingInvInit, RingInvNext, PTL DEF Spec

(***************************************************************************)
(* Type correctness of the ring buffer, for every capacity, policy and     *)
(* number of goroutines: in particular count never leaves 0..Capacity and  *)
(* Dequeue never hands out a nil slot.                                     *)
(***************************************************************************)
THEOREM RingTypeCorrect == Spec => []TypeOK
  <1>1. RingInv => TypeOK
    BY DEF RingInv
  <1> QED BY <1>1, RingInvAlways, PTL

(***************************************************************************)
(* The circular array stays consistent: tail is count slots after head and *)
(* exactly those slots hold events.                                        *)
(***************************************************************************)
THEOREM RingAlwaysConsistent == Spec => []RingConsistent
  <1>1. RingInv => RingConsistent
    BY DEF RingInv
  <1> QED BY <1>1, RingInvAlways, PTL

----------------------------------------------------------------------------
\* Refinement.  First, what the three array updates do to Contents.

LEMMA ContentsPrime ==
    ASSUME TypeOK'
    PROVE  /\ Contents' = [i \in 1..count' |-> buf'[At(head', i - 1)]]
           /\ Contents' \in Seq(Event \cup {NoEvent})
           /\ Len(Contents') = count'
  BY WindowAt DEF TypeOK, Contents

\* Two sequences that agree position by position.
LEMMA IsAppend ==
    ASSUME NEW S, NEW s \in Seq(S), NEW t \in Seq(S), NEW e \in S,
           Len(t) = Len(s) + 1,
           \A i \in 1..Len(s) : t[i] = s[i],
           t[Len(s) + 1] = e
    PROVE  t = Append(s, e)
  <1>1. Append(s, e) \in Seq(S) /\ Len(Append(s, e)) = Len(s) + 1
    OBVIOUS
  <1>2. \A i \in 1..Len(t) : t[i] = Append(s, e)[i]
    OBVIOUS
  <1> QED BY <1>1, <1>2

LEMMA IsTail ==
    ASSUME NEW S, NEW s \in Seq(S), NEW t \in Seq(S), s # << >>,
           Len(t) = Len(s) - 1,
           \A i \in 1..Len(t) : t[i] = s[i + 1]
    PROVE  t = Tail(s)
  <1>1. Tail(s) \in Seq(S) /\ Len(Tail(s)) = Len(s) - 1
    OBVIOUS
  <1>2. \A i \in 1..Len(t) : t[i] = Tail(s)[i]
    OBVIOUS
  <1> QED BY <1>1, <1>2

LEMMA PushContents ==
    ASSUME TypeOK, RingConsistent, TypeOK', NEW e \in Event, count < Capacity,
           Push(e), count' = count + 1, head' = head
    PROVE  Contents' = Append(Contents, e)
  <1> DEFINE S == Event \cup {NoEvent}
  <1>0. /\ head \in Slots /\ count \in 0..Capacity /\ buf \in [Slots -> S]
        /\ Capacity \in Nat \ {0}
    BY RingAssumption DEF TypeOK
  <1>1. /\ Contents' = [i \in 1..count' |-> buf'[At(head', i - 1)]]
        /\ Contents' \in Seq(S) /\ Len(Contents') = count'
        /\ Contents = [i \in 1..count |-> buf[At(head, i - 1)]]
        /\ Contents \in Seq(S) /\ Len(Contents) = count
    BY ContentsPrime, ContentsAt
  <1>2. tail = At(head, count) /\ buf' = [buf EXCEPT ![tail] = e] /\ tail \in Slots
    BY <1>0, TailDef DEF RingConsistent, At, Push, TypeOK
  <1>3. \A i \in 1..count : At(head, i - 1) \in Slots /\ At(head, i - 1) # tail
    BY <1>0, <1>2 DEF At, Slots
  <1>4. \A i \in 1..Len(Contents) : Contents'[i] = Contents[i]
    BY <1>0, <1>1, <1>2, <1>3
  <1>5. Contents'[Len(Contents) + 1] = e
    BY <1>0, <1>1, <1>2
  <1>6. Len(Contents') = Len(Contents) + 1 /\ e \in S
    BY <1>1
  <1>7. Contents \in Seq(S) /\ Contents' \in Seq(S)
    BY <1>1
  <1> HIDE DEF S
  <1> QED BY <1>4, <1>5, <1>6, <1>7, IsAppend

\* One place further on from the old head is the new head's own place.
LEMMA AtSucc ==
    ASSUME NEW h \in Slots
    PROVE  /\ Succ(h) \in Slots
           /\ \A i \in 1..(Capacity - 1) : /\ At(Succ(h), i - 1) = At(h, i)
                                           /\ At(h, i) \in Slots
                                           /\ At(h, i) # h
           /\ At(h, 0) = h
           /\ At(Succ(h), Capacity - 1) = h
  <1>1. Capacity \in Nat \ {0} /\ Succ(h) \in Slots
    BY RingAssumption, SuccDef
  <1>2. CASE h = Capacity - 1
    <2>1. Succ(h) = 0
      BY <1>2, SuccDef
    <2> QED BY <1>1, <1>2, <2>1 DEF At, Slots
  <1>3. CASE h # Capacity - 1
    <2>1. Succ(h) = h + 1
      BY <1>3, SuccDef
    <2> QED BY <1>1, <1>3, <2>1 DEF At, Slots
  <1> QED BY <1>2, <1>3

LEMMA TakeContents ==
    ASSUME TypeOK, TypeOK', count > 0,
           buf' = [buf EXCEPT ![head] = NoEvent], head' = Succ(head),
           count' = count - 1
    PROVE  /\ Contents # << >>
           /\ Head(Contents) = buf[head]
           /\ Contents' = Tail(Contents)
  <1> DEFINE S == Event \cup {NoEvent}
  <1>0. /\ head \in Slots /\ count \in 0..Capacity /\ buf \in [Slots -> S]
        /\ Capacity \in Nat \ {0}
    BY RingAssumption DEF TypeOK
  <1>1. /\ Contents' = [i \in 1..count' |-> buf'[At(head', i - 1)]]
        /\ Contents' \in Seq(S) /\ Len(Contents') = count'
        /\ Contents = [i \in 1..count |-> buf[At(head, i - 1)]]
        /\ Contents \in Seq(S) /\ Len(Contents) = count
    BY ContentsPrime, ContentsAt
  <1>2. Contents # << >> /\ Head(Contents) = Contents[1]
    BY <1>0, <1>1
  <1>3. Contents[1] = buf[head]
    BY <1>0, <1>1, AtSucc
  <1>4. \A i \in 1..(count - 1) : /\ At(head', i - 1) = At(head, i)
                                  /\ At(head, i) \in Slots /\ At(head, i) # head
    BY <1>0, AtSucc
  <1>5. ASSUME NEW i \in 1..Len(Contents') PROVE Contents'[i] = Contents[i + 1]
    <2>1. i \in 1..(count - 1) /\ i + 1 \in 1..count /\ (i + 1) - 1 = i
      BY <1>0, <1>1
    <2>2. Contents'[i] = buf'[At(head, i)] /\ Contents[i + 1] = buf[At(head, i)]
      BY <1>1, <1>4, <2>1
    <2> QED BY <1>0, <1>4, <2>1, <2>2
  <1>6. Len(Contents') = Len(Contents) - 1
    BY <1>1
  <1> HIDE DEF S
  <1>7. Contents' = Tail(Contents)
    BY <1>1, <1>2, <1>5, <1>6, IsTail
  <1> QED BY <1>2, <1>3, <1>7

LEMMA EvictContents ==
    ASSUME TypeOK, RingConsistent, TypeOK', NEW e \in Event, count = Capacity,
           Push(e), count' = count, head' = Succ(head)
    PROVE  /\ Contents # << >>
           /\ Contents' = Append(Tail(Contents), e)
  <1> DEFINE S == Event \cup {NoEvent}
  <1>0. /\ head \in Slots /\ count \in 0..Capacity /\ buf \in [Slots -> S]
        /\ Capacity \in Nat \ {0}
    BY RingAssumption DEF TypeOK
  <1>1. /\ Contents' = [i \in 1..count' |-> buf'[At(head', i - 1)]]
        /\ Contents' \in Seq(S) /\ Len(Contents') = count'
        /\ Contents = [i \in 1..count |-> buf[At(head, i - 1)]]
        /\ Contents \in Seq(S) /\ Len(Contents) = count
    BY ContentsPrime, ContentsAt
  <1>2. tail = head /\ buf' = [buf EXCEPT ![head] = e]
    BY <1>0, EvictStep DEF Push
  <1>3. \A i \in 1..(count - 1) : /\ At(head', i - 1) = At(head, i)
                                  /\ At(head, i) \in Slots /\ At(head, i) # head
    BY <1>0, AtSucc
  <1>4. /\ Contents # << >> /\ Tail(Contents) \in Seq(S)
        /\ Len(Tail(Contents)) = count - 1
        /\ \A i \in 1..(count - 1) : Tail(Contents)[i] = Contents[i + 1]
    <2>1. Contents \in Seq(S) /\ Len(Contents) = count
      BY <1>1
    <2>2. Contents # << >>
      BY <1>0, <2>1
    <2> HIDE DEF S
    <2> QED BY <1>0, <2>1, <2>2
  <1>5. ASSUME NEW i \in 1..Len(Tail(Contents)) PROVE Contents'[i] = Tail(Contents)[i]
    <2>1. i \in 1..(count - 1) /\ i + 1 \in 1..count /\ (i + 1) - 1 = i /\ i \in 1..count'
      BY <1>0, <1>4
    <2>2. Contents'[i] = buf'[At(head, i)] /\ Contents[i + 1] = buf[At(head, i)]
      BY <1>1, <1>3, <2>1
    <2> QED BY <1>0, <1>2, <1>3, <1>4, <2>1, <2>2
  <1>6. Contents'[Len(Tail(Contents)) + 1] = e
    <2>1. Len(Tail(Contents)) + 1 = count /\ count \in 1..count' /\ At(head', count - 1) = head
      BY <1>0, <1>4, AtSucc
    <2> QED BY <1>0, <1>1, <1>2, <2>1
  <1>7. Len(Contents') = Len(Tail(Contents)) + 1 /\ e \in S
    BY <1>0, <1>1, <1>4
  <1>8. Contents' \in Seq(S) /\ Tail(Contents) \in Seq(S)
    BY <1>1, <1>4
  <1> HIDE DEF S
  <1>9. Contents' = Append(Tail(Contents), e)
    BY <1>5, <1>6, <1>7, <1>8, IsAppend
  <1> QED BY <1>4, <1>9


\* Steps that leave the array and the histories alone leave q alone.
LEMMA StutterStep ==
    ASSUME UNCHANGED <<ring, policy, closed, ghost>>
    PROVE  UNCHANGED Abs!qvars
  BY DEF ring, ghost, Abs!qvars, Contents

LEMMA RefineInit == Init => Abs!QInit
  <1> SUFFICES ASSUME Init PROVE Abs!QInit
    OBVIOUS
  <1>1. Contents = << >>
    BY DEF Init, Contents
  <1> QED BY <1>1 DEF Init, Abs!QInit

\* Every step of the ring buffer is a step of the abstract queue or none.
LEMMA RefineNext == RingInv /\ RingInv' /\ [Next]_vars => [Abs!QNext]_(Abs!qvars)
  <1> SUFFICES ASSUME RingInv, RingInv', [Next]_vars
               PROVE  Abs!QNext \/ UNCHANGED Abs!qvars
    OBVIOUS
  <1> USE RingAssumption
  <1>a. TypeOK /\ RingConsistent /\ BlockedHasEvent /\ TypeOK'
    BY DEF RingInv
  <1>b. Contents \in Seq(Event \cup {NoEvent}) /\ Len(Contents) = count
    BY <1>a, ContentsAt
  <1>c. \A p \in Producers : Calling(p) \/ Rechecking(p) => sent[p] < MaxSeq
    BY <1>a DEF Calling, Rechecking, BlockedHasEvent
  <1>d. \A p \in Producers : Abs!NextEvent(p) = NextEvent(p)
    BY DEF Abs!NextEvent, NextEvent
  <1>p. UNCHANGED policy
    BY DEF Next, vars
  <1>0. CASE UNCHANGED vars
    BY <1>0, StutterStep DEF vars
  <1>1. ASSUME NEW p \in Producers, EnqueueClosed(p) PROVE Abs!PutClosed(p)
    <2>1. UNCHANGED Contents
      BY <1>1 DEF EnqueueClosed, ring, Contents
    <2> QED BY <1>1, <1>c, <2>1 DEF EnqueueClosed, Returns, Abs!PutClosed, Abs!Offer
  <1>2. ASSUME NEW p \in Producers, EnqueuePush(p) PROVE Abs!Put(p)
    <2>1. /\ Push(NextEvent(p)) /\ count < Capacity /\ count' = count + 1
          /\ head' = head /\ ~closed /\ sent[p] < MaxSeq
          /\ sent' = [sent EXCEPT ![p] = @ + 1]
          /\ UNCHANGED <<closed, out, dropped>>
      BY <1>2, <1>c DEF EnqueuePush, Returns
    <2>2. NextEvent(p) \in Event
      BY <1>a, <2>1, NextEventType
    <2>3. Contents' = Append(Contents, NextEvent(p))
      BY <1>a, <2>1, <2>2, PushContents
    <2> QED BY <1>b, <1>d, <2>1, <2>3 DEF Abs!Put, Abs!Offer
  <1>3. ASSUME NEW p \in Producers, EnqueueDropNewest(p) PROVE Abs!PutReject(p)
    <2>1. UNCHANGED Contents
      BY <1>3 DEF EnqueueDropNewest, ring, Contents
    <2> QED BY <1>3, <1>b, <1>c, <2>1
            DEF EnqueueDropNewest, Returns, Abs!PutReject, Abs!Offer
  <1>4. ASSUME NEW p \in Producers, EnqueueBlock(p) PROVE UNCHANGED Abs!qvars
    BY <1>4, <1>p, StutterStep DEF EnqueueBlock
  <1>5. ASSUME NEW p \in Producers, EnqueueDropOldest(p) PROVE Abs!PutEvict(p)
    <2>1. /\ Push(NextEvent(p)) /\ count = Capacity /\ count' = count
          /\ head' = Succ(head) /\ ~closed /\ sent[p] < MaxSeq
          /\ sent' = [sent EXCEPT ![p] = @ + 1] /\ policy = "drop_oldest"
          /\ dropped' = dropped + 1
          /\ UNCHANGED <<closed, out>>
      BY <1>5, <1>c DEF EnqueueDropOldest, Returns
    <2>2. NextEvent(p) \in Event
      BY <1>a, <2>1, NextEventType
    <2>3. Contents' = Append(Tail(Contents), NextEvent(p))
      BY <1>a, <2>1, <2>2, EvictContents
    <2> QED BY <1>b, <1>d, <2>1, <2>3 DEF Abs!PutEvict, Abs!Offer
  <1>6. ASSUME NEW p \in Producers, RecordOverflow(p) PROVE UNCHANGED Abs!qvars
    BY <1>6, <1>p, StutterStep DEF RecordOverflow
  <1>7. ASSUME NEW c \in Consumers, DequeueTake(c) PROVE Abs!Get
    <2>1. /\ count > 0 /\ buf' = [buf EXCEPT ![head] = NoEvent]
          /\ head' = Succ(head) /\ count' = count - 1
          /\ out' = Append(out, buf[head])
          /\ UNCHANGED <<closed, sent, dropped>>
      BY <1>7 DEF DequeueTake
    <2>2. /\ Contents # << >> /\ Head(Contents) = buf[head]
          /\ Contents' = Tail(Contents)
      BY <1>a, <2>1, TakeContents
    <2> QED BY <2>1, <2>2 DEF Abs!Get
  <1>8. ASSUME NEW c \in Consumers,
               DequeueWait(c) \/ DequeueFail(c) \/ Watcher(c) \/ CancelCtx(c)
        PROVE  UNCHANGED Abs!qvars
    BY <1>8, <1>p, StutterStep DEF DequeueWait, DequeueFail, Watcher, WatcherFire,
                             WatcherExit, CancelCtx
  <1>9. ASSUME Close PROVE Abs!QClose
    <2>1. UNCHANGED Contents
      BY <1>9 DEF Close, ring, Contents
    <2> QED BY <1>9, <2>1 DEF Close, ghost, Abs!QClose
  <1> QED
    BY <1>p, <1>0, <1>1, <1>2, <1>3, <1>4, <1>5, <1>6, <1>7, <1>8, <1>9
       DEF Next, Enqueue, Dequeue, Abs!QNext

(***************************************************************************)
(* The ring buffer implements the abstract bounded queue, for every        *)
(* capacity, policy and number of goroutines: whatever the interleaving of *)
(* Enqueue, Dequeue, watchers and Close, the array behaves as a FIFO that  *)
(* loses events only as the overflow policy says.                          *)
(***************************************************************************)
THEOREM RingImplementsQueue == Spec => ImplementsQueue
  BY RefineInit, RefineNext, RingInvAlways, PTL
     DEF Spec, ImplementsQueue, Abs!QSpec

----------------------------------------------------------------------------
\* Per-connection order, on the history of the abstract queue.

Ordered(h) == \A i, j \in 1..Len(h) :
                  i < j /\ h[i].conn = h[j].conn => h[i].seq < h[j].seq

LEMMA OrderedAppend ==
    ASSUME NEW S, NEW h \in Seq(S), NEW e \in S, Ordered(h),
           \A i \in 1..Len(h) : h[i].conn = e.conn => h[i].seq < e.seq
    PROVE  Ordered(Append(h, e))
  <1>1. /\ Len(Append(h, e)) = Len(h) + 1 /\ Append(h, e)[Len(h) + 1] = e
        /\ \A i \in 1..Len(h) : Append(h, e)[i] = h[i]
    OBVIOUS
  <1> QED BY <1>1 DEF Ordered

\* Dropping the first element of t from s \o t.
LEMMA OrderedDrop ==
    ASSUME NEW S, NEW s \in Seq(S), NEW t \in Seq(S), t # << >>, Ordered(s \o t)
    PROVE  /\ Ordered(s \o Tail(t))
           /\ \A i \in 1..Len(s \o Tail(t)) :
                  \E k \in 1..Len(s \o t) : (s \o Tail(t))[i] = (s \o t)[k]
  <1> DEFINE u == s \o Tail(t)
             v == s \o t
             f(i) == IF i <= Len(s) THEN i ELSE i + 1
  <1>1. /\ Tail(t) \in Seq(S) /\ Len(Tail(t)) = Len(t) - 1
        /\ \A i \in 1..(Len(t) - 1) : Tail(t)[i] = t[i + 1]
    OBVIOUS
  <1>2. /\ Len(u) = Len(s) + Len(t) - 1 /\ Len(v) = Len(s) + Len(t)
        /\ Len(s) \in Nat /\ Len(t) \in Nat
    BY <1>1
  <1>3. ASSUME NEW i \in 1..Len(u) PROVE f(i) \in 1..Len(v) /\ u[i] = v[f(i)]
    <2>1. CASE i <= Len(s)
      BY <2>1, <1>1, <1>2
    <2>2. CASE ~(i <= Len(s))
      <3>1. u[i] = Tail(t)[i - Len(s)] /\ i - Len(s) \in 1..(Len(t) - 1)
        BY <2>2, <1>1, <1>2
      <3>2. v[i + 1] = t[(i + 1) - Len(s)]
        BY <2>2, <1>2
      <3> QED BY <2>2, <3>1, <3>2, <1>1, <1>2
    <2> QED BY <2>1, <2>2
  <1>4. \A i, j \in 1..Len(u) : i < j => f(i) < f(j)
    BY <1>2
  <1> HIDE DEF u, v, f
  <1>5. Ordered(u)
    BY <1>3, <1>4 DEF Ordered, v
  <1> QED BY <1>3, <1>5 DEF u, v

LEMMA ConcatAppend ==
    ASSUME NEW S, NEW s \in Seq(S), NEW t \in Seq(S), NEW e \in S
    PROVE  s \o Append(t, e) = Append(s \o t, e)
  <1>1. s \o Append(t, e) \in Seq(S) /\ Append(s \o t, e) \in Seq(S)
    OBVIOUS
  <1>2. Len(s \o Append(t, e)) = Len(Append(s \o t, e))
    OBVIOUS
  <1>3. \A i \in 1..Len(s \o Append(t, e)) :
            (s \o Append(t, e))[i] = Append(s \o t, e)[i]
    OBVIOUS
  <1> QED BY <1>1, <1>2, <1>3

LEMMA MoveHead ==
    ASSUME NEW S, NEW s \in Seq(S), NEW t \in Seq(S), t # << >>
    PROVE  Append(s, Head(t)) \o Tail(t) = s \o t
  <1> DEFINE u == Append(s, Head(t)) \o Tail(t)
  <1>1. /\ Head(t) \in S /\ Tail(t) \in Seq(S) /\ Len(Tail(t)) = Len(t) - 1
        /\ \A i \in 1..(Len(t) - 1) : Tail(t)[i] = t[i + 1]
        /\ Head(t) = t[1]
    OBVIOUS
  <1>2. /\ Append(s, Head(t)) \in Seq(S) /\ Len(Append(s, Head(t))) = Len(s) + 1
        /\ \A i \in 1..Len(s) : Append(s, Head(t))[i] = s[i]
        /\ Append(s, Head(t))[Len(s) + 1] = t[1]
    BY <1>1
  <1>3. u \in Seq(S) /\ Len(u) = Len(s) + Len(t) /\ Len(s \o t) = Len(s) + Len(t)
        /\ s \o t \in Seq(S)
    BY <1>1, <1>2
  <1>4. ASSUME NEW i \in 1..Len(u) PROVE u[i] = (s \o t)[i]
    <2>1. CASE i <= Len(s) + 1
      BY <2>1, <1>1, <1>2, <1>3
    <2>2. CASE i > Len(s) + 1
      <3>1. u[i] = Tail(t)[i - (Len(s) + 1)]
        BY <2>2, <1>1, <1>2, <1>3
      <3>2. (s \o t)[i] = t[i - Len(s)]
        BY <2>2, <1>3
      <3> QED BY <2>2, <3>1, <3>2, <1>1, <1>3
    <2> QED BY <2>1, <2>2, <1>3
  <1> DEFINE v == s \o t
  <1>5. /\ u \in Seq(S) /\ v \in Seq(S) /\ Len(u) = Len(v)
        /\ \A i \in 1..Len(u) : u[i] = v[i]
    BY <1>3, <1>4
  <1> HIDE DEF u, v
  <1>6. u = v
    BY <1>5
  <1> QED BY <1>6 DEF u, v

\* What makes the order inductive: no event in the history is newer than the
\* last one its connection offered.
OrderInv ==
    LET h == out \o Contents
    IN  /\ Ordered(h)
        /\ \A i \in 1..Len(h) : h[i] \in Event /\ h[i].seq <= sent[h[i].conn]

\* Appending a newer event of its connection keeps both parts.
LEMMA GrowHistory ==
    ASSUME NEW h \in Seq(Event), NEW e \in Event, NEW last, Ordered(h),
           \A i \in 1..Len(h) : /\ h[i].seq <= last[h[i].conn]
                                /\ (h[i].conn = e.conn => h[i].seq < e.seq),
           e.seq <= last[e.conn]
    PROVE  /\ Ordered(Append(h, e))
           /\ \A i \in 1..Len(Append(h, e)) :
                  /\ Append(h, e)[i] \in Event
                  /\ Append(h, e)[i].seq <= last[Append(h, e)[i].conn]
  <1>1. Ordered(Append(h, e))
    BY OrderedAppend
  <1>2. /\ Len(Append(h, e)) = Len(h) + 1 /\ Append(h, e)[Len(h) + 1] = e
        /\ \A i \in 1..Len(h) : Append(h, e)[i] = h[i] /\ h[i] \in Event
    OBVIOUS
  <1> QED BY <1>1, <1>2

LEMMA OrderInit == Init => OrderInv
  <1> SUFFICES ASSUME Init PROVE OrderInv
    OBVIOUS
  <1>1. Contents = << >> /\ out = << >>
    BY DEF Init, Contents
  <1>2. Len(out \o Contents) = 0
    BY <1>1
  <1> QED BY <1>2 DEF OrderInv, Ordered

LEMMA OrderNext ==
    RingInv /\ RingInv' /\ OrderInv /\ [Next]_vars => OrderInv'
  <1> SUFFICES ASSUME RingInv, RingInv', OrderInv, [Next]_vars PROVE OrderInv'
    OBVIOUS
  <1> DEFINE h == out \o Contents
  <1>a. Abs!QNext \/ UNCHANGED Abs!qvars
    BY RefineNext
  <1>b. /\ TypeOK /\ RingConsistent /\ out \in Seq(Event)
        /\ sent \in [Producers -> 0..MaxSeq] /\ MaxSeq \in Nat
    BY RingAssumption DEF RingInv, TypeOK
  <1>c. Contents \in Seq(Event)
    BY <1>b, ContentsAt, ContentsEvents
  <1>d. /\ h \in Seq(Event) /\ Ordered(h)
        /\ \A i \in 1..Len(h) : h[i] \in Event /\ h[i].seq <= sent[h[i].conn]
    BY <1>b, <1>c DEF OrderInv
  <1>e. \A p \in Producers : Abs!Offer(p) =>
            /\ Abs!NextEvent(p) \in Event
            /\ Abs!NextEvent(p).conn = p /\ Abs!NextEvent(p).seq = sent[p] + 1
            /\ sent' = [sent EXCEPT ![p] = @ + 1]
    BY <1>b DEF Abs!Offer, Abs!NextEvent, Event
  \* A sequence of known events is bounded by sent, hence by sent'.
  <1>f. ASSUME NEW p \in Producers, Abs!Offer(p), NEW e \in Event,
               e.seq <= sent[e.conn]
        PROVE  /\ e.seq <= sent'[e.conn]
               /\ (e.conn = Abs!NextEvent(p).conn => e.seq < Abs!NextEvent(p).seq)
    <2>1. e.conn \in Producers /\ e.seq \in Nat
      BY <1>b DEF Event
    <2> QED BY <1>b, <1>e, <1>f, <2>1
  <1>0. CASE UNCHANGED Abs!qvars
    BY <1>0 DEF Abs!qvars, OrderInv
  <1>1. ASSUME NEW p \in Producers, Abs!Put(p) PROVE OrderInv'
    <2> DEFINE e == Abs!NextEvent(p)
    <2>1. Abs!Offer(p) /\ Contents' = Append(Contents, e) /\ out' = out
      BY <1>1 DEF Abs!Put
    <2>2. out' \o Contents' = Append(h, e) /\ e \in Event
      BY <2>1, <1>b, <1>c, <1>e, ConcatAppend
    <2>3. /\ \A i \in 1..Len(h) : /\ h[i].seq <= sent'[h[i].conn]
                                  /\ (h[i].conn = e.conn => h[i].seq < e.seq)
          /\ e.seq <= sent'[e.conn]
      <3> HIDE DEF h
      <3>1. e.seq <= sent'[e.conn]
        BY <2>1, <1>b, <1>e
      <3>2. \A i \in 1..Len(h) : /\ h[i].seq <= sent'[h[i].conn]
                                 /\ (h[i].conn = e.conn => h[i].seq < e.seq)
        BY <2>1, <1>d, <1>f
      <3> QED BY <3>1, <3>2
    <2> HIDE DEF h, e
    <2>4. /\ Ordered(Append(h, e))
          /\ \A i \in 1..Len(Append(h, e)) :
                 /\ Append(h, e)[i] \in Event
                 /\ Append(h, e)[i].seq <= sent'[Append(h, e)[i].conn]
      BY <2>2, <2>3, <1>d, GrowHistory
    <2> QED BY <2>2, <2>4 DEF OrderInv
  <1>2. ASSUME NEW p \in Producers, Abs!PutEvict(p) PROVE OrderInv'
    <2> DEFINE e == Abs!NextEvent(p)
               g == out \o Tail(Contents)
    <2>1. /\ Abs!Offer(p) /\ Contents' = Append(Tail(Contents), e) /\ out' = out
          /\ Contents # << >>
      BY <1>2, <1>c, RingAssumption DEF Abs!PutEvict
    <2>2. Tail(Contents) \in Seq(Event) /\ g \in Seq(Event) /\ e \in Event
      BY <2>1, <1>b, <1>c, <1>e
    <2>3. out' \o Contents' = Append(g, e)
      BY <2>1, <2>2, <1>b, ConcatAppend
    <2>4. /\ Ordered(g)
          /\ \A i \in 1..Len(g) : \E k \in 1..Len(h) : g[i] = h[k]
      <3>1. Ordered(out \o Contents)
        BY <1>d
      <3>2. Contents # << >> /\ out \in Seq(Event) /\ Contents \in Seq(Event)
        BY <2>1, <1>b, <1>c
      <3> QED BY <3>1, <3>2, OrderedDrop
    <2> HIDE DEF h, g
    <2>5. \A i \in 1..Len(g) : g[i] \in Event /\ g[i].seq <= sent[g[i].conn]
      BY <2>4, <1>d
    <2>6. /\ \A i \in 1..Len(g) : /\ g[i].seq <= sent'[g[i].conn]
                                  /\ (g[i].conn = e.conn => g[i].seq < e.seq)
          /\ e.seq <= sent'[e.conn]
      BY <2>1, <2>5, <1>b, <1>e, <1>f
    <2> HIDE DEF e
    <2>7. /\ Ordered(Append(g, e))
          /\ \A i \in 1..Len(Append(g, e)) :
                 /\ Append(g, e)[i] \in Event
                 /\ Append(g, e)[i].seq <= sent'[Append(g, e)[i].conn]
      BY <2>2, <2>4, <2>6, GrowHistory
    <2> QED BY <2>3, <2>7 DEF OrderInv
  <1>3. ASSUME NEW p \in Producers, Abs!PutReject(p) \/ Abs!PutClosed(p)
        PROVE  OrderInv'
    <2>1. Abs!Offer(p) /\ out' \o Contents' = h
      BY <1>3 DEF Abs!PutReject, Abs!PutClosed
    <2> HIDE DEF h
    <2>2. \A i \in 1..Len(h) : h[i].seq <= sent'[h[i].conn]
      BY <2>1, <1>d, <1>f
    <2> QED BY <2>1, <2>2, <1>d DEF OrderInv
  <1>4. ASSUME Abs!Get PROVE OrderInv'
    <2>1. /\ Contents # << >> /\ out' = Append(out, Head(Contents))
          /\ Contents' = Tail(Contents) /\ sent' = sent
      BY <1>4 DEF Abs!Get
    <2>2. out' \o Contents' = h
      BY <2>1, <1>b, <1>c, MoveHead
    <2> HIDE DEF h
    <2> QED BY <2>1, <2>2, <1>d DEF OrderInv
  <1>5. ASSUME Abs!QClose PROVE OrderInv'
    BY <1>5 DEF Abs!QClose, OrderInv
  <1> QED BY <1>a, <1>0, <1>1, <1>2, <1>3, <1>4, <1>5 DEF Abs!QNext

(***************************************************************************)
(* Per-connection order (R6.6) for every capacity, policy and number of    *)
(* goroutines: events of one connection are buffered and delivered in the  *)
(* order they were offered, never swapped and never repeated, even when    *)
(* drop_oldest evicts under the consumer's feet.                           *)
(***************************************************************************)
THEOREM RingKeepsOrder == Spec => []PerConnOrder
  <1>1. OrderInv => PerConnOrder
    BY DEF OrderInv, Ordered, PerConnOrder, Abs!PerConnOrder, Abs!History
  <1> QED BY <1>1, OrderInit, OrderNext, RingInvAlways, PTL DEF Spec

----------------------------------------------------------------------------
\* Lost wake-ups.  With one producer and one consumer, the deployment of
\* cmd/pgshadow, at most one of the two sleeps at a time, so a Signal always
\* reaches the goroutine it is meant for.
Asleep(x) == pc[x] = "waiting"

SleepInv ==
    /\ closed => \A x \in Procs : ~Asleep(x)
    /\ \A c \in Consumers : Asleep(c) => count = 0
    /\ \A p \in Producers : Asleep(p) => count = Capacity

\* A Signal with exactly one sleeper wakes that one.
LEMMA SignalWakesSole ==
    ASSUME TypeOK, NotifyListExact, NEW x \in Procs, NEW y \in Procs, x # y,
           NEW next \in {"idle", "overflow"},
           SignalThen(x, next), ~Asleep(x),
           \A z \in Procs : Asleep(z) => z = y
    PROVE  \A z \in Procs : ~(Asleep(z))'
  <1> USE DEF Asleep
  <1>1. CASE waiters = << >>
    <2>1. pc' = [pc EXCEPT ![x] = next]
      BY <1>1 DEF SignalThen
    <2>2. \A z \in Procs : pc[z] # "waiting"
      BY <1>1 DEF NotifyListExact
    <2> QED BY <2>1, <2>2 DEF TypeOK
  <1>2. CASE waiters # << >>
    <2>1. /\ pc' = [pc EXCEPT ![x] = next, ![Head(waiters)] = "woken"]
          /\ Head(waiters) \in Procs /\ Head(waiters) = waiters[1] /\ 1 \in 1..Len(waiters)
      BY <1>2 DEF SignalThen, TypeOK
    <2>2. Head(waiters) = y
      BY <2>1 DEF NotifyListExact
    <2> QED BY <2>1, <2>2 DEF TypeOK
  <1> QED BY <1>1, <1>2

LEMMA BroadcastWakesAll ==
    ASSUME Broadcast
    PROVE  \A z \in Procs : ~(Asleep(z))'
  BY DEF Broadcast, Asleep

LEMMA SleepNext ==
    ASSUME NEW P, NEW C, Producers = {P}, Consumers = {C},
           RingInv, SleepInv, [Next]_vars
    PROVE  SleepInv'
  <1> USE RingAssumption
  <1>a. /\ TypeOK /\ NotifyListExact /\ P \in Procs /\ C \in Procs /\ P # C
        /\ Procs = {P, C} /\ P \in Producers /\ C \in Consumers
        /\ count \in 0..Capacity /\ Capacity \in Nat \ {0}
    BY DEF RingInv, TypeOK, Procs
  <1>0. CASE UNCHANGED vars
    BY <1>0 DEF vars, ring, SleepInv, Asleep
  <1>1. CASE EnqueuePush(P) \/ EnqueueDropOldest(P)
    <2>1. ~Asleep(P) /\ ~closed /\ closed' = closed
      BY <1>1 DEF EnqueuePush, EnqueueDropOldest, Calling, Rechecking, Asleep
    <2>2. PICK next \in {"idle", "overflow"} : SignalThen(P, next)
      BY <1>1 DEF EnqueuePush, EnqueueDropOldest
    <2>3. \A z \in Procs : ~(Asleep(z))'
      BY <1>a, <2>1, <2>2, SignalWakesSole
    <2> QED BY <1>a, <2>1, <2>3 DEF SleepInv
  <1>2. CASE DequeueTake(C)
    <2>1. ~Asleep(C) /\ SignalThen(C, "idle") /\ closed' = closed
      BY <1>2 DEF DequeueTake, Running, Asleep
    <2>2. \A z \in Procs : ~(Asleep(z))'
      BY <1>a, <2>1, SignalWakesSole
    <2> QED BY <1>a, <2>2 DEF SleepInv
  <1>3. CASE EnqueueBlock(P)
    <2>1. /\ ~closed /\ count = Capacity /\ pc' = [pc EXCEPT ![P] = "waiting"]
          /\ UNCHANGED <<closed, count>>
      BY <1>3 DEF EnqueueBlock, Wait, ring
    <2> QED BY <1>a, <2>1 DEF SleepInv, Asleep, TypeOK
  <1>4. CASE DequeueWait(C)
    <2>1. /\ ~closed /\ count = 0 /\ pc' = [pc EXCEPT ![C] = "waiting"]
          /\ UNCHANGED <<closed, count>>
      BY <1>4 DEF DequeueWait, Wait, ring
    <2> QED BY <1>a, <2>1 DEF SleepInv, Asleep, TypeOK
  <1>5. CASE Close \/ WatcherFire(C)
    <2>1. \A z \in Procs : ~(Asleep(z))'
      BY <1>5, BroadcastWakesAll DEF Close, WatcherFire
    <2> QED BY <1>a, <2>1 DEF SleepInv
  <1>6. CASE EnqueueClosed(P) \/ EnqueueDropNewest(P) \/ RecordOverflow(P)
    <2>1. /\ UNCHANGED <<closed, count>>
          /\ \/ pc' = [pc EXCEPT ![P] = "idle"]
             \/ pc' = [pc EXCEPT ![P] = "overflow"]
      BY <1>6 DEF EnqueueClosed, EnqueueDropNewest, RecordOverflow, ring
    <2> QED BY <1>a, <2>1 DEF SleepInv, Asleep, TypeOK
  <1>7. CASE DequeueFail(C) \/ WatcherExit(C) \/ CancelCtx(C)
    <2>1. /\ UNCHANGED <<closed, count>>
          /\ pc' = [pc EXCEPT ![C] = "stopped"] \/ pc' = pc
      BY <1>7 DEF DequeueFail, WatcherExit, CancelCtx, ring
    <2> QED BY <1>a, <2>1 DEF SleepInv, Asleep, TypeOK
  <1> QED
    BY <1>0, <1>1, <1>2, <1>3, <1>4, <1>5, <1>6, <1>7, <1>a
       DEF Next, Enqueue, Dequeue, Watcher

(***************************************************************************)
(* No wake-up is lost with one producer and one consumer, whatever the     *)
(* capacity and the policy: neither side sleeps while it could run.  (With *)
(* two producers and Block it is false: the run ring_two_producers.)       *)
(***************************************************************************)
THEOREM NoLostWakeupSingle ==
    ASSUME NEW P, NEW C, Producers = {P}, Consumers = {C}
    PROVE  Spec => []NoLostWakeup
  <1>1. Init => SleepInv
    BY DEF Init, SleepInv, Asleep, Procs
  <1>2. RingInv /\ SleepInv /\ [Next]_vars => SleepInv'
    BY SleepNext
  <1>3. RingInv /\ SleepInv => NoLostWakeup
    BY RingAssumption DEF RingInv, TypeOK, SleepInv, Asleep, NoLostWakeup, Procs
  <1> QED BY <1>1, <1>2, <1>3, RingInvAlways, PTL DEF Spec


\* Under the drop policies producers never sleep, and a woken consumer that
\* takes an event passes the signal on.
DropSleepInv ==
    /\ \A p \in Producers : pc[p] \notin {"waiting", "woken"}
    /\ (\E c \in Consumers : Asleep(c)) /\ count > 0 /\ ~closed
          => \E d \in Procs : pc[d] = "woken"

\* A Signal leaves somebody woken, or nobody asleep.
LEMMA SignalProgress ==
    ASSUME TypeOK, NotifyListExact, NEW x \in Procs, ~Asleep(x),
           NEW next \in {"idle", "overflow"}, SignalThen(x, next)
    PROVE  \/ \E y \in Procs : pc[y] = "waiting" /\ pc'[y] = "woken"
           \/ \A y \in Procs : ~(Asleep(y))'
  <1> USE DEF Asleep
  <1>1. CASE waiters = << >>
    <2>1. pc' = [pc EXCEPT ![x] = next]
      BY <1>1 DEF SignalThen
    <2>2. \A z \in Procs : pc[z] # "waiting"
      BY <1>1 DEF NotifyListExact
    <2> QED BY <2>1, <2>2 DEF TypeOK
  <1>2. CASE waiters # << >>
    <2>1. /\ pc' = [pc EXCEPT ![x] = next, ![Head(waiters)] = "woken"]
          /\ Head(waiters) \in Procs /\ Head(waiters) = waiters[1] /\ 1 \in 1..Len(waiters)
      BY <1>2 DEF SignalThen, TypeOK
    <2>2. pc[Head(waiters)] = "waiting"
      BY <2>1 DEF NotifyListExact
    <2> QED BY <2>1, <2>2 DEF TypeOK
  <1> QED BY <1>1, <1>2

LEMMA DropSleepNext ==
    ASSUME "block" \notin Policies, RingInv, DropSleepInv, [Next]_vars
    PROVE  DropSleepInv'
  <1> USE RingAssumption
  <1>a. /\ TypeOK /\ NotifyListExact /\ count \in 0..Capacity
        /\ \A p \in Producers : p \in Procs /\ p \notin Consumers
        /\ \A c \in Consumers : c \in Procs /\ c \notin Producers
    BY DEF RingInv, TypeOK, Procs
  <1>b. \A p \in Producers : pc[p] \notin {"waiting", "woken"}
    BY DEF DropSleepInv
  <1>0. CASE UNCHANGED vars
    BY <1>0 DEF vars, ring, DropSleepInv, Asleep
  \* Signalling steps.
  <1>1. ASSUME NEW x \in Procs, NEW next \in {"idle", "overflow"}, ~Asleep(x),
               SignalThen(x, next)
        PROVE  DropSleepInv'
    <2>1. \A y \in Procs : pc'[y] \in {"waiting", "woken"} => pc[y] \in {"waiting", "woken"}
      BY <1>a, <1>1, SignalStep DEF Asleep
    <2>2. \A p \in Producers : pc'[p] \notin {"waiting", "woken"}
      BY <1>a, <1>b, <2>1
    <2>3. \/ \E y \in Procs : pc'[y] = "woken"
          \/ \A y \in Procs : ~(Asleep(y))'
      BY <1>a, <1>1, SignalProgress
    <2> QED BY <1>a, <2>2, <2>3 DEF DropSleepInv
  <1>2. ASSUME NEW p \in Producers, EnqueuePush(p) \/ EnqueueDropOldest(p)
        PROVE  DropSleepInv'
    <2>1. PICK next \in {"idle", "overflow"} : SignalThen(p, next)
      BY <1>2 DEF EnqueuePush, EnqueueDropOldest
    <2> QED BY <1>1, <1>a, <1>b, <2>1 DEF Asleep
  <1>3. ASSUME NEW c \in Consumers, DequeueTake(c) PROVE DropSleepInv'
    BY <1>1, <1>3, <1>a DEF DequeueTake, Running, Asleep
  <1>4. ASSUME NEW p \in Producers,
               EnqueueClosed(p) \/ EnqueueDropNewest(p) \/ RecordOverflow(p)
        PROVE  DropSleepInv'
    <2>1. /\ UNCHANGED <<closed, count>>
          /\ \/ pc' = [pc EXCEPT ![p] = "idle"]
             \/ pc' = [pc EXCEPT ![p] = "overflow"]
      BY <1>4 DEF EnqueueClosed, EnqueueDropNewest, RecordOverflow, ring
    <2>2. \A y \in Procs : y # p => pc'[y] = pc[y]
      BY <1>a, <2>1 DEF TypeOK
    <2>3. pc'[p] \notin {"waiting", "woken"}
      BY <1>a, <2>1 DEF TypeOK
    <2> QED BY <1>a, <1>b, <2>1, <2>2, <2>3 DEF DropSleepInv, Asleep
  <1>5. ASSUME NEW p \in Producers, EnqueueBlock(p) PROVE FALSE
    BY <1>5, <1>a DEF EnqueueBlock, TypeOK
  <1>6. ASSUME NEW c \in Consumers, DequeueWait(c) \/ DequeueFail(c)
        PROVE  DropSleepInv'
    <2>1. /\ count = 0 /\ count' = count
          /\ pc' = [pc EXCEPT ![c] = "waiting"] \/ pc' = [pc EXCEPT ![c] = "stopped"]
      BY <1>6 DEF DequeueWait, DequeueFail, Wait, ring
    <2> QED BY <1>a, <1>b, <2>1 DEF DropSleepInv, TypeOK
  <1>7. ASSUME NEW c \in Consumers, WatcherExit(c) \/ CancelCtx(c)
        PROVE  DropSleepInv'
    BY <1>7 DEF WatcherExit, CancelCtx, ring, DropSleepInv, Asleep
  <1>8. ASSUME Broadcast PROVE DropSleepInv'
    <2>1. \A y \in Procs : ~(Asleep(y))'
      BY <1>8, BroadcastWakesAll
    <2>2. \A p \in Producers : pc'[p] = pc[p]
      BY <1>8, <1>a, <1>b DEF Broadcast
    <2> QED BY <1>a, <1>b, <2>1, <2>2 DEF DropSleepInv
  <1>9. ASSUME NEW c \in Consumers, WatcherFire(c) PROVE DropSleepInv'
    BY <1>8, <1>9 DEF WatcherFire
  <1>10. ASSUME Close PROVE DropSleepInv'
    BY <1>8, <1>10 DEF Close
  <1> QED
    BY <1>0, <1>2, <1>3, <1>4, <1>5, <1>6, <1>7, <1>9, <1>10
       DEF Next, Enqueue, Dequeue, Watcher

(***************************************************************************)
(* No wake-up is lost under drop_oldest and drop_newest, for any number of *)
(* producers and consumers: the shared condition variable is harmless as   *)
(* long as only consumers wait on it.                                      *)
(***************************************************************************)
THEOREM NoLostWakeupDrop ==
    ASSUME "block" \notin Policies
    PROVE  Spec => []NoLostWakeup
  <1>1. Init => DropSleepInv
    BY DEF Init, DropSleepInv, Asleep, Procs
  <1>2. RingInv /\ DropSleepInv /\ [Next]_vars => DropSleepInv'
    BY DropSleepNext
  <1>3. DropSleepInv => NoLostWakeup
    BY DEF DropSleepInv, Asleep, NoLostWakeup, Procs
  <1> QED BY <1>1, <1>2, <1>3, RingInvAlways, PTL DEF Spec

----------------------------------------------------------------------------
\* The producers between releasing the mutex and recordOverflow.
Overflowing == {p \in Producers : pc[p] = "overflow"}

OverflowInv == overflow + Cardinality(Overflowing) = dropped

\* A set that gains, loses or keeps one member: what the counter must do.
LEMMA OneMore ==
    ASSUME NEW S, IsFiniteSet(S), NEW x, x \notin S
    PROVE  /\ Cardinality(S) \in Nat
           /\ Cardinality(S \cup {x}) = Cardinality(S) + 1
  BY FS_AddElement, FS_CardinalityType

LEMMA OneLess ==
    ASSUME NEW S, IsFiniteSet(S), NEW x \in S
    PROVE  /\ Cardinality(S) \in Nat
           /\ Cardinality(S \ {x}) = Cardinality(S) - 1
  BY FS_RemoveElement, FS_CardinalityType

\* cond.Signal by x disturbs no caller of recordOverflow except x itself:
\* the goroutine it wakes was asleep.
LEMMA SignalOverflowing ==
    ASSUME RingInv, NEW x \in Procs, pc[x] \in {"idle", "woken"},
           NEW next \in {"idle", "overflow"}, SignalThen(x, next)
    PROVE  Overflowing' = IF next = "overflow" /\ x \in Producers
                          THEN Overflowing \cup {x} ELSE Overflowing
  <1>1. pc \in [Procs -> {"idle", "waiting", "woken", "overflow", "stopped"}]
        /\ waiters \in Seq(Procs) /\ Producers \subseteq Procs
    BY DEF RingInv, TypeOK, Procs
  <1>2. CASE waiters = << >>
    <2>1. pc' = [pc EXCEPT ![x] = next]
      BY <1>2 DEF SignalThen
    <2> QED BY <1>1, <2>1 DEF Overflowing
  <1>3. CASE waiters # << >>
    <2>1. pc' = [pc EXCEPT ![x] = next, ![Head(waiters)] = "woken"]
      BY <1>3 DEF SignalThen
    <2>2. Head(waiters) \in Procs /\ Head(waiters) = waiters[1] /\ 1 \in 1..Len(waiters)
      BY <1>1, <1>3
    <2>3. pc[Head(waiters)] = "waiting"
      BY <2>2 DEF RingInv, NotifyListExact
    <2>4. Head(waiters) # x
      BY <2>3
    <2>5. \A y \in Procs : pc'[y] = IF y = Head(waiters) THEN "woken"
                                    ELSE IF y = x THEN next ELSE pc[y]
      BY <1>1, <2>1, <2>2
    <2> QED BY <1>1, <2>2, <2>3, <2>4, <2>5 DEF Overflowing
  <1> QED BY <1>2, <1>3

LEMMA OverflowNext == RingInv /\ OverflowInv /\ [Next]_vars => OverflowInv'
  <1> SUFFICES ASSUME RingInv, OverflowInv, [Next]_vars
               PROVE  OverflowInv'
    OBVIOUS
  <1>t. /\ pc \in [Procs -> {"idle", "waiting", "woken", "overflow", "stopped"}]
        /\ overflow \in Nat /\ dropped \in Nat
        /\ Producers \subseteq Procs /\ Consumers \subseteq Procs
        /\ Producers \cap Consumers = {}
    BY RingAssumption DEF RingInv, TypeOK, Procs
  <1>f. IsFiniteSet(Overflowing) /\ Cardinality(Overflowing) \in Nat
    BY RingAssumption, FS_Subset, FS_CardinalityType DEF Overflowing
  \* The three ways a step may move the counter.
  <1>same. ASSUME Overflowing' = Overflowing, overflow' = overflow, dropped' = dropped
           PROVE  OverflowInv'
    BY <1>same DEF OverflowInv
  <1>more. ASSUME NEW p \in Producers, pc[p] # "overflow", Overflowing' = Overflowing \cup {p},
                  overflow' = overflow, dropped' = dropped + 1
           PROVE  OverflowInv'
    <2>1. p \notin Overflowing
      BY <1>more DEF Overflowing
    <2>2. Cardinality(Overflowing') = Cardinality(Overflowing) + 1
      BY <1>more, <1>f, <2>1, OneMore
    <2> QED BY <1>t, <1>f, <1>more, <2>2 DEF OverflowInv
  <1>less. ASSUME NEW p \in Producers, p \in Overflowing, Overflowing' = Overflowing \ {p},
                  overflow' = overflow + 1, dropped' = dropped
           PROVE  OverflowInv'
    <2>2. Cardinality(Overflowing') = Cardinality(Overflowing) - 1
      BY <1>less, <1>f, OneLess
    <2> QED BY <1>t, <1>f, <1>less, <2>2 DEF OverflowInv
  <1>1. ASSUME NEW p \in Producers, EnqueueClosed(p) PROVE OverflowInv'
    BY <1>1, <1>t, <1>same DEF EnqueueClosed, Calling, Rechecking, Overflowing
  <1>2. ASSUME NEW p \in Producers, EnqueuePush(p) PROVE OverflowInv'
    <2>1. pc[p] \in {"idle", "woken"} /\ SignalThen(p, "idle")
      BY <1>2 DEF EnqueuePush, Calling, Rechecking
    <2>2. Overflowing' = Overflowing
      BY <1>t, <2>1, SignalOverflowing
    <2> QED BY <1>2, <2>2, <1>same DEF EnqueuePush
  <1>3. ASSUME NEW p \in Producers, EnqueueDropNewest(p) PROVE OverflowInv'
    <2>1. pc[p] = "idle" /\ pc' = [pc EXCEPT ![p] = "overflow"]
      BY <1>3 DEF EnqueueDropNewest, Calling
    <2>2. Overflowing' = Overflowing \cup {p}
      BY <1>t, <2>1 DEF Overflowing
    <2> QED BY <1>3, <2>1, <2>2, <1>more DEF EnqueueDropNewest
  <1>4. ASSUME NEW p \in Producers, EnqueueBlock(p) PROVE OverflowInv'
    BY <1>4, <1>t, <1>same DEF EnqueueBlock, Wait, Calling, Rechecking, Overflowing, ghost
  <1>5. ASSUME NEW p \in Producers, EnqueueDropOldest(p) PROVE OverflowInv'
    <2>1. pc[p] = "idle" /\ SignalThen(p, "overflow")
      BY <1>5 DEF EnqueueDropOldest, Calling
    <2>2. Overflowing' = Overflowing \cup {p}
      BY <1>t, <2>1, SignalOverflowing
    <2> QED BY <1>5, <2>1, <2>2, <1>more DEF EnqueueDropOldest
  <1>6. ASSUME NEW p \in Producers, RecordOverflow(p) PROVE OverflowInv'
    <2>1. p \in Overflowing /\ Overflowing' = Overflowing \ {p}
      BY <1>6, <1>t DEF RecordOverflow, Overflowing
    <2> QED BY <1>6, <2>1, <1>less DEF RecordOverflow, ghost
  <1>7. ASSUME NEW c \in Consumers, DequeueTake(c) PROVE OverflowInv'
    <2>1. pc[c] \in {"idle", "woken"} /\ SignalThen(c, "idle")
      BY <1>7 DEF DequeueTake, Running
    <2>2. Overflowing' = Overflowing
      BY <1>t, <2>1, SignalOverflowing
    <2> QED BY <1>7, <2>2, <1>same DEF DequeueTake
  <1>8. ASSUME NEW c \in Consumers, DequeueWait(c) \/ DequeueFail(c) PROVE OverflowInv'
    BY <1>8, <1>t, <1>same DEF DequeueWait, DequeueFail, Wait, Overflowing, ghost
  <1>9. ASSUME Broadcast, UNCHANGED <<overflow, dropped>> PROVE OverflowInv'
    <2>1. Overflowing' = Overflowing
      BY <1>9, <1>t DEF Broadcast, Overflowing
    <2> QED BY <1>9, <2>1, <1>same
  <1>10. ASSUME UNCHANGED <<pc, overflow, dropped>> PROVE OverflowInv'
    BY <1>10, <1>same DEF Overflowing
  <1>11. ASSUME NEW c \in Consumers, Watcher(c) \/ CancelCtx(c) PROVE OverflowInv'
    BY <1>11, <1>9, <1>10 DEF Watcher, WatcherFire, WatcherExit, CancelCtx, ghost
  <1>12. CASE Close
    BY <1>12, <1>9 DEF Close, ghost
  <1>13. CASE UNCHANGED vars
    BY <1>13, <1>10 DEF vars, ghost
  <1> QED
    BY <1>1, <1>2, <1>3, <1>4, <1>5, <1>6, <1>7, <1>8, <1>11, <1>12, <1>13
    DEF Next, Enqueue, Dequeue

(***************************************************************************)
(* Every discard is counted exactly once, for any number of producers: no  *)
(* interleaving of drops, wake-ups and recordOverflow calls, which run     *)
(* outside the mutex, loses or repeats an increment.                       *)
(***************************************************************************)
THEOREM RingOverflowCounted == Spec => []OverflowCounted
  <1>1. Init => OverflowInv
    <2> SUFFICES ASSUME Init PROVE OverflowInv
      OBVIOUS
    <2>1. Overflowing = {} /\ overflow = 0 /\ dropped = 0
      BY DEF Init, Overflowing, Procs
    <2> QED BY <2>1, FS_EmptySet DEF OverflowInv
  <1>2. OverflowInv => OverflowCounted
    BY DEF OverflowInv, OverflowCounted, Overflowing
  <1> QED BY <1>1, <1>2, OverflowNext, RingInvAlways, PTL DEF Spec
=============================================================================
