-------------------------- MODULE FileQueueProofs --------------------------
(***************************************************************************)
(* Theorems about FileQueue for every capacity, policy, number of          *)
(* goroutines, of events and of disk failures.  FileInv is the part of the *)
(* inductive invariant that needs no further assumption.  The rest needs   *)
(* OneBlockProducer: with two producers blocked at a time the payloads in  *)
(* q.encodeBuf overwrite each other (the run file_shared_buffer), so that  *)
(* what is read back is not what was offered.                              *)
(***************************************************************************)
EXTENDS FileQueue, FiniteSetTheorems, SequenceTheorems, TLAPS

OneBlockProducer == \A p, r \in BlockProducers : p = r

Blocked(p) == pc[p] \in {"waiting", "woken"}

\* A goroutine inside Enqueue still has its event to offer.
BlockedHasEvent == \A p \in Producers : Blocked(p) => sent[p] < MaxSeq

\* The file is used no more once it is released.
ReleasedIsEmpty == file = "released" => closed /\ count = 0

FileInv == TypeOK /\ CursorsAgree /\ BlockedHasEvent /\ ReleasedIsEmpty

\* Only a blocked producer's payload lies in the shared buffer, and it is there
\* unharmed.
PayloadsKept ==
    /\ \A p \in Producers : Blocked(p) => /\ policy = "block" /\ p \in BlockProducers
                                          /\ payload[p] = NextEvent(p)
    /\ \A p \in inBuf : Blocked(p)

\* What was written is what was offered.
NoGarbage == \A i \in 1..Len(wal) : wal[i] # Garbage

\* The disk has failed before the cursor leaves the record boundaries, before a
\* consumer is sent away, and before a drained file is left behind.
FaultsExplain == /\ skewed => faults > 0
                 /\ early => faults > 0
                 /\ closed /\ count = 0 /\ faults = 0 => file = "released"

\* Order of what was delivered and of what is still to be read.
InOrder ==
    /\ \A i \in 1..Len(out) : out[i].seq <= sent[out[i].conn]
    /\ \A j \in readOff + 1..Len(wal) : wal[j].seq <= sent[wal[j].conn]
    /\ \A i, j \in 1..Len(out) :
           i < j /\ out[i].conn = out[j].conn => out[i].seq < out[j].seq
    /\ \A i, j \in readOff + 1..Len(wal) :
           i < j /\ wal[i].conn = wal[j].conn => wal[i].seq < wal[j].seq
    /\ \A i \in 1..Len(out), j \in readOff + 1..Len(wal) :
           out[i].conn = wal[j].conn => out[i].seq < wal[j].seq

OneInv == FileInv /\ PayloadsKept /\ NoGarbage /\ FaultsExplain /\ InOrder

----------------------------------------------------------------------------
\* What the building blocks do to the log.

LEMMA AppendToEmpty ==
    ASSUME NEW S, NEW ev \in S, NEW w, w = Append(<< >>, ev)
    PROVE  w \in Seq(S) /\ Len(w) = 1 /\ w[1] = ev
  <1>1. w = <<ev>>
    OBVIOUS
  <1> QED BY <1>1

LEMMA PutLog ==
    ASSUME NEW ev, LogBecomes(Written(Log, ev))
    PROVE  /\ wal' = Append(wal, ev) /\ readOff' = readOff /\ skewed' = skewed
           /\ count' = count + 1 /\ file' = file
  BY DEF LogBecomes, Written, Log

LEMMA EvictLog ==
    ASSUME ~closed, count \in Nat \ {0}, LogBecomes(Evicted)
    PROVE  /\ count' = count - 1 /\ file' = file
           /\ count = 1 => wal' = << >> /\ readOff' = 0 /\ skewed' = FALSE
           /\ count # 1 => /\ wal' = wal /\ skewed' = skewed
                           /\ readOff' = IF skewed THEN readOff ELSE readOff + 1
  <1>1. CASE count = 1
    <2>1. Evicted = [wal |-> << >>, readOff |-> 0, skewed |-> FALSE, count |-> 0, file |-> file]
      BY <1>1 DEF Evicted, Compacted
    <2> QED BY <1>1, <2>1 DEF LogBecomes
  <1>2. CASE count # 1
    <2>1. Evicted = [wal |-> wal, readOff |-> IF skewed THEN readOff ELSE readOff + 1,
                     skewed |-> skewed, count |-> count - 1, file |-> file]
      BY <1>2 DEF Evicted, Compacted
    <2> QED BY <1>2, <2>1 DEF LogBecomes
  <1> QED BY <1>1, <1>2

LEMMA EvictPutLog ==
    ASSUME ~closed, count \in Nat \ {0}, NEW ev, LogBecomes(Written(Evicted, ev))
    PROVE  /\ count' = count /\ file' = file
           /\ count = 1 => wal' = Append(<< >>, ev) /\ readOff' = 0 /\ skewed' = FALSE
           /\ count # 1 => /\ wal' = Append(wal, ev) /\ skewed' = skewed
                           /\ readOff' = IF skewed THEN readOff ELSE readOff + 1
  <1>1. CASE count = 1
    <2>1. Evicted = [wal |-> << >>, readOff |-> 0, skewed |-> FALSE, count |-> 0, file |-> file]
      BY <1>1 DEF Evicted, Compacted
    <2> QED BY <1>1, <2>1 DEF LogBecomes, Written
  <1>2. CASE count # 1
    <2>1. Evicted = [wal |-> wal, readOff |-> IF skewed THEN readOff ELSE readOff + 1,
                     skewed |-> skewed, count |-> count - 1, file |-> file]
      BY <1>2 DEF Evicted, Compacted
    <2> QED BY <1>2, <2>1 DEF LogBecomes, Written
  <1> QED BY <1>1, <1>2

LEMMA TakeLog ==
    ASSUME count \in Nat, NEW k \in Nat, k < count,
           LogBecomes(Compacted(count - k - 1, wal, readOff + k + 1, FALSE))
    PROVE  /\ count' = count - k - 1
           /\ skewed' = FALSE
           /\ count' = 0 /\ ~closed => wal' = << >> /\ readOff' = 0
           /\ count' # 0 \/ closed => wal' = wal /\ readOff' = readOff + k + 1
           /\ file' = IF count' = 0 /\ closed THEN "released" ELSE file
  BY DEF LogBecomes, Compacted

\* No more records are corrupt than there are.
LEMMA CorruptType ==
    ASSUME NEW n \in Nat
    PROVE  Corrupt(n) \in Nat /\ Corrupt(n) <= n
  <1> DEFINE C == {i \in 1..n : wal[readOff + i] = Garbage}
  <1>1. IsFiniteSet(1..n) /\ Cardinality(1..n) = n
    BY FS_Interval
  <1>2. C \in SUBSET (1..n)
    OBVIOUS
  <1>3. IsFiniteSet(C) /\ Cardinality(C) <= n
    BY <1>1, <1>2, FS_Subset
  <1>4. Cardinality(C) \in Nat
    BY <1>3, FS_CardinalityType
  <1> QED BY <1>3, <1>4 DEF Corrupt

LEMMA NoneCorrupt ==
    ASSUME TypeOK, NoGarbage, NEW n \in Nat, readOff + n <= Len(wal)
    PROVE  Corrupt(n) = 0
  <1>1. readOff \in Nat /\ Len(wal) \in Nat
    BY DEF TypeOK
  <1>2. {i \in 1..n : wal[readOff + i] = Garbage} = {}
    BY <1>1 DEF NoGarbage
  <1> QED BY <1>2, FS_EmptySet DEF Corrupt

LEMMA NextEventType ==
    ASSUME TypeOK, NEW p \in Producers, sent[p] < MaxSeq
    PROVE  NextEvent(p) \in Event
  BY FileQueueAssumption DEF TypeOK, NextEvent, Event

LEMMA EncodeType ==
    ASSUME TypeOK, NEW p \in Producers, sent[p] < MaxSeq, NEW w \in BOOLEAN, Encode(p, w)
    PROVE  payload' \in [Producers -> Event \union {Garbage}] /\ inBuf' \subseteq Producers
  <1>1. NextEvent(p) \in Event
    BY NextEventType
  <1>2. payload \in [Producers -> Event \union {Garbage}] /\ inBuf \subseteq Producers
    BY DEF TypeOK
  <1>3. PICK reuse \in BOOLEAN, g \in {NextEvent(p), Garbage} :
            /\ payload' = [v \in Producers |-> IF w /\ v = p THEN NextEvent(p)
                                               ELSE IF reuse /\ v \in inBuf THEN g ELSE payload[v]]
            /\ inBuf' = (IF reuse THEN inBuf ELSE {}) \union (IF w THEN {p} ELSE {})
    BY DEF Encode
  <1>4. g \in Event \union {Garbage}
    BY <1>1
  <1>5. payload' \in [Producers -> Event \union {Garbage}]
    BY <1>1, <1>2, <1>3, <1>4
  <1>6. inBuf' \subseteq Producers
    BY <1>2, <1>3
  <1> QED BY <1>5, <1>6

----------------------------------------------------------------------------
\* The part without assumptions.

LEMMA FileInit == Init => FileInv
  <1> SUFFICES ASSUME Init PROVE FileInv
    OBVIOUS
  <1> USE FileQueueAssumption DEF Init
  <1>1. TypeOK
    <2>1. closed \in BOOLEAN /\ skewed \in BOOLEAN /\ early \in BOOLEAN
      BY Zenon
    <2>2. pc \in [Procs -> {"idle", "waiting", "woken", "ended"}]
      OBVIOUS
    <2>3. payload \in [Producers -> Event \union {Garbage}]
      OBVIOUS
    <2>4. sent \in [Producers -> 0..MaxSeq]
      OBVIOUS
    <2>5. wal \in Seq(Event \union {Garbage}) /\ Len(wal) = 0 /\ out \in Seq(Event)
      OBVIOUS
    <2> QED BY <2>1, <2>2, <2>3, <2>4, <2>5 DEF TypeOK
  <1>2. CursorsAgree
    BY DEF CursorsAgree
  <1>3. BlockedHasEvent
    BY DEF BlockedHasEvent, Blocked, Procs
  <1>4. ReleasedIsEmpty
    BY DEF ReleasedIsEmpty
  <1> QED BY <1>1, <1>2, <1>3, <1>4 DEF FileInv

\* The log's part of FileInv.
LogOK == /\ skewed \in BOOLEAN
         /\ wal \in Seq(Event \union {Garbage}) /\ readOff \in 0..Len(wal)
         /\ count \in 0..Capacity /\ file \in {"open", "released"}
         /\ CursorsAgree /\ ReleasedIsEmpty

\* The rest.
RestOK == /\ policy \in Policies /\ closed \in BOOLEAN
          /\ pc \in [Procs -> {"idle", "waiting", "woken", "ended"}]
          /\ payload \in [Producers -> Event \union {Garbage}] /\ inBuf \subseteq Producers
          /\ watching \subseteq Consumers /\ cancelled \subseteq Consumers
          /\ sent \in [Producers -> 0..MaxSeq] /\ out \in Seq(Event)
          /\ {dropped, overflow, offered, refused} \subseteq Nat
          /\ faults \in 0..MaxFaults /\ early \in BOOLEAN
          /\ BlockedHasEvent

LEMMA FileInvParts == /\ FileInv <=> LogOK /\ RestOK
                      /\ FileInv' <=> LogOK' /\ RestOK'
  <1>1. FileInv <=> LogOK /\ RestOK
    BY DEF FileInv, TypeOK, LogOK, RestOK
  <1>2. FileInv' <=> LogOK' /\ RestOK'
    BY DEF FileInv, TypeOK, LogOK, RestOK
  <1> QED BY <1>1, <1>2

LEMMA KeepLogOK ==
    ASSUME LogOK, UNCHANGED log, closed' = closed PROVE LogOK'
  BY DEF LogOK, log, CursorsAgree, ReleasedIsEmpty

LEMMA PutLogOK ==
    ASSUME LogOK, ~closed, closed' = closed, count < Capacity,
           NEW ev \in Event \union {Garbage}, LogBecomes(Written(Log, ev))
    PROVE  LogOK'
  <1>1. /\ wal' = Append(wal, ev) /\ readOff' = readOff /\ skewed' = skewed
        /\ count' = count + 1 /\ file' = file
    BY PutLog
  <1>2. /\ wal \in Seq(Event \union {Garbage}) /\ readOff \in 0..Len(wal)
        /\ count \in 0..Capacity /\ file \in {"open", "released"} /\ Capacity \in Nat
    BY FileQueueAssumption DEF LogOK
  <1>3. wal' \in Seq(Event \union {Garbage}) /\ Len(wal') = Len(wal) + 1
    BY <1>1, <1>2
  <1>4. readOff' \in 0..Len(wal') /\ count' \in 0..Capacity
    BY <1>1, <1>2, <1>3
  <1>5. CursorsAgree' /\ ReleasedIsEmpty'
    BY <1>1, <1>2, <1>3 DEF LogOK, CursorsAgree, ReleasedIsEmpty
  <1> QED BY <1>1, <1>3, <1>4, <1>5 DEF LogOK

LEMMA EvictLogOK ==
    ASSUME LogOK, ~closed, closed' = closed, count = Capacity, LogBecomes(Evicted)
    PROVE  LogOK'
  <1>c. count \in Nat \ {0}
    BY FileQueueAssumption
  <1>1. /\ count' = count - 1 /\ file' = file
        /\ count = 1 => wal' = << >> /\ readOff' = 0 /\ skewed' = FALSE
        /\ count # 1 => /\ wal' = wal /\ skewed' = skewed
                        /\ readOff' = IF skewed THEN readOff ELSE readOff + 1
    BY <1>c, EvictLog
  <1>2. /\ wal \in Seq(Event \union {Garbage}) /\ readOff \in 0..Len(wal)
        /\ file \in {"open", "released"} /\ Capacity \in Nat
        /\ ~skewed => count = Len(wal) - readOff
        /\ file # "released"
    BY FileQueueAssumption DEF LogOK, CursorsAgree, ReleasedIsEmpty
  <1>3. skewed' \in BOOLEAN
    BY <1>1 DEF LogOK
  <1>4. wal' \in Seq(Event \union {Garbage}) /\ readOff' \in 0..Len(wal')
    <2>1. CASE count = 1
      BY <1>1, <2>1
    <2>2. CASE count # 1
      BY <1>c, <1>1, <1>2, <2>2
    <2> QED BY <2>1, <2>2
  <1>5. count' \in 0..Capacity
    BY <1>c, <1>1
  <1>6. CursorsAgree' /\ ReleasedIsEmpty'
    BY <1>c, <1>1, <1>2 DEF CursorsAgree, ReleasedIsEmpty
  <1> QED BY <1>1, <1>2, <1>3, <1>4, <1>5, <1>6 DEF LogOK

LEMMA EvictPutLogOK ==
    ASSUME LogOK, ~closed, closed' = closed, count = Capacity,
           NEW ev \in Event \union {Garbage}, LogBecomes(Written(Evicted, ev))
    PROVE  LogOK'
  <1>c. count \in Nat \ {0}
    BY FileQueueAssumption
  <1>1. /\ count' = count /\ file' = file
        /\ count = 1 => wal' = Append(<< >>, ev) /\ readOff' = 0 /\ skewed' = FALSE
        /\ count # 1 => /\ wal' = Append(wal, ev) /\ skewed' = skewed
                        /\ readOff' = IF skewed THEN readOff ELSE readOff + 1
    BY <1>c, EvictPutLog
  <1>2. /\ wal \in Seq(Event \union {Garbage}) /\ readOff \in 0..Len(wal)
        /\ file \in {"open", "released"} /\ Capacity \in Nat
        /\ ~skewed => count = Len(wal) - readOff
        /\ file # "released"
    BY FileQueueAssumption DEF LogOK, CursorsAgree, ReleasedIsEmpty
  <1>3. skewed' \in BOOLEAN
    BY <1>1 DEF LogOK
  <1>4. /\ wal' \in Seq(Event \union {Garbage})
        /\ Len(wal') = IF count = 1 THEN 1 ELSE Len(wal) + 1
    <2>1. CASE count = 1
      <3>1. wal' = Append(<< >>, ev)
        BY <1>1, <2>1
      <3> QED BY <2>1, <3>1, AppendToEmpty
    <2>2. CASE count # 1
      BY <1>1, <1>2, <2>2
    <2> QED BY <2>1, <2>2
  <1>5. count' \in 0..Capacity /\ readOff' \in 0..Len(wal')
    BY <1>c, <1>1, <1>2, <1>4
  <1>6. CursorsAgree' /\ ReleasedIsEmpty'
    BY <1>c, <1>1, <1>2, <1>4 DEF CursorsAgree, ReleasedIsEmpty
  <1> QED BY <1>1, <1>2, <1>3, <1>4, <1>5, <1>6 DEF LogOK

LEMMA TakeLogOK ==
    ASSUME LogOK, closed' = closed, ~skewed, NEW k \in Nat, k < count,
           LogBecomes(Compacted(count - k - 1, wal, readOff + k + 1, FALSE))
    PROVE  LogOK'
  <1>2. /\ wal \in Seq(Event \union {Garbage}) /\ readOff \in 0..Len(wal)
        /\ file \in {"open", "released"} /\ Capacity \in Nat /\ count \in 0..Capacity
        /\ count = Len(wal) - readOff
        /\ file # "released"
    BY FileQueueAssumption DEF LogOK, CursorsAgree, ReleasedIsEmpty
  <1>1. /\ count' = count - k - 1
        /\ skewed' = FALSE
        /\ count' = 0 /\ ~closed => wal' = << >> /\ readOff' = 0
        /\ count' # 0 \/ closed => wal' = wal /\ readOff' = readOff + k + 1
        /\ file' = IF count' = 0 /\ closed THEN "released" ELSE file
    <2>1. count \in Nat
      BY <1>2
    <2> QED BY <2>1, TakeLog
  <1>3. skewed' \in BOOLEAN /\ file' \in {"open", "released"}
    BY <1>1, <1>2
  <1>4. wal' \in Seq(Event \union {Garbage}) /\ readOff' \in 0..Len(wal')
    <2>1. CASE count' = 0 /\ ~closed
      <3>1. << >> \in Seq(Event \union {Garbage}) /\ Len(<< >>) = 0
        OBVIOUS
      <3>2. wal' = << >> /\ readOff' = 0
        BY <1>1, <2>1
      <3> QED BY <3>1, <3>2
    <2>2. CASE count' # 0 \/ closed
      BY <1>1, <1>2, <2>2
    <2> QED BY <2>1, <2>2
  <1>5. count' \in 0..Capacity
    BY <1>1, <1>2
  <1>6. CursorsAgree' /\ ReleasedIsEmpty'
    BY <1>1, <1>2 DEF CursorsAgree, ReleasedIsEmpty
  <1> QED BY <1>3, <1>4, <1>5, <1>6 DEF LogOK

LEMMA EnqueueLogOK ==
    ASSUME FileInv, NEW p \in Producers, Enqueue(p)
    PROVE  LogOK'
  <1>i. LogOK /\ BlockedHasEvent /\ TypeOK
    BY FileInvParts DEF FileInv
  <1>c. closed' = closed
    BY DEF Enqueue, EnqueueClosed, EnqueueWrite, EnqueueDropNewest, EnqueueBlock,
           EnqueueDropOldest, EnqueueWaitsOn, EnqueueGivesUp, EnqueueUnblocked, Enqueues, Resumes
  <1>1. CASE UNCHANGED log
    BY <1>i, <1>c, <1>1, KeepLogOK
  <1>2. CASE EnqueueWrite(p)
    <2>1. NextEvent(p) \in Event \union {Garbage}
      BY <1>i, <1>2, NextEventType DEF EnqueueWrite, Enqueues
    <2>2. CASE LogBecomes(Written(Log, NextEvent(p)))
      BY <1>i, <1>c, <1>2, <2>1, <2>2, PutLogOK DEF EnqueueWrite
    <2> QED BY <1>1, <1>2, <2>2 DEF EnqueueWrite
  <1>3. CASE EnqueueDropOldest(p)
    <2>1. NextEvent(p) \in Event \union {Garbage}
      BY <1>i, <1>3, NextEventType DEF EnqueueDropOldest, Enqueues
    <2>2. CASE LogBecomes(Written(Evicted, NextEvent(p)))
      BY <1>i, <1>c, <1>3, <2>1, <2>2, EvictPutLogOK DEF EnqueueDropOldest
    <2>3. CASE LogBecomes(Evicted)
      BY <1>i, <1>c, <1>3, <2>3, EvictLogOK DEF EnqueueDropOldest
    <2> QED BY <1>1, <1>3, <2>2, <2>3 DEF EnqueueDropOldest
  <1>4. CASE EnqueueUnblocked(p)
    <2>1. payload[p] \in Event \union {Garbage}
      BY <1>i DEF TypeOK
    <2>2. CASE LogBecomes(Written(Log, payload[p]))
      BY <1>i, <1>c, <1>4, <2>1, <2>2, PutLogOK DEF EnqueueUnblocked
    <2> QED BY <1>1, <1>4, <2>2 DEF EnqueueUnblocked
  <1> QED
    BY <1>1, <1>2, <1>3, <1>4
       DEF Enqueue, EnqueueClosed, EnqueueDropNewest, EnqueueBlock, EnqueueWaitsOn,
           EnqueueGivesUp

LEMMA DequeueLogOK ==
    ASSUME FileInv, NEW c \in Consumers, Dequeue(c)
    PROVE  LogOK'
  <1>i. LogOK
    BY FileInvParts
  <1>c. closed' = closed
    BY DEF Dequeue, DequeueWait, DequeueDone, DequeueSkipsAll, DequeueTake, Running
  <1>1. CASE DequeueWait(c) \/ DequeueDone(c)
    BY <1>i, <1>c, <1>1, KeepLogOK DEF DequeueWait, DequeueDone
  <1>2. ASSUME NEW k \in 0..Capacity, DequeueTake(c, k) PROVE LogOK'
    <2>1. k \in Nat /\ k < count
      BY <1>2, <1>i, FileQueueAssumption DEF DequeueTake, LogOK
    <2> QED BY <1>i, <1>c, <1>2, <2>1, TakeLogOK DEF DequeueTake
  <1>3. CASE DequeueSkipsAll(c)
    <2>1. /\ wal \in Seq(Event \union {Garbage}) /\ readOff \in 0..Len(wal)
          /\ file \in {"open", "released"} /\ Capacity \in Nat /\ count \in 0..Capacity
          /\ ~skewed => count = Len(wal) - readOff
          /\ count > 0 /\ file # "released" /\ skewed \in BOOLEAN
      BY <1>i, <1>3, FileQueueAssumption
         DEF LogOK, CursorsAgree, ReleasedIsEmpty, DequeueSkipsAll
    <2>2. wal' = wal /\ file' = file /\ count' = 0
      BY <1>3 DEF DequeueSkipsAll
    <2>3. \/ skewed /\ readOff' = readOff /\ skewed' = skewed
          \/ ~skewed /\ readOff' = readOff + count /\ skewed' = skewed
          \/ ~skewed /\ readOff' = readOff /\ skewed' = TRUE
      BY <1>3 DEF DequeueSkipsAll
    <2>4. skewed' \in BOOLEAN
      BY <2>1, <2>3, Zenon
    <2>5. readOff' \in 0..Len(wal') /\ count' \in 0..Capacity
      BY <2>1, <2>2, <2>3
    <2>6. CursorsAgree' /\ ReleasedIsEmpty'
      BY <2>1, <2>2, <2>3 DEF CursorsAgree, ReleasedIsEmpty
    <2> QED BY <2>1, <2>2, <2>4, <2>5, <2>6 DEF LogOK
  <1> QED BY <1>1, <1>2, <1>3 DEF Dequeue

\* The rest of FileInv.  Broadcast and Becomes block nobody but their argument.
LEMMA PcStep ==
    ASSUME pc \in [Procs -> {"idle", "waiting", "woken", "ended"}], NEW x \in Procs,
           NEW s \in {"idle", "waiting", "woken", "ended"}, Broadcast(x, s) \/ Becomes(x, s)
    PROVE  /\ pc' \in [Procs -> {"idle", "waiting", "woken", "ended"}]
           /\ pc'[x] = s
           /\ \A y \in Procs : y # x => (Blocked(y)' <=> Blocked(y))
  BY DEF Broadcast, Becomes, Blocked

LEMMA WakeAllStep ==
    ASSUME pc \in [Procs -> {"idle", "waiting", "woken", "ended"}],
           pc' = [y \in Procs |-> IF pc[y] = "waiting" THEN "woken" ELSE pc[y]]
    PROVE  /\ pc' \in [Procs -> {"idle", "waiting", "woken", "ended"}]
           /\ \A y \in Procs : Blocked(y)' <=> Blocked(y)
  BY DEF Blocked

LEMMA ProcsDisjoint == /\ \A p \in Producers : p \in Procs /\ p \notin Consumers
                       /\ \A c \in Consumers : c \in Procs /\ c \notin Producers
  BY FileQueueAssumption DEF Procs

\* What a call of Enqueue does apart from the log.
LEMMA EnqueueFacts ==
    ASSUME FileInv, NEW p \in Producers, Enqueue(p)
    PROVE  /\ UNCHANGED <<policy, closed, ctx, out, early>>
           /\ sent[p] < MaxSeq
           /\ pc' \in [Procs -> {"idle", "waiting", "woken", "ended"}]
           /\ \A y \in Procs : y # p => (Blocked(y)' <=> Blocked(y))
           /\ \/ sent' = [sent EXCEPT ![p] = @ + 1] /\ offered' = offered + 1 /\ ~Blocked(p)'
              \/ UNCHANGED <<sent, offered>>
           /\ payload' \in [Producers -> Event \union {Garbage}] /\ inBuf' \subseteq Producers
           /\ {dropped', overflow', refused'} \subseteq Nat
           /\ faults' \in 0..MaxFaults /\ faults' >= faults
  <1>t. /\ pc \in [Procs -> {"idle", "waiting", "woken", "ended"}]
        /\ payload \in [Producers -> Event \union {Garbage}] /\ inBuf \subseteq Producers
        /\ dropped \in Nat /\ overflow \in Nat /\ refused \in Nat
        /\ faults \in 0..MaxFaults /\ MaxFaults \in Nat
        /\ TypeOK
    BY FileQueueAssumption DEF FileInv, TypeOK
  <1>p. p \in Procs
    BY ProcsDisjoint
  <1> USE DEF EnqueueClosed, EnqueueWrite, EnqueueDropNewest, EnqueueBlock, EnqueueDropOldest,
              EnqueueWaitsOn, EnqueueGivesUp, EnqueueUnblocked
  <1>1. UNCHANGED <<policy, closed, ctx, out, early>>
    BY DEF Enqueue, Enqueues, Resumes
  <1>2. sent[p] < MaxSeq
    BY DEF Enqueue, Enqueues, Resumes, FileInv, BlockedHasEvent, Blocked
  <1>3. pc' = pc \/ \E s \in {"idle", "waiting"} : Broadcast(p, s) \/ Becomes(p, s)
    BY DEF Enqueue
  <1>4. /\ pc' \in [Procs -> {"idle", "waiting", "woken", "ended"}]
        /\ \A y \in Procs : y # p => (Blocked(y)' <=> Blocked(y))
    <2>1. CASE pc' = pc
      BY <1>t, <2>1 DEF Blocked
    <2>2. CASE pc' # pc
      BY <1>t, <1>p, <1>3, <2>2, PcStep
    <2> QED BY <2>1, <2>2
  <1>5. \/ Returned(p) /\ ((pc[p] = "idle" /\ pc' = pc) \/ Broadcast(p, "idle") \/ Becomes(p, "idle"))
        \/ UNCHANGED <<sent, offered>>
    BY DEF Enqueue, Enqueues
  <1>6. Broadcast(p, "idle") \/ Becomes(p, "idle") => pc'[p] = "idle"
    BY <1>t, <1>p DEF Broadcast, Becomes
  <1>7. \/ sent' = [sent EXCEPT ![p] = @ + 1] /\ offered' = offered + 1 /\ ~Blocked(p)'
        \/ UNCHANGED <<sent, offered>>
    BY <1>5, <1>6 DEF Returned, Blocked
  <1>8. payload' \in [Producers -> Event \union {Garbage}] /\ inBuf' \subseteq Producers
    <2>1. CASE \E w \in BOOLEAN : Encode(p, w)
      BY <1>t, <1>2, <2>1, EncodeType
    <2>2. CASE payload' = payload /\ (inBuf' = inBuf \/ inBuf' = inBuf \ {p})
      BY <1>t, <2>2
    <2> QED BY <2>1, <2>2 DEF Enqueue, buf, Resumes
  <1>9. {dropped', overflow', refused'} \subseteq Nat
    <2>1. \/ dropped' = dropped /\ overflow' = overflow /\ refused' = refused
          \/ dropped' = dropped /\ overflow' = overflow /\ refused' = refused + 1
          \/ dropped' = dropped + 1 /\ overflow' = overflow + 1 /\ refused' = refused
          \/ dropped' = dropped + 1 /\ overflow' = overflow /\ refused' = refused
      BY DEF Enqueue, Accepted, Dropped
    <2> QED BY <1>t, <2>1
  <1>10. faults' \in 0..MaxFaults /\ faults' >= faults
    <2>1. faults' = faults \/ Fails(1)
      BY DEF Enqueue, NoFault
    <2> QED BY <1>t, <2>1 DEF Fails
  <1> QED BY <1>1, <1>2, <1>4, <1>7, <1>8, <1>9, <1>10

LEMMA EnqueueRestOK ==
    ASSUME FileInv, NEW p \in Producers, Enqueue(p)
    PROVE  RestOK'
  <1>1. RestOK
    BY FileInvParts
  <1> DEFINE F == /\ UNCHANGED <<policy, closed, ctx, out, early>>
                  /\ sent[p] < MaxSeq
                  /\ pc' \in [Procs -> {"idle", "waiting", "woken", "ended"}]
                  /\ \A y \in Procs : y # p => (Blocked(y)' <=> Blocked(y))
                  /\ \/ sent' = [sent EXCEPT ![p] = @ + 1] /\ offered' = offered + 1 /\ ~Blocked(p)'
                     \/ UNCHANGED <<sent, offered>>
                  /\ payload' \in [Producers -> Event \union {Garbage}] /\ inBuf' \subseteq Producers
                  /\ {dropped', overflow', refused'} \subseteq Nat
                  /\ faults' \in 0..MaxFaults
  <1>2. F
    BY EnqueueFacts
  <1>3. sent' \in [Producers -> 0..MaxSeq] /\ offered' \in Nat
    <2>1. \/ sent' = [sent EXCEPT ![p] = @ + 1] /\ offered' = offered + 1
          \/ sent' = sent /\ offered' = offered
      BY <1>2
    <2>2. sent[p] < MaxSeq
      BY <1>2
    <2>3. sent \in [Producers -> 0..MaxSeq] /\ offered \in Nat /\ MaxSeq \in Nat
      BY <1>1, FileQueueAssumption DEF RestOK
    <2> QED BY <2>1, <2>2, <2>3
  <1>4. BlockedHasEvent'
    <2> SUFFICES ASSUME NEW r \in Producers, Blocked(r)' PROVE sent'[r] < MaxSeq
      BY DEF BlockedHasEvent
    <2>1. CASE r = p
      BY <1>2, <2>1
    <2>2. CASE r # p
      <3>1. Blocked(r)
        BY <1>2, <2>2, ProcsDisjoint
      <3>2. sent[r] < MaxSeq
        BY <1>1, <3>1 DEF RestOK, BlockedHasEvent
      <3> QED BY <1>1, <1>2, <2>2, <3>2 DEF RestOK
    <2> QED BY <2>1, <2>2
  <1>5. policy' \in Policies /\ closed' \in BOOLEAN /\ early' \in BOOLEAN
    BY <1>1, <1>2 DEF RestOK
  <1>6. watching' \subseteq Consumers /\ cancelled' \subseteq Consumers /\ out' \in Seq(Event)
    BY <1>1, <1>2 DEF RestOK, ctx
  <1> QED BY <1>2, <1>3, <1>4, <1>5, <1>6 DEF RestOK

LEMMA DequeueFacts ==
    ASSUME FileInv, NEW c \in Consumers, Dequeue(c)
    PROVE  /\ UNCHANGED <<policy, closed, buf, cancelled, sent, dropped, overflow, offered, refused>>
           /\ pc' \in [Procs -> {"idle", "waiting", "woken", "ended"}]
           /\ \A p \in Producers : Blocked(p)' <=> Blocked(p)
           /\ watching' \subseteq Consumers
           /\ out' \in Seq(Event)
           /\ faults' \in 0..MaxFaults /\ faults' >= faults
           /\ early' \in BOOLEAN
  <1>t. /\ pc \in [Procs -> {"idle", "waiting", "woken", "ended"}]
        /\ watching \subseteq Consumers /\ out \in Seq(Event)
        /\ wal \in Seq(Event \union {Garbage}) /\ readOff \in 0..Len(wal)
        /\ count \in 0..Capacity /\ Capacity \in Nat
        /\ faults \in 0..MaxFaults /\ MaxFaults \in Nat
    BY FileQueueAssumption DEF FileInv, TypeOK
  <1>p. c \in Procs /\ c \notin Producers
    BY ProcsDisjoint
  <1> USE DEF DequeueWait, DequeueDone, DequeueTake, DequeueSkipsAll
  <1>1. UNCHANGED <<policy, closed, buf, cancelled, sent, dropped, overflow, offered, refused>>
    BY DEF Dequeue, Running
  <1>2. \E s \in {"idle", "waiting", "ended"} : Broadcast(c, s) \/ Becomes(c, s)
    BY DEF Dequeue
  <1>3. /\ pc' \in [Procs -> {"idle", "waiting", "woken", "ended"}]
        /\ \A y \in Procs : y # c => (Blocked(y)' <=> Blocked(y))
    BY <1>t, <1>p, <1>2, PcStep
  <1>4. \A p \in Producers : Blocked(p)' <=> Blocked(p)
    BY <1>p, <1>3, ProcsDisjoint
  <1>5. watching' \subseteq Consumers
    BY <1>t DEF Dequeue, StopWatcher
  <1>6. /\ out' \in Seq(Event)
        /\ faults' \in 0..MaxFaults /\ faults' >= faults
    <2>1. CASE DequeueWait(c) \/ DequeueDone(c)
      BY <1>t, <2>1
    <2>2. ASSUME NEW k \in 0..Capacity, DequeueTake(c, k)
          PROVE  out' \in Seq(Event) /\ faults' \in 0..MaxFaults /\ faults' >= faults
      <3>1. k \in Nat /\ count > k /\ count = Len(wal) - readOff
        BY <2>2, <1>t DEF FileInv, CursorsAgree
      <3>2. readOff + k + 1 \in 1..Len(wal)
        BY <1>t, <3>1
      <3>3. wal[readOff + k + 1] \in Event
        BY <1>t, <2>2, <3>2
      <3>4. Corrupt(k) \in Nat /\ Corrupt(k) <= k
        BY <3>1, CorruptType
      <3>5. faults' = faults + (k - Corrupt(k)) /\ faults + (k - Corrupt(k)) <= MaxFaults
        BY <2>2 DEF Fails
      <3>6. out' = Append(out, wal[readOff + k + 1])
        BY <2>2
      <3>7. out' \in Seq(Event)
        BY <1>t, <3>3, <3>6
      <3> QED BY <1>t, <3>1, <3>4, <3>5, <3>7
    <2>3. CASE DequeueSkipsAll(c)
      <3>1. Corrupt(count) \in Nat /\ Corrupt(count) <= count
        BY <1>t, CorruptType
      <3>2. \/ faults' = faults
            \/ faults' = faults + (count - Corrupt(count)) /\ faults' <= MaxFaults
            \/ faults' = faults + 1 /\ faults' <= MaxFaults
        BY <2>3 DEF Fails, NoFault
      <3> QED BY <1>t, <2>3, <3>1, <3>2
    <2> QED BY <2>1, <2>2, <2>3 DEF Dequeue
  <1>7. early' \in BOOLEAN
    <2>1. early' = early \/ early' = (early \/ (~closed /\ c \notin cancelled))
      BY DEF Dequeue
    <2> QED BY <2>1, Zenon DEF FileInv, TypeOK
  <1> QED BY <1>1, <1>3, <1>4, <1>5, <1>6, <1>7

LEMMA DequeueRestOK ==
    ASSUME FileInv, NEW c \in Consumers, Dequeue(c)
    PROVE  RestOK'
  <1>1. RestOK
    BY FileInvParts
  <1>2. /\ UNCHANGED <<policy, closed, buf, cancelled, sent, dropped, overflow, offered, refused>>
        /\ pc' \in [Procs -> {"idle", "waiting", "woken", "ended"}]
        /\ \A p \in Producers : Blocked(p)' <=> Blocked(p)
        /\ watching' \subseteq Consumers
        /\ out' \in Seq(Event)
        /\ faults' \in 0..MaxFaults
        /\ early' \in BOOLEAN
    BY DequeueFacts
  <1>3. BlockedHasEvent'
    BY <1>1, <1>2 DEF RestOK, BlockedHasEvent
  <1>4. policy' \in Policies /\ closed' \in BOOLEAN
    BY <1>1, <1>2 DEF RestOK
  <1>5. /\ payload' \in [Producers -> Event \union {Garbage}] /\ inBuf' \subseteq Producers
        /\ cancelled' \subseteq Consumers /\ sent' \in [Producers -> 0..MaxSeq]
        /\ {dropped', overflow', offered', refused'} \subseteq Nat
    BY <1>1, <1>2 DEF RestOK, buf
  <1> QED BY <1>2, <1>3, <1>4, <1>5 DEF RestOK

LEMMA OtherFileOK ==
    ASSUME FileInv, (\E c \in Consumers : WatcherFires(c) \/ Cancel(c)) \/ Close
    PROVE  FileInv'
  <1>1. LogOK /\ RestOK
    BY FileInvParts
  <1>2. pc \in [Procs -> {"idle", "waiting", "woken", "ended"}]
    BY <1>1 DEF RestOK
  <1>3. /\ pc' \in [Procs -> {"idle", "waiting", "woken", "ended"}]
        /\ \A y \in Procs : Blocked(y)' <=> Blocked(y)
    <2>1. CASE pc' = pc
      BY <1>2, <2>1 DEF Blocked
    <2>2. CASE pc' = [y \in Procs |-> IF pc[y] = "waiting" THEN "woken" ELSE pc[y]]
      BY <1>2, <2>2, WakeAllStep
    <2> QED BY <2>1, <2>2 DEF WatcherFires, Cancel, Close
  <1>4. /\ UNCHANGED <<policy, buf, hist>>
        /\ watching' \subseteq Consumers /\ cancelled' \subseteq Consumers
    BY <1>1 DEF WatcherFires, Cancel, Close, RestOK, ctx
  <1>5. closed' \in BOOLEAN
    BY <1>1 DEF WatcherFires, Cancel, Close, RestOK
  <1>6. BlockedHasEvent'
    BY <1>1, <1>3, <1>4, ProcsDisjoint DEF RestOK, BlockedHasEvent, hist
  <1>7. policy' \in Policies /\ early' \in BOOLEAN
    BY <1>1, <1>4 DEF RestOK, hist
  <1>8. /\ payload' \in [Producers -> Event \union {Garbage}] /\ inBuf' \subseteq Producers
        /\ sent' \in [Producers -> 0..MaxSeq] /\ out' \in Seq(Event)
        /\ {dropped', overflow', offered', refused'} \subseteq Nat
        /\ faults' \in 0..MaxFaults
    BY <1>1, <1>4 DEF RestOK, buf, hist
  <1>9. RestOK'
    BY <1>3, <1>4, <1>5, <1>6, <1>7, <1>8 DEF RestOK
  <1>10. LogOK'
    <2>1. CASE UNCHANGED log /\ closed' = closed
      BY <1>1, <2>1, KeepLogOK
    <2>2. CASE Close
      BY <1>1, <2>2 DEF Close, LogOK, CursorsAgree, ReleasedIsEmpty
    <2> QED BY <2>1, <2>2 DEF WatcherFires, Cancel
  <1> QED BY <1>9, <1>10, FileInvParts

LEMMA FileNext == FileInv /\ [Next]_vars => FileInv'
  <1> SUFFICES ASSUME FileInv, [Next]_vars PROVE FileInv'
    OBVIOUS
  <1>1. ASSUME NEW p \in Producers, Enqueue(p) PROVE FileInv'
    BY <1>1, EnqueueLogOK, EnqueueRestOK, FileInvParts
  <1>2. ASSUME NEW c \in Consumers, Dequeue(c) PROVE FileInv'
    BY <1>2, DequeueLogOK, DequeueRestOK, FileInvParts
  <1>3. CASE (\E c \in Consumers : WatcherFires(c) \/ Cancel(c)) \/ Close
    BY <1>3, OtherFileOK
  <1>4. CASE UNCHANGED vars
    BY <1>4 DEF FileInv, TypeOK, CursorsAgree, BlockedHasEvent, Blocked, ReleasedIsEmpty, vars,
                log, buf, ctx, hist
  <1> QED BY <1>1, <1>2, <1>3, <1>4 DEF Next

LEMMA FileAlways == Spec => []FileInv
  BY FileInit, FileNext, PTL DEF Spec

(***************************************************************************)
(* Type correctness of the file queue, for every capacity, policy, number  *)
(* of goroutines and of disk failures: the cursor never passes the end of  *)
(* the log, the counter stays within the capacity, and what Dequeue hands  *)
(* out is always an event.                                                 *)
(***************************************************************************)
THEOREM FileTypeCorrect == Spec => []TypeOK
  <1>1. FileInv => TypeOK
    BY DEF FileInv
  <1> QED BY <1>1, FileAlways, PTL

----------------------------------------------------------------------------
\* The part that needs OneBlockProducer.

\* A producer that encodes an event finds the shared buffer free, and harms no
\* other payload.
LEMMA EncodeKeeps ==
    ASSUME OneBlockProducer, TypeOK, PayloadsKept, NEW p \in Callers, pc[p] = "idle",
           NEW w \in BOOLEAN, Encode(p, w)
    PROVE  /\ inBuf' = IF w THEN {p} ELSE {}
           /\ payload' = [v \in Producers |-> IF w /\ v = p THEN NextEvent(p) ELSE payload[v]]
  <1>1. inBuf = {}
    <2> SUFFICES ASSUME NEW r \in inBuf PROVE FALSE
      OBVIOUS
    <2>1. r \in Producers /\ Blocked(r)
      BY DEF PayloadsKept, TypeOK
    <2>2. policy = "block" /\ r \in BlockProducers
      BY <2>1 DEF PayloadsKept
    <2>3. r = p
      BY <2>2 DEF Callers, OneBlockProducer
    <2> QED BY <2>1, <2>3 DEF Blocked
  <1> QED BY <1>1 DEF Encode

LEMMA PayloadsStep ==
    ASSUME OneBlockProducer, FileInv, PayloadsKept, Next
    PROVE  PayloadsKept'
  <1>t. /\ TypeOK /\ pc \in [Procs -> {"idle", "waiting", "woken", "ended"}]
        /\ payload \in [Producers -> Event \union {Garbage}] /\ inBuf \subseteq Producers
        /\ sent \in [Producers -> 0..MaxSeq] /\ BlockProducers \subseteq Producers
    BY FileQueueAssumption DEF FileInv, TypeOK
  <1>1. ASSUME UNCHANGED <<policy, sent>>, UNCHANGED buf,
               \A p \in Producers : Blocked(p)' <=> Blocked(p)
        PROVE  PayloadsKept'
    BY <1>1, <1>t DEF PayloadsKept, NextEvent, buf
  <1>2. ASSUME NEW p \in Producers, Enqueue(p) PROVE PayloadsKept'
    <2>p. p \in Procs /\ policy' = policy /\ \A r \in Producers : r \in Procs
      BY <1>2, EnqueueFacts, ProcsDisjoint
    <2>o. \A y \in Producers : y # p => (Blocked(y)' <=> Blocked(y))
      BY <1>2, EnqueueFacts, ProcsDisjoint
    <2>1. CASE EnqueueBlock(p)
      <3>1. p \in Callers /\ pc[p] = "idle" /\ Encode(p, TRUE) /\ sent' = sent /\ policy = "block"
        BY <2>1 DEF EnqueueBlock, Enqueues
      <3>2. /\ inBuf' = {p}
            /\ payload' = [v \in Producers |-> IF v = p THEN NextEvent(p) ELSE payload[v]]
        BY <1>t, <3>1, EncodeKeeps
      <3>3. p \in BlockProducers
        BY <3>1 DEF Callers
      <3>4. Blocked(p)'
        BY <1>t, <2>1, <2>p DEF EnqueueBlock, Becomes, Blocked
      <3> QED BY <1>t, <2>p, <2>o, <3>1, <3>2, <3>3, <3>4 DEF PayloadsKept, NextEvent
    <2>2. CASE EnqueueWaitsOn(p)
      <3>1. Blocked(p)' /\ Blocked(p)
        BY <1>t, <2>2, <2>p DEF EnqueueWaitsOn, Resumes, Becomes, Blocked
      <3>2. UNCHANGED <<sent, payload, inBuf>>
        BY <2>2 DEF EnqueueWaitsOn, Resumes
      <3> QED BY <1>1, <2>p, <2>o, <3>1, <3>2 DEF buf
    <2>3. ASSUME ~Blocked(p)', \A r \in Producers : r # p => sent'[r] = sent[r],
                 \A r \in Producers : r # p => payload'[r] = payload[r],
                 inBuf' \subseteq inBuf \ {p}
          PROVE  PayloadsKept'
      BY <1>t, <2>p, <2>o, <2>3 DEF PayloadsKept, NextEvent
    <2>4. CASE EnqueueClosed(p)
      <3>1. pc' = pc /\ pc[p] = "idle" /\ buf' = buf /\ Returned(p)
        BY <2>4 DEF EnqueueClosed, Enqueues
      <3>2. p \notin inBuf
        BY <3>1 DEF PayloadsKept, Blocked
      <3> QED BY <1>t, <2>3, <3>1, <3>2 DEF Returned, Blocked, buf
    <2>5. CASE EnqueueWrite(p) \/ EnqueueDropNewest(p) \/ EnqueueDropOldest(p)
      <3>1. p \in Callers /\ pc[p] = "idle" /\ Encode(p, FALSE) /\ Returned(p)
        BY <2>5 DEF EnqueueWrite, EnqueueDropNewest, EnqueueDropOldest, Enqueues
      <3>2. inBuf' = {} /\ \A v \in Producers : payload'[v] = payload[v]
        BY <1>t, <3>1, EncodeKeeps
      <3>3. pc' = pc \/ Broadcast(p, "idle")
        BY <2>5 DEF EnqueueWrite, EnqueueDropNewest, EnqueueDropOldest
      <3>4. ~Blocked(p)'
        BY <1>t, <2>p, <3>1, <3>3 DEF Broadcast, Blocked
      <3> QED BY <1>t, <2>3, <3>1, <3>2, <3>4 DEF Returned
    <2>6. CASE EnqueueGivesUp(p) \/ EnqueueUnblocked(p)
      <3>1. payload' = payload /\ inBuf' = inBuf \ {p} /\ Returned(p)
        BY <2>6 DEF EnqueueGivesUp, EnqueueUnblocked, Resumes
      <3>2. Broadcast(p, "idle") \/ Becomes(p, "idle")
        BY <2>6 DEF EnqueueGivesUp, EnqueueUnblocked
      <3>3. ~Blocked(p)'
        BY <1>t, <2>p, <3>2 DEF Broadcast, Becomes, Blocked
      <3> QED BY <1>t, <2>3, <3>1, <3>3 DEF Returned
    <2> QED BY <1>2, <2>1, <2>2, <2>4, <2>5, <2>6 DEF Enqueue
  <1>3. ASSUME NEW c \in Consumers, Dequeue(c) PROVE PayloadsKept'
    BY <1>1, <1>3, DequeueFacts
  <1>4. CASE (\E c \in Consumers : WatcherFires(c) \/ Cancel(c)) \/ Close
    <2>1. UNCHANGED <<policy, sent>> /\ UNCHANGED buf
      BY <1>4 DEF WatcherFires, Cancel, Close, hist
    <2>2. \A p \in Producers : Blocked(p)' <=> Blocked(p)
      <3>1. CASE pc' = pc
        BY <3>1 DEF Blocked
      <3>2. CASE pc' = [y \in Procs |-> IF pc[y] = "waiting" THEN "woken" ELSE pc[y]]
        BY <1>t, <3>2, WakeAllStep, ProcsDisjoint
      <3> QED BY <1>4, <3>1, <3>2 DEF WatcherFires, Cancel, Close
    <2> QED BY <1>1, <2>1, <2>2
  <1> QED BY <1>2, <1>3, <1>4 DEF Next

\* What calls of Enqueue and Dequeue can come to, apart from who waits.
Kept == UNCHANGED <<log, faults>>
EnqueueOutcome(p) ==
    \/ Kept /\ UNCHANGED <<sent, offered, dropped, overflow, refused>>
    \/ closed /\ Kept /\ Returned(p) /\ refused' = refused + 1 /\ UNCHANGED <<dropped, overflow>>
    \/ /\ ~closed /\ count < Capacity
       /\ Returned(p) /\ LogBecomes(Written(Log, NextEvent(p))) /\ Accepted /\ NoFault
    \/ ~closed /\ Returned(p) /\ UNCHANGED log /\ Dropped(TRUE) /\ Fails(1)
    \/ /\ ~closed /\ count = Capacity /\ policy = "drop_newest"
       /\ Returned(p) /\ Kept /\ Dropped(TRUE)
    \/ /\ ~closed /\ count = Capacity /\ policy = "drop_oldest"
       /\ Returned(p) /\ LogBecomes(Written(Evicted, NextEvent(p))) /\ Dropped(TRUE) /\ NoFault
    \/ /\ ~closed /\ count = Capacity
       /\ Returned(p) /\ LogBecomes(Evicted) /\ Dropped(TRUE) /\ Fails(1)
    \/ ~closed /\ Returned(p) /\ UNCHANGED log /\ Dropped(FALSE) /\ (Fails(1) \/ (skewed /\ NoFault))

LEMMA EnqueueOutcomes ==
    ASSUME FileInv, PayloadsKept, NEW p \in Producers, Enqueue(p)
    PROVE  EnqueueOutcome(p)
  <1>1. CASE EnqueueClosed(p)
    BY <1>1 DEF EnqueueClosed, EnqueueOutcome, Kept
  <1>2. CASE EnqueueWrite(p)
    BY <1>2 DEF EnqueueWrite, EnqueueOutcome
  <1>3. CASE EnqueueDropNewest(p)
    BY <1>3 DEF EnqueueDropNewest, EnqueueOutcome, Kept
  <1>4. CASE EnqueueBlock(p) \/ EnqueueWaitsOn(p)
    BY <1>4 DEF EnqueueBlock, EnqueueWaitsOn, EnqueueOutcome, Kept
  <1>5. CASE EnqueueDropOldest(p)
    BY <1>5 DEF EnqueueDropOldest, EnqueueOutcome
  <1>6. CASE EnqueueGivesUp(p)
    BY <1>6 DEF EnqueueGivesUp, EnqueueOutcome, Kept
  <1>7. CASE EnqueueUnblocked(p)
    <2>1. payload[p] = NextEvent(p)
      BY <1>7 DEF EnqueueUnblocked, Resumes, PayloadsKept, Blocked
    <2> QED BY <1>7, <2>1 DEF EnqueueUnblocked, EnqueueOutcome
  <1> QED BY <1>1, <1>2, <1>3, <1>4, <1>5, <1>6, <1>7 DEF Enqueue

DequeueOutcome ==
    \/ Kept /\ UNCHANGED <<out, early>>
    \/ \E k \in Nat : /\ ~skewed /\ k < count /\ faults' = faults + k /\ early' = early
                      /\ out' = Append(out, wal[readOff + k + 1])
                      /\ LogBecomes(Compacted(count - k - 1, wal, readOff + k + 1, FALSE))
    \/ /\ count > 0 /\ count' = 0 /\ UNCHANGED <<wal, file, out>>
       /\ \/ skewed /\ UNCHANGED <<readOff, skewed, faults>>
          \/ ~skewed /\ readOff' = readOff + count /\ UNCHANGED skewed /\ faults' = faults + count
          \/ ~skewed /\ skewed' = TRUE /\ UNCHANGED readOff /\ faults' = faults + 1

LEMMA DequeueOutcomes ==
    ASSUME FileInv, NoGarbage, NEW c \in Consumers, Dequeue(c)
    PROVE  DequeueOutcome
  <1>t. /\ TypeOK /\ count \in Nat /\ readOff \in Nat /\ Len(wal) \in Nat /\ faults \in Nat
        /\ ~skewed => count = Len(wal) - readOff
    BY FileQueueAssumption DEF FileInv, TypeOK, CursorsAgree
  <1>1. CASE DequeueWait(c) \/ DequeueDone(c)
    BY <1>1 DEF DequeueWait, DequeueDone, DequeueOutcome, Kept
  <1>2. ASSUME NEW k \in 0..Capacity, DequeueTake(c, k) PROVE DequeueOutcome
    <2>1. k \in Nat /\ k < count /\ ~skewed
      BY <1>t, <1>2, FileQueueAssumption DEF DequeueTake
    <2>2. Corrupt(k) = 0
      BY <1>t, <2>1, NoneCorrupt
    <2>3. faults' = faults + k
      BY <1>t, <1>2, <2>1, <2>2 DEF DequeueTake, Fails
    <2> QED BY <1>2, <2>1, <2>3 DEF DequeueTake, DequeueOutcome
  <1>3. CASE DequeueSkipsAll(c)
    <2>1. ~skewed => Corrupt(count) = 0
      BY <1>t, NoneCorrupt
    <2>2. ~skewed /\ Fails(count - Corrupt(count)) => faults' = faults + count
      BY <1>t, <2>1 DEF Fails
    <2>3. Fails(1) => faults' = faults + 1
      BY DEF Fails
    <2>4. \/ skewed /\ UNCHANGED <<readOff, skewed, faults>>
          \/ ~skewed /\ readOff' = readOff + count /\ UNCHANGED skewed /\ faults' = faults + count
          \/ ~skewed /\ skewed' = TRUE /\ UNCHANGED readOff /\ faults' = faults + 1
      BY <1>3, <2>2, <2>3 DEF DequeueSkipsAll, NoFault
    <2> QED BY <1>3, <2>4 DEF DequeueSkipsAll, DequeueOutcome
  <1> QED BY <1>1, <1>2, <1>3 DEF Dequeue

\* The steps of neither: they leave the log and the histories alone, but that
\* Close releases an empty file.
LEMMA OtherOutcomes ==
    ASSUME (\E c \in Consumers : WatcherFires(c) \/ Cancel(c)) \/ Close
    PROVE  /\ UNCHANGED <<policy, wal, readOff, skewed, count, hist>>
           /\ \/ UNCHANGED <<closed, file>>
              \/ ~closed /\ closed' = TRUE /\ file' = IF count = 0 THEN "released" ELSE file
  BY DEF WatcherFires, Cancel, Close, log

LEMMA OfferedIsNoGarbage ==
    ASSUME FileInv, NEW p \in Producers, sent[p] < MaxSeq
    PROVE  NextEvent(p) \in Event /\ NextEvent(p) # Garbage
  <1>1. NextEvent(p) \in Event
    BY NextEventType DEF FileInv
  <1> QED BY <1>1, FileQueueAssumption

LEMMA NoGarbageStep ==
    ASSUME FileInv, PayloadsKept, NoGarbage, Next
    PROVE  NoGarbage'
  <1>t. wal \in Seq(Event \union {Garbage}) /\ count \in Nat
    BY FileQueueAssumption DEF FileInv, TypeOK
  <1>k. ASSUME wal' = wal \/ wal' = << >> PROVE NoGarbage'
    BY <1>k DEF NoGarbage
  <1>a. ASSUME NEW ev \in Event, ev # Garbage, wal' = Append(wal, ev) PROVE NoGarbage'
    <2>1. /\ Len(wal') = Len(wal) + 1 /\ Len(wal) \in Nat
          /\ \A i \in 1..Len(wal) : wal'[i] = wal[i]
          /\ wal'[Len(wal) + 1] = ev
      BY <1>t, <1>a
    <2> QED BY <1>a, <2>1 DEF NoGarbage
  <1>e. ASSUME NEW ev \in Event, ev # Garbage, wal' = Append(<< >>, ev) PROVE NoGarbage'
    <2>1. Len(wal') = 1 /\ wal'[1] = ev
      BY <1>e, AppendToEmpty
    <2> QED BY <1>e, <2>1 DEF NoGarbage
  <1>1. ASSUME NEW p \in Producers, Enqueue(p) PROVE NoGarbage'
    <2>1. EnqueueOutcome(p)
      BY <1>1, EnqueueOutcomes
    <2>2. NextEvent(p) \in Event /\ NextEvent(p) # Garbage
      BY <1>1, EnqueueFacts, OfferedIsNoGarbage
    <2>3. CASE LogBecomes(Written(Log, NextEvent(p)))
      BY <1>a, <2>2, <2>3, PutLog
    <2>4. CASE ~closed /\ count = Capacity /\ LogBecomes(Written(Evicted, NextEvent(p)))
      BY <1>a, <1>e, <2>2, <2>4, EvictPutLog, FileQueueAssumption
    <2>5. CASE ~closed /\ count = Capacity /\ LogBecomes(Evicted)
      BY <1>k, <2>5, EvictLog, FileQueueAssumption
    <2>6. CASE UNCHANGED log
      BY <1>k, <2>6 DEF log
    <2> QED BY <2>1, <2>3, <2>4, <2>5, <2>6 DEF EnqueueOutcome, Kept
  <1>2. ASSUME NEW c \in Consumers, Dequeue(c) PROVE NoGarbage'
    <2>1. CASE \E k \in Nat : /\ k < count
                              /\ LogBecomes(Compacted(count - k - 1, wal, readOff + k + 1, FALSE))
      BY <1>t, <1>k, <2>1, TakeLog
    <2>2. CASE wal' = wal
      BY <1>k, <2>2
    <2> QED BY <1>2, <2>1, <2>2, DequeueOutcomes DEF DequeueOutcome, Kept, log
  <1>3. CASE (\E c \in Consumers : WatcherFires(c) \/ Cancel(c)) \/ Close
    BY <1>3, <1>k, OtherOutcomes
  <1> QED BY <1>1, <1>2, <1>3 DEF Next

LEMMA FaultsStep ==
    ASSUME FileInv, PayloadsKept, NoGarbage, FaultsExplain, Next
    PROVE  FaultsExplain'
  <1>t. faults \in Nat /\ count \in Nat
    BY FileQueueAssumption DEF FileInv, TypeOK
  <1>1. ASSUME NEW p \in Producers, Enqueue(p) PROVE FaultsExplain'
    <2>1. closed' = closed /\ early' = early /\ faults' \in Nat /\ faults' >= faults
      BY <1>1, EnqueueFacts, FileQueueAssumption
    <2>2. CASE UNCHANGED log
      BY <1>t, <2>1, <2>2 DEF FaultsExplain, log
    <2>3. CASE ~closed /\ (skewed' => skewed)
      BY <1>t, <2>1, <2>3 DEF FaultsExplain
    <2>4. CASE LogBecomes(Written(Log, NextEvent(p))) /\ ~closed
      BY <2>3, <2>4, PutLog
    <2>5. CASE ~closed /\ count = Capacity /\ LogBecomes(Written(Evicted, NextEvent(p)))
      BY <2>3, <2>5, EvictPutLog, FileQueueAssumption
    <2>6. CASE ~closed /\ count = Capacity /\ LogBecomes(Evicted)
      BY <2>3, <2>6, EvictLog, FileQueueAssumption
    <2> QED BY <1>1, <2>2, <2>4, <2>5, <2>6, EnqueueOutcomes DEF EnqueueOutcome, Kept
  <1>2. ASSUME NEW c \in Consumers, Dequeue(c) PROVE FaultsExplain'
    <2>1. closed' = closed /\ faults' \in Nat /\ faults' >= faults
      BY <1>2, DequeueFacts, FileQueueAssumption
    <2>2. CASE Kept /\ UNCHANGED <<out, early>>
      BY <2>1, <2>2 DEF FaultsExplain, Kept, log
    <2>3. ASSUME NEW k \in Nat, ~skewed, k < count, early' = early,
                 LogBecomes(Compacted(count - k - 1, wal, readOff + k + 1, FALSE))
          PROVE  FaultsExplain'
      <3>1. ~skewed' /\ (count' = 0 /\ closed => file' = "released")
        BY <1>t, <2>3, TakeLog
      <3> QED BY <1>t, <2>1, <2>3, <3>1 DEF FaultsExplain
    <2>4. ASSUME count > 0,
                 \/ skewed /\ UNCHANGED <<readOff, skewed, faults>>
                 \/ ~skewed /\ readOff' = readOff + count /\ UNCHANGED skewed /\ faults' = faults + count
                 \/ ~skewed /\ skewed' = TRUE /\ UNCHANGED readOff /\ faults' = faults + 1
          PROVE  FaultsExplain'
      <3>1. faults' > 0
        BY <1>t, <2>4 DEF FaultsExplain
      <3> QED BY <3>1, <2>1 DEF FaultsExplain
    <2> QED BY <1>2, <2>2, <2>3, <2>4, DequeueOutcomes DEF DequeueOutcome
  <1>3. CASE (\E c \in Consumers : WatcherFires(c) \/ Cancel(c)) \/ Close
    <2>1. UNCHANGED <<skewed, count, faults, early>>
      BY <1>3, OtherOutcomes DEF hist
    <2>2. CASE UNCHANGED <<closed, file>>
      BY <2>1, <2>2 DEF FaultsExplain
    <2>3. CASE ~closed /\ file' = IF count = 0 THEN "released" ELSE file
      BY <2>1, <2>3 DEF FaultsExplain
    <2> QED BY <1>3, <2>2, <2>3, OtherOutcomes
  <1> QED BY <1>1, <1>2, <1>3 DEF Next

LEMMA InOrderStep ==
    ASSUME FileInv, PayloadsKept, NoGarbage, InOrder, Next
    PROVE  InOrder'
  <1>t. /\ wal \in Seq(Event \union {Garbage}) /\ out \in Seq(Event) /\ count \in Nat
        /\ sent \in [Producers -> 0..MaxSeq] /\ MaxSeq \in Nat
        /\ readOff \in Nat /\ Len(wal) \in Nat /\ readOff <= Len(wal)
        /\ ~skewed => count = Len(wal) - readOff
    BY FileQueueAssumption DEF FileInv, TypeOK, CursorsAgree
  <1>w. \A j \in 1..Len(wal) : wal[j] \in Event
    BY <1>t DEF NoGarbage
  <1>e. \A ev \in Event : ev.conn \in Producers /\ ev.seq \in Nat
    BY FileQueueAssumption DEF Event
  <1> DEFINE Grows == \A p \in Producers : sent'[p] \in Nat /\ sent'[p] >= sent[p]
  <1>k. ASSUME wal' = wal, readOff' \in Nat, readOff' >= readOff, out' = out, Grows
        PROVE  InOrder'
    <2>1. readOff' + 1..Len(wal) \subseteq readOff + 1..Len(wal)
      BY <1>t, <1>k
    <2>2. /\ \A i \in 1..Len(out) : out[i].seq <= sent'[out[i].conn]
          /\ \A j \in readOff + 1..Len(wal) : wal[j].seq <= sent'[wal[j].conn]
      BY <1>t, <1>w, <1>e, <1>k DEF InOrder
    <2> QED BY <1>k, <2>1, <2>2 DEF InOrder
  <1>z. ASSUME wal' = << >>, readOff' = 0, out' = out, Grows PROVE InOrder'
    <2>1. \A i \in 1..Len(out) : out[i].seq <= sent'[out[i].conn]
      BY <1>t, <1>e, <1>z DEF InOrder
    <2>2. readOff' + 1..Len(wal') = {}
      BY <1>z
    <2> QED BY <1>z, <2>1, <2>2 DEF InOrder
  <1>a. ASSUME NEW p \in Producers, sent' = [sent EXCEPT ![p] = @ + 1], sent[p] < MaxSeq,
               wal' = Append(wal, NextEvent(p)), readOff' \in Nat, readOff' >= readOff,
               out' = out
        PROVE  InOrder'
    <2>1. /\ Len(wal') = Len(wal) + 1
          /\ \A i \in 1..Len(wal) : wal'[i] = wal[i]
          /\ wal'[Len(wal) + 1] = NextEvent(p)
      BY <1>t, <1>a
    <2>r. ASSUME NEW j \in readOff' + 1..Len(wal')
          PROVE  \/ j = Len(wal) + 1
                 \/ j \in readOff + 1..Len(wal) /\ j \in 1..Len(wal) /\ wal'[j] = wal[j]
      <3>0. \A x, y, n \in Nat : y >= x =>
              \A l \in y + 1..n + 1 : l = n + 1 \/ (l \in x + 1..n /\ l \in 1..n)
        OBVIOUS
      <3>1. j = Len(wal) + 1 \/ (j \in readOff + 1..Len(wal) /\ j \in 1..Len(wal))
        BY <1>t, <1>a, <2>1, <3>0
      <3> QED BY <2>1, <3>1
    <2>2. NextEvent(p).conn = p /\ NextEvent(p).seq = sent[p] + 1
      BY DEF NextEvent
    <2>3. \A r \in Producers : sent'[r] = IF r = p THEN sent[p] + 1 ELSE sent[r]
      BY <1>t, <1>a
    <2>4. /\ \A i \in 1..Len(out) : out[i].seq <= sent[out[i].conn]
          /\ \A j \in readOff + 1..Len(wal) : wal[j].seq <= sent[wal[j].conn]
      BY DEF InOrder
    <2>5. \A i \in 1..Len(out) : out[i].seq <= sent'[out[i].conn]
      BY <1>t, <1>e, <2>3, <2>4
    <2>6. \A j \in readOff' + 1..Len(wal') : wal'[j].seq <= sent'[wal'[j].conn]
      <3> SUFFICES ASSUME NEW j \in readOff' + 1..Len(wal')
                   PROVE  wal'[j].seq <= sent'[wal'[j].conn]
        OBVIOUS
      <3>1. CASE j = Len(wal) + 1
        BY <1>t, <2>1, <2>2, <2>3, <3>1
      <3>2. CASE j # Len(wal) + 1
        <4>1. j \in readOff + 1..Len(wal) /\ wal'[j] = wal[j] /\ wal[j] \in Event
          BY <1>w, <2>r, <3>2
        <4> QED BY <1>t, <1>e, <2>3, <2>4, <4>1
      <3> QED BY <3>1, <3>2
    <2>7. \A i, j \in readOff' + 1..Len(wal') :
              i < j /\ wal'[i].conn = wal'[j].conn => wal'[i].seq < wal'[j].seq
      <3> SUFFICES ASSUME NEW i \in readOff' + 1..Len(wal'), NEW j \in readOff' + 1..Len(wal'),
                          i < j, wal'[i].conn = wal'[j].conn
                   PROVE  wal'[i].seq < wal'[j].seq
        OBVIOUS
      <3>1. i \in readOff + 1..Len(wal) /\ wal'[i] = wal[i] /\ wal[i] \in Event
        <4>1. i # Len(wal) + 1
          BY <1>t, <1>a, <2>1
        <4> QED BY <1>w, <2>r, <4>1
      <3>2. CASE j = Len(wal) + 1
        BY <1>t, <1>e, <2>1, <2>2, <2>4, <3>1, <3>2
      <3>3. CASE j # Len(wal) + 1
        <4>1. j \in readOff + 1..Len(wal) /\ wal'[j] = wal[j]
          BY <2>r, <3>3
        <4> QED BY <3>1, <4>1 DEF InOrder
      <3> QED BY <3>2, <3>3
    <2>8. \A i \in 1..Len(out), j \in readOff' + 1..Len(wal') :
              out[i].conn = wal'[j].conn => out[i].seq < wal'[j].seq
      <3> SUFFICES ASSUME NEW i \in 1..Len(out), NEW j \in readOff' + 1..Len(wal'),
                          out[i].conn = wal'[j].conn
                   PROVE  out[i].seq < wal'[j].seq
        OBVIOUS
      <3>1. CASE j = Len(wal) + 1
        BY <1>t, <1>e, <2>1, <2>2, <2>4, <3>1
      <3>2. CASE j # Len(wal) + 1
        <4>1. j \in readOff + 1..Len(wal) /\ wal'[j] = wal[j]
          BY <2>r, <3>2
        <4> QED BY <4>1 DEF InOrder
      <3> QED BY <3>1, <3>2
    <2> QED BY <1>a, <2>5, <2>6, <2>7, <2>8 DEF InOrder
  <1>b. ASSUME NEW p \in Producers, sent' = [sent EXCEPT ![p] = @ + 1], sent[p] < MaxSeq,
               wal' = Append(<< >>, NextEvent(p)), readOff' = 0, out' = out
        PROVE  InOrder'
    <2>1. Len(wal') = 1 /\ wal'[1] = NextEvent(p)
      BY <1>b, AppendToEmpty
    <2>2. NextEvent(p).conn = p /\ NextEvent(p).seq = sent[p] + 1
      BY DEF NextEvent
    <2>3. \A r \in Producers : sent'[r] = IF r = p THEN sent[p] + 1 ELSE sent[r]
      BY <1>t, <1>b
    <2>4. readOff' + 1..Len(wal') = {1}
      BY <1>b, <2>1
    <2>5. \A i \in 1..Len(out) : out[i].seq <= sent'[out[i].conn]
      BY <1>t, <1>e, <2>3 DEF InOrder
    <2>6. \A i \in 1..Len(out) : out[i].conn = p => out[i].seq < sent[p] + 1
      BY <1>t, <1>e DEF InOrder
    <2>7. wal'[1].seq <= sent'[wal'[1].conn]
      BY <1>t, <2>1, <2>2, <2>3
    <2> QED BY <1>b, <2>1, <2>2, <2>4, <2>5, <2>6, <2>7 DEF InOrder
  <1>1. ASSUME NEW p \in Producers, Enqueue(p) PROVE InOrder'
    <2>1. EnqueueOutcome(p) /\ out' = out /\ sent[p] < MaxSeq
      BY <1>1, EnqueueOutcomes, EnqueueFacts
    <2>2. sent' = sent \/ sent' = [sent EXCEPT ![p] = @ + 1]
      BY <2>1 DEF EnqueueOutcome, Returned
    <2>3. Grows
      BY <1>t, <2>2
    <2>4. CASE LogBecomes(Written(Log, NextEvent(p))) /\ Returned(p)
      <3>1. wal' = Append(wal, NextEvent(p)) /\ readOff' = readOff
        BY <2>4, PutLog
      <3>2. readOff' \in Nat /\ readOff' >= readOff
        BY <1>t, <3>1
      <3>3. sent' = [sent EXCEPT ![p] = @ + 1]
        BY <2>4 DEF Returned
      <3> QED BY <1>a, <2>1, <3>1, <3>2, <3>3
    <2>5. CASE ~closed /\ count = Capacity /\ Returned(p) /\ LogBecomes(Written(Evicted, NextEvent(p)))
      <3>1. /\ count = 1 => wal' = Append(<< >>, NextEvent(p)) /\ readOff' = 0
            /\ count # 1 => /\ wal' = Append(wal, NextEvent(p))
                            /\ readOff' = IF skewed THEN readOff ELSE readOff + 1
        BY <2>5, EvictPutLog, FileQueueAssumption
      <3>2. CASE count = 1
        BY <1>b, <2>1, <2>5, <3>1, <3>2 DEF Returned
      <3>3. CASE count # 1
        <4>1. wal' = Append(wal, NextEvent(p)) /\ readOff' \in Nat /\ readOff' >= readOff
          BY <1>t, <3>1, <3>3
        <4>2. sent' = [sent EXCEPT ![p] = @ + 1]
          BY <2>5 DEF Returned
        <4> QED BY <1>a, <2>1, <4>1, <4>2
      <3> QED BY <3>2, <3>3
    <2>6. CASE ~closed /\ count = Capacity /\ LogBecomes(Evicted)
      <3>1. /\ count = 1 => wal' = << >> /\ readOff' = 0
            /\ count # 1 => /\ wal' = wal
                            /\ readOff' = IF skewed THEN readOff ELSE readOff + 1
        BY <2>6, EvictLog, FileQueueAssumption
      <3>2. CASE count = 1
        BY <1>z, <2>1, <2>3, <3>1, <3>2
      <3>3. CASE count # 1
        BY <1>t, <1>k, <2>1, <2>3, <3>1, <3>3
      <3> QED BY <3>2, <3>3
    <2>7. CASE UNCHANGED log
      BY <1>t, <1>k, <2>1, <2>3, <2>7 DEF log
    <2> QED BY <2>1, <2>4, <2>5, <2>6, <2>7 DEF EnqueueOutcome, Kept
  <1>2. ASSUME NEW c \in Consumers, Dequeue(c) PROVE InOrder'
    <2>1. sent' = sent /\ DequeueOutcome
      BY <1>2, DequeueFacts, DequeueOutcomes
    <2>2. Grows
      BY <1>t, <2>1
    <2>3. CASE wal' = wal /\ (readOff' = readOff \/ readOff' = readOff + count) /\ out' = out
      BY <1>t, <1>k, <2>2, <2>3
    <2>4. ASSUME NEW k \in Nat, ~skewed, k < count, out' = Append(out, wal[readOff + k + 1]),
                 LogBecomes(Compacted(count - k - 1, wal, readOff + k + 1, FALSE))
          PROVE  InOrder'
      <3> DEFINE n == readOff + k + 1
      <3>1. n \in readOff + 1..Len(wal) /\ n \in 1..Len(wal)
        BY <1>t, <2>4
      <3>2. /\ Len(out') = Len(out) + 1 /\ Len(out) \in Nat
            /\ \A i \in 1..Len(out) : out'[i] = out[i]
            /\ out'[Len(out) + 1] = wal[n]
        BY <1>t, <1>w, <2>4, <3>1
      <3>3. \/ wal' = << >> /\ readOff' = 0
            \/ wal' = wal /\ readOff' = n
        BY <1>t, <2>4, TakeLog
      <3>4. \A j \in readOff' + 1..Len(wal') : j \in n + 1..Len(wal) /\ wal'[j] = wal[j]
        BY <1>t, <3>1, <3>3
      <3>5. \A j \in n + 1..Len(wal) : j \in readOff + 1..Len(wal) /\ n < j
        BY <1>t, <3>1
      <3> HIDE DEF n
      <3>6. \A i \in 1..Len(out') : out'[i].seq <= sent'[out'[i].conn]
        BY <2>1, <3>1, <3>2 DEF InOrder
      <3>7. \A j \in readOff' + 1..Len(wal') : wal'[j].seq <= sent'[wal'[j].conn]
        BY <2>1, <3>4, <3>5 DEF InOrder
      <3>8. \A i, j \in 1..Len(out') :
                i < j /\ out'[i].conn = out'[j].conn => out'[i].seq < out'[j].seq
        BY <3>1, <3>2 DEF InOrder
      <3>9. \A i, j \in readOff' + 1..Len(wal') :
                i < j /\ wal'[i].conn = wal'[j].conn => wal'[i].seq < wal'[j].seq
        BY <3>4, <3>5 DEF InOrder
      <3>10. \A i \in 1..Len(out'), j \in readOff' + 1..Len(wal') :
                 out'[i].conn = wal'[j].conn => out'[i].seq < wal'[j].seq
        BY <3>1, <3>2, <3>4, <3>5 DEF InOrder
      <3> QED BY <3>6, <3>7, <3>8, <3>9, <3>10 DEF InOrder
    <2> QED BY <2>1, <2>3, <2>4 DEF DequeueOutcome, Kept, log
  <1>3. CASE (\E c \in Consumers : WatcherFires(c) \/ Cancel(c)) \/ Close
    <2>1. wal' = wal /\ readOff' = readOff /\ out' = out /\ sent' = sent
      BY <1>3, OtherOutcomes DEF hist
    <2>2. Grows
      BY <1>t, <2>1
    <2> QED BY <1>t, <1>k, <2>1, <2>2
  <1> QED BY <1>1, <1>2, <1>3 DEF Next

LEMMA OneInit == Init => OneInv
  <1> SUFFICES ASSUME Init PROVE OneInv
    OBVIOUS
  <1>1. FileInv
    BY FileInit
  <1>2. PayloadsKept
    BY DEF Init, PayloadsKept, Blocked, Procs
  <1>3. NoGarbage /\ FaultsExplain
    BY DEF Init, NoGarbage, FaultsExplain
  <1>4. InOrder
    BY DEF Init, InOrder
  <1> QED BY <1>1, <1>2, <1>3, <1>4 DEF OneInv

LEMMA OneNext == ASSUME OneBlockProducer PROVE OneInv /\ [Next]_vars => OneInv'
  <1> SUFFICES ASSUME OneInv, [Next]_vars PROVE OneInv'
    OBVIOUS
  <1>1. FileInv'
    BY FileNext DEF OneInv
  <1>2. CASE Next
    <2>1. PayloadsKept'
      BY <1>2, PayloadsStep DEF OneInv
    <2>2. NoGarbage'
      BY <1>2, NoGarbageStep DEF OneInv
    <2>3. FaultsExplain'
      BY <1>2, FaultsStep DEF OneInv
    <2>4. InOrder'
      BY <1>2, InOrderStep DEF OneInv
    <2> QED BY <1>1, <2>1, <2>2, <2>3, <2>4 DEF OneInv
  <1>3. CASE UNCHANGED vars
    <2>1. PayloadsKept' /\ NoGarbage' /\ FaultsExplain' /\ InOrder'
      BY <1>3 DEF OneInv, PayloadsKept, Blocked, NextEvent, NoGarbage, FaultsExplain, InOrder,
                  vars, log, buf, hist
    <2> QED BY <1>1, <2>1 DEF OneInv
  <1> QED BY <1>2, <1>3

LEMMA OneAlways == ASSUME OneBlockProducer PROVE Spec => []OneInv
  BY OneInit, OneNext, PTL DEF Spec

\* What is buffered: the records from the cursor on.
LEMMA BufferedType ==
    ASSUME TypeOK
    PROVE  /\ Buffered \in Seq(Event \union {Garbage})
           /\ Len(Buffered) = IF skewed THEN 0 ELSE Len(wal) - readOff
           /\ ~skewed => \A i \in 1..(Len(wal) - readOff) : Buffered[i] = wal[readOff + i]
  <1>t. /\ wal \in Seq(Event \union {Garbage}) /\ readOff \in Nat /\ Len(wal) \in Nat
        /\ readOff <= Len(wal)
    BY DEF TypeOK
  <1>1. CASE skewed
    BY <1>1 DEF Buffered
  <1>2. CASE ~skewed
    <2>1. \A i \in readOff + 1..Len(wal) : wal[i] \in Event \union {Garbage}
      BY <1>t
    <2>2. readOff + 1 \in Int /\ Len(wal) \in Int
      BY <1>t
    <2> DEFINE m == readOff + 1
               n == Len(wal)
               B == SubSeq(wal, m, n)
    <2>3. /\ B \in Seq(Event \union {Garbage})
          /\ Len(B) = IF m <= n THEN n - m + 1 ELSE 0
          /\ \A i \in 1..n - m + 1 : B[i] = wal[m + i - 1]
      <3> HIDE DEF m, n
      <3> QED BY <2>1, <2>2, SubSeqProperties DEF m, n
    <2>4. n - m + 1 = Len(wal) - readOff /\ (~(m <= n) => Len(wal) - readOff = 0)
      BY <1>t
    <2>5. \A i \in 1..(Len(wal) - readOff) : m + i - 1 = readOff + i
      BY <1>t
    <2>6. Buffered = B
      BY <1>2 DEF Buffered
    <2> HIDE DEF m, n, B
    <2> QED BY <1>2, <2>3, <2>4, <2>5, <2>6
  <1> QED BY <1>1, <1>2

(***************************************************************************)
(* The file queue is consistent, for every capacity and whatever the disk  *)
(* does: Depth is the number of records between the cursors, the file is   *)
(* not used after it was removed, and a queue that was closed and drained  *)
(* without a failure of the disk has removed it.                           *)
(***************************************************************************)
THEOREM FileAlwaysConsistent == ASSUME OneBlockProducer PROVE Spec => []LogConsistent
  <1>1. OneInv => LogConsistent
    BY DEF OneInv, FileInv, FaultsExplain, LogConsistent, ReleasedWhenDrained, ReleasedIsEmpty
  <1> QED BY <1>1, OneAlways, PTL

(***************************************************************************)
(* Per-connection order (R6.6) of the file queue, for every capacity,      *)
(* policy and number of events, through evictions, skipped records and     *)
(* failed writes; and a consumer is sent away early only by a failing      *)
(* disk.                                                                   *)
(***************************************************************************)
THEOREM FileDeliversInOrder == ASSUME OneBlockProducer PROVE Spec => []DeliversInOrderToTheEnd
  <1>1. OneInv => DeliversInOrderToTheEnd
    <2> SUFFICES ASSUME OneInv PROVE DeliversInOrderToTheEnd
      OBVIOUS
    <2>t. /\ TypeOK /\ out \in Seq(Event \union {Garbage}) /\ Len(out) \in Nat
          /\ readOff \in Nat /\ Len(wal) \in Nat /\ readOff <= Len(wal)
      BY DEF OneInv, FileInv, TypeOK
    <2>b. /\ Buffered \in Seq(Event \union {Garbage})
          /\ Len(Buffered) = IF skewed THEN 0 ELSE Len(wal) - readOff
          /\ ~skewed => \A i \in 1..(Len(wal) - readOff) : Buffered[i] = wal[readOff + i]
      BY <2>t, BufferedType
    <2> DEFINE h == out \o Buffered
    <2>h. /\ Len(h) = Len(out) + Len(Buffered)
          /\ \A i \in 1..Len(out) + Len(Buffered) :
                 h[i] = IF i <= Len(out) THEN out[i] ELSE Buffered[i - Len(out)]
      BY <2>t, <2>b, ConcatProperties
    <2> HIDE DEF h
    <2>1. ASSUME NEW i \in 1..Len(h)
          PROVE  \/ i \in 1..Len(out) /\ h[i] = out[i]
                 \/ /\ i > Len(out) /\ i - Len(out) + readOff \in readOff + 1..Len(wal)
                    /\ h[i] = wal[i - Len(out) + readOff]
      <3>1. CASE i <= Len(out)
        BY <2>t, <2>b, <2>h, <3>1
      <3>2. CASE i > Len(out)
        <4>1. ~skewed /\ i - Len(out) \in 1..(Len(wal) - readOff)
          BY <2>t, <2>b, <2>h, <3>2
        <4>2. h[i] = Buffered[i - Len(out)]
          BY <2>t, <2>b, <2>h, <3>2
        <4>3. readOff + (i - Len(out)) = i - Len(out) + readOff
          BY <2>t
        <4>4. h[i] = wal[i - Len(out) + readOff]
          BY <2>b, <4>1, <4>2, <4>3
        <4> QED BY <2>t, <3>2, <4>1, <4>4
      <3> QED BY <2>t, <3>1, <3>2
    <2>2. ASSUME NEW i \in 1..Len(h), NEW j \in 1..Len(h), i < j, h[i].conn = h[j].conn
          PROVE  h[i].seq < h[j].seq
      <3> DEFINE a == i - Len(out) + readOff
                 b == j - Len(out) + readOff
      <3>1. CASE i \in 1..Len(out) /\ h[i] = out[i]
        <4>1. CASE j \in 1..Len(out) /\ h[j] = out[j]
          BY <2>2, <3>1, <4>1 DEF OneInv, InOrder
        <4>2. CASE b \in readOff + 1..Len(wal) /\ h[j] = wal[b]
          <5> HIDE DEF b
          <5> QED BY <2>2, <3>1, <4>2 DEF OneInv, InOrder
        <4> QED BY <2>1, <4>1, <4>2
      <3>2. CASE /\ i > Len(out) /\ a \in readOff + 1..Len(wal) /\ h[i] = wal[a]
        <4>1. j > Len(out) /\ a < b
          BY <2>t, <2>2, <3>2
        <4>2. b \in readOff + 1..Len(wal) /\ h[j] = wal[b]
          BY <2>1, <2>t, <4>1
        <4> HIDE DEF a, b
        <4> QED BY <2>2, <3>2, <4>1, <4>2 DEF OneInv, InOrder
      <3> QED BY <2>1, <3>1, <3>2
    <2>3. PerConnOrder
      BY <2>2 DEF PerConnOrder, h
    <2>4. EndsOnlyWhenDone
      BY DEF OneInv, FaultsExplain, EndsOnlyWhenDone
    <2> QED BY <2>3, <2>4 DEF DeliversInOrderToTheEnd
  <1> QED BY <1>1, OneAlways, PTL

----------------------------------------------------------------------------
\* Losses.  With room for two records an eviction never empties the log, so a
\* skewed cursor stays skewed; with room for one it is set straight again after
\* records were lost to it, and the balance does not hold.

LEMMA LossesStep ==
    ASSUME Capacity > 1, OneInv, LossesReported, Next
    PROVE  LossesReported'
  <1>t. /\ offered \in Nat /\ refused \in Nat /\ Len(out) \in Nat /\ out \in Seq(Event)
        /\ count \in Nat /\ overflow \in Nat /\ faults \in Nat
        /\ wal \in Seq(Event \union {Garbage}) /\ readOff \in Nat /\ Len(wal) \in Nat
        /\ ~skewed => count = Len(wal) - readOff
    BY FileQueueAssumption DEF OneInv, FileInv, TypeOK, CursorsAgree
  <1>u. ~skewed => /\ 0 <= offered - refused - Len(out) - count - overflow
                   /\ offered - refused - Len(out) - count - overflow <= faults
    BY DEF LossesReported
  <1>g. ASSUME ~skewed' => ~skewed,
               ~skewed' => /\ offered' \in Nat /\ refused' \in Nat /\ Len(out') \in Nat
                           /\ count' \in Nat /\ overflow' \in Nat /\ faults' \in Nat
                           /\ LET lost  == offered - refused - Len(out) - count - overflow
                                  lost2 == offered' - refused' - Len(out') - count' - overflow'
                              IN  0 <= lost2 - lost /\ lost2 - lost <= faults' - faults
        PROVE  LossesReported'
    <2> SUFFICES ASSUME ~skewed' PROVE LossesReported'
      BY DEF LossesReported
    <2>1. ~skewed
      BY <1>g
    <2> DEFINE lost  == offered - refused - Len(out) - count - overflow
               lost2 == offered' - refused' - Len(out') - count' - overflow'
    <2>2. lost \in Int /\ lost2 \in Int /\ faults \in Nat /\ faults' \in Nat
      BY <1>t, <1>g
    <2>3. 0 <= lost /\ lost <= faults
      BY <1>u, <2>1
    <2>4. 0 <= lost2 - lost /\ lost2 - lost <= faults' - faults
      BY <1>g
    <2>5. 0 <= lost2 /\ lost2 <= faults'
      <3>1. \A x, y \in Int, f, g \in Nat :
                0 <= x /\ x <= f /\ 0 <= y - x /\ y - x <= g - f => 0 <= y /\ y <= g
        OBVIOUS
      <3> HIDE DEF lost, lost2
      <3> QED BY <2>2, <2>3, <2>4, <3>1
    <2> QED BY <2>5 DEF LossesReported
  <1>1. ASSUME NEW p \in Producers, Enqueue(p) PROVE LossesReported'
    <2>1. EnqueueOutcome(p) /\ out' = out
      BY <1>1, EnqueueOutcomes, EnqueueFacts DEF OneInv
    <2>2. CASE Kept /\ UNCHANGED <<sent, offered, dropped, overflow, refused>>
      BY <1>t, <1>g, <2>1, <2>2 DEF Kept, log
    <2>3. CASE closed /\ Kept /\ Returned(p) /\ refused' = refused + 1 /\ UNCHANGED <<dropped, overflow>>
      BY <1>t, <1>g, <2>1, <2>3 DEF Kept, log, Returned
    <2>4. CASE Returned(p) /\ LogBecomes(Written(Log, NextEvent(p))) /\ Accepted /\ NoFault
      <3>1. skewed' = skewed /\ count' = count + 1
        BY <2>4, PutLog
      <3> QED BY <1>t, <1>g, <2>1, <2>4, <3>1 DEF Returned, Accepted, NoFault
    <2>5. CASE Returned(p) /\ UNCHANGED log /\ Dropped(TRUE) /\ (Fails(1) \/ NoFault)
      BY <1>t, <1>g, <2>1, <2>5 DEF log, Returned, Dropped, Fails, NoFault
    <2>6. CASE /\ ~closed /\ count = Capacity
               /\ Returned(p) /\ LogBecomes(Written(Evicted, NextEvent(p))) /\ Dropped(TRUE) /\ NoFault
      <3>1. skewed' = skewed /\ count' = count
        <4>1. count \in Nat \ {0} /\ count # 1
          BY <1>t, <2>6
        <4> QED BY <2>6, <4>1, EvictPutLog
      <3> QED BY <1>t, <1>g, <2>1, <2>6, <3>1 DEF Returned, Dropped, NoFault
    <2>7. CASE /\ ~closed /\ count = Capacity
               /\ Returned(p) /\ LogBecomes(Evicted) /\ Dropped(TRUE) /\ Fails(1)
      <3>1. skewed' = skewed /\ count' = count - 1 /\ count' \in Nat
        <4>1. count \in Nat \ {0} /\ count # 1
          BY <1>t, <2>7
        <4>2. skewed' = skewed /\ count' = count - 1
          BY <2>7, <4>1, EvictLog
        <4> QED BY <4>1, <4>2
      <3> QED BY <1>t, <1>g, <2>1, <2>7, <3>1 DEF Returned, Dropped, Fails
    <2>8. CASE Returned(p) /\ UNCHANGED log /\ Dropped(FALSE) /\ (Fails(1) \/ (skewed /\ NoFault))
      BY <1>t, <1>g, <2>1, <2>8 DEF log, Returned, Dropped, Fails
    <2> QED
      BY <2>1, <2>2, <2>3, <2>4, <2>5, <2>6, <2>7, <2>8 DEF EnqueueOutcome, Kept, NoFault
  <1>2. ASSUME NEW c \in Consumers, Dequeue(c) PROVE LossesReported'
    <2>1. DequeueOutcome /\ UNCHANGED <<overflow, offered, refused>>
      BY <1>2, DequeueFacts, DequeueOutcomes DEF OneInv
    <2>2. CASE Kept /\ UNCHANGED <<out, early>>
      BY <1>t, <1>g, <2>1, <2>2 DEF Kept, log
    <2>3. ASSUME NEW k \in Nat, ~skewed, k < count, faults' = faults + k,
                 out' = Append(out, wal[readOff + k + 1]),
                 LogBecomes(Compacted(count - k - 1, wal, readOff + k + 1, FALSE))
          PROVE  LossesReported'
      <3>1. count' = count - k - 1
        BY <1>t, <2>3, TakeLog
      <3>2. readOff + k + 1 \in 1..Len(wal)
        BY <1>t, <2>3
      <3>3. Len(out') = Len(out) + 1
        BY <1>t, <2>3
      <3>4. count' \in Nat
        BY <1>t, <2>3, <3>1
      <3> QED BY <1>t, <1>g, <2>1, <2>3, <3>1, <3>3, <3>4
    <2>4. ASSUME count > 0, count' = 0, out' = out,
                 \/ skewed /\ UNCHANGED <<readOff, skewed, faults>>
                 \/ ~skewed /\ readOff' = readOff + count /\ UNCHANGED skewed /\ faults' = faults + count
                 \/ ~skewed /\ skewed' = TRUE /\ UNCHANGED readOff /\ faults' = faults + 1
          PROVE  LossesReported'
      BY <1>t, <1>g, <2>1, <2>4
    <2> QED BY <2>1, <2>2, <2>3, <2>4 DEF DequeueOutcome
  <1>3. CASE (\E c \in Consumers : WatcherFires(c) \/ Cancel(c)) \/ Close
    <2>1. UNCHANGED <<skewed, count, offered, refused, out, overflow, faults>>
      BY <1>3, OtherOutcomes DEF hist
    <2> QED BY <2>1 DEF LossesReported
  <1> QED BY <1>1, <1>2, <1>3 DEF Next

(***************************************************************************)
(* Losses are reported (R6.5), for every capacity of at least two, every   *)
(* policy and number of events: what was offered to the open queue and is  *)
(* neither delivered nor buffered was counted by recordOverflow, but for   *)
(* one event at most for each failure of the disk.                         *)
(***************************************************************************)
THEOREM FileLossesReported ==
    ASSUME OneBlockProducer, Capacity > 1
    PROVE  Spec => []LossesReported
  <1>1. Init => LossesReported
    <2> SUFFICES ASSUME Init PROVE LossesReported
      OBVIOUS
    <2>1. offered = 0 /\ refused = 0 /\ Len(out) = 0 /\ count = 0 /\ overflow = 0 /\ faults = 0
      BY DEF Init
    <2> QED BY <2>1 DEF LossesReported
  <1>2. OneInv /\ LossesReported /\ [Next]_vars => LossesReported'
    <2>1. OneInv /\ LossesReported /\ Next => LossesReported'
      BY LossesStep
    <2>2. LossesReported /\ UNCHANGED vars => LossesReported'
      BY DEF LossesReported, vars, log, hist
    <2> QED BY <2>1, <2>2
  <1> QED BY <1>1, <1>2, OneAlways, PTL DEF Spec

----------------------------------------------------------------------------
\* Refinement.

LEMMA BufferedPrime ==
    ASSUME TypeOK'
    PROVE  /\ Buffered' \in Seq(Event \union {Garbage})
           /\ Len(Buffered') = IF skewed' THEN 0 ELSE Len(wal') - readOff'
           /\ ~skewed' => \A i \in 1..(Len(wal') - readOff') : Buffered'[i] = wal'[readOff' + i]
  <1>t. /\ wal' \in Seq(Event \union {Garbage}) /\ readOff' \in Nat /\ Len(wal') \in Nat
        /\ readOff' <= Len(wal')
    BY DEF TypeOK
  <1>1. CASE skewed'
    BY <1>1 DEF Buffered
  <1>2. CASE ~skewed'
    <2>1. \A i \in readOff' + 1..Len(wal') : wal'[i] \in Event \union {Garbage}
      <3>1. \A r, l \in Nat : \A i \in r + 1..l : i \in 1..l
        OBVIOUS
      <3>2. \A i \in 1..Len(wal') : wal'[i] \in Event \union {Garbage}
        BY <1>t
      <3> QED BY <1>t, <3>1, <3>2
    <2>2. readOff' + 1 \in Int /\ Len(wal') \in Int
      BY <1>t
    <2> DEFINE w == wal'
               m == readOff' + 1
               n == Len(wal')
               B == SubSeq(w, m, n)
    <2>3. /\ B \in Seq(Event \union {Garbage})
          /\ Len(B) = IF m <= n THEN n - m + 1 ELSE 0
          /\ \A i \in 1..n - m + 1 : B[i] = w[m + i - 1]
      <3>1. /\ m \in Int /\ n \in Int
            /\ \A i \in m..n : w[i] \in Event \union {Garbage}
        BY <2>1, <2>2
      <3> HIDE DEF w, m, n
      <3> QED BY <3>1, SubSeqProperties
    <2>4. n - m + 1 = Len(wal') - readOff' /\ (~(m <= n) => Len(wal') - readOff' = 0)
      BY <1>t
    <2>5. \A i \in 1..(Len(wal') - readOff') : m + i - 1 = readOff' + i
      BY <1>t
    <2>6. Buffered' = B
      BY <1>2 DEF Buffered
    <2>7. w = wal'
      OBVIOUS
    <2> HIDE DEF w, m, n, B
    <2> QED BY <1>2, <2>3, <2>4, <2>5, <2>6, <2>7
  <1> QED BY <1>1, <1>2

\* The three ways in which a step changes what is buffered.
LEMMA PutBuffered ==
    ASSUME TypeOK, TypeOK', ~skewed, ~skewed', NEW ev \in Event, wal' = Append(wal, ev),
           readOff' = readOff
    PROVE  Buffered' = Append(Buffered, ev)
  <1>t. wal \in Seq(Event \union {Garbage}) /\ readOff \in Nat /\ Len(wal) \in Nat /\ readOff <= Len(wal)
    BY DEF TypeOK
  <1>b. /\ Buffered \in Seq(Event \union {Garbage})
        /\ Len(Buffered) = Len(wal) - readOff
        /\ \A i \in 1..(Len(wal) - readOff) : Buffered[i] = wal[readOff + i]
    BY BufferedType
  <1>c. /\ Buffered' \in Seq(Event \union {Garbage})
        /\ Len(Buffered') = Len(wal') - readOff
        /\ \A i \in 1..(Len(wal') - readOff) : Buffered'[i] = wal'[readOff + i]
    BY BufferedPrime
  <1>w. /\ Len(wal') = Len(wal) + 1
        /\ \A i \in 1..Len(wal) : wal'[i] = wal[i]
        /\ wal'[Len(wal) + 1] = ev
    BY <1>t
  <1> DEFINE B == Buffered
             C == Buffered'
             n == Len(wal) - readOff
  <1>n. n \in Nat /\ readOff + (n + 1) = Len(wal) + 1 /\ Len(wal) + 1 - readOff = n + 1
    BY <1>t
  <1>1. \A i \in 1..n : readOff + i \in 1..Len(wal)
    BY <1>t
  <1>2. B \in Seq(Event \union {Garbage}) /\ Len(B) = n /\ C \in Seq(Event \union {Garbage})
    BY <1>b, <1>c
  <1>3. Len(C) = n + 1 /\ \A i \in 1..n + 1 : C[i] = wal'[readOff + i]
    <2>1. Len(wal') - readOff = n + 1
      BY <1>t, <1>w
    <2> QED BY <1>c, <2>1
  <1>4. \A i \in 1..n : C[i] = B[i]
    BY <1>b, <1>w, <1>1, <1>3, <1>n
  <1>5. C[n + 1] = ev
    BY <1>w, <1>3, <1>n
  <1> HIDE DEF B, C, n
  <1>6. /\ Append(B, ev) \in Seq(Event \union {Garbage}) /\ Len(Append(B, ev)) = n + 1
        /\ \A i \in 1..n : Append(B, ev)[i] = B[i]
        /\ Append(B, ev)[n + 1] = ev
    BY <1>2, AppendProperties
  <1>7. \A i \in 1..Len(C) : C[i] = Append(B, ev)[i]
    BY <1>n, <1>3, <1>4, <1>5, <1>6
  <1>8. C = Append(B, ev)
    BY <1>2, <1>3, <1>6, <1>7, SeqEqual
  <1> QED BY <1>8 DEF B, C

LEMMA TakeBuffered ==
    ASSUME TypeOK, TypeOK', CursorsAgree, ~skewed, ~skewed', count \in Nat \ {0},
           \/ wal' = wal /\ readOff' = readOff + 1
           \/ wal' = << >> /\ readOff' = 0 /\ count = 1
    PROVE  /\ Buffered # << >> /\ Head(Buffered) = wal[readOff + 1]
           /\ Buffered' = Tail(Buffered)
  <1>t. /\ wal \in Seq(Event \union {Garbage}) /\ readOff \in Nat /\ Len(wal) \in Nat /\ readOff <= Len(wal)
        /\ count = Len(wal) - readOff
    BY DEF TypeOK, CursorsAgree
  <1>b. /\ Buffered \in Seq(Event \union {Garbage})
        /\ Len(Buffered) = count
        /\ \A i \in 1..count : Buffered[i] = wal[readOff + i]
    BY <1>t, BufferedType
  <1>c. /\ Buffered' \in Seq(Event \union {Garbage})
        /\ Len(Buffered') = Len(wal') - readOff'
        /\ \A i \in 1..(Len(wal') - readOff') : Buffered'[i] = wal'[readOff' + i]
    BY BufferedPrime
  <1> DEFINE B == Buffered
             C == Buffered'
  <1>1. B \in Seq(Event \union {Garbage}) /\ Len(B) = count /\ C \in Seq(Event \union {Garbage})
    BY <1>b, <1>c
  <1>2. Len(C) = count - 1
    BY <1>t, <1>c
  <1>3. \A i \in 1..count - 1 : C[i] = B[i + 1]
    <2> SUFFICES ASSUME NEW i \in 1..count - 1 PROVE C[i] = B[i + 1]
      OBVIOUS
    <2>1. wal' = wal /\ readOff' = readOff + 1
      OBVIOUS
    <2>2. i \in 1..(Len(wal') - readOff') /\ i + 1 \in 1..count
      BY <1>t, <2>1
    <2>3. C[i] = wal[readOff + 1 + i] /\ B[i + 1] = wal[readOff + (i + 1)]
      BY <1>b, <1>c, <2>1, <2>2
    <2>4. readOff + 1 + i = readOff + (i + 1)
      BY <1>t
    <2> QED BY <2>3, <2>4
  <1>4. B[1] = wal[readOff + 1]
    BY <1>b
  <1> HIDE DEF B, C
  <1>5. B # << >> /\ Head(B) = B[1]
    BY <1>1
  <1>6. /\ Tail(B) \in Seq(Event \union {Garbage}) /\ Len(Tail(B)) = count - 1
        /\ \A i \in 1..Len(Tail(B)) : Tail(B)[i] = B[i + 1]
    BY <1>1, <1>5, HeadTailProperties
  <1>7. \A i \in 1..Len(C) : C[i] = Tail(B)[i]
    BY <1>2, <1>3, <1>6
  <1>8. C = Tail(B)
    BY <1>1, <1>2, <1>6, <1>7, SeqEqual
  <1> QED BY <1>4, <1>5, <1>8 DEF B, C

LEMMA EvictPutBuffered ==
    ASSUME TypeOK, TypeOK', CursorsAgree, ~skewed, ~skewed', count \in Nat \ {0}, NEW ev \in Event,
           \/ wal' = Append(wal, ev) /\ readOff' = readOff + 1
           \/ wal' = Append(<< >>, ev) /\ readOff' = 0 /\ count = 1
    PROVE  Buffered' = Append(Tail(Buffered), ev)
  <1>t. /\ wal \in Seq(Event \union {Garbage}) /\ readOff \in Nat /\ Len(wal) \in Nat /\ readOff <= Len(wal)
        /\ count = Len(wal) - readOff
    BY DEF TypeOK, CursorsAgree
  <1>b. /\ Buffered \in Seq(Event \union {Garbage})
        /\ Len(Buffered) = count
        /\ \A i \in 1..count : Buffered[i] = wal[readOff + i]
    BY <1>t, BufferedType
  <1>c. /\ Buffered' \in Seq(Event \union {Garbage})
        /\ Len(Buffered') = Len(wal') - readOff'
        /\ \A i \in 1..(Len(wal') - readOff') : Buffered'[i] = wal'[readOff' + i]
    BY BufferedPrime
  <1> DEFINE B == Buffered
             C == Buffered'
  <1>1. B \in Seq(Event \union {Garbage}) /\ Len(B) = count /\ C \in Seq(Event \union {Garbage})
    BY <1>b, <1>c
  <1>2. /\ Len(C) = count
        /\ C[count] = ev
        /\ \A i \in 1..count - 1 : C[i] = B[i + 1]
    <2>1. CASE wal' = Append(wal, ev) /\ readOff' = readOff + 1
      <3>1. /\ Len(wal') = Len(wal) + 1
            /\ \A i \in 1..Len(wal) : wal'[i] = wal[i]
            /\ wal'[Len(wal) + 1] = ev
        BY <1>t, <2>1
      <3>2. Len(C) = count /\ \A i \in 1..count : C[i] = wal'[readOff + 1 + i]
        BY <1>t, <1>c, <2>1, <3>1
      <3>3. readOff + 1 + count = Len(wal) + 1 /\ count \in 1..count
        BY <1>t
      <3>4. C[count] = ev
        BY <3>1, <3>2, <3>3
      <3>5. ASSUME NEW i \in 1..count - 1 PROVE C[i] = B[i + 1]
        <4>1. /\ i \in 1..count /\ i + 1 \in 1..count /\ readOff + 1 + i \in 1..Len(wal)
              /\ readOff + 1 + i = readOff + (i + 1)
          BY <1>t
        <4>2. C[i] = wal[readOff + 1 + i] /\ B[i + 1] = wal[readOff + (i + 1)]
          BY <1>b, <3>1, <3>2, <4>1
        <4> QED BY <4>1, <4>2
      <3> QED BY <3>2, <3>4, <3>5
    <2>2. CASE wal' = Append(<< >>, ev) /\ readOff' = 0 /\ count = 1
      <3>1. Len(wal') = 1 /\ wal'[1] = ev
        BY <2>2, AppendToEmpty
      <3>2. Len(C) = 1 /\ C[1] = wal'[0 + 1]
        BY <1>c, <2>2, <3>1
      <3> QED BY <2>2, <3>1, <3>2
    <2> QED BY <2>1, <2>2
  <1> HIDE DEF B, C
  <1>3. B # << >>
    BY <1>1
  <1>4. /\ Tail(B) \in Seq(Event \union {Garbage}) /\ Len(Tail(B)) = count - 1
        /\ \A i \in 1..count - 1 : Tail(B)[i] = B[i + 1]
    BY <1>1, <1>3, HeadTailProperties
  <1> DEFINE T == Tail(B)
  <1> HIDE DEF T
  <1>5. T \in Seq(Event \union {Garbage}) /\ Len(T) = count - 1
        /\ \A i \in 1..count - 1 : T[i] = B[i + 1]
    BY <1>4 DEF T
  <1>6. /\ Append(T, ev) \in Seq(Event \union {Garbage}) /\ Len(Append(T, ev)) = Len(T) + 1
        /\ \A i \in 1..Len(T) : Append(T, ev)[i] = T[i]
        /\ Append(T, ev)[Len(T) + 1] = ev
    BY <1>5, AppendProperties
  <1>7. Len(T) + 1 = count
    BY <1>5
  <1>8. \A i \in 1..Len(C) : C[i] = Append(T, ev)[i]
    BY <1>2, <1>5, <1>6, <1>7
  <1>9. C = Append(T, ev)
    BY <1>1, <1>2, <1>6, <1>7, <1>8, SeqEqual
  <1> QED BY <1>9 DEF B, C, T

LEMMA RefineStep ==
    ASSUME OneInv, FileInv', Next, faults' = faults, ~skewed
    PROVE  Abs!QNext \/ UNCHANGED Abs!qvars
  <1>i. TypeOK /\ TypeOK' /\ CursorsAgree
    BY DEF OneInv, FileInv
  <1>t. /\ faults \in Nat /\ count \in Nat /\ readOff \in Nat
        /\ count = Len(wal) - readOff
        /\ sent \in [Producers -> 0..MaxSeq] /\ MaxSeq \in Nat
    BY <1>i, FileQueueAssumption DEF TypeOK, CursorsAgree
  <1>b. Len(Buffered) = count
    BY <1>i, <1>t, BufferedType
  <1>k. UNCHANGED log => Buffered' = Buffered
    BY DEF log, Buffered
  <1>1. ASSUME NEW p \in Producers, Enqueue(p) PROVE Abs!QNext \/ UNCHANGED Abs!qvars
    <2>1. /\ EnqueueOutcome(p) /\ UNCHANGED <<policy, closed, out>>
          /\ sent[p] < MaxSeq /\ NextEvent(p) \in Event
      BY <1>1, EnqueueOutcomes, EnqueueFacts, OfferedIsNoGarbage DEF OneInv
    <2>f. ~Fails(1)
      BY <1>t DEF Fails
    <2>o. Returned(p) => Abs!Offer(p)
      BY <2>1 DEF Abs!Offer, Returned
    <2>e. Abs!NextEvent(p) = NextEvent(p)
      BY DEF Abs!NextEvent, NextEvent
    <2>2. CASE Kept /\ UNCHANGED <<sent, offered, dropped, overflow, refused>>
      BY <1>k, <2>1, <2>2 DEF Kept, Abs!qvars
    <2>3. CASE closed /\ Kept /\ Returned(p) /\ UNCHANGED <<dropped, overflow>>
      <3>1. Abs!PutClosed(p)
        BY <1>k, <2>1, <2>o, <2>3 DEF Kept, Abs!PutClosed
      <3> QED BY <2>1, <3>1 DEF Abs!QNext
    <2>4. CASE /\ ~closed /\ count < Capacity
               /\ Returned(p) /\ LogBecomes(Written(Log, NextEvent(p))) /\ Accepted
      <3>1. wal' = Append(wal, NextEvent(p)) /\ readOff' = readOff /\ skewed' = skewed
        BY <2>4, PutLog
      <3>2. Buffered' = Append(Buffered, NextEvent(p))
        BY <1>i, <1>t, <2>1, <3>1, PutBuffered
      <3>3. Abs!Put(p)
        BY <1>b, <2>1, <2>o, <2>e, <2>4, <3>2 DEF Accepted, Abs!Put
      <3> QED BY <2>1, <3>3 DEF Abs!QNext
    <2>5. CASE /\ ~closed /\ count = Capacity /\ policy = "drop_newest"
               /\ Returned(p) /\ Kept /\ Dropped(TRUE)
      <3>1. Abs!PutReject(p)
        BY <1>b, <1>k, <2>1, <2>o, <2>5 DEF Kept, Dropped, Abs!PutReject
      <3> QED BY <2>1, <3>1 DEF Abs!QNext
    <2>6. CASE /\ ~closed /\ count = Capacity /\ policy = "drop_oldest"
               /\ Returned(p) /\ LogBecomes(Written(Evicted, NextEvent(p))) /\ Dropped(TRUE)
      <3>1. count \in Nat \ {0}
        BY <2>6, FileQueueAssumption
      <3>2. /\ count = 1 => wal' = Append(<< >>, NextEvent(p)) /\ readOff' = 0 /\ skewed' = FALSE
            /\ count # 1 => /\ wal' = Append(wal, NextEvent(p)) /\ skewed' = skewed
                            /\ readOff' = IF skewed THEN readOff ELSE readOff + 1
        BY <2>6, <3>1, EvictPutLog
      <3>3. ~skewed'
        BY <3>2
      <3>4. \/ wal' = Append(wal, NextEvent(p)) /\ readOff' = readOff + 1
            \/ wal' = Append(<< >>, NextEvent(p)) /\ readOff' = 0 /\ count = 1
        BY <3>2
      <3>5. Buffered' = Append(Tail(Buffered), NextEvent(p))
        BY <1>i, <1>t, <2>1, <3>1, <3>3, <3>4, EvictPutBuffered
      <3>6. Abs!PutEvict(p)
        BY <1>b, <2>1, <2>o, <2>e, <2>6, <3>5 DEF Dropped, Abs!PutEvict
      <3> QED BY <2>1, <3>6 DEF Abs!QNext
    <2> QED BY <2>1, <2>f, <2>2, <2>3, <2>4, <2>5, <2>6 DEF EnqueueOutcome
  <1>2. ASSUME NEW c \in Consumers, Dequeue(c) PROVE Abs!QNext \/ UNCHANGED Abs!qvars
    <2>1. DequeueOutcome /\ UNCHANGED <<policy, closed, sent, dropped>>
      BY <1>2, DequeueFacts, DequeueOutcomes DEF OneInv
    <2>2. CASE Kept /\ UNCHANGED <<out, early>>
      BY <1>k, <2>1, <2>2 DEF Kept, Abs!qvars
    <2>3. ASSUME NEW k \in Nat, k < count, faults' = faults + k,
                 out' = Append(out, wal[readOff + k + 1]),
                 LogBecomes(Compacted(count - k - 1, wal, readOff + k + 1, FALSE))
          PROVE  Abs!QNext
      <3>1. k = 0
        BY <1>t, <2>3
      <3>2. /\ count' = count - k - 1
            /\ skewed' = FALSE
            /\ count' = 0 /\ ~closed => wal' = << >> /\ readOff' = 0
            /\ count' # 0 \/ closed => wal' = wal /\ readOff' = readOff + k + 1
        BY <1>t, <2>3, TakeLog
      <3>3. count \in Nat \ {0} /\ count' = count - 1 /\ readOff + k + 1 = readOff + 1
        BY <1>t, <2>3, <3>1, <3>2
      <3>4. \/ wal' = wal /\ readOff' = readOff + 1
            \/ wal' = << >> /\ readOff' = 0 /\ count = 1
        BY <3>2, <3>3
      <3>5. ~skewed'
        BY <3>2
      <3>6. /\ Buffered # << >> /\ Head(Buffered) = wal[readOff + 1]
            /\ Buffered' = Tail(Buffered)
        BY <1>i, <1>t, <3>3, <3>4, <3>5, TakeBuffered
      <3>7. Abs!Get
        BY <2>1, <2>3, <3>3, <3>6 DEF Abs!Get
      <3> QED BY <2>1, <3>7 DEF Abs!QNext
    <2>4. ASSUME count > 0,
                 \/ skewed /\ UNCHANGED <<readOff, skewed, faults>>
                 \/ ~skewed /\ readOff' = readOff + count /\ UNCHANGED skewed /\ faults' = faults + count
                 \/ ~skewed /\ skewed' = TRUE /\ UNCHANGED readOff /\ faults' = faults + 1
          PROVE  FALSE
      BY <1>t, <2>4
    <2> QED BY <2>1, <2>2, <2>3, <2>4 DEF DequeueOutcome
  <1>3. CASE (\E c \in Consumers : WatcherFires(c) \/ Cancel(c)) \/ Close
    <2>0. UNCHANGED <<wal, readOff, skewed>>
      BY <1>3, OtherOutcomes
    <2>1. /\ UNCHANGED <<policy, sent, out, dropped>> /\ Buffered' = Buffered
          /\ \/ closed' = closed
             \/ ~closed /\ closed' = TRUE
      <3>1. Buffered' = Buffered
        BY <2>0 DEF Buffered
      <3> QED BY <1>3, <3>1, OtherOutcomes DEF hist
    <2>2. CASE closed' = closed
      BY <2>1, <2>2 DEF Abs!qvars
    <2>3. CASE ~closed /\ closed' = TRUE
      BY <2>1, <2>3 DEF Abs!QClose, Abs!QNext
    <2> QED BY <2>1, <2>2, <2>3
  <1> QED BY <1>1, <1>2, <1>3 DEF Next

(***************************************************************************)
(* The file queue implements the abstract bounded queue, for every         *)
(* capacity, policy and number of goroutines: every step at which the disk *)
(* does not fail is a step of BufferQueue, until the cursor has lost the   *)
(* record boundaries.                                                      *)
(***************************************************************************)
THEOREM FileImplementsQueue == ASSUME OneBlockProducer PROVE Spec => ImplementsQueue
  <1>1. Init => Abs!QInit
    BY DEF Init, Abs!QInit, Buffered
  <1>2. OneInv /\ OneInv' /\ [Next]_vars => [faults' = faults /\ ~skewed => Abs!QNext]_(Abs!qvars)
    <2>1. OneInv /\ OneInv' /\ Next /\ faults' = faults /\ ~skewed => Abs!QNext \/ UNCHANGED Abs!qvars
      BY RefineStep DEF OneInv
    <2>2. UNCHANGED vars => UNCHANGED Abs!qvars
      BY DEF vars, log, hist, Buffered, Abs!qvars
    <2> QED BY <2>1, <2>2
  <1> QED BY <1>1, <1>2, OneAlways, PTL DEF Spec, ImplementsQueue
=============================================================================
