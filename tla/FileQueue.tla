------------------------------ MODULE FileQueue ------------------------------
(***************************************************************************)
(* The file backend of the Buffer_Queue (src/pkg/queue/filequeue.go): a    *)
(* write-ahead log with a read cursor under one mutex and one condition    *)
(* variable, on which every change broadcasts.  The log is the sequence of *)
(* its records and the cursor counts records; a cursor that has left the   *)
(* record boundaries is skewed, and whatever is read there is garbage that *)
(* no record decodes from.  An action is one critical section; what the    *)
(* disk does is chosen in it, and each failure of the disk is counted.     *)
(***************************************************************************)
EXTENDS Integers, Sequences, FiniteSets

CONSTANTS Producers,      \* callers of Enqueue, one per source connection
          BlockProducers, \* those of them that there are under the policy block
          Consumers,      \* callers of Dequeue
          Capacity,       \* q.capacity
          Policies,       \* the overflow policies a configuration may name
          MaxSeq,         \* bound: events a producer offers
          MaxFaults,      \* bound: failures of the disk
          Garbage         \* a payload that does not decode

Event == [conn : Producers, seq : 1..MaxSeq]
Procs == Producers \union Consumers

ASSUME FileQueueAssumption ==
  /\ BlockProducers \subseteq Producers /\ Producers \intersect Consumers = {}
  /\ Capacity \in Nat \ {0} /\ MaxSeq \in Nat /\ MaxFaults \in Nat
  /\ Policies \subseteq {"drop_oldest", "drop_newest", "block"}
  /\ Garbage \notin Event

VARIABLES policy,   \* q.overflow
          closed,   \* q.closed
          wal,      \* the records of the file; writeOff is its length
          readOff,  \* q.readOff, in records
          skewed,   \* readOff is not at a record boundary
          count,    \* q.count
          file,     \* q.f: open, or released (closed and removed)
          pc,       \* each goroutine: idle, waiting, woken or ended
          payload,  \* the encoded event of a producer that waits
          inBuf,    \* the waiting producers whose payload lies in q.encodeBuf
          watching, \* consumers whose watcher goroutine waits for ctx.Done
          cancelled,\* consumers whose context is cancelled
          sent, out, dropped, \* as in BufferQueue
          overflow, \* the collector's overflow counter
          offered,  \* history: calls of Enqueue that have returned
          refused,  \* history: events offered to the closed queue
          faults,   \* history: failures of the disk
          early     \* history: Dequeue returned false, neither closed nor cancelled

log == <<wal, readOff, skewed, count, file>>
buf == <<payload, inBuf>>
ctx == <<watching, cancelled>>
hist == <<sent, out, dropped, overflow, offered, refused, faults, early>>
vars == <<policy, closed, log, pc, buf, ctx, hist>>

TypeOK == /\ policy \in Policies /\ closed \in BOOLEAN /\ skewed \in BOOLEAN
          /\ wal \in Seq(Event \union {Garbage}) /\ readOff \in 0..Len(wal)
          /\ count \in 0..Capacity /\ file \in {"open", "released"}
          /\ pc \in [Procs -> {"idle", "waiting", "woken", "ended"}]
          /\ payload \in [Producers -> Event \union {Garbage}] /\ inBuf \subseteq Producers
          /\ watching \subseteq Consumers /\ cancelled \subseteq Consumers
          /\ sent \in [Producers -> 0..MaxSeq] /\ out \in Seq(Event)
          /\ {dropped, overflow, offered, refused} \subseteq Nat
          /\ faults \in 0..MaxFaults /\ early \in BOOLEAN

Init == /\ policy \in Policies /\ closed = FALSE
        /\ wal = <<>> /\ readOff = 0 /\ skewed = FALSE /\ count = 0 /\ file = "open"
        /\ pc = [x \in Procs |-> "idle"]
        /\ payload = [p \in Producers |-> Garbage] /\ inBuf = {}
        /\ watching = {} /\ cancelled = {}
        /\ sent = [p \in Producers |-> 0] /\ out = <<>>
        /\ dropped = 0 /\ overflow = 0 /\ offered = 0 /\ refused = 0 /\ faults = 0 /\ early = FALSE
-----------------------------------------------------------------------------
(***************************************************************************)
(* Building blocks.                                                        *)
(***************************************************************************)
NextEvent(p) == [conn |-> p, seq |-> sent[p] + 1]

\* cond.Broadcast, and x goes to state s.
Broadcast(x, s) == pc' = [y \in Procs |-> IF y = x THEN s ELSE IF pc[y] = "waiting" THEN "woken" ELSE pc[y]]
Becomes(x, s) == pc' = [pc EXCEPT ![x] = s]

\* Wrong variant, for the mutation runs: the write offset is not reset.
Compacted_KeepsLog(n, l, r, s) ==
  [wal |-> l, readOff |-> IF n = 0 /\ ~closed THEN 0 ELSE r, skewed |-> s, count |-> n,
   file |-> IF n = 0 /\ closed THEN "released" ELSE file]

\* compactIfDrained and releaseLocked: the log, the cursor, its alignment and
\* the file once n records are left of log l read up to r.
Compacted(n, l, r, s) ==
  IF n # 0 THEN [wal |-> l, readOff |-> r, skewed |-> s, count |-> n, file |-> file]
  ELSE IF closed THEN [wal |-> l, readOff |-> r, skewed |-> s, count |-> 0, file |-> "released"]
  ELSE [wal |-> <<>>, readOff |-> 0, skewed |-> FALSE, count |-> 0, file |-> file]
LogBecomes(s) == /\ wal' = s.wal /\ readOff' = s.readOff /\ skewed' = s.skewed
                 /\ count' = s.count /\ file' = s.file

\* writeRecord.
Written(s, ev) == [s EXCEPT !.wal = Append(@, ev), !.count = @ + 1]
Log == [wal |-> wal, readOff |-> readOff, skewed |-> skewed, count |-> count, file |-> file]

\* dropOldest, when the length can be read: of a skewed cursor it is garbage.
Evicted == Compacted(count - 1, wal, IF skewed THEN readOff ELSE readOff + 1, skewed)

Fails(n) == faults + n <= MaxFaults /\ faults' = faults + n
NoFault == UNCHANGED faults

\* encodeBinary into q.encodeBuf.  If the event fits, the backing array is
\* reused, and the payload of a producer that waits with it is overwritten:
\* by this event, or by a part of it.
Encode(p, waits) ==
  \E reuse \in IF inBuf = {} THEN {FALSE} ELSE BOOLEAN :
    \E g \in IF reuse THEN {NextEvent(p), Garbage} ELSE {Garbage} :
      /\ payload' = [w \in Producers |-> IF waits /\ w = p THEN NextEvent(p)
                                         ELSE IF reuse /\ w \in inBuf THEN g ELSE payload[w]]
      /\ inBuf' = (IF reuse THEN inBuf ELSE {}) \union (IF waits THEN {p} ELSE {})

\* A call of Enqueue that returns dropped; counted says if recordOverflow is called.
Returned(p) == sent' = [sent EXCEPT ![p] = @ + 1] /\ offered' = offered + 1
Accepted == UNCHANGED <<dropped, overflow, refused>>
Dropped(counted) == /\ dropped' = dropped + 1 /\ UNCHANGED refused
                    /\ overflow' = IF counted THEN overflow + 1 ELSE overflow
-----------------------------------------------------------------------------
(***************************************************************************)
(* Enqueue.                                                                *)
(***************************************************************************)
Callers == IF policy = "block" THEN BlockProducers ELSE Producers

Enqueues(p) == /\ p \in Callers /\ pc[p] = "idle" /\ sent[p] < MaxSeq
               /\ UNCHANGED <<policy, closed, ctx, out, early>>

EnqueueClosed(p) == /\ Enqueues(p) /\ closed
                    /\ Returned(p) /\ refused' = refused + 1
                    /\ UNCHANGED <<log, pc, buf, dropped, overflow, faults>>

\* Wrong variant, for the mutation runs: one record too many.
EnqueueWrite_OffByOne(p) ==
  /\ Enqueues(p) /\ ~closed /\ count <= Capacity
  /\ Encode(p, FALSE) /\ Returned(p)
  /\ LogBecomes(Written(Log, NextEvent(p))) /\ Accepted /\ NoFault /\ Broadcast(p, "idle")

EnqueueWrite(p) == /\ Enqueues(p) /\ ~closed /\ count < Capacity
                   /\ Encode(p, FALSE) /\ Returned(p)
                   /\ \/ LogBecomes(Written(Log, NextEvent(p))) /\ Accepted /\ NoFault /\ Broadcast(p, "idle")
                      \/ Fails(1) /\ Dropped(TRUE) /\ UNCHANGED <<log, pc>>

\* Wrong variant, for the mutation runs: a slot is left unused.
EnqueueDropNewest_TooSoon(p) ==
  /\ Enqueues(p) /\ ~closed /\ count >= Capacity - 1 /\ policy = "drop_newest"
  /\ Encode(p, FALSE) /\ Returned(p) /\ Dropped(TRUE)
  /\ UNCHANGED <<log, pc, faults>>

EnqueueDropNewest(p) == /\ Enqueues(p) /\ ~closed /\ count = Capacity /\ policy = "drop_newest"
                        /\ Encode(p, FALSE) /\ Returned(p) /\ Dropped(TRUE)
                        /\ UNCHANGED <<log, pc, faults>>

EnqueueBlock(p) == /\ Enqueues(p) /\ ~closed /\ count = Capacity /\ policy = "block"
                   /\ Encode(p, TRUE) /\ Becomes(p, "waiting")
                   /\ UNCHANGED <<log, sent, dropped, overflow, offered, refused, faults>>

\* Wrong variant, for the mutation runs: the eviction is not counted.
EnqueueDropOldest_Uncounted(p) ==
  /\ Enqueues(p) /\ ~closed /\ count = Capacity /\ policy = "drop_oldest"
  /\ Encode(p, FALSE) /\ Returned(p)
  /\ LogBecomes(Written(Evicted, NextEvent(p))) /\ Dropped(FALSE) /\ NoFault /\ Broadcast(p, "idle")

\* The old record makes room; the three outcomes are that both steps succeed,
\* that the write fails after the eviction, and that the length is not read.
EnqueueDropOldest(p) ==
  /\ Enqueues(p) /\ ~closed /\ count = Capacity /\ policy = "drop_oldest"
  /\ Encode(p, FALSE) /\ Returned(p)
  /\ \/ LogBecomes(Written(Evicted, NextEvent(p))) /\ Dropped(TRUE) /\ NoFault /\ Broadcast(p, "idle")
     \/ LogBecomes(Evicted) /\ Dropped(TRUE) /\ Fails(1) /\ UNCHANGED pc
     \/ (Fails(1) \/ (skewed /\ NoFault)) /\ Dropped(FALSE) /\ UNCHANGED <<log, pc>>

\* A blocked producer runs again.
Resumes(p) == /\ p \in Producers /\ pc[p] = "woken"
              /\ UNCHANGED <<policy, closed, ctx, payload, out, early>>

EnqueueWaitsOn(p) == /\ Resumes(p) /\ count = Capacity /\ ~closed
                     /\ Becomes(p, "waiting")
                     /\ UNCHANGED <<log, inBuf, sent, dropped, overflow, offered, refused, faults>>

EnqueueGivesUp(p) == /\ Resumes(p) /\ closed
                     /\ Returned(p) /\ refused' = refused + 1 /\ Becomes(p, "idle")
                     /\ inBuf' = inBuf \ {p}
                     /\ UNCHANGED <<log, dropped, overflow, faults>>

EnqueueUnblocked(p) ==
  /\ Resumes(p) /\ count < Capacity /\ ~closed
  /\ Returned(p) /\ inBuf' = inBuf \ {p}
  /\ \/ LogBecomes(Written(Log, payload[p])) /\ Accepted /\ NoFault /\ Broadcast(p, "idle")
     \/ Fails(1) /\ Dropped(TRUE) /\ Becomes(p, "idle") /\ UNCHANGED log
-----------------------------------------------------------------------------
(***************************************************************************)
(* Dequeue.                                                                *)
(***************************************************************************)
Running(c) == /\ pc[c] \in {"idle", "woken"}
              /\ UNCHANGED <<policy, closed, buf, cancelled, sent, dropped, overflow, offered, refused>>
\* The deferred close(stop).
StopWatcher(c) == watching' = watching \ {c}

\* Wrong variant, for the mutation runs: no watcher is started.
DequeueWait_Unwatched(c) ==
  /\ Running(c) /\ count = 0 /\ ~closed /\ c \notin cancelled
  /\ Becomes(c, "waiting")
  /\ UNCHANGED <<watching, log, out, faults, early>>

DequeueWait(c) == /\ Running(c) /\ count = 0 /\ ~closed /\ c \notin cancelled
                  /\ Becomes(c, "waiting")
                  /\ watching' = IF pc[c] = "idle" THEN watching \union {c} ELSE watching
                  /\ UNCHANGED <<log, out, faults, early>>

\* Wrong variant, for the mutation runs: an empty queue is reported as drained.
DequeueDone_NonBlocking(c) ==
  /\ Running(c) /\ count = 0
  /\ early' = (early \/ (~closed /\ c \notin cancelled))
  /\ Becomes(c, "ended") /\ StopWatcher(c)
  /\ UNCHANGED <<log, out, faults>>

DequeueDone(c) == /\ Running(c) /\ count = 0 /\ (closed \/ c \in cancelled)
                  /\ Becomes(c, "ended") /\ StopWatcher(c)
                  /\ UNCHANGED <<log, out, faults, early>>

\* Payloads that do not decode, among the next n records.
Corrupt(n) == Cardinality({i \in 1..n : wal[readOff + i] = Garbage})

\* Wrong variant, for the mutation runs: blocked producers are not woken.
DequeueTake_NoBroadcast(c, k) ==
  /\ Running(c) /\ count > k /\ ~skewed
  /\ wal[readOff + k + 1] # Garbage
  /\ out' = Append(out, wal[readOff + k + 1])
  /\ LogBecomes(Compacted(count - k - 1, wal, readOff + k + 1, FALSE))
  /\ Fails(k - Corrupt(k))
  /\ Becomes(c, "idle") /\ StopWatcher(c) /\ UNCHANGED early

\* k records are skipped, because they are garbage or cannot be read, and the
\* next one is returned.
DequeueTake(c, k) ==
  /\ Running(c) /\ count > k /\ ~skewed
  /\ wal[readOff + k + 1] # Garbage
  /\ out' = Append(out, wal[readOff + k + 1])
  /\ LogBecomes(Compacted(count - k - 1, wal, readOff + k + 1, FALSE))
  /\ Fails(k - Corrupt(k))
  /\ Broadcast(c, "idle") /\ StopWatcher(c) /\ UNCHANGED early

\* Wrong variant, for the mutation runs: the cursor stays.
DequeueSkipsAll_KeepsCursor(c) ==
  /\ Running(c) /\ count > 0
  /\ Fails(1) /\ UNCHANGED <<readOff, skewed>>
  /\ count' = 0 /\ early' = (early \/ (~closed /\ c \notin cancelled))
  /\ Broadcast(c, "ended") /\ StopWatcher(c)
  /\ UNCHANGED <<wal, file, out>>

\* Every record is skipped; the log is not compacted and the file not released.
\* A length that is not read moves the cursor into the middle of a record.
DequeueSkipsAll(c) ==
  /\ Running(c) /\ count > 0
  /\ \/ skewed /\ NoFault /\ UNCHANGED <<readOff, skewed>>
     \/ ~skewed /\ readOff' = readOff + count /\ UNCHANGED skewed /\ Fails(count - Corrupt(count))
     \/ ~skewed /\ skewed' = TRUE /\ UNCHANGED readOff /\ Fails(1)
  /\ count' = 0 /\ early' = (early \/ (~closed /\ c \notin cancelled))
  /\ Broadcast(c, "ended") /\ StopWatcher(c)
  /\ UNCHANGED <<wal, file, out>>

\* The watcher goroutine.
WatcherFires(c) == /\ c \in watching /\ c \in cancelled
                   /\ watching' = watching \ {c}
                   /\ pc' = [y \in Procs |-> IF pc[y] = "waiting" THEN "woken" ELSE pc[y]]
                   /\ UNCHANGED <<policy, closed, log, buf, cancelled, hist>>

Cancel(c) == /\ c \notin cancelled /\ cancelled' = cancelled \union {c}
             /\ UNCHANGED <<policy, closed, log, pc, buf, watching, hist>>

\* Wrong variant, for the mutation runs: buffered records are given up.
Close_Discards ==
  /\ ~closed /\ closed' = TRUE /\ file' = "released"
  /\ pc' = [y \in Procs |-> IF pc[y] = "waiting" THEN "woken" ELSE pc[y]]
  /\ UNCHANGED <<policy, wal, readOff, skewed, count, buf, ctx, hist>>

\* Wrong variant, for the mutation runs: nobody is woken.
Close_NoWake ==
  /\ ~closed /\ closed' = TRUE
  /\ file' = IF count = 0 THEN "released" ELSE file
  /\ UNCHANGED <<policy, wal, readOff, skewed, count, pc, buf, ctx, hist>>

Close == /\ ~closed /\ closed' = TRUE
         /\ file' = IF count = 0 THEN "released" ELSE file
         /\ pc' = [y \in Procs |-> IF pc[y] = "waiting" THEN "woken" ELSE pc[y]]
         /\ UNCHANGED <<policy, wal, readOff, skewed, count, buf, ctx, hist>>
-----------------------------------------------------------------------------
Enqueue(p) == \/ EnqueueClosed(p) \/ EnqueueWrite(p) \/ EnqueueDropNewest(p) \/ EnqueueBlock(p)
              \/ EnqueueDropOldest(p) \/ EnqueueWaitsOn(p) \/ EnqueueGivesUp(p) \/ EnqueueUnblocked(p)
Dequeue(c) == \/ DequeueWait(c) \/ DequeueDone(c) \/ DequeueSkipsAll(c)
              \/ \E k \in 0..Capacity : DequeueTake(c, k)

Next == \/ \E p \in Producers : Enqueue(p)
        \/ \E c \in Consumers : Dequeue(c) \/ WatcherFires(c) \/ Cancel(c)
        \/ Close

Spec == Init /\ [][Next]_vars

\* Goroutines that can run do; nobody has to call, to cancel or to close.
FairSpec == /\ Spec
            /\ \A p \in Producers : WF_vars(EnqueueWaitsOn(p) \/ EnqueueGivesUp(p) \/ EnqueueUnblocked(p))
            /\ \A c \in Consumers : WF_vars(pc[c] = "woken" /\ Dequeue(c)) /\ WF_vars(WatcherFires(c))
-----------------------------------------------------------------------------
Buffered == IF skewed THEN <<>> ELSE SubSeq(wal, readOff + 1, Len(wal))
Abs == INSTANCE BufferQueue WITH q <- Buffered

(***************************************************************************)
(* The log is the queue that BufferQueue promises: every step at which the *)
(* disk does not fail is a step of it, also after records could not be     *)
(* read or written before.  Only a cursor that has lost the record         *)
(* boundaries ends this.                                                   *)
(***************************************************************************)
ImplementsQueue == Abs!QInit /\ [][faults' = faults /\ ~skewed => Abs!QNext]_(Abs!qvars)

(***************************************************************************)
(* Events of one connection are delivered in their order and at most once  *)
(* (R6.6), whatever the disk does.                                         *)
(***************************************************************************)
PerConnOrder ==
  LET h == out \o Buffered
  IN  \A i, j \in {n \in 1..Len(h) : h[n] # Garbage} :
          i < j /\ h[i].conn = h[j].conn => h[i].seq < h[j].seq

(***************************************************************************)
(* The cursors and the counter agree: as many records lie between them as  *)
(* Depth reports, through evictions, skipped records and compaction.       *)
(***************************************************************************)
CursorsAgree == ~skewed => count = Len(wal) - readOff

(***************************************************************************)
(* The file is never used after it was released, and if the disk never     *)
(* failed it is released as soon as the queue is closed and drained        *)
(* (the comment of Close).                                                 *)
(***************************************************************************)
ReleasedWhenDrained == /\ file = "released" => closed /\ count = 0
                       /\ closed /\ count = 0 /\ faults = 0 => file = "released"

(***************************************************************************)
(* Losses are reported: an event that was offered to the open queue and is *)
(* neither delivered nor buffered was counted as an overflow (R6.5), except *)
(* for at most one event for each failure of the disk.                     *)
(***************************************************************************)
LossesReported ==
  ~skewed => LET unreported == offered - refused - Len(out) - count - overflow
             IN  0 <= unreported /\ unreported <= faults

(***************************************************************************)
(* Dequeue tells a consumer that there is nothing more only when its       *)
(* context is cancelled or the queue is closed, unless records could not   *)
(* be read: the replayer stops for good when it is told.                   *)
(***************************************************************************)
EndsOnlyWhenDone == early => faults > 0

\* Close releases every goroutine that is blocked in Enqueue or Dequeue.
CloseReleasesAll == closed ~> \A x \in Procs : pc[x] \in {"idle", "ended"}

\* Cancelling its context releases a consumer that is blocked in Dequeue.
CancelReleases == \A c \in Consumers : c \in cancelled /\ pc[c] = "waiting" ~> pc[c] # "waiting"

\* A producer blocked by a full queue runs once there is room and it stays.
RoomReleases == \A p \in Producers : [](<>[](count < Capacity) => <>(pc[p] # "waiting"))

\* The log and its cursors describe the same events, and the file exists as long
\* as one of them is buffered (compactLocked on every path that takes a record).
LogConsistent == CursorsAgree /\ ReleasedWhenDrained

\* What the consumers are given: each connection's events in order, and the end
\* only when there is no more to come (Dequeue).
DeliversInOrderToTheEnd == PerConnOrder /\ EndsOnlyWhenDone

\* No goroutine sleeps in Wait for ever once Close, its context or a free place
\* should have got it out (every Broadcast of the queue).
WaitersReleased == CloseReleasesAll /\ CancelReleases /\ RoomReleases
=============================================================================
