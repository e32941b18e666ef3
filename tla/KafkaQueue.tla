------------------------------ MODULE KafkaQueue ------------------------------
(***************************************************************************)
(* The Kafka backend of the Buffer_Queue (src/pkg/queue/kafkaqueue.go).    *)
(* Enqueue hands an event to a buffered channel; the produceLoop goroutine *)
(* collects batches from it and writes them to the topic, with retries,    *)
(* halves and single messages when a write fails; Dequeue reads the topic; *)
(* Close waits for the producer.  The cluster is external: WriteMessages   *)
(* is all or nothing for each partition, and reports an error when some    *)
(* partition was not acknowledged, whether it was written or not.          *)
(***************************************************************************)
EXTENDS Integers, Sequences, FiniteSets

CONSTANTS Producers,     \* callers of Enqueue, one per source connection
          Partitions,    \* the partitions of the topic
          BufferSize,    \* kafkaLocalBufferSize
          BatchCap,      \* cap(batch)
          MaxRetries,    \* the argument of retryWithBackoff
          BreakerLimit,  \* maxConsecutiveDecodeErrors
          MaxSeq,        \* bound: events a producer offers
          MaxEvents,     \* bound: events that all of them offer
          MaxFaults,     \* bound: failed calls of the cluster and undecodable messages
          Garbage        \* a message that does not decode

Event == [conn : Producers, seq : 1..MaxSeq]

ASSUME KafkaQueueAssumption ==
  /\ {BufferSize, BatchCap, MaxRetries, BreakerLimit} \subseteq Nat \ {0}
  /\ {MaxSeq, MaxEvents, MaxFaults} \subseteq Nat /\ BreakerLimit <= MaxFaults
  /\ IsFiniteSet(Partitions) /\ Garbage \notin Event

VARIABLES hash,      \* the partition of each key: the Hash balancer
          closed,    \* q.closed
          msgCh,     \* the channel's messages
          chClosed,  \* close(q.msgCh) was called
          batch,     \* produceLoop's batch
          at,        \* where produceLoop is
          attempt,   \* retryWithBackoff's attempt
          pending,   \* messages of failed halves, still to be retried
          nfailed,   \* messages whose single retry failed
          topic,     \* the messages of each partition
          offset,    \* messages of each partition the reader has handed out
          produced, consumed, overflow, \* the counters
          closer,    \* Close: not called, to close the channel, waiting, returned
          consumer,  \* the replayer's goroutine: idle, in Dequeue (reading, then
                     \* counting what it returns or skips), or ended
          errors,    \* consecutiveErrors of the current Dequeue
          sent,      \* history: events offered, per connection
          accepted,  \* history: events for which Enqueue reported no drop
          rejected,  \* history: events for which it did
          faults, readFaults, \* history: failed calls of the cluster
          early      \* history: Dequeue returned false, not cancelled nor closed

loop == <<batch, at, attempt, pending, nfailed>>
cluster == <<topic, faults>>
reading == <<offset, consumed, consumer, errors, readFaults, early>>
calls == <<sent, accepted, rejected>>
vars == <<hash, closed, msgCh, chClosed, loop, cluster, produced, overflow, closer, reading, calls>>

Stages == {"collect", "full", "retry", "single", "left", "right", "each", "count", "report", "done"}

TypeOK == /\ hash \in [Producers -> Partitions] /\ closed \in BOOLEAN
          /\ msgCh \in Seq(Event) /\ Len(msgCh) <= BufferSize /\ chClosed \in BOOLEAN
          /\ batch \in Seq(Event) /\ Len(batch) <= BatchCap /\ at \in Stages
          /\ attempt \in 0..MaxRetries /\ pending \in Seq(Event) /\ nfailed \in 0..BatchCap
          /\ topic \in [Partitions -> Seq(Event \union {Garbage})]
          /\ offset \in [Partitions -> Nat] /\ \A k \in Partitions : offset[k] <= Len(topic[k])
          /\ {produced, consumed, overflow, rejected, readFaults} \subseteq Nat /\ faults \in 0..MaxFaults
          /\ closer \in {"none", "closing", "waiting", "returned"}
          /\ consumer \in {"idle", "reading", "counting", "skipping", "ended"} /\ errors \in 0..BreakerLimit
          /\ early \in BOOLEAN
          /\ sent \in [Producers -> 0..MaxSeq] /\ accepted \subseteq Event

\* A topic that other versions have written to before holds messages that
\* this one does not decode.
Init == /\ hash \in [Producers -> Partitions] /\ closed = FALSE /\ msgCh = <<>> /\ chClosed = FALSE
        /\ batch = <<>> /\ at = "collect" /\ attempt = 0 /\ pending = <<>> /\ nfailed = 0
        /\ \E n \in 0..BreakerLimit, k \in Partitions :
             topic = [j \in Partitions |-> IF j = k THEN [i \in 1..n |-> Garbage] ELSE <<>>]
        /\ offset = [k \in Partitions |-> 0] /\ produced = 0 /\ consumed = 0 /\ overflow = 0
        /\ closer = "none" /\ consumer = "idle" /\ errors = 0
        /\ sent = [p \in Producers |-> 0] /\ accepted = {} /\ rejected = 0
        /\ faults = 0 /\ readFaults = 0 /\ early = FALSE

\* The undecodable messages of partition k; what has gone wrong so far.
Foreign(k) == Cardinality({i \in DOMAIN topic[k] : topic[k][i] = Garbage})
Troubles == faults + readFaults + Cardinality({x \in Partitions \X (1..BreakerLimit) : x[2] <= Foreign(x[1])})
-----------------------------------------------------------------------------
(***************************************************************************)
(* Enqueue: one critical section, so that Close cannot come between the    *)
(* check and the send.                                                     *)
(***************************************************************************)
NextEvent(p) == [conn |-> p, seq |-> sent[p] + 1]
Offered[P \in SUBSET Producers] ==
  IF P = {} THEN 0 ELSE LET p == CHOOSE x \in P : TRUE IN sent[p] + Offered[P \ {p}]
Offers(p) == /\ sent[p] < MaxSeq /\ Offered[Producers] < MaxEvents
             /\ sent' = [sent EXCEPT ![p] = @ + 1]
             /\ UNCHANGED <<hash, closed, chClosed, loop, cluster, produced, closer, reading>>

EnqueueClosed(p) == Offers(p) /\ closed /\ UNCHANGED <<msgCh, accepted, rejected, overflow>>

\* Wrong variant, for the mutation runs: closed is not checked.
EnqueueSend_NoCheck(p) == /\ Offers(p) /\ Len(msgCh) < BufferSize
                          /\ msgCh' = Append(msgCh, NextEvent(p))
                          /\ accepted' = accepted \union {NextEvent(p)}
                          /\ UNCHANGED <<rejected, overflow>>

EnqueueSend(p) == /\ Offers(p) /\ ~closed /\ Len(msgCh) < BufferSize
                  /\ msgCh' = Append(msgCh, NextEvent(p))
                  /\ accepted' = accepted \union {NextEvent(p)}
                  /\ UNCHANGED <<rejected, overflow>>

EnqueueFull(p) == /\ Offers(p) /\ ~closed /\ Len(msgCh) = BufferSize
                  /\ rejected' = rejected + 1 /\ overflow' = overflow + 1
                  /\ UNCHANGED <<msgCh, accepted>>
-----------------------------------------------------------------------------
(***************************************************************************)
(* The cluster.                                                            *)
(***************************************************************************)
PartitionsOf(ms) == {hash[ms[i].conn] : i \in DOMAIN ms}

\* A message is appended to its partition, if that is one of K.
AppendOne(h, t, m, K) == IF h[m.conn] \in K THEN [t EXCEPT ![h[m.conn]] = Append(@, m)] ELSE t
AppendEach(h, t, ms, K) ==
  LET after[n \in 0..Len(ms)] == IF n = 0 THEN t ELSE AppendOne(h, after[n - 1], ms[n], K)
  IN  after[Len(ms)]
Appended(ms, K) == AppendEach(hash, topic, ms, K)

\* WriteMessages returns nil: every partition has acknowledged its messages.
WriteOK(ms) == topic' = Appended(ms, PartitionsOf(ms)) /\ UNCHANGED faults

\* WriteMessages returns an error, a timeout included: any of the partitions
\* may have taken its messages all the same.
WriteFails(ms) == /\ Troubles < MaxFaults /\ faults' = faults + 1
                  /\ \E K \in SUBSET PartitionsOf(ms) : topic' = Appended(ms, K)
-----------------------------------------------------------------------------
(***************************************************************************)
(* produceLoop.                                                            *)
(***************************************************************************)
Loops == UNCHANGED <<hash, closed, chClosed, closer, reading, calls>>

\* Wrong variant, for the mutation runs: the batch grows past its capacity.
Receive_OverCap == /\ Loops /\ at = "collect" /\ msgCh # <<>> /\ Len(batch) <= BatchCap
                   /\ batch' = Append(batch, Head(msgCh)) /\ msgCh' = Tail(msgCh)
                   /\ UNCHANGED <<at, attempt, pending, nfailed, cluster, produced, overflow>>

Receive == /\ Loops /\ at = "collect" /\ msgCh # <<>> /\ Len(batch) < BatchCap
           /\ batch' = Append(batch, Head(msgCh)) /\ msgCh' = Tail(msgCh)
           /\ UNCHANGED <<at, attempt, pending, nfailed, cluster, produced, overflow>>

\* Wrong variant, for the mutation runs: a batch that is not full is kept back.
Flush_WhenFull == /\ Loops /\ at = "collect" /\ (Len(batch) = BatchCap \/ (batch # <<>> /\ chClosed /\ msgCh = <<>>))
                  /\ at' = "full"
                  /\ UNCHANGED <<msgCh, batch, attempt, pending, nfailed, cluster, produced, overflow>>

\* The drain ends: the channel is empty or closed, or the batch is full.
Flush == /\ Loops /\ at = "collect" /\ batch # <<>> /\ (msgCh = <<>> \/ Len(batch) = BatchCap)
         /\ at' = "full"
         /\ UNCHANGED <<msgCh, batch, attempt, pending, nfailed, cluster, produced, overflow>>

\* The channel is closed and empty: close(q.doneCh).
LoopEnds == /\ Loops /\ at = "collect" /\ batch = <<>> /\ msgCh = <<>> /\ chClosed
            /\ at' = "done"
            /\ UNCHANGED <<msgCh, batch, attempt, pending, nfailed, cluster, produced, overflow>>

\* A step of the write of the current batch.
Writes(stage) == Loops /\ at = stage /\ UNCHANGED <<msgCh, batch>>
Goes(stage) == at' = stage /\ UNCHANGED <<produced, overflow>>

\* The write is over and n messages of it failed; no counter has moved yet.
Over(n) == /\ Loops /\ at' = "count" /\ attempt' = 0 /\ pending' = <<>> /\ nfailed' = n
           /\ UNCHANGED <<msgCh, batch, produced, overflow>>

\* writeBatchWithRetry: the first try of the full batch.
WriteFull == \/ at = "full" /\ WriteOK(batch) /\ Over(0)
             \/ /\ Writes("full") /\ WriteFails(batch) /\ Goes("retry")
                /\ UNCHANGED <<attempt, pending, nfailed>>

Halves == IF Len(batch) > 1 THEN "left" ELSE "single"

\* Wrong variant, for the mutation runs: giving up because the queue closes is no error.
RetryAbandoned_NoError == at = "retry" /\ attempt > 0 /\ closed /\ Over(0) /\ UNCHANGED cluster

\* retryWithBackoff gives up because the queue closes.
RetryAbandoned == /\ Writes("retry") /\ attempt > 0 /\ closed /\ Goes(Halves)
                  /\ attempt' = 0 /\ UNCHANGED <<cluster, pending, nfailed>>

\* retryWithBackoff: an error that is not retriable, or the last attempt, ends it.
Retry == /\ attempt > 0 => ~closed
         /\ \/ at = "retry" /\ WriteOK(batch) /\ Over(0)
            \/ /\ Writes("retry") /\ WriteFails(batch) /\ UNCHANGED <<pending, nfailed>>
               /\ \/ attempt + 1 < MaxRetries /\ attempt' = attempt + 1 /\ Goes("retry")
                  \/ Goes(Halves) /\ attempt' = 0

\* writePartialBatch: a single message.
WriteSingle == at = "single" /\ ((WriteOK(batch) /\ Over(0)) \/ (WriteFails(batch) /\ Over(1)))

Left == SubSeq(batch, 1, Len(batch) \div 2)
Right == SubSeq(batch, Len(batch) \div 2 + 1, Len(batch))

WriteLeft == /\ Writes("left") /\ Goes("right") /\ UNCHANGED <<attempt, nfailed>>
             /\ \/ WriteOK(Left) /\ UNCHANGED pending
                \/ WriteFails(Left) /\ pending' = Left

\* Both halves failed: nothing is tried again.  One failed: its messages are,
\* one by one.
WriteRight ==
  \/ at = "right" /\ pending = <<>> /\ WriteOK(Right) /\ Over(0)
  \/ at = "right" /\ pending # <<>> /\ WriteFails(Right) /\ Over(Len(batch))
  \/ /\ Writes("right") /\ Goes("each") /\ UNCHANGED <<attempt, nfailed>>
     /\ \/ pending # <<>> /\ WriteOK(Right) /\ UNCHANGED pending
        \/ pending = <<>> /\ WriteFails(Right) /\ pending' = Right

WriteEach ==
  \/ /\ Writes("each") /\ pending # <<>> /\ Goes("each") /\ pending' = Tail(pending) /\ UNCHANGED attempt
     /\ \/ WriteOK(<<Head(pending)>>) /\ UNCHANGED nfailed
        \/ WriteFails(<<Head(pending)>>) /\ nfailed' = nfailed + 1
  \/ at = "each" /\ pending = <<>> /\ Over(nfailed) /\ UNCHANGED cluster

\* Wrong variant, for the mutation runs: produced counts the whole batch.
CountProduced_WholeBatch ==
  /\ Loops /\ at = "count" /\ at' = "report" /\ produced' = produced + Len(batch)
  /\ UNCHANGED <<msgCh, batch, attempt, pending, nfailed, cluster, overflow>>

\* writeBatchWithRetry and retryWithBackoff count what was written, after the
\* acknowledgement: Dequeue may have read the messages already.
CountProduced ==
  /\ Loops /\ at = "count" /\ at' = "report" /\ produced' = produced + Len(batch) - nfailed
  /\ UNCHANGED <<msgCh, batch, attempt, pending, nfailed, cluster, overflow>>

NextBatch == /\ Loops /\ at = "report" /\ at' = "collect" /\ batch' = <<>> /\ nfailed' = 0
             /\ UNCHANGED <<attempt, pending, cluster, produced>>

\* Wrong variant, for the mutation runs: a batch that failed is offered again.
ReportFailed_Requeues ==
  LET again == nfailed = Len(batch) /\ ~chClosed /\ Len(msgCh) + nfailed <= BufferSize
  IN  /\ NextBatch
      /\ overflow' = IF again THEN overflow ELSE overflow + nfailed
      /\ msgCh' = IF again THEN msgCh \o batch ELSE msgCh

\* produceLoop counts the failed messages, each with a recordOverflow of its own,
\* and starts a new batch.
ReportFailed == NextBatch /\ overflow' = overflow + nfailed /\ UNCHANGED msgCh

produceLoop == \/ Receive \/ Flush \/ LoopEnds \/ WriteFull \/ RetryAbandoned \/ Retry
               \/ WriteSingle \/ WriteLeft \/ WriteRight \/ WriteEach
               \/ CountProduced \/ ReportFailed
-----------------------------------------------------------------------------
(***************************************************************************)
(* Dequeue.                                                                *)
(***************************************************************************)
Reads == UNCHANGED <<hash, closed, msgCh, chClosed, loop, cluster, produced, overflow, closer, calls>>

DequeueStart == /\ Reads /\ consumer = "idle" /\ errors' = 0
                /\ consumer' = IF closed THEN "ended" ELSE "reading"
                /\ UNCHANGED <<offset, consumed, readFaults, early>>

\* ReadMessage hands out, and commits, the next message of partition k.
Fetches(k) == /\ Reads /\ consumer = "reading" /\ closer # "returned" /\ offset[k] < Len(topic[k])
              /\ offset' = [offset EXCEPT ![k] = @ + 1]
Fetched(k) == topic[k][offset[k] + 1]

DequeueEvent(k) == /\ Fetches(k) /\ Fetched(k) # Garbage
                   /\ consumer' = "counting" /\ errors' = 0
                   /\ UNCHANGED <<consumed, readFaults, early>>

\* Wrong variant, for the mutation runs: a skipped message is not counted.
DequeueSkips_Uncounted(k) == /\ Fetches(k) /\ Fetched(k) = Garbage /\ errors + 1 < BreakerLimit
                             /\ errors' = errors + 1
                             /\ UNCHANGED <<consumed, consumer, readFaults, early>>

DequeueSkips(k) == /\ Fetches(k) /\ Fetched(k) = Garbage /\ errors + 1 < BreakerLimit
                   /\ errors' = errors + 1 /\ consumer' = "skipping"
                   /\ UNCHANGED <<consumed, readFaults, early>>

\* Wrong variant, for the mutation runs: any message that does not decode ends the replay.
DequeueBreaks_AtOnce(k) == /\ Fetches(k) /\ Fetched(k) = Garbage
                           /\ errors' = errors + 1 /\ consumer' = "ended"
                           /\ early' = (early \/ ~closed)
                           /\ UNCHANGED <<consumed, readFaults>>

\* The circuit breaker; the message that trips it is not counted.
DequeueBreaks(k) == /\ Fetches(k) /\ Fetched(k) = Garbage /\ errors + 1 >= BreakerLimit
                    /\ errors' = errors + 1 /\ consumer' = "ended"
                    /\ early' = (early \/ ~closed)
                    /\ UNCHANGED <<consumed, readFaults>>

\* ReadMessage fails: the reader is closed, or the cluster fails, possibly after
\* the message was fetched, at its commit.
DequeueFails ==
  /\ Reads /\ consumer = "reading" /\ consumer' = "ended"
  /\ \/ closer = "returned" /\ UNCHANGED <<offset, readFaults>>
     \/ /\ Troubles < MaxFaults /\ readFaults' = readFaults + 1
        /\ \/ UNCHANGED offset
           \/ \E k \in Partitions : offset[k] < Len(topic[k]) /\ offset' = [offset EXCEPT ![k] = @ + 1]
  /\ early' = (early \/ ~closed)
  /\ UNCHANGED <<consumed, errors>>

\* The message is counted once it is decoded or skipped; then Dequeue returns
\* the event or reads on.
DequeueCounts == /\ Reads /\ consumer \in {"counting", "skipping"} /\ consumed' = consumed + 1
                 /\ consumer' = IF consumer = "counting" THEN "idle" ELSE "reading"
                 /\ UNCHANGED <<offset, errors, readFaults, early>>

Dequeue == DequeueStart \/ DequeueCounts \/ DequeueFails \/ \E k \in Partitions : DequeueEvent(k) \/ DequeueSkips(k) \/ DequeueBreaks(k)

\* ReadMessage fails because the context is cancelled.
DequeueCancelled == /\ Reads /\ consumer = "reading" /\ consumer' = "ended"
                    /\ UNCHANGED <<offset, consumed, errors, readFaults, early>>
-----------------------------------------------------------------------------
(***************************************************************************)
(* Close.  A second call finds closed set and does nothing.                *)
(***************************************************************************)
Closes == UNCHANGED <<hash, msgCh, loop, cluster, produced, overflow, reading, calls>>

Close == closer = "none" /\ Closes /\ closed' = TRUE /\ closer' = "closing" /\ UNCHANGED chClosed

\* Wrong variant, for the mutation runs: the channel stays open.
CloseChannel_LeavesOpen == closer = "closing" /\ Closes /\ closer' = "waiting" /\ UNCHANGED <<closed, chClosed>>

CloseChannel == closer = "closing" /\ Closes /\ chClosed' = TRUE /\ closer' = "waiting" /\ UNCHANGED closed

\* <-q.doneCh, then the writer and the reader are closed.
CloseReturn == closer = "waiting" /\ at = "done" /\ Closes /\ closer' = "returned" /\ UNCHANGED <<closed, chClosed>>
-----------------------------------------------------------------------------
Next == \/ \E p \in Producers : EnqueueClosed(p) \/ EnqueueSend(p) \/ EnqueueFull(p)
        \/ produceLoop \/ Dequeue \/ DequeueCancelled
        \/ Close \/ CloseChannel \/ CloseReturn

Spec == Init /\ [][Next]_vars

\* Every call of the cluster has a deadline, so the goroutines go on; nobody
\* has to call Enqueue, Close or cancel.
FairSpec == Spec /\ WF_vars(produceLoop) /\ WF_vars(Dequeue) /\ WF_vars(CloseChannel \/ CloseReturn)
-----------------------------------------------------------------------------
Elems(s) == {s[i] : i \in DOMAIN s}
InFlight == Elems(msgCh) \union Elems(batch)
OnTopic == UNION {Elems(topic[k]) : k \in Partitions}

(***************************************************************************)
(* No event vanishes: one that Enqueue took is in the channel, in the      *)
(* batch or on the topic, or the overflow counter counts it, whatever      *)
(* write fails at whatever stage and also while the queue closes.          *)
(***************************************************************************)
LossesReported == Cardinality(accepted \ (InFlight \union OnTopic)) <= overflow - rejected

(***************************************************************************)
(* Every event that Enqueue took is counted exactly once when it leaves    *)
(* produceLoop: as produced or as an overflow, through retries, halves and *)
(* single messages.  Between the two counters only the failed messages of  *)
(* the batch are still uncounted.                                          *)
(***************************************************************************)
Uncounted == IF at = "report" THEN nfailed ELSE Len(batch)
MessagesCounted == produced + overflow - rejected + Uncounted + Len(msgCh) = Cardinality(accepted)

(***************************************************************************)
(* What Depth adds to the length of the channel, produced less consumed,   *)
(* follows the unread part of the topic as long as the replay goes on and  *)
(* no call of the cluster failed.  It is an approximation (kafkaqueue.go:  *)
(* 604-610): it is too low by the batch that is acknowledged and not yet   *)
(* counted, too high by the message that is read and not yet counted, and  *)
(* lower by the messages that other processes wrote, also when they do not *)
(* decode; by nothing else, so the error does not grow.                    *)
(***************************************************************************)
Own == UNION {{k} \X {i \in DOMAIN topic[k] : topic[k][i] # Garbage} : k \in Partitions}
Read == UNION {{k} \X (1..offset[k]) : k \in Partitions}
Acknowledged == IF at = "count" THEN Len(batch) ELSE 0
HandedOut == IF consumer \in {"counting", "skipping"} THEN 1 ELSE 0
DepthTracksBacklog ==
  faults = 0 /\ readFaults = 0 /\ consumer # "ended" =>
    (produced + Acknowledged) - (consumed + HandedOut) = Cardinality(Own) - Cardinality(Read)

(***************************************************************************)
(* Reordering and duplication stay within the batch that is being retried: *)
(* the first try of a batch puts every event behind the older ones of its  *)
(* connection, and a retry may put one behind events that are not older    *)
(* only if they belong to the same batch.                                  *)
(***************************************************************************)
StaysInBatch ==
  \A k \in Partitions : \A j \in Len(topic[k]) + 1..Len(topic'[k]) : \A i \in 1..j - 1 :
    LET e == topic'[k][i]  new == topic'[k][j]
    IN  e # Garbage /\ e.conn = new.conn /\ e.seq >= new.seq => at # "full" /\ e \in Elems(batch)
RetriesStayInBatch == [][StaysInBatch]_vars

(***************************************************************************)
(* When the producer has ended nothing is left behind in the channel or    *)
(* the batch, and nothing is sent on the closed channel afterwards: Close  *)
(* flushes.                                                                *)
(***************************************************************************)
CloseFlushes == at = "done" => closed /\ msgCh = <<>> /\ batch = <<>>

(***************************************************************************)
(* The replay ends early only for a reason: reading the topic failed, or   *)
(* it holds enough messages that do not decode to trip the breaker.        *)
(***************************************************************************)
EndsOnlyWhenDone == early => readFaults > 0 \/ \E k \in Partitions : Foreign(k) >= BreakerLimit

\* Close returns, and no consumer stays blocked.
CloseReturns == closed ~> closer = "returned" /\ consumer \in {"idle", "ended"}

(***************************************************************************)
(* An event that Enqueue took is delivered, unless the consumer has ended  *)
(* or events were reported lost.                                           *)
(***************************************************************************)
Delivered(e) == \E i \in 1..offset[hash[e.conn]] : topic[hash[e.conn]][i] = e
Delivers == \A e \in Event : e \in accepted ~> Delivered(e) \/ consumer = "ended" \/ overflow > rejected

\* Every accepted event is in exactly one of the counters or still on its way,
\* and Depth differs from the backlog only by what the two goroutines have not
\* counted yet (produced, consumed and overflow).
EventsAccounted == LossesReported /\ MessagesCounted /\ DepthTracksBacklog

\* Neither goroutine ends early: produceLoop with all flushed, the consumer with
\* a reason (the closed channel, the circuit breaker).
NeitherEndsEarly == CloseFlushes /\ EndsOnlyWhenDone

\* Accepted events are delivered while the brokers accept them, and Close returns.
FlushesAndCloses == Delivers /\ CloseReturns
=============================================================================
