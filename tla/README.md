# pgshadow in TLA+

pgshadow captures PostgreSQL traffic of a production server, turns it into SQL
events, buffers them, and replays them against a target database without ever
slowing production down. This directory holds TLA+ models of the parts of it in
which goroutines, locks, deadlines and failures meet, the TLC configurations
that check them, and proofs for TLAPS.

## The system

    frames -> XDP program \
                            ring buffer -> capture source -> packets
    SSL_read, SSL_write ->  /
       uprobes
    packets -> reassembler -> StreamProcessor -> filter
            -> Buffer_Queue (ring | file | kafka) -> replayer.Run -> lanes
            -> error policy -> affinity pool -> target database
    control plane (HTTP), failover detector, shutdown signal -> pipelineState

| Component | State | Operations | What makes it correct |
|---|---|---|---|
| eBPF sources (`capture/bpf/*.c`, `source_ebpf.go`, `source_ebpf_ssl.go`) | kernel ring buffer, attached probes, argument maps, packet channel, sequence numbers | the XDP program, four uprobes, constructor, readLoop, Stats, Close | what arrives is delivered or counted, bytes reach their own stream in order, nothing stays attached |
| reassembler (`capture/reassembler.go`) | a connection per four-tuple, two half-connections each | Assemble, FlushOlderThan, Close | ordered bytes with the right connection and direction |
| ring buffer (`pkg/queue/ringbuffer.go`) | circular array, `closed`, one condition variable shared by both sides | Enqueue under three overflow policies, Dequeue with a context, Close | FIFO per connection, no lost wake-up, every discard counted, Close and cancellation free everybody |
| file queue (`filequeue.go`, `filequeue_codec.go`) | append-only log, read and write offsets, count, a shared encode buffer | the same, plus compaction and record skipping | same contract; cursor and count agree through failures of the disk |
| kafka queue (`kafkaqueue.go`) | channel, batch, counters, reader offsets | the same, with batching, retries by halves and a circuit breaker | every event written or counted once, reordering only within a retried batch, Close flushes |
| pipeline lifecycle (`cmd/pgshadow/pipeline.go`, `main.go`) | `mu`, `paused`, capture handle, producer context and done channel, consumer | startPipeline, pauseCapture, resumeCapture, restartCapture, drainWithin | at most one producer, pause is effective, the drain loses nothing within its deadlines and always ends |
| control plane (`internal/control`) | active or paused | activate, pause, status | its state agrees with the pipeline's |
| failover detector (`internal/monitor`) | last resolved address | a check per tick, callback on change | capture follows the primary |
| replayer (`pkg/replayer`) | lanes, semaphore, dispatcher, retry counters | Run, lane workers, error policy | captured order per connection (globally in serial mode), bounded memory, Run returns |
| affinity pool (`pool.go`) | leases per source connection | acquireFor, release, invalidation | never oversubscribed, one session per connection |
| StreamProcessor and protocol collaborators (`pkg/pipeline`, `pkg/protocol`) | per-connection parser state, transaction ids, bind and copy state | OnBytes, OnClose | events carry the right transaction and order whatever the interleaving of the two directions |
| transaction filter (`pkg/filter`) | transaction status per connection, a rule matrix per mode | Classify, Decide, OnStatement, OnReadyForQuery | each statement is judged in the status the source runs it in; what is kept drives a target session through the same transactions |
| resilient source (`source_resilient.go`) | inner handle, closed flag, statistics | reconnect loop, Close | no handle outlives Close |
| replay guard (`pkg/replayguard`) | sampling and limits | Apply, CheckBackpressure | decisions are consistent within a transaction |

The parts interact by records in the kernel's ring buffer, by calls (detector
and control plane into `pipelineState`, replayer into the pool), by channels (`producerDone`, `consumerDone`, the
semaphore) and by the queue. The hard behaviour is where two of them meet: a
drain that takes no lock beside callbacks that do, one condition variable with
two kinds of waiters, worker slots that are held while the target makes a
worker wait. `PROJECT.json` lists these places under "hazards".

## Modules

- `BufferQueue`: what the Queue interface promises: a bounded FIFO with an
  overflow policy that can be closed once.
- `RingBuffer`: the ring buffer. One action per critical section; `waiters` is
  the condition variable's notify list, which in Go is FIFO. `pc` tells where a
  goroutine is between its critical sections (`waiting` is inside `cond.Wait`,
  `woken` is after a Signal and before the mutex, `overflow` is between the
  unlock and `recordOverflow`). `watch` is the goroutine Dequeue starts to turn
  a cancellation into a Broadcast. `policy` is chosen once, by configuration.
- `FileQueue`: a second implementation of `BufferQueue`. `wal` holds the records
  of the file and `readOff` counts them; `skewed` says that the cursor has left
  the record boundaries. `payload` and `inBuf` are the encoded events of waiting
  producers and which of them still lie in the shared `encodeBuf`. A read or a
  write of the disk may fail; the codec is kept to whether a payload decodes.
- `KafkaQueue`: `at` is the stage of `writeBatchWithRetry` that produceLoop is
  in. The counters move in steps of their own, as they do in the code: `produced`
  after the acknowledgement (`count`), the overflow of what failed after that
  (`report`), `consumed` after the message was read (`counting`, `skipping`), so
  each goroutine may be seen between the two. The cluster is external: a failed write may have taken effect on any of
  its partitions, a failed read may have moved the offset, and the topic may
  hold messages of others that do not decode.
- `EBPFSource`: what the two eBPF sources share: ring buffer, readLoop, channel
  and Close. `XDPMirror` extends it with the XDP program, one instance per CPU,
  split at the points where another CPU or readLoop can see what it did: reserve,
  submit, count. A frame is the values of the header fields the program reads.
  `SSLUprobes` extends it with the probes on the calls of the server's threads,
  the argument maps, the sequence numbers and the synthetic packets. An element
  of an argument map is free as soon as the exit probe has deleted it, which is
  before the probe reads it; the copy of the buffer may fail, which the probe
  ignores. Records and packets carry, for the properties only, the call they
  belong to, its result, how many bytes were copied and through whose pointer. The module feeds
  the packets to `Reassembler`, which is a module of operators on its pool of
  connections: a packet is queued by its sequence number, then the queue is
  offered to the half-connection, one packet after the other. `EBPFCapture` puts the two behind the configured mode.
- `PipelineLifecycle`: `pipelineState` with the control plane, the failover
  detector and main. A callback is split at its lock, its cancellation, its
  wait, its open and its start; drainWithin at each of its five steps, and
  between closing the handle and setting it to nil, because it does not take
  `p.mu`. Handles and producers are numbered by the successful
  `capture.Open`. The queue and the replayer are reduced to counters: a queue
  of capacity `QueueCap` with the block policy, a dispatcher, `LaneCap` lane
  places. `present`, chosen at start, says which callers there are: two control
  requests, or one and the detector. `dns` is what the source host resolves to and is moved by the
  environment.
- `Replayer`: dispatcher, lanes, workers, semaphore, error policy and pool. The
  configuration is the record `mode`, chosen once. The target is external: a row lock that `write` takes and `commit` frees, failing
  statements, dying connections. `Proceeds` is what a worker does by itself, and
  leaves out the failure of a statement whose connection lives, which nobody owes
  it. A worker's steps are the places at which it can
  wait: the slot, the lease, the statement, the rollback.
- `SQLFilter`: the classifier (per statement and by priority for a batch), the
  rule matrices of the five modes, `Decide`, and the inference of the status
  from requests. SQL text is a sequence of statement kinds; the lexer that finds
  the kinds is not modelled.
- `StreamProcessor`: extends `SQLFilter`. `sp[c]` joins what the processor and
  its collaborators keep for a connection: the two parsers' phases, the inferred
  status, the current TxID, the sequence number, the correlator's statements,
  the COPY buffer, the running timer and the text it is for. Clients, pooler and
  PostgreSQL are external: `srv` is the source's session, `sending` the commands
  under way, each with the event the processor made of it; the event's text is
  kept apart from the text that the server runs. An action is one
  message and the `OnBytes` call that observes it, `Reply` is CommandComplete
  with ReadyForQuery. `shadow` is the status of a session that runs the kept
  events only; `blocks` and `past` are the TxIDs of the open and of earlier
  transaction blocks; these, `strayed` and `reparsed` are history variables.
- Modules whose names begin with `MC`: instances for TLC. Modules whose names end
  in `Proofs`: the theorems about the module they extend.

Definitions whose names end in `_Something` right before a definition are wrong
variants of it, used to confirm that the properties notice the mistake.

## Runs

| Run | Shows |
|---|---|
| `ring` | all three policies, two producers and two consumers on one condition variable: refinement of `BufferQueue`, array consistency, order per connection, no lost wake-up, exact overflow count, Close and cancellation free everybody |
| `file_queue` | the same contract on disk, with a disk that fails: cursor and count agree, the file is released, losses are counted, a consumer is told the end only when it is the end, blocked producers run again |
| `kafka_queue` | writes that fail before or after they took effect, failing reads, foreign messages, Close at any moment: each event counted once, retries reorder only within their batch, Depth differs from the backlog only by the batch and the message that are not counted yet, Close flushes and returns, events are delivered |
| `lifecycle` | two control requests, or one beside the detector, failing reopens, a target that may hang, shutdown at any moment: one producer and an effective pause (without detector), the right address, a clean drain refuses and loses nothing, the pool is closed last, shutdown terminates |
| `replay` | four configurations of the replayer with failing statements (in three of them), dying connections and cancellation: order per connection and globally, slots, lane memory, leases, complete drain; Run returns after cancellation, and after Close unless a statement waits for a row lock whose holder the replayer itself holds up (`Inverted`) |
| `stream_lockstep` | clients that wait for each answer, with and without a pooler, on new connections and on ones that were open before: statements judged in the source's status, a replayed session that follows the source's, one TxID per transaction block, Bind correlation, whole COPYs, times recorded for the right statement |
| `ebpf_capture` | both eBPF sources from constructor to Close: every frame and every call is delivered whole, on its way, accounted for, or spoilt in one of the ways that the exit probe does not notice (a result of 4096 bytes or more, a failed copy, a pointer of another thread); to its own stream and in order; never through a pointer that an earlier call left; a failed constructor and Close leave nothing attached; Close returns and the ring drains whatever the consumer does |

Where several facts answer one question, a run checks their conjunction
(`ResourcesBounded` is `SlotsAccounted`, `LeasesWithinPool` and `LanesBounded`).
Each property states its parts as definitions of their own, and for each part
the module has a wrong variant of an action (`Action_Variant`) under which TLC
finds the property violated.

Five runs reproduce a disagreement between the code and what it says of itself:

| Run | Disagreement |
|---|---|
| `two_processors` | a failover during a pause, then a resume: two goroutines drive the StreamProcessor that is documented to have one |
| `backpressure_stuck` | with `max_queue_depth` exceeded by the queue itself, the only reader of the queue waits for the queue to shrink |
| `full_record` | a record of 4096 bytes, to which every longer one is capped: the mask on the copied length makes it 0, in both BPF programs |
| `purge_live` | while fewer than 500000 records were read, the purge's cutoff wraps below zero and live sequence numbers are forgotten; the reassembler takes what follows for retransmissions |
| `file_shared_buffer` | a producer blocked on the full file queue holds its event in a buffer that the next Enqueue overwrites |

Other behaviours were met while modelling and are not runs of their own.

Queues and lifecycle:

- With the block policy and more producers or consumers than places (capacity 1
  and two producers show it) a Signal may wake the wrong kind of waiter and
  leave all asleep. The lost wake-up theorem assumes one producer and one
  consumer, which is how pgshadow wires the queue, or a dropping policy.
- File queue: a header that cannot be read leaves the cursor between records and
  all that is buffered is skipped; when every record is skipped, Dequeue returns
  false on an open queue, which ends the replay. Skipped records are not
  compacted. An eviction that cannot read the oldest record drops the new event
  uncounted. The log shrinks only when it is empty, and a restart does not read it.
- Kafka queue: with the left half of a batch failing and the right one written,
  the left is then sent message by message behind it, so events of one
  connection are reordered although `kafkaqueue.go:5-8` promises their order; a
  write that timed out after it took effect is repeated. If both halves fail,
  nothing is tried one by one. A transient read error ends the replay. `Depth`
  leaves out the batch in flight, and is below the backlog between an
  acknowledgement and its count, above it between a read and its count.
  `drainWithin` calls Close without a deadline,
  and Close waits for all writes, up to 30 s each.
- The replayer can close a cycle with a row lock of the target in three ways
  (`Inverted`), and no timeout ends it. Serial replay of c1.write, c2.write,
  c1.commit on one row, a legal order of arrival: the lane waits for a lock whose
  COMMIT is behind it. One slot for two lanes: the slot is held by a statement
  that waits for a lock whose COMMIT waits for the slot. Lanes at `maxLaneDepth`
  behind a waiting statement: the dispatcher waits at `replayer_impl.go:301` and
  does not deliver the COMMIT, although the comment at 257-261 says that it no
  longer can be kept from it. Run then does not return after the queue is closed.
  `replay` has configurations for all three, and `RunReturnsInTheEnd` says that
  there is no other way; a cancellation ends each.
- `startProducer` may find `c.capture` set to nil by the drain, which the
  lifecycle model has as a crash. A callback that is under way at the signal may
  start a producer after the drain has waited for the previous one;
  `CleanDrainAcceptsAll` exempts exactly that (`late`).
- The control plane changes its state before it calls back and without a lock
  across the call, so a pause and an activate may run their callbacks in the
  other order, and a failing activate leaves "active" with capture paused.
- The detector remembers the new address before the reopen fails, so the same
  change is not tried again.

eBPF capture:

- `ssl_stats` is never read, so records the uprobes drop are in no statistic, and
  after Close the kernel's counters are gone from `Stats` of the XDP source.
- The exit probe frees the element of its arguments (`pgshadow_ssl.c:129`) and
  then reads the pointer from it (155): an enter probe on another CPU may take the
  element in between, and the record is copied through the other thread's pointer,
  although the comment at 48-49 promises per-thread state. `NothingVanishes` has
  it as one of the ways in which a call is spoilt.
- A thread that is killed inside a call leaves its element in the argument map;
  a full map makes the enter probe fail silently.
- Calls of more than 4096 bytes are truncated, and the sequence numbers do not
  show it. A copy that fails is submitted with the length it should have had.
  Threads 5432 and 5433 of one process share a four-tuple. The synthetic server
  port is 5432 whatever the configured port is. `TargetPID` is always 0.
- A packet that the full channel drops leaves a gap, behind which the reassembler
  holds data until the idle flush; the skipped length gopacket reports is ignored.

Stream (with the values that show them, where the run excludes them):

- A connection that was open when capture began, or was released as idle, is
  never framed again: its first typed message is read as a startup message. Not
  even a new Parse brings its events back, although `src/README.md:864` says so.
- `ABORT` and `PREPARE TRANSACTION` are Unknown and dropped: with `<<"abort">>`
  among `Queries`, `ShadowFollowsSource` fails.
- With pipelined requests (`Depth` 2) a ReadyForQuery of an earlier command
  overwrites the status inferred from a later one, and stops its timer:
  `JudgedInSourceStatus` and `TimesOwnStatement` fail.
- A refused SSLRequest is answered by a single byte, which leaves the server
  parser out of step for good (`duplex` is FALSE then).
- `DEALLOCATE ALL` classifies as Unknown, so it never triggers the pooler reset;
  `RESET ALL` triggers it although the server keeps its statements, which is why
  the run's applications leave reset commands to the pooler.
- `Streams` covers a COPY at any place of a text; the tracker starts only if the
  batch as a whole classifies as COPY, so the data of `BEGIN; COPY ...` is lost.
- A batch whose COMMIT is not reached because of an error ends the TxID's group
  nevertheless. Autocommitted writes share a TxID until the next COMMIT.
- A CopyDone that follows the server's error still makes an event. The time of a
  failed COPY is recorded under the statement before it, hence the exemption in
  `TimesOwnStatement`.
- A source connection that dies inside a transaction leaves no event behind:
  the replayed transaction stays open until the lane's session goes away.

### Bounds

- Ring: capacity 2 and four events, so the indices wrap and the overflow path
  runs when the array is wrapped and when it is not. Two goroutines per side are
  enough for a signal to reach the wrong one; their number is within the
  capacity, which the lost wake-up property needs (see above).
- File queue: capacity 2, six events, one failure of the disk (two were run as
  well); one producer under block, two under the dropping policies.
- Kafka: three events through a channel and batches of two reach every stage of
  the retries; four troubles in all (failed writes, failed reads, foreign
  messages) are enough for the longest chain of them. Two producers on two
  partitions were run with two events and three troubles.
- eBPF: a ring of two records and a channel of one are full within three frames
  or calls. The frames cover both IP versions, options, other ports and
  protocols, truncated headers, and options that look like PostgreSQL's ports.
  The two threads have the server's port as their number, and agree in their low
  16 bits. One argument element makes a full map and its reuse happen. The
  results of SSL_read (100 bytes) and of SSL_write (5000) are on either side of
  the record size; 100 and 5000 in both directions were run without liveness (1.8
  million states).
  `RingDrains` says that the ring is empty at some time, for which arrivals must
  end, as they do after `MaxFrames` frames or `MaxCalls` calls; under endless
  traffic only each record leaves the ring. The passing run stays below the first
  purge; `purge_live` scales it down.
- Lifecycle: `MaxCalls` 3 lets a pause, a resume and a failover follow each
  other or overlap. `MaxEvents` 3 with queue and lanes of 1 fills the
  lanes, the queue, and blocks the producer in Enqueue.
- Replayer: two connections of two statements each are the smallest lock
  conflict; concurrency, pool and lane depth of 1 or 2 put each limit within
  reach. One configuration has a single slot, lanes of depth 1 and no failures.
  `MaxAttempts` 1 distinguishes a retry that succeeds from one that is
  exhausted; in serial mode, where a retry can be overtaken by the most events.
  The concurrent retry mode was run separately (822 thousand states).
- Stream: connections share only the TxID counter, so one connection, reused
  by consecutive sessions, is enough. Four messages reach a transaction block
  with a failure in it, a Parse, reset and Bind, and a COPY after an abandoned
  one. `MaxCopy` 1 with two segments puts the buffer below, at and over its
  limit. One configuration has a pooler and `write_only`, the other has neither.
- Stream, environment: clients are in lock-step (`Depth` 1) and send no BEGIN
  inside a block; a pooler closes a connection whose reset fails; messages are
  observed whole and without gaps.

In all runs but the stream's deadlock checking is off because the programs end:
after Close, after exit, or when the bound on inputs is reached and everything
is drained. That nothing is stuck is checked as liveness instead. The stream run
checks for deadlock: a connection can always be closed and opened again.

### Fairness

Go schedules every runnable goroutine and its mutex does not starve, so each
goroutine's steps are weakly fair; timers and ticks fire. Nothing from outside
is fair: no request, switchover, packet, signal, cancellation or Close has to
come, and in the lifecycle model the target never has to answer. In the replayer the
target answers a statement that waits for no lock; one that waits for the lock of
another session is owed neither an answer nor a failure, because neither the
replayer nor the statements it sends set a timeout (`Proceeds`). A worker waiting on the
semaphore channel is served in turn, which is strong fairness of `TakeSlot`. In
the kafka queue every call of the cluster has a deadline, so produceLoop and
Dequeue go on. A BPF program that has started runs to its end, which the
kernel's verifier guarantees; frames, calls, the consumer of the packets and
Close are not fair. The stream model states safety only and assumes
no fairness.

## Proofs

Each module of proofs is about one component and holds for every value of the
component's constants that satisfies the named assumptions: any number of
goroutines, events, capacities, failures. Each has one inductive invariant, whose
parts are checked by TLC on the component's run before they are proved, and a
lemma per part of it and per group of actions.

`RingBufferProofs` (from `RingAssumption`):

- `RingTypeCorrect` and `RingAlwaysConsistent`: from
  `RingInv == TypeOK /\ RingConsistent /\ BlockedHasEvent /\ NotifyListExact`.
  A woken producer pushes the event it came with, so type correctness of `sent`
  needs `BlockedHasEvent` (a producer inside Enqueue has not offered all its
  events), and a Signal moves a goroutine from the notify list, so its target is
  only known to be asleep by `NotifyListExact`.
- `RingImplementsQueue`: each action maps to an action of `BufferQueue` or to a
  stutter, `q` being the array read from `head`. The lemmas on what push,
  eviction and take do to that sequence carry the modular arithmetic.
- `RingKeepsOrder`: `OrderInv` says that delivered and buffered events together
  are increasing in `seq` per connection and not ahead of `sent`; proved on the
  abstract steps.
- `RingOverflowCounted`: the counter against the set of goroutines that are
  between the unlock and `recordOverflow`, by counting that set.
- `NoLostWakeupSingle` (one producer, one consumer, any policy): `SleepInv`, at
  most one of the two sleeps beside a true condition, and never without the
  other being awake. `NoLostWakeupDrop` (no block policy, any goroutines):
  `DropSleepInv`, only consumers sleep.

`FileQueueProofs` (from `FileQueueAssumption`):

- `FileTypeCorrect`, without a hypothesis: `FileInv`, the cursors agree with the
  counter and a released file is empty.
- `FileAlwaysConsistent`, `FileDeliversInOrder`, `FileLossesReported` and
  `FileImplementsQueue` assume `OneBlockProducer`, at most one producer when the
  policy is block. The pipeline satisfies it: one goroutine frames and enqueues
  at a time. Without it the theorems are false, because producers that wait at
  the same time share `encodeBuf` (the run `file_shared_buffer`). `OneInv` adds
  that a waiting producer's payload is unharmed, that the log holds no garbage,
  that a lost boundary is explained by a failure of the disk, and the order of
  what is delivered and still to be read.
- `FileLossesReported` also assumes a capacity above 1: with capacity 1 an
  eviction empties the log, which sets a cursor straight that had lost the record
  boundaries, after records were lost to it, and the balance does not hold. It
  counts with `offered`, a history variable: the events offered so far.

`PipelineLifecycleProofs` (from `LifecycleAssumption`): `LifecycleTypeCorrect`,
`PauseIsEffective`, `DrainIsComplete`, `FailoverIsFollowed`, from `LifecycleInv`.
Two of its parts are counts: the handles that were opened and the callbacks that
may still open one are covered by the calls, and the framed and queued events are
held, queued, in a lane or executed. The others say who holds `p.mu` and what its
callback has done so far, that a live producer has the current handle, that main
is at the step of the drain that its flags say, and that the configured host is
the one the detector saw. `PauseIsEffective` speaks, as the property does, of
runs without the failover detector; with it the run `two_processors` is the
counterexample.

`ReplayerProofs` (from `ReplayerAssumption`): `ReplayTypeCorrect`,
`ReplayKeepsOrder`, `ReplayResourcesBounded`, `ReplayReturnsDrained`, from
`ReplayInv`. Order is stated over everything under way: executed, in a worker's
hands, in its lane and upstream, in this order, for each connection; in serial
mode over places in the captured sequence. The number of executed events is what
is left of the captured ones after those under way, hence the count `Counted`,
and a dispatcher that has passed the backpressure check still has room for its
event (`RoomToRoute`).

`KafkaQueueProofs` (from `KafkaQueueAssumption`): `KafkaTypeCorrect`,
`KafkaEventsAccounted`, `KafkaNeitherEndsEarly`, and the action property
`KafkaRetriesStayInBatch`, from `KafkaInv`. What a write puts on the topic is a
recursive function over the messages (`AppendEach`); `AppendEachFacts` says what
it computes. The invariant then relates the stages of a retried batch to what
the topic already holds (`BatchKept`), tells what each stage has counted already,
and orders the events of a connection by
how far they have come: topic, batch, channel, not yet sent.

`EBPFCaptureProofs` (from the assumptions of `EBPFSource`, `XDPMirror`,
`SSLUprobes` and `EBPFCapture`): `CaptureTypeCorrect` and `CaptureLeavesNothing`
in both modes, `CaptureCountsFrames` for the XDP program on any number of CPUs.
`Ordered` is the order in which a source acquires and releases objects, probes
and reader. `OneBusy` ties a busy record to the CPU that fills it; three tallies
relate the ring, readLoop, the channel and the six counters, and every step is
shown to change both sides of them alike (`Balance`). That the program picks
exactly the server's frames is `MatchesPostgres`: what the frame really is
(`OfServer`) is defined in terms of the protocols, independently of the
program's comparisons, and a port swapped to network order equals the loaded
bytes only if it is the port.

Its second half is about the uprobes, for any set of threads and any capacities:

- `CaptureLosesNothing` (`NothingVanishes`), by `SSLInv` and, for what a record
  holds, `OwnPackets` of `BufferInv`. The data of a call pass
  through six places: exit probe, ring, readLoop's hand, channel, reassembler
  pages, stream. `InOrder` says that of one thread and direction what is further
  on is of earlier calls, `AllPlaced` that a call with data is in a place or known
  to be lost. `ChannelOrdered` and `PoolOrdered` say the same in bytes: packets
  follow one another, and all that a half-connection has seen ends at or before
  the first byte of what is still to come (`HalfMark`), so nothing is a
  retransmission. What the reassembler makes of such a queue is an induction over
  it. That a session has one connection, found from either direction, rests on
  the four-tuple encoding the thread injectively.
- `CapturePlainTextStays` (`PlainTextStaysInSession`), by `SSLInv` and
  `BufferInv`: until readLoop returns a return probe is attached only together
  with its enter probe (Close detaches after that, `DetachLast`), so the element
  an exit probe finds was written for its call. Once it has freed the element only
  another thread can write it, since its own is still in the probe, and only a
  probe of the same direction (`OwnElements`). What was copied then travels with
  the record and the packet (`OwnRecords`, `OwnPackets`).

Both are stated until the first purge of sequence numbers (`BeforePurge`) and for
`Backends`, threads that are processes of their own with numbers below 2^24, as
PostgreSQL's are under Linux. The second also assumes `ServerPort = 5432`, the
port of the synthetic packets. The run satisfies them. TLC finds a
counterexample without any of them: after a purge `NothingVanishes` fails
(run `purge_live`); with threads 5432 and 5433 of one process both fail; with
server port 5433 `PlainTextStaysInSession` does. That a record is copied through
its own call's pointer is not proved because it is false (see above).

`StreamProcessorProofs` (from `StreamAssumption`):

- `StreamTypeCorrect`, for any number of commands under way. What the server
  makes of a batch is a recursive function over its statements (`ExecuteType`).
  `StreamInv` adds that what the server is given to run is a text, and that a
  COPY under way is the only command under way, so that CopyDone belongs to it.
- `StreamCopiesWhole`, by `CopyTracked`, for any number of commands under way;
  `StreamJudges` by `Tracks` and `StreamRecordsOwn` by `Recorded`, for clients
  that wait for each answer (`Depth = 1`). These parts are stated for one
  connection, which no step of another one changes. The hypotheses are satisfied
  by the stream run, and TLC finds a counterexample without any one of them:
  - `StreamCopiesWhole` assumes `CopiesRecognised`, a text that streams is within
    `max_sql_length` and classified as a COPY. Otherwise no buffer is started,
    and the data go to that of an abandoned COPY.
  - `StreamJudges` assumes `CopyWithoutControl`, no batch has both a COPY from
    the client and transaction control. Such a batch is dispatched at once; after
    an abandoned COPY its CopyDone is taken for the end of the older one, which
    is judged in the status inferred from the BEGIN.
  - `StreamRecordsOwn` assumes `PreparedRecorded`, no Parse is oversized or a
    reset. An oversized Parse of the unnamed statement leaves the older text
    recorded for the next Bind; a Bound RESET ALL clears the recorded statements
    while the server keeps them.
  - It also assumes `ResetsRecognised`, the pooler's reset query classifies as
    Utility and is one of those that the code knows. After another one the next
    client's Bind would find its predecessor's statement.

`StreamTransactionProofs` (extends `StreamProcessorProofs`, same assumption):
what the kept events of a connection amount to.

- `StreamShadowFollows`: a session that runs only the kept events has the
  source's transaction status. What a batch can do to a status is an induction
  over its statements (`ExecuteInvariant`): without control it changes nothing,
  without BEGIN it opens no block, COMMIT at its head ends one. `Served` says
  that the text of an event is the text that the server runs: the correlator
  knows what the server has prepared, up to the answers under way, and the buffer
  is of the COPY under way. On these `Mirrored` is inductive: a command that is
  not replayed carries no control.
- `StreamGroupsTransactions`: the events of a block carry one TxID of their own.
  `AllGrouped` says that inside a block, or on the way into one, the processor
  and the kept command under way have the same TxID, not 0 and not put away, and
  that every TxID of the block is that one; `Ids`, that no two connections own a
  TxID in common, so that what one puts away is not the other's.

Both assume `Depth = 1`, `CopiesRecognised`, `PreparedRecorded`,
`ResetsRecognised` and `ResetsDeallocate` (a reset query drops the prepared
statements, as DISCARD ALL does). `StreamShadowFollows` also assumes
`OverridesKeep` (custom rules drop plain reads at most) and `ControlReplayed`
(no excluded, oversized or unclassified text carries transaction control).
`StreamGroupsTransactions` also assumes `AllExtended` (the extended protocol is
captured), `CommitsFirst` (a batch with COMMIT or ROLLBACK begins with it and
opens no block) and `OversizedOpenNothing`. The stream run satisfies them all.
When one is dropped TLC finds a counterexample, with these exceptions:

- `StreamShadowFollows`: none was found within four messages without `Depth = 1`
  or `CopiesRecognised`; the argument needs `Served`, which rests on them.
- `StreamGroupsTransactions`: the texts that violate `CopiesRecognised` and break
  the property, a COPY followed by COMMIT, violate `CommitsFirst` too.

Induction over data is done without an operator parameter: to show a fact for
all numbers, take the set of those for which it holds and show that its
complement has no least element (`SetInduction`, from well-foundedness).

Checked by TLC only: the liveness properties, which are out of this prover's
reach, and what the violation runs show.

## Not modelled

- `capture/bpf/vmlinux.h` is generated by bpftool: 201838 lines of kernel type
  declarations, 99.8 % of the repository's C lines, without behaviour. The model
  uses the four protocol headers that the XDP program reads. Both BPF programs
  are modelled in full; measured against all C lines their share is small.
- Capture through libpcap and AF_PACKET forwards what the library hands out.
  Ordering inside a half-connection is gopacket's and is modelled from its use.
  Locating libssl, the BPF filter text and its validation are left out.
- The resilient source is constructed nowhere (were it used, Close during a
  reconnect would leave the new handle open, `source_resilient.go:113`); the
  router is not wired into the pipeline. Configuration, metrics export and logging have no protocol state.
- The constructor of the kafka queue (TLS, SASL, reachability). The bytes of the
  event codec.
- In the replayer, pacing, rate limits, and the guard's decisions and rewriting,
  which only delay, shorten or leave out a statement; the non-affine pool path.
- In the stream, messages split over segments, gaps after lost packets, the SQL
  lexer and the extraction of bind parameters.
- Shutdown of the process as a crash: pgshadow keeps nothing across a restart
  except Kafka's offsets.

## Plan

The modules are there, and every safety property of the passing runs is stated by
a theorem. What could still be modelled is listed above; what could still be
proved are the parts of the stream theorems that hold with several commands under way.
