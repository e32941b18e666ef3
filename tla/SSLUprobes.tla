----------------------------- MODULE SSLUprobes -----------------------------
(***************************************************************************)
(* Capture mode "ebpf_ssl": the four probes on SSL_read and SSL_write that *)
(* copy plaintext into the ring buffer                                     *)
(* (src/pkg/capture/bpf/pgshadow_ssl.c), and the source that makes         *)
(* synthetic TCP packets of their records                                  *)
(* (src/pkg/capture/source_ebpf_ssl.go), as the reassembler receives them. *)
(*                                                                         *)
(* The threads of the PostgreSQL server are external: each makes one call  *)
(* at a time, and the n-th call of a thread in a direction that transfers  *)
(* data is identified by [t, d, n].  An enter probe saves the pointer to   *)
(* the call's buffer in an element of a preallocated hash map, the exit    *)
(* probe finds it there.                                                   *)
(***************************************************************************)
EXTENDS EBPFSource, Reassembler

CONSTANTS Threads,     \* threads, records [pid, tid]
          Rets,        \* positive results, of SSL_read and of SSL_write
          TargetPID,   \* SSLConfig.TargetPID
          ServerPort,  \* the reassembler's serverPort (cfg.Port)
          MAX_ENTRIES, \* elements of ssl_read_args and of ssl_write_args
          PurgeEvery,  \* calls of nextSeq between two purges (100000)
          Wrap,        \* bound: stands for 2^64, above any number of calls
          MaxCalls     \* bound: calls of SSL_read and SSL_write

Dirs == {"read", "write"}

ASSUME SSLAssumption ==
  /\ Threads \subseteq [pid : Nat, tid : Nat] /\ Rets \in [Dirs -> SUBSET (Nat \ {0})]
  /\ TargetPID \in Nat /\ ServerPort \in Ports /\ MAX_ENTRIES \in Nat
  /\ PurgeEvery \in Nat \ {0} /\ MaxCalls \in Nat
  /\ Wrap \in Nat /\ Wrap > 10 * PurgeEvery

VARIABLES thr,       \* each thread: what it is doing, its call and its exit probe
          argmap,    \* ssl_read_args, ssl_write_args: thread to element, 0 if absent
          buf_ptr,   \* the contents of the elements
          calls,     \* how many calls with data each thread has made in each direction
          started,   \* how many calls were made in all
          seqNums, seqLastSeen, seqPurgeCounter,
          pool,      \* the reassembler's connections
          delivered, \* history: the chunks given to OnBytes
          lost       \* history: the calls lost at a point the code knows of

seqs == <<seqNums, seqLastSeen, seqPurgeCounter>>
ssl == <<thr, argmap, buf_ptr, calls, started, seqs, pool, delivered, lost>>

MAX_DATA_LEN == 4096
Elems == 1..MAX_ENTRIES
AllRets == UNION {Rets[d] : d \in Dirs}
StaleThreshold == 5 * PurgeEvery

\* The calls that transfer data, the records of the probes, and the packets
\* that readLoop makes of them.  For the properties they carry what their data
\* is: the call and its result ret, how many bytes were copied (valid), and the
\* call whose pointer they were copied through (from), None if nothing was copied.
CallIds == [t : Threads, d : Dirs, n : Nat]
SSLRecords == {r \in [pid : Nat, tid : Nat, d : Dirs, cap_len : Nat, call : CallIds,
                      ret : Nat, valid : Nat, from : CallIds \union {None}] :
                 r.call.t = [pid |-> r.pid, tid |-> r.tid] /\ r.call.d = r.d}
Addresses == [1..4 -> 0..255]
SSLPackets == [src : Addresses, sport : Ports, dst : Addresses, dport : Ports, seq : Nat,
               len : Nat, call : CallIds, ret : Nat, valid : Nat, from : CallIds \union {None}]

ASSUME SSLNoneAssumption == None \notin SSLRecords /\ None \notin CallIds

\* A thread outside SSL_read and SSL_write, killed, inside one of them, or in
\* the exit probe.
Resting == [pc |-> "idle", d |-> None, hooked |-> FALSE, elem |-> 0, ret |-> 0]
Dead == [pc |-> "dead", d |-> None, hooked |-> FALSE, elem |-> 0, ret |-> 0]
InCall(d, hooked) == [pc |-> "calling", d |-> d, hooked |-> hooked, elem |-> 0, ret |-> 0]
InExit(d, elem, ret) == [pc |-> "filling", d |-> d, hooked |-> TRUE, elem |-> elem, ret |-> ret]

Phases == [pc : {"idle", "dead"}, d : {None}, hooked : {FALSE}, elem : {0}, ret : {0}]
            \union [pc : {"calling"}, d : Dirs, hooked : BOOLEAN, elem : {0}, ret : {0}]
            \union [pc : {"filling"}, d : Dirs, hooked : {TRUE}, elem : Elems, ret : AllRets]

SSLTypeOK ==
  /\ thr \in [Threads -> Phases]
  /\ argmap \in [Dirs -> [Threads -> Elems \union {0}]]
  /\ \A d \in Dirs : \A t, u \in Threads : argmap[d][t] = argmap[d][u] /\ t # u => argmap[d][t] = 0
  /\ buf_ptr \in [Dirs -> [Elems -> CallIds \union {None}]]
  /\ calls \in [Threads -> [Dirs -> Nat]] /\ started \in 0..MaxCalls
  /\ DOMAIN seqNums = DOMAIN seqLastSeen /\ DOMAIN seqNums \subseteq Threads \X Dirs
  /\ seqNums \in [DOMAIN seqNums -> Nat] /\ seqLastSeen \in [DOMAIN seqNums -> Nat]
  /\ lost \subseteq CallIds
  /\ seqPurgeCounter \in Nat
  /\ \A k \in DOMAIN seqLastSeen : seqLastSeen[k] < seqPurgeCounter

SSLInit ==
  /\ thr = [t \in Threads |-> Resting]
  /\ argmap = [d \in Dirs |-> [t \in Threads |-> 0]]
  /\ buf_ptr = [d \in Dirs |-> [e \in Elems |-> None]]
  /\ calls = [t \in Threads |-> [d \in Dirs |-> 0]] /\ started = 0
  /\ seqNums = <<>> /\ seqLastSeen = <<>> /\ seqPurgeCounter = 0
  /\ pool = <<>> /\ delivered = <<>> /\ lost = {}
-----------------------------------------------------------------------------
(***************************************************************************)
(* newEBPFSSLSource attaches the probes in this order; when one cannot be  *)
(* attached, those before it are closed.                                   *)
(***************************************************************************)
Probes == <<[d |-> "read", at |-> "enter"], [d |-> "read", at |-> "exit"],
            [d |-> "write", at |-> "enter"], [d |-> "write", at |-> "exit"]>>
Attached(n) == {Probes[i] : i \in 1..n}

SSLOpenAttach == /\ objs /\ reader = "none"
                 /\ \E n \in 1..4 : links = Attached(n - 1) /\ links' = Attached(n)
                 /\ UNCHANGED <<ring, kstats, objs, reader, loop, held, packets, received, dropped, closing, ssl>>

SSLOpenReader == links = Attached(4) /\ OpenReader /\ UNCHANGED ssl

\* Wrong variant, for the mutation runs: the last probe attached is forgotten.
Unwound_ForgetsLast(n) == IF n = 1 THEN {} ELSE Attached(n - 2)

\* What the error path of each step closes: the n-th attachment, or for n = 5
\* the ring buffer's reader, fails.
Unwound(n) == Attached(n - 1)

SSLOpenFails == /\ \E n \in 1..5 : links = Attached(n - 1) /\ OpenFails(Unwound(n))
                /\ UNCHANGED ssl
-----------------------------------------------------------------------------
(***************************************************************************)
(* The probes.  A return probe fires for calls that began when it was      *)
(* attached.                                                               *)
(***************************************************************************)
should_trace(t) == TargetPID = 0 \/ t.pid = TargetPID
Probed(t, d, at) == [d |-> d, at |-> at] \in links /\ should_trace(t)

InMap(t, d) == argmap[d][t] # 0
\* The map is preallocated: an element is free as soon as its key is deleted,
\* also for a probe on another CPU while the exit probe that deleted it runs on.
FreeElems(d) == Elems \ {argmap[d][t] : t \in Threads}

CallId(t, d) == [t |-> t, d |-> d, n |-> calls[t][d] + 1]

Begins(t, d) == /\ thr[t].pc = "idle" /\ started < MaxCalls
                /\ started' = started + 1
                /\ thr' = [thr EXCEPT ![t] = InCall(d, Probed(t, d, "exit"))]
                /\ UNCHANGED <<source, calls, seqs, pool, delivered, lost>>

\* Wrong variant, for the mutation runs: an element that is left is kept.
Enter_NoExist(t, d) ==
  /\ Begins(t, d) /\ Probed(t, d, "enter")
  /\ \/ InMap(t, d) /\ UNCHANGED <<argmap, buf_ptr>>
     \/ /\ ~InMap(t, d)
        /\ \E e \in FreeElems(d) : /\ argmap' = [argmap EXCEPT ![d][t] = e]
                                   /\ buf_ptr' = [buf_ptr EXCEPT ![d][e] = CallId(t, d)]

\* uprobe_ssl_read_enter, uprobe_ssl_write_enter: the update overwrites the
\* thread's element, or takes a free one.
Enter(t, d) == /\ Begins(t, d) /\ Probed(t, d, "enter")
               /\ \E e \in IF InMap(t, d) THEN {argmap[d][t]} ELSE FreeElems(d) :
                     /\ argmap' = [argmap EXCEPT ![d][t] = e]
                     /\ buf_ptr' = [buf_ptr EXCEPT ![d][e] = CallId(t, d)]

\* The call is not traced, or the update fails because the map is full.
EnterUnseen(t, d) == /\ Begins(t, d)
                     /\ Probed(t, d, "enter") => ~InMap(t, d) /\ FreeElems(d) = {}
                     /\ UNCHANGED <<argmap, buf_ptr>>

\* The thread is killed inside the call: no return probe fires.
Dies(t) == /\ thr[t].pc = "calling"
           /\ thr' = [thr EXCEPT ![t] = Dead]
           /\ UNCHANGED <<source, argmap, buf_ptr, calls, started, seqs, pool, delivered, lost>>

\* Does the return probe that fires find the arguments?
Found(t) == thr[t].hooked /\ Probed(t, thr[t].d, "exit") /\ InMap(t, thr[t].d)
Deleted(t) == [argmap EXCEPT ![thr[t].d][t] = 0]

\* The call returns an error, or no probe sees it return.
ReturnsNothing(t) == /\ thr[t].pc = "calling"
                     /\ thr' = [thr EXCEPT ![t] = Resting]
                     /\ argmap' = IF Found(t) THEN Deleted(t) ELSE argmap
                     /\ UNCHANGED <<source, buf_ptr, calls, started, seqs, pool, delivered, lost>>

Transfers(t) == /\ thr[t].pc = "calling"
                /\ calls' = [calls EXCEPT ![t][thr[t].d] = @ + 1]
                /\ UNCHANGED <<links, objs, reader, loop, held, packets, received, dropped, closing,
                               buf_ptr, started, seqs, pool, delivered>>

ReturnsUnseen(t) == /\ Transfers(t) /\ ~Found(t)
                    /\ thr' = [thr EXCEPT ![t] = Resting]
                    /\ lost' = lost \union {CallId(t, thr[t].d)}
                    /\ UNCHANGED <<ring, kstats, argmap>>

\* uretprobe_ssl_read_exit, uretprobe_ssl_write_exit: the element is deleted,
\* then a record is reserved.
ExitDrop(t) == /\ Transfers(t) /\ Found(t) /\ RingFull
               /\ thr' = [thr EXCEPT ![t] = Resting]
               /\ argmap' = Deleted(t)
               /\ lost' = lost \union {CallId(t, thr[t].d)}
               /\ CountDropped /\ UNCHANGED ring

ExitReserve(t, ret) == /\ Transfers(t) /\ Found(t) /\ ret \in Rets[thr[t].d]
                       /\ bpf_ringbuf_reserve(t)
                       /\ thr' = [thr EXCEPT ![t] = InExit(thr[t].d, argmap[thr[t].d][t], ret)]
                       /\ argmap' = Deleted(t)
                       /\ UNCHANGED <<kstats, lost>>

DataLen(ret) == IF ret > MAX_DATA_LEN THEN MAX_DATA_LEN ELSE ret
\* The number of bytes copied is masked to satisfy the verifier.
CopiedLen(data_len) == data_len % MAX_DATA_LEN

\* bpf_probe_read_user of len bytes through the pointer p: what it copies, if
\* anything.
bpf_probe_read_user(len, p) ==
  {[valid |-> CopiedLen(len), from |-> IF CopiedLen(len) = 0 THEN None ELSE p]}
    \union (IF CopyMayFail THEN {[valid |-> 0, from |-> None]} ELSE {})

\* The record is filled and submitted.  The buffer is read through the pointer in
\* the deleted element, and whether that succeeds is not looked at.  The record
\* is counted after the submit, in ssl_stats, which nothing reads.
ExitSubmit(t) ==
  /\ thr[t].pc = "filling"
  /\ LET d == thr[t].d
         len == DataLen(thr[t].ret)
     IN  \E data \in bpf_probe_read_user(len, buf_ptr[d][thr[t].elem]) :
           bpf_ringbuf_submit(t, [pid |-> t.pid, tid |-> t.tid, d |-> d, cap_len |-> len,
                                  call |-> [t |-> t, d |-> d, n |-> calls[t][d]],
                                  ret |-> thr[t].ret, valid |-> data.valid, from |-> data.from])
  /\ CountReceived
  /\ thr' = [thr EXCEPT ![t] = Resting]
  /\ UNCHANGED <<links, objs, reader, loop, held, packets, received, dropped, closing,
                 argmap, buf_ptr, calls, started, seqs, pool, delivered, lost>>
-----------------------------------------------------------------------------
(***************************************************************************)
(* readLoop: the synthetic packet of a record.                             *)
(***************************************************************************)
\* The sequence number of the next record of a thread and direction.
CurrentSeq(k) == IF k \in DOMAIN seqNums THEN seqNums[k] ELSE 1

With(f, k, v) == [j \in DOMAIN f \union {k} |-> IF j = k THEN v ELSE f[j]]

\* purgeStaleSeqs at counter c: the subtraction is of unsigned numbers.
Kept(lastSeen, c) == LET cutoff == (c - StaleThreshold) % Wrap
                     IN  {k \in DOMAIN lastSeen : lastSeen[k] >= cutoff}
Restricted(f, S) == [k \in S |-> f[k]]

\* Wrong variant, for the mutation runs: records are numbered, not bytes.
nextSeq_CountsRecords(k, len) ==
  /\ seqNums' = With(seqNums, k, CurrentSeq(k) + 1)
  /\ seqLastSeen' = With(seqLastSeen, k, seqPurgeCounter)
  /\ seqPurgeCounter' = seqPurgeCounter + 1

nextSeq(k, len) ==
  LET c == seqPurgeCounter + 1
      nums == With(seqNums, k, CurrentSeq(k) + len)
      seen == With(seqLastSeen, k, seqPurgeCounter)
      keys == IF c % PurgeEvery = 0 THEN Kept(seen, c) ELSE DOMAIN seen
  IN  /\ seqNums' = Restricted(nums, keys)
      /\ seqLastSeen' = Restricted(seen, keys)
      /\ seqPurgeCounter' = c

\* Wrong variant, for the mutation runs: a client may have the server's port.
ClientPort_NoDodge(t) == t.tid % 65536

\* The four-tuple that encodes the process and the thread.
ClientIP(t) == <<10, (t.pid \div 256) % 256, t.pid % 256, (t.tid \div 65536) % 256>>
ServerIP == <<127, 0, 0, 1>>
ClientPort(t) == IF t.tid % 65536 = 5432 THEN 5433 ELSE t.tid % 65536

Synthetic(r, seq) ==
  LET c == ClientIP(r) p == ClientPort(r) toServer == r.d = "read"
  IN  [src |-> IF toServer THEN c ELSE ServerIP, sport |-> IF toServer THEN p ELSE 5432,
       dst |-> IF toServer THEN ServerIP ELSE c, dport |-> IF toServer THEN 5432 ELSE p,
       seq |-> seq, len |-> r.cap_len, call |-> r.call, ret |-> r.ret, valid |-> r.valid, from |-> r.from]

SSLSend == LET k == <<[pid |-> held.pid, tid |-> held.tid], held.d>>
           IN  /\ Send(Synthetic(held, CurrentSeq(k)))
               /\ nextSeq(k, held.cap_len)
               /\ lost' = IF dropped' > dropped THEN lost \union {held.call} ELSE lost
               /\ UNCHANGED <<thr, argmap, buf_ptr, calls, started, pool, delivered>>

\* The producer's goroutines: Assemble for each packet, and the idle ticker.
SSLReceive == /\ packets # <<>>
              /\ packets' = Tail(packets)
              /\ pool' = PoolAfter(pool, Head(packets))
              /\ delivered' = delivered \o Delivers(pool, Head(packets), ServerPort)
              /\ UNCHANGED <<ring, kstats, links, objs, reader, loop, held, received, dropped, closing,
                             thr, argmap, buf_ptr, calls, started, seqs, lost>>

SSLFlush(key) == /\ pool' = PoolFlushed(pool, key) \/ pool' = PoolWithout(pool, key)
                 /\ delivered' = delivered \o FlushDelivers(pool, key, ServerPort)
                 /\ UNCHANGED <<source, thr, argmap, buf_ptr, calls, started, seqs, lost>>

\* Stats does not read ssl_stats.
SSLStats == [received |-> received, dropped |-> dropped]

SSLProbe(t) == \/ \E d \in Dirs : Enter(t, d) \/ EnterUnseen(t, d)
               \/ Dies(t) \/ ReturnsNothing(t) \/ ReturnsUnseen(t) \/ ExitDrop(t)
               \/ \E ret \in AllRets : ExitReserve(t, ret)
               \/ ExitSubmit(t)

\* These programs discard no record.
SSLLoop == ((Read \/ LoopReturns) /\ UNCHANGED ssl) \/ SSLSend

SSLClose == (CloseReader \/ CloseWaits \/ CloseDetaches(Probes) \/ CloseFrees) /\ UNCHANGED ssl

SSLNext == \/ LoadObjects /\ UNCHANGED ssl
           \/ SSLOpenAttach \/ SSLOpenReader \/ SSLOpenFails
           \/ \E t \in Threads : SSLProbe(t)
           \/ SSLLoop \/ SSLReceive \/ SSLClose
           \/ \E key \in DOMAIN pool : SSLFlush(key)
-----------------------------------------------------------------------------
(***************************************************************************)
(* What capture promises of the plaintext.                                 *)
(***************************************************************************)
Packets == Range(packets) \union UNION {Range(pool[k][h].pages) : k \in DOMAIN pool, h \in {"first", "other"}}

InFlight == {[t |-> t, d |-> thr[t].d, n |-> calls[t][thr[t].d]] :
                 t \in {u \in Threads : thr[u].pc = "filling"}}
            \union {r.rec.call : r \in {q \in Range(ring) : q.st = "ready"}}
            \union (IF held = None THEN {} ELSE {held.call})
            \union {p.call : p \in Packets}

\* All that the call transferred was copied and delivered.
Whole(p) == p.len = p.ret /\ p.valid = p.ret

\* What the code loses without noticing: a call of MAX_DATA_LEN bytes or more is
\* cut and, by the mask, not copied at all; and a copy that fails, or goes through
\* a pointer that is not the call's own, is submitted all the same.
Spoilt(p) == p.ret >= MAX_DATA_LEN \/ p.from # p.call

(***************************************************************************)
(* No plaintext vanishes beyond the losses that the code is built with:    *)
(* the data of a call is on its way or has been delivered to the stream    *)
(* processor with every byte; or it was lost where the code gives up       *)
(* knowingly (an enter probe that is not attached or finds the map full, a *)
(* full ring buffer, a full channel), or was spoilt in the exit probe as   *)
(* above, and then still takes its place in the stream.  Above all the     *)
(* reassembler never takes a record or a part of it for a retransmission,  *)
(* which is what nextSeq is for.                                           *)
(***************************************************************************)
NothingVanishes ==
  objs => \A t \in Threads, d \in Dirs : \A n \in 1..calls[t][d] :
            LET call == [t |-> t, d |-> d, n |-> n]
            IN  \/ call \in lost \union InFlight
                \/ \E c \in Range(delivered) : /\ c.pkt.call = call /\ c.skip = 0
                                               /\ Whole(c.pkt) \/ Spoilt(c.pkt)

(***************************************************************************)
(* Both directions of a session reach the stream processor as one          *)
(* connection of their own with the right direction, whatever the process  *)
(* and thread numbers are, and in the order in which the calls were made,  *)
(* each call at most once.                                                 *)
(***************************************************************************)
DeliveredToOwnStream ==
  \A i, j \in DOMAIN delivered :
    LET a == delivered[i] b == delivered[j]
    IN  /\ a.fromClient <=> (a.pkt.call.d = "read")
        /\ a.conn = b.conn <=> a.pkt.call.t = b.pkt.call.t
        /\ i < j /\ a.pkt.call.t = b.pkt.call.t /\ a.pkt.call.d = b.pkt.call.d
              => a.pkt.call.n < b.pkt.call.n

\* The pointer of call f is no old one, to a reader that belongs to call.
NotStale(f, call) == f # None => f.d = call.d /\ (f.t = call.t => f = call)

(***************************************************************************)
(* What holds of that pointer although the element is freed before it is   *)
(* read: it is never one that an earlier call of the thread has left, and  *)
(* never one of the other direction.  A pointer that is not the call's own *)
(* is a newer one, of another thread that took the element in between.     *)
(***************************************************************************)
NoStalePointer == \A c \in Range(delivered) : NotStale(c.pkt.from, c.pkt.call)
=============================================================================
