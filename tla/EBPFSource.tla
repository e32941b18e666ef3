----------------------------- MODULE EBPFSource -----------------------------
(***************************************************************************)
(* What the two eBPF capture sources have in common                        *)
(* (src/pkg/capture/source_ebpf.go, source_ebpf_ssl.go): the kernel's BPF  *)
(* ring buffer that the programs fill, the goroutine readLoop that empties *)
(* it into the channel of packets, the counters and Close.  The programs   *)
(* are the modules XDPMirror and SSLUprobes.                               *)
(*                                                                         *)
(* The ring buffer and its reader are external (the kernel and the library *)
(* cilium/ebpf).  Space is given out in the order of reservation; a record *)
(* is busy until its program submits or discards it, and the reader stops  *)
(* at a busy record even if later ones are ready.                          *)
(***************************************************************************)
EXTENDS Integers, Sequences, FiniteSets, SequencesExt

CONSTANTS RingCap,  \* records that fit in the ring buffer (64 MiB)
          ChanCap,  \* capacity of the channel packets (4096)
          CopyMayFail, \* bpf_probe_read_kernel, bpf_probe_read_user may return an error
          None      \* nil

ASSUME SourceAssumption == RingCap \in Nat \ {0} /\ ChanCap \in Nat /\ CopyMayFail \in BOOLEAN

\* Port numbers, 16 bits.
Ports == 0..65535

VARIABLES ring,     \* the records of the ring buffer, oldest first
          kstats,   \* the programs' counters: [received, dropped]
          links,    \* the attached probes
          objs,     \* the BPF objects are loaded
          reader,   \* none, open or closed
          loop,     \* readLoop: none, reading, sending or returned
          held,     \* the record that readLoop has read and not sent
          packets,  \* the channel of packets
          received, \* Source.received
          dropped,  \* Source.dropped
          closing   \* Close: no, wait (wg.Wait), detach, free or done

source == <<ring, kstats, links, objs, reader, loop, held, packets, received, dropped, closing>>

\* probes, owners, records and pkts are what the configured programs attach,
\* who runs them, what they submit and what readLoop makes of that.
SourceTypeOK(probes, owners, records, pkts) ==
  /\ ring \in Seq([owner : owners, st : {"busy", "ready", "discarded"}, rec : records \union {None}])
  /\ \A i \in DOMAIN ring : ring[i].st = "ready" => ring[i].rec \in records
  /\ packets \in Seq(pkts)
  /\ Len(ring) <= RingCap /\ Len(packets) <= ChanCap
  /\ links \subseteq probes
  /\ held \in records \union {None}
  /\ kstats \in [received : Nat, dropped : Nat]
  /\ objs \in BOOLEAN
  /\ reader \in {"none", "open", "closed"}
  /\ loop \in {"none", "reading", "sending", "returned"}
  /\ (held # None) <=> (loop = "sending")
  /\ received \in Nat /\ dropped \in Nat
  /\ closing \in {"no", "wait", "detach", "free", "done"}

\* The state before the constructor is called.
SourceInit ==
  /\ ring = <<>> /\ kstats = [received |-> 0, dropped |-> 0]
  /\ links = {} /\ objs = FALSE
  /\ reader = "none" /\ loop = "none" /\ held = None
  /\ packets = <<>> /\ received = 0 /\ dropped = 0 /\ closing = "no"
-----------------------------------------------------------------------------
(***************************************************************************)
(* The ring buffer, as the programs call it.  A program runs to its end,   *)
(* so each owner has at most one busy record.                              *)
(***************************************************************************)
bpf_ringbuf_reserve(owner) ==
  /\ Len(ring) < RingCap
  /\ ring' = Append(ring, [owner |-> owner, st |-> "busy", rec |-> None])

Settle(owner, st, rec) ==
  ring' = [i \in DOMAIN ring |-> IF ring[i].owner = owner /\ ring[i].st = "busy"
                                 THEN [owner |-> owner, st |-> st, rec |-> rec]
                                 ELSE ring[i]]

bpf_ringbuf_submit(owner, rec) == Settle(owner, "ready", rec)
bpf_ringbuf_discard(owner) == Settle(owner, "discarded", None)

\* A reservation that fails: the program counts a drop and gives up.
RingFull == Len(ring) = RingCap
CountDropped == kstats' = [kstats EXCEPT !.dropped = @ + 1]
CountReceived == kstats' = [kstats EXCEPT !.received = @ + 1]
-----------------------------------------------------------------------------
(***************************************************************************)
(* The constructors load the programs and maps first and open the reader   *)
(* and start readLoop last; in between each sets its configuration map and *)
(* attaches its probes.                                                    *)
(***************************************************************************)
LoadObjects == /\ ~objs /\ closing = "no"
               /\ objs' = TRUE
               /\ UNCHANGED <<ring, kstats, links, reader, loop, held, packets, received, dropped, closing>>

OpenReader == /\ objs /\ reader = "none"
              /\ reader' = "open" /\ loop' = "reading"
              /\ UNCHANGED <<ring, kstats, links, objs, held, packets, received, dropped, closing>>

\* A step fails: the links in closed and the objects are closed.
OpenFails(closed) == /\ objs /\ reader = "none" /\ closing = "no"
                     /\ links' = links \ closed /\ objs' = FALSE /\ closing' = "done"
                     /\ UNCHANGED <<ring, kstats, reader, loop, held, packets, received, dropped>>
-----------------------------------------------------------------------------
(***************************************************************************)
(* readLoop.  Read blocks until the oldest record is ready or the reader   *)
(* is closed; it passes over discarded records.                            *)
(***************************************************************************)
Readable == ring # <<>> /\ objs /\ reader = "open" /\ loop = "reading"

ReadSkips == /\ Readable /\ Head(ring).st = "discarded"
             /\ ring' = Tail(ring)
             /\ UNCHANGED <<kstats, links, objs, reader, loop, held, packets, received, dropped, closing>>

Read == /\ Readable /\ Head(ring).st = "ready"
        /\ ring' = Tail(ring) /\ held' = Head(ring).rec /\ loop' = "sending"
        /\ UNCHANGED <<kstats, links, objs, reader, packets, received, dropped, closing>>

\* Wrong variant, for the mutation runs: the channel has no capacity.
Send_Unbounded(pkt) ==
  /\ loop = "sending"
  /\ received' = received + 1 /\ packets' = Append(packets, pkt)
  /\ held' = None /\ loop' = "reading"
  /\ UNCHANGED <<ring, kstats, links, objs, reader, dropped, closing>>

\* Wrong variant, for the mutation runs: the send blocks.
Send_Blocking(pkt) ==
  /\ loop = "sending" /\ Len(packets) < ChanCap
  /\ received' = received + 1 /\ packets' = Append(packets, pkt)
  /\ held' = None /\ loop' = "reading"
  /\ UNCHANGED <<ring, kstats, links, objs, reader, dropped, closing>>

\* The non-blocking send of the packet made of the held record.
Send(pkt) == /\ loop = "sending"
             /\ received' = received + 1
             /\ \/ Len(packets) < ChanCap /\ packets' = Append(packets, pkt) /\ UNCHANGED dropped
                \/ Len(packets) = ChanCap /\ dropped' = dropped + 1 /\ UNCHANGED packets
             /\ held' = None /\ loop' = "reading"
             /\ UNCHANGED <<ring, kstats, links, objs, reader, closing>>

\* Read fails once the reader is closed: the deferred calls close the channel.
LoopReturns == /\ loop = "reading" /\ reader = "closed"
               /\ loop' = "returned"
               /\ UNCHANGED <<ring, kstats, links, objs, reader, held, packets, received, dropped, closing>>

\* packets is closed by readLoop's deferred call.
PacketsClosed == loop = "returned"
-----------------------------------------------------------------------------
(***************************************************************************)
(* Close, whose body closeOnce runs once: the reader is closed, which      *)
(* unblocks readLoop; then readLoop is waited for, the probes are          *)
(* detached, and the BPF objects are closed.                               *)
(***************************************************************************)
\* Wrong variant, for the mutation runs: readLoop is not unblocked.
CloseReader_LeavesOpen ==
  /\ closing = "no" /\ reader = "open"
  /\ closing' = "wait"
  /\ UNCHANGED <<ring, kstats, links, objs, reader, loop, held, packets, received, dropped>>

CloseReader == /\ closing = "no" /\ reader = "open"
               /\ reader' = "closed" /\ closing' = "wait"
               /\ UNCHANGED <<ring, kstats, links, objs, loop, held, packets, received, dropped>>

CloseWaits == /\ closing = "wait" /\ loop = "returned"
              /\ closing' = "detach"
              /\ UNCHANGED <<ring, kstats, links, objs, reader, loop, held, packets, received, dropped>>

\* order is the sequence in which Close closes the links, one after the other.
CloseDetaches(order) ==
  /\ closing = "detach"
  /\ \E i \in DOMAIN order :
        /\ order[i] \in links
        /\ \A j \in 1..(i - 1) : order[j] \notin links
        /\ links' = links \ {order[i]}
  /\ closing' = IF links' = {} THEN "free" ELSE closing
  /\ UNCHANGED <<ring, kstats, objs, reader, loop, held, packets, received, dropped>>

CloseFrees == /\ closing = "free"
              /\ objs' = FALSE /\ closing' = "done"
              /\ UNCHANGED <<ring, kstats, links, reader, loop, held, packets, received, dropped>>
=============================================================================
