------------------------------ MODULE XDPMirror ------------------------------
(***************************************************************************)
(* Capture mode "ebpf": the XDP program that mirrors PostgreSQL frames     *)
(* into the ring buffer (src/pkg/capture/bpf/pgshadow_xdp.c), and the      *)
(* source that loads it and decodes its records                            *)
(* (src/pkg/capture/source_ebpf.go).                                       *)
(*                                                                         *)
(* The program runs on every CPU that receives frames.  A frame is a       *)
(* record with the values of the header fields that the program reads and  *)
(* with the pair of port numbers found at each offset where it may look    *)
(* for a TCP header; "postgres" says what the frame really is.             *)
(***************************************************************************)
EXTENDS EBPFSource

CONSTANTS Cpus,       \* CPUs that receive frames
          Frames,     \* frames that may arrive
          Port,       \* cfg.Port after withDefaults
          MaxFrames   \* bound: frames that arrive

ASSUME XDPAssumption == /\ Port \in Ports
                        /\ MaxFrames \in Nat
                        /\ IsFiniteSet(Cpus)

(***************************************************************************)
(* What a frame is, in the terms of the protocols: "postgres" marks the    *)
(* frames that hold a whole TCP header with the server's port in it.       *)
(***************************************************************************)
L4(f) == IF f.h_proto = "IPv4" THEN 14 + 4 * f.ihl ELSE 54
OfServer(f) == /\ f.protocol = 6
               /\ \/ f.h_proto = "IPv4" /\ f.ihl >= 5
                  \/ f.h_proto = "IPv6"
               /\ L4(f) + 20 <= f.len
               /\ f.at[L4(f)][1] = Port \/ f.at[L4(f)][2] = Port

ASSUME FramesAssumption ==
  \A f \in Frames : f.len \in Nat /\ f.ihl \in 0..15

ASSUME PortsAssumption ==
  \A f \in Frames : f.len >= L4(f) + 20 => \A i \in 1..2 : f.at[L4(f)][i] \in Ports

ASSUME PostgresAssumption ==
  \A f \in Frames : f.postgres \in BOOLEAN /\ (f.postgres <=> OfServer(f))

VARIABLES cpu,        \* the run of the program on each CPU
          cfg_port,   \* the map cfg_port, in network byte order
          arrived,    \* how many frames have arrived
          mirrorable, \* history: how many of them were PostgreSQL's, while attached
          discards,   \* history: records discarded because the copy failed
          taken       \* history: how many packets the reassembler has received

xdp == <<cpu, cfg_port, arrived, mirrorable, discards, taken>>

FIXED_SNAP_LEN == 4096
\* sizeof of the headers.
ethhdr == 14
iphdr == 20
ipv6hdr == 40
tcphdr == 20

Idle == [pc |-> "idle", frame |-> None]

\* The records that the program submits, and readLoop's packets.
XDPRecords == [frame : Frames, len : Nat, cap_len : Nat, valid : Nat]
XDPPackets == [frame : Frames, len : Nat, valid : Nat]

ASSUME XDPNoneAssumption == None \notin XDPRecords

\* A run of the program holds its frame while it fills a record.
Runs == [pc : {"idle", "counting"}, frame : Frames \union {None}]
          \union [pc : {"filling"}, frame : Frames]

XDPTypeOK == /\ cpu \in [Cpus -> Runs]
             /\ cfg_port \in Ports /\ arrived \in 0..MaxFrames
             /\ mirrorable \in Nat /\ discards \in Nat
             /\ taken \in Nat

XDPInit == /\ cpu = [c \in Cpus |-> Idle] /\ cfg_port = 0
           /\ arrived = 0 /\ mirrorable = 0 /\ discards = 0 /\ taken = 0
-----------------------------------------------------------------------------
(***************************************************************************)
(* newEBPFSource: load, set the port, attach (natively or else in generic  *)
(* mode), open the reader and start readLoop.  Each step may fail; what    *)
(* was acquired is then released.                                          *)
(***************************************************************************)
hostToNet16(v) == (v % 256) * 256 + v \div 256

XDPOpenSetPort == /\ objs /\ cfg_port = 0 /\ links = {} /\ reader = "none"
               /\ cfg_port' = hostToNet16(Port)
               /\ UNCHANGED <<source, cpu, arrived, mirrorable, discards, taken>>

XDPOpenAttach == /\ objs /\ cfg_port # 0 /\ links = {} /\ reader = "none"
              /\ links' = {"xdp"}
              /\ UNCHANGED <<ring, kstats, objs, reader, loop, held, packets, received, dropped, closing, xdp>>

XDPOpenReader == links = {"xdp"} /\ OpenReader /\ UNCHANGED xdp

\* Setting the port and attaching fail with objs.Close, opening the reader
\* with xdpLnk.Close and objs.Close.
XDPOpenFails == OpenFails({"xdp"}) /\ UNCHANGED xdp
-----------------------------------------------------------------------------
(***************************************************************************)
(* pgshadow_xdp.  A port number is compared as the little-endian CPU loads *)
(* its two bytes from the frame.                                           *)
(***************************************************************************)
Loaded(port) == (port % 256) * 256 + port \div 256

\* Wrong variant, for the mutation runs: IP options are not skipped.
TcpOffset_NoOptions(f) == ethhdr + (IF f.h_proto = "IPv4" THEN iphdr ELSE ipv6hdr)

\* Where the TCP header begins, and whether all of it is inside the frame.
TcpOffset(f) == ethhdr + (IF f.h_proto = "IPv4" THEN f.ihl * 4 ELSE ipv6hdr)
HasTcp(f) == /\ ethhdr <= f.len
             /\ \/ f.h_proto = "IPv4" /\ ethhdr + iphdr <= f.len /\ f.ihl * 4 \in 20..60
                \/ f.h_proto = "IPv6" /\ ethhdr + ipv6hdr <= f.len
             /\ f.protocol = 6
             /\ TcpOffset(f) + tcphdr <= f.len

Matches(f) == HasTcp(f) /\ \E i \in 1..2 : Loaded(f.at[TcpOffset(f)][i]) = cfg_port

CapLen(f) == IF f.len > FIXED_SNAP_LEN THEN FIXED_SNAP_LEN ELSE f.len
\* The number of bytes copied is masked to satisfy the verifier.
Copied(cap_len) == cap_len % FIXED_SNAP_LEN

Arrives(c, f) == /\ "xdp" \in links
                 /\ cpu[c].pc = "idle" /\ arrived < MaxFrames
                 /\ arrived' = arrived + 1
                 /\ mirrorable' = IF f.postgres THEN mirrorable + 1 ELSE mirrorable
                 /\ UNCHANGED <<links, objs, reader, loop, held, packets, received, dropped, closing,
                                cfg_port, discards, taken>>

\* XDP_PASS without a record: a frame that is not the source's.
XDPPass(c, f) == Arrives(c, f) /\ ~Matches(f) /\ UNCHANGED <<ring, kstats, cpu>>

XDPDrop(c, f) == /\ Arrives(c, f) /\ Matches(f) /\ RingFull
                 /\ CountDropped /\ UNCHANGED <<ring, cpu>>

XDPReserve(c, f) == /\ Arrives(c, f) /\ Matches(f)
                    /\ bpf_ringbuf_reserve(c)
                    /\ cpu' = [cpu EXCEPT ![c] = [pc |-> "filling", frame |-> f]]
                    /\ UNCHANGED kstats

XDPSubmit(c) == /\ cpu[c].pc = "filling"
                /\ LET f == cpu[c].frame
                   IN  bpf_ringbuf_submit(c, [frame |-> f, len |-> f.len, cap_len |-> CapLen(f),
                                              valid |-> Copied(CapLen(f))])
                /\ cpu' = [cpu EXCEPT ![c].pc = "counting"]
                /\ UNCHANGED <<kstats, links, objs, reader, loop, held, packets, received, dropped,
                               closing, cfg_port, arrived, mirrorable, discards, taken>>

XDPDiscard(c) == /\ CopyMayFail /\ cpu[c].pc = "filling"
                 /\ bpf_ringbuf_discard(c)
                 /\ cpu' = [cpu EXCEPT ![c] = Idle]
                 /\ discards' = discards + 1
                 /\ UNCHANGED <<kstats, links, objs, reader, loop, held, packets, received, dropped,
                                closing, cfg_port, arrived, mirrorable, taken>>

XDPCount(c) == /\ cpu[c].pc = "counting"
               /\ CountReceived
               /\ cpu' = [cpu EXCEPT ![c] = Idle]
               /\ UNCHANGED <<ring, links, objs, reader, loop, held, packets, received, dropped,
                              closing, cfg_port, arrived, mirrorable, discards, taken>>
-----------------------------------------------------------------------------
(***************************************************************************)
(* The rest of the source.                                                 *)
(***************************************************************************)
\* The packet that readLoop decodes: the record's first cap_len bytes.
XDPSend == /\ Send([frame |-> held.frame, valid |-> held.valid,
                    len |-> IF held.cap_len > FIXED_SNAP_LEN THEN FIXED_SNAP_LEN ELSE held.cap_len])
           /\ UNCHANGED xdp

XDPReceive == /\ packets # <<>>
              /\ taken' = taken + 1 /\ packets' = Tail(packets)
              /\ UNCHANGED <<ring, kstats, links, objs, reader, loop, held, received, dropped, closing,
                             cpu, cfg_port, arrived, mirrorable, discards>>

\* Wrong variant, for the mutation runs: only the kernel's count is reported.
XDPStats_KernelOnly == [received |-> kstats.received, dropped |-> dropped + kstats.dropped]

\* Stats: the kernel's counters are read while the objects are open.
XDPStats == LET k == IF objs THEN kstats ELSE [received |-> 0, dropped |-> 0]
            IN  [received |-> IF k.received > received THEN k.received ELSE received,
                 dropped |-> dropped + k.dropped]

XDPProgram == \E c \in Cpus : \/ \E f \in Frames : XDPPass(c, f) \/ XDPDrop(c, f) \/ XDPReserve(c, f)
                              \/ XDPSubmit(c) \/ XDPDiscard(c) \/ XDPCount(c)

XDPLoop == ((ReadSkips \/ Read \/ LoopReturns) /\ UNCHANGED xdp) \/ XDPSend

XDPClose == (CloseReader \/ CloseWaits \/ CloseDetaches(<<"xdp">>) \/ CloseFrees) /\ UNCHANGED xdp

XDPNext == \/ LoadObjects /\ UNCHANGED xdp
           \/ XDPOpenSetPort \/ XDPOpenAttach \/ XDPOpenReader \/ XDPOpenFails
           \/ XDPProgram \/ XDPLoop \/ XDPReceive \/ XDPClose
=============================================================================
