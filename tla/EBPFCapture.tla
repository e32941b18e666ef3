----------------------------- MODULE EBPFCapture -----------------------------
(***************************************************************************)
(* The eBPF capture sources behind capture.Open                            *)
(* (src/pkg/capture/capture.go): the configured mode decides which of the  *)
(* two is constructed, and the producer of the pipeline receives its       *)
(* packets until Close.                                                    *)
(***************************************************************************)
EXTENDS XDPMirror, SSLUprobes

CONSTANT Modes  \* the modes that may be configured

ASSUME ModesAssumption == Modes \subseteq {"ebpf", "ebpf_ssl"}

VARIABLE mode   \* cfg.Mode

vars == <<mode, source, xdp, ssl>>

TypeOK ==
  /\ mode \in Modes
  /\ mode = "ebpf" => SourceTypeOK({"xdp"}, Cpus, XDPRecords, XDPPackets)
  /\ mode = "ebpf_ssl" => SourceTypeOK(Range(Probes), Threads, SSLRecords, SSLPackets)
  /\ XDPTypeOK /\ SSLTypeOK

Init == mode \in Modes /\ SourceInit /\ XDPInit /\ SSLInit

XDPMode == mode = "ebpf" /\ UNCHANGED <<mode, ssl>>
SSLMode == mode = "ebpf_ssl" /\ UNCHANGED <<mode, xdp>>

Next == (XDPMode /\ XDPNext) \/ (SSLMode /\ SSLNext)

Spec == Init /\ [][Next]_vars

(***************************************************************************)
(* Fairness: goroutines are scheduled, and a BPF program that has started  *)
(* runs to its end, which the kernel's verifier guarantees.  Nothing is    *)
(* assumed of the arrival of frames or calls, of the threads of the        *)
(* server, of the producer that receives packets, or of who calls Close.   *)
(***************************************************************************)
LoopRuns == (XDPMode /\ XDPLoop) \/ (SSLMode /\ SSLLoop)
CloseRuns == \/ XDPMode /\ (CloseWaits \/ CloseDetaches(<<"xdp">>) \/ CloseFrees) /\ UNCHANGED xdp
             \/ SSLMode /\ (CloseWaits \/ CloseDetaches(Probes) \/ CloseFrees) /\ UNCHANGED ssl
ProgramsEnd == \/ XDPMode /\ \E c \in Cpus : XDPSubmit(c) \/ XDPDiscard(c)
               \/ SSLMode /\ \E t \in Threads : ExitSubmit(t)

FairSpec == Spec /\ WF_vars(LoopRuns) /\ WF_vars(CloseRuns) /\ WF_vars(ProgramsEnd)
-----------------------------------------------------------------------------
(***************************************************************************)
(* What "only cap_len bytes are valid" (pgshadow_xdp.c) and "actual bytes  *)
(* captured" (pgshadow_ssl.c) say of a record that was submitted: that     *)
(* many bytes of the frame or of the buffer were copied into it.           *)
(***************************************************************************)
RecordHoldsItsBytes ==
  \A r \in Range(ring) : r.st = "ready" => r.rec.valid = r.rec.cap_len

(***************************************************************************)
(* Every PostgreSQL frame that reaches the attached program is accounted   *)
(* for: it is being mirrored, or it waits in the ring, in readLoop or in   *)
(* the channel, or it was delivered, or Stats reports it as dropped (R1.7), *)
(* or its copy failed.  No other frame is captured.                        *)
(***************************************************************************)
FramesAccounted ==
  mode = "ebpf" /\ objs =>
    mirrorable = Cardinality({i \in DOMAIN ring : ring[i].st # "discarded"})
                       + (IF held = None THEN 0 ELSE 1)
                       + Len(packets) + taken + XDPStats.dropped + discards

(***************************************************************************)
(* Stats.Received never lags behind what was captured and queued, although *)
(* the program counts a record after it has submitted it and readLoop may  *)
(* have counted it already: at least every frame that has been delivered,  *)
(* or dropped by the channel, is in it, and every frame it counts arrived. *)
(***************************************************************************)
ReceivedIsSound ==
  mode = "ebpf" =>
  /\ XDPStats.received >= taken + Len(packets) + dropped
  /\ XDPStats.received + XDPStats.dropped <= mirrorable + dropped

(***************************************************************************)
(* Nothing stays behind in the kernel: when Close has returned, or the     *)
(* constructor has failed at any of its steps, no probe is attached and    *)
(* the objects are closed; and the probes never outlive the objects.       *)
(***************************************************************************)
NothingLeftAttached == (closing = "done" \/ ~objs) => links = {} /\ ~objs

(***************************************************************************)
(* Close returns, whatever the programs, the server and the producer do:   *)
(* closing the reader ends a Read that waits at an unfinished record, and  *)
(* readLoop never blocks on the channel.                                   *)
(***************************************************************************)
CloseReturns == (closing # "no") ~> (closing = "done")

(***************************************************************************)
(* A record that is in the ring does not stay there until Close: readLoop  *)
(* empties the ring even if the producer receives nothing.  That the ring  *)
(* is empty at some time, and not only every record gone, rests on the     *)
(* bounds MaxFrames and MaxCalls: arrivals end.                            *)
(***************************************************************************)
RingDrains == [](loop # "none" => <>(ring = <<>> \/ reader = "closed"))

\* The statistics of XDP mode agree with the frames that passed: each one that
\* belongs to the port is delivered, in the ring or counted as dropped, and the
\* number received is between what was read and what was seen (Stats).
FramesCounted == FramesAccounted /\ ReceivedIsSound

\* Plain text stays with its session: it is not read through a pointer that an
\* earlier call left behind, and it is delivered on its own stream (SSL_read's and
\* SSL_write's probes, synthPacket).
PlainTextStaysInSession == NoStalePointer /\ DeliveredToOwnStream

\* readLoop goes on while a packet is not taken, and Close gets it out.
LoopNeverStuck == CloseReturns /\ RingDrains
=============================================================================
