------------------------- MODULE EBPFCaptureProofs -------------------------
(***************************************************************************)
(* Proofs about EBPFCapture, for every set of CPUs, frames and threads and *)
(* every capacity of the ring buffer and of the channel.                   *)
(*                                                                         *)
(* The invariant is CaptureInv.  Ordered is the order in which a source    *)
(* acquires and releases its objects, probes and reader, in either mode.   *)
(* In mode "ebpf", OneBusy ties the record that a program fills to the run *)
(* of the program on its CPU, PortFirst says that the port was set before  *)
(* the program was attached, and three tallies say where each mirrored     *)
(* frame is and which counters it is in.  That the program mirrors exactly *)
(* the frames with the server's port is the lemma MatchesPostgres, which   *)
(* rests on swapping the two bytes of a port being injective.              *)
(*                                                                         *)
(* In mode "ebpf_ssl", SSLInv follows the data of each call through six    *)
(* places, from the exit probe to the delivered stream: what is further on *)
(* its way is of earlier calls (InOrder), and a call is in one of them or  *)
(* known to be lost (AllPlaced).  The reassembler then takes nothing for a *)
(* retransmission, since what a half has seen ends before what follows     *)
(* (HalfMark).  BufferInv says that each record and packet on the way was  *)
(* read from the buffer of its own call.                                   *)
(***************************************************************************)
EXTENDS EBPFCapture, FiniteSetTheorems, WellFoundedInduction, TLAPS

-----------------------------------------------------------------------------
(***************************************************************************)
(* How a source comes and goes.  The reader is opened last and closed      *)
(* first; in between the probes are attached; the objects outlive them.    *)
(***************************************************************************)
Ordered ==
  /\ reader = "none" /\ objs => closing = "no"
  /\ reader = "open" => closing = "no" /\ links # {}
  /\ closing \in {"wait", "detach"} => links # {}
  /\ closing \in {"wait", "detach", "free"} => objs /\ reader = "closed"
  /\ closing = "free" => links = {}
  /\ closing = "done" => ~objs
  /\ ~objs => links = {} /\ reader # "open"

\* The steps that concern the order, whichever program is loaded.
Attaches == objs /\ reader = "none" /\ links' # {} /\ UNCHANGED <<objs, reader, closing>>
OpensReader == links # {} /\ OpenReader
FailsClean == \E S : links \subseteq S /\ OpenFails(S)
Detaches == /\ closing = "detach" /\ UNCHANGED <<objs, reader>>
            /\ closing' = IF links' = {} THEN "free" ELSE closing

LifeStep ==
  \/ LoadObjects \/ Attaches \/ OpensReader \/ FailsClean
  \/ CloseReader \/ CloseWaits \/ Detaches \/ CloseFrees
  \/ UNCHANGED <<links, objs, reader, closing>>

LEMMA OpenFrame ==
    ASSUME links \subseteq {"xdp"}, XDPOpenSetPort \/ XDPOpenAttach \/ XDPOpenReader \/ XDPOpenFails
    PROVE  LifeStep
  <1>1. CASE XDPOpenSetPort
    BY <1>1 DEF XDPOpenSetPort, LifeStep, source
  <1>2. CASE XDPOpenAttach
    BY <1>2 DEF XDPOpenAttach, LifeStep, Attaches
  <1>3. CASE XDPOpenReader
    BY <1>3 DEF XDPOpenReader, LifeStep, OpensReader
  <1>4. CASE XDPOpenFails
    BY <1>4 DEF XDPOpenFails, LifeStep, FailsClean
  <1> QED BY <1>1, <1>2, <1>3, <1>4

LEMMA SSLOpenFrame ==
    ASSUME SSLOpenAttach \/ SSLOpenReader \/ SSLOpenFails
    PROVE  LifeStep
  <1>1. CASE SSLOpenAttach
    <2>1. PICK n \in 1..4 : links' = Attached(n)
      BY <1>1 DEF SSLOpenAttach
    <2>2. Probes[n] \in Attached(n)
      BY DEF Attached
    <2> QED BY <1>1, <2>1, <2>2 DEF SSLOpenAttach, LifeStep, Attaches
  <1>2. CASE SSLOpenReader
    <2>1. links = Attached(4) /\ Probes[1] \in Attached(4)
      BY <1>2 DEF SSLOpenReader, Attached
    <2> QED BY <1>2, <2>1 DEF SSLOpenReader, LifeStep, OpensReader
  <1>3. CASE SSLOpenFails
    <2>1. PICK n \in 1..5 : links = Attached(n - 1) /\ OpenFails(Unwound(n))
      BY <1>3 DEF SSLOpenFails
    <2> QED BY <2>1 DEF Unwound, LifeStep, FailsClean
  <1> QED BY <1>1, <1>2, <1>3

LEMMA LoopFrame ==
    ASSUME NEW pkt, ReadSkips \/ Read \/ LoopReturns \/ Send(pkt)
    PROVE  LifeStep
  BY DEF ReadSkips, Read, LoopReturns, Send, LifeStep

LEMMA CloseFrame ==
    ASSUME NEW order, CloseReader \/ CloseWaits \/ CloseDetaches(order) \/ CloseFrees
    PROVE  LifeStep
  BY DEF CloseDetaches, Detaches, LifeStep

LEMMA ProgramFrame == ASSUME XDPProgram PROVE LifeStep
  BY DEF XDPProgram, XDPPass, XDPDrop, XDPReserve, Arrives, XDPSubmit, XDPDiscard, XDPCount, LifeStep

LEMMA ProbeFrame == ASSUME NEW t, SSLProbe(t) PROVE LifeStep
  BY DEF SSLProbe, Enter, EnterUnseen, Begins, Dies, ReturnsNothing, ReturnsUnseen, ExitDrop,
         ExitReserve, Transfers, ExitSubmit, LifeStep, source

LEMMA LifeSteps == ASSUME TypeOK, [Next]_vars PROVE LifeStep
  <1>1. CASE UNCHANGED vars
    BY <1>1 DEF vars, source, LifeStep
  <1>2. CASE XDPMode /\ XDPNext
    <2>1. links \subseteq {"xdp"}
      BY <1>2 DEF XDPMode, TypeOK, SourceTypeOK
    <2>2. CASE XDPLoop
      BY <2>2, LoopFrame DEF XDPLoop, XDPSend
    <2>3. CASE XDPReceive
      BY <2>3 DEF XDPReceive, LifeStep
    <2>4. CASE XDPClose
      BY <2>4, CloseFrame DEF XDPClose
    <2> QED BY <1>2, <2>1, <2>2, <2>3, <2>4, OpenFrame, ProgramFrame DEF XDPNext, LifeStep
  <1>3. CASE SSLMode /\ SSLNext
    <2>2. CASE SSLLoop
      BY <2>2, LoopFrame DEF SSLLoop, SSLSend
    <2>3. CASE SSLReceive \/ \E key \in DOMAIN pool : SSLFlush(key)
      BY <2>3 DEF SSLReceive, SSLFlush, LifeStep, source
    <2>4. CASE SSLClose
      BY <2>4, CloseFrame DEF SSLClose
    <2> QED BY <1>3, <2>2, <2>3, <2>4, SSLOpenFrame, ProbeFrame DEF SSLNext, LifeStep
  <1> QED BY <1>1, <1>2, <1>3 DEF Next

LEMMA OrderedStep == ASSUME Ordered, LifeStep PROVE Ordered'
  <1> USE DEF Ordered
  <1>1. CASE LoadObjects
    BY <1>1 DEF LoadObjects
  <1>2. CASE Attaches
    BY <1>2 DEF Attaches
  <1>3. CASE OpensReader
    BY <1>3 DEF OpensReader, OpenReader
  <1>4. CASE FailsClean
    BY <1>4 DEF FailsClean, OpenFails
  <1>5. CASE CloseReader
    BY <1>5 DEF CloseReader
  <1>6. CASE CloseWaits
    BY <1>6 DEF CloseWaits
  <1>7. CASE Detaches
    BY <1>7 DEF Detaches
  <1>8. CASE CloseFrees
    BY <1>8 DEF CloseFrees
  <1>9. CASE UNCHANGED <<links, objs, reader, closing>>
    BY <1>9
  <1> QED BY <1>1, <1>2, <1>3, <1>4, <1>5, <1>6, <1>7, <1>8, <1>9 DEF LifeStep

-----------------------------------------------------------------------------
(***************************************************************************)
(* Types.  P, O, R and K stand for the probes, owners, records and packets *)
(* of the configured programs.                                             *)
(***************************************************************************)
Slot(O, R) == [owner : O, st : {"busy", "ready", "discarded"}, rec : R \union {None}]

RingOK(O, R) == /\ ring \in Seq(Slot(O, R))
                /\ \A i \in DOMAIN ring : ring[i].st = "ready" => ring[i].rec \in R
                /\ Len(ring) <= RingCap
ChanOK(K) == packets \in Seq(K) /\ Len(packets) <= ChanCap
HeldOK(R) == /\ loop \in {"none", "reading", "sending", "returned"}
             /\ held \in R \union {None}
             /\ (held # None) <=> (loop = "sending")
FlagsOK(P) == /\ links \subseteq P /\ objs \in BOOLEAN
              /\ reader \in {"none", "open", "closed"}
              /\ closing \in {"no", "wait", "detach", "free", "done"}
CountsOK == kstats \in [received : Nat, dropped : Nat] /\ received \in Nat /\ dropped \in Nat

LEMMA SourceParts ==
    ASSUME NEW P, NEW O, NEW R, NEW K
    PROVE  SourceTypeOK(P, O, R, K)
             <=> RingOK(O, R) /\ ChanOK(K) /\ HeldOK(R) /\ FlagsOK(P) /\ CountsOK
  BY Zenon DEF SourceTypeOK, RingOK, ChanOK, HeldOK, FlagsOK, CountsOK, Slot

\* What a step may do to each part.
RingStep(O, R) ==
  \/ UNCHANGED ring
  \/ \E o \in O : bpf_ringbuf_reserve(o)
  \/ \E o \in O, rec \in R : Settle(o, "ready", rec)
  \/ \E o \in O : Settle(o, "discarded", None)
  \/ ring # <<>> /\ ring' = Tail(ring)
ChanStep(K) ==
  \/ UNCHANGED packets
  \/ \E p \in K : Len(packets) < ChanCap /\ packets' = Append(packets, p)
  \/ packets # <<>> /\ packets' = Tail(packets)
HeldStep(R) ==
  \/ UNCHANGED <<held, loop>>
  \/ loop' = "sending" /\ held' \in R
  \/ loop' \in {"none", "reading", "returned"} /\ held' = None
CountStep ==
  /\ UNCHANGED kstats \/ CountDropped \/ CountReceived
  /\ received' \in {received, received + 1} /\ dropped' \in {dropped, dropped + 1}

LEMMA RingTypeStep ==
    ASSUME NEW O, NEW R, RingOK(O, R), RingStep(O, R)
    PROVE  RingOK(O, R)'
  <1> DEFINE S == Slot(O, R)
  <1>t. /\ ring \in Seq(S) /\ Len(ring) \in Nat /\ DOMAIN ring = 1..Len(ring)
        /\ \A i \in DOMAIN ring : ring[i].st = "ready" => ring[i].rec \in R
        /\ Len(ring) <= RingCap
    BY DEF RingOK
  <1>r. RingCap \in Nat
    BY SourceAssumption
  <1>1. CASE UNCHANGED ring
    BY <1>1 DEF RingOK
  <1>2. ASSUME NEW o \in O, bpf_ringbuf_reserve(o) PROVE RingOK(O, R)'
    <2> DEFINE e == [owner |-> o, st |-> "busy", rec |-> None]
    <2>1. e \in S /\ e.st = "busy"
      BY DEF Slot
    <2>2. ring' = Append(ring, e) /\ Len(ring) < RingCap
      BY <1>2 DEF bpf_ringbuf_reserve
    <2> HIDE DEF e, S
    <2>3. /\ ring' \in Seq(S) /\ Len(ring') = Len(ring) + 1
          /\ \A i \in 1..Len(ring) : ring'[i] = ring[i]
          /\ ring'[Len(ring) + 1] = e
      BY <2>1, <2>2, <1>t
    <2>4. Len(ring') <= RingCap
      BY <2>2, <2>3, <1>t, <1>r
    <2>5. \A i \in DOMAIN ring' : i \in DOMAIN ring \/ i = Len(ring) + 1
      BY <2>3, <1>t
    <2>6. \A i \in DOMAIN ring' : ring'[i].st = "ready" => ring'[i].rec \in R
      BY <2>1, <2>3, <2>5, <1>t
    <2> QED BY <2>3, <2>4, <2>6 DEF RingOK, S
  <1>3. ASSUME NEW o \in O, NEW st \in {"ready", "discarded"}, NEW rec \in R \union {None},
               st = "ready" => rec \in R, Settle(o, st, rec)
        PROVE  RingOK(O, R)'
    <2> DEFINE e == [owner |-> o, st |-> st, rec |-> rec]
    <2>1. e \in S /\ e.st = st /\ e.rec = rec
      BY DEF Slot
    <2>2. ring' = [i \in 1..Len(ring) |-> IF ring[i].owner = o /\ ring[i].st = "busy"
                                          THEN e ELSE ring[i]]
      BY <1>3, <1>t DEF Settle
    <2> HIDE DEF e, S
    <2>3. /\ ring' \in Seq(S) /\ Len(ring') = Len(ring) /\ DOMAIN ring' = 1..Len(ring)
          /\ \A i \in 1..Len(ring) : ring'[i] \in {e, ring[i]}
      BY <2>1, <2>2, <1>t
    <2>4. \A i \in DOMAIN ring' : ring'[i].st = "ready" => ring'[i].rec \in R
      BY <2>1, <2>3, <1>3, <1>t
    <2> QED BY <2>3, <2>4, <1>t DEF RingOK, S
  <1>4. CASE ring # <<>> /\ ring' = Tail(ring)
    <2> HIDE DEF S
    <2>1. /\ ring' \in Seq(S) /\ Len(ring') = Len(ring) - 1 /\ Len(ring') <= RingCap
          /\ DOMAIN ring' = 1..(Len(ring) - 1)
          /\ \A i \in 1..(Len(ring) - 1) : ring'[i] = ring[i + 1] /\ i + 1 \in DOMAIN ring
      BY <1>4, <1>t, <1>r
    <2>2. \A i \in DOMAIN ring' : ring'[i].st = "ready" => ring'[i].rec \in R
      BY <2>1, <1>t
    <2> QED BY <2>1, <2>2 DEF RingOK, S
  <1> HIDE DEF S
  <1> QED BY <1>1, <1>2, <1>3, <1>4 DEF RingStep

LEMMA ChanTypeStep ==
    ASSUME NEW K, ChanOK(K), ChanStep(K)
    PROVE  ChanOK(K)'
  <1>r. ChanCap \in Nat
    BY SourceAssumption
  <1>1. CASE UNCHANGED packets
    BY <1>1 DEF ChanOK
  <1>2. ASSUME NEW p \in K, Len(packets) < ChanCap, packets' = Append(packets, p) PROVE ChanOK(K)'
    BY <1>2, <1>r DEF ChanOK
  <1>3. CASE packets # <<>> /\ packets' = Tail(packets)
    BY <1>3, <1>r DEF ChanOK
  <1> QED BY <1>1, <1>2, <1>3 DEF ChanStep

LEMMA HeldTypeStep ==
    ASSUME NEW R, None \notin R, HeldOK(R), HeldStep(R)
    PROVE  HeldOK(R)'
  BY DEF HeldOK, HeldStep

LEMMA CountTypeStep == ASSUME CountsOK, CountStep PROVE CountsOK'
  BY DEF CountsOK, CountStep, CountDropped, CountReceived

\* The flags follow from the order of the steps.
LEMMA FlagsTypeStep ==
    ASSUME NEW P, FlagsOK(P), LifeStep, links' \subseteq P
    PROVE  FlagsOK(P)'
  BY DEF FlagsOK, LifeStep, LoadObjects, Attaches, OpensReader, OpenReader, FailsClean, OpenFails,
         CloseReader, CloseWaits, Detaches, CloseFrees

\* The reader exists before readLoop runs.
LoopLast == reader = "none" => loop = "none"

\* The steps of the source that do not depend on the program.
CommonStep == \/ LoadObjects \/ OpenReader \/ (\E S : OpenFails(S))
              \/ ReadSkips \/ Read \/ LoopReturns
              \/ CloseReader \/ CloseWaits \/ (\E order : CloseDetaches(order)) \/ CloseFrees

LEMMA CommonTypes ==
    ASSUME NEW P, NEW O, NEW R, NEW K, SourceTypeOK(P, O, R, K), LoopLast, CommonStep
    PROVE  /\ RingStep(O, R) /\ ChanStep(K) /\ HeldStep(R) /\ CountStep
           /\ links' \subseteq P
  <1>t. RingOK(O, R) /\ HeldOK(R) /\ links \subseteq P
    BY SourceParts DEF FlagsOK
  <1>1. CASE LoadObjects
    BY <1>1, <1>t DEF LoadObjects, RingStep, ChanStep, HeldStep, CountStep
  <1>2. CASE OpenReader
    <2>1. held = None
      BY <1>2, <1>t DEF OpenReader, LoopLast, HeldOK
    <2> QED BY <1>2, <1>t, <2>1 DEF OpenReader, RingStep, ChanStep, HeldStep, CountStep
  <1>3. ASSUME NEW S, OpenFails(S)
        PROVE  RingStep(O, R) /\ ChanStep(K) /\ HeldStep(R) /\ CountStep /\ links' \subseteq P
    BY <1>3, <1>t DEF OpenFails, RingStep, ChanStep, HeldStep, CountStep
  <1>4. CASE ReadSkips
    BY <1>4, <1>t DEF ReadSkips, Readable, RingStep, ChanStep, HeldStep, CountStep
  <1>5. CASE Read
    <2>1. 1 \in DOMAIN ring /\ Head(ring) = ring[1]
      BY <1>5, <1>t DEF Read, Readable, RingOK
    <2>2. held' \in R
      BY <1>5, <1>t, <2>1 DEF Read, RingOK
    <2> QED BY <1>5, <1>t, <2>2 DEF Read, Readable, RingStep, ChanStep, HeldStep, CountStep
  <1>6. CASE LoopReturns
    <2>1. held = None
      BY <1>6, <1>t DEF LoopReturns, HeldOK
    <2> QED BY <1>6, <1>t, <2>1 DEF LoopReturns, RingStep, ChanStep, HeldStep, CountStep
  <1>7. CASE CloseReader
    BY <1>7, <1>t DEF CloseReader, RingStep, ChanStep, HeldStep, CountStep
  <1>8. CASE CloseWaits
    BY <1>8, <1>t DEF CloseWaits, RingStep, ChanStep, HeldStep, CountStep
  <1>9. ASSUME NEW order, CloseDetaches(order)
        PROVE  RingStep(O, R) /\ ChanStep(K) /\ HeldStep(R) /\ CountStep /\ links' \subseteq P
    BY <1>9, <1>t DEF CloseDetaches, RingStep, ChanStep, HeldStep, CountStep
  <1>10. CASE CloseFrees
    BY <1>10, <1>t DEF CloseFrees, RingStep, ChanStep, HeldStep, CountStep
  <1> QED
    BY <1>1, <1>2, <1>3, <1>4, <1>5, <1>6, <1>7, <1>8, <1>9, <1>10 DEF CommonStep

LEMMA SendTypes ==
    ASSUME NEW P, NEW O, NEW R, NEW K, links \subseteq P, NEW pkt \in K, Send(pkt)
    PROVE  /\ RingStep(O, R) /\ ChanStep(K) /\ HeldStep(R) /\ CountStep
           /\ links' \subseteq P
  BY DEF Send, RingStep, ChanStep, HeldStep, CountStep

LEMMA SourceTypeStep ==
    ASSUME NEW P, NEW O, NEW R, NEW K, SourceTypeOK(P, O, R, K), None \notin R, LifeStep,
           RingStep(O, R), ChanStep(K), HeldStep(R), CountStep, links' \subseteq P
    PROVE  SourceTypeOK(P, O, R, K)'
  <1>1. RingOK(O, R) /\ ChanOK(K) /\ HeldOK(R) /\ FlagsOK(P) /\ CountsOK
    BY SourceParts
  <1>2. RingOK(O, R)' /\ ChanOK(K)' /\ HeldOK(R)' /\ FlagsOK(P)' /\ CountsOK'
    BY <1>1, RingTypeStep, ChanTypeStep, HeldTypeStep, FlagsTypeStep, CountTypeStep
  <1> QED
    BY <1>2, Zenon DEF SourceTypeOK, RingOK, ChanOK, HeldOK, FlagsOK, CountsOK, Slot

LEMMA LoopLastStep ==
    ASSUME NEW R, HeldOK(R), LoopLast,
           CommonStep \/ (\E pkt : Send(pkt)) \/ UNCHANGED <<reader, loop>>
    PROVE  LoopLast'
  BY DEF CommonStep, LoadObjects, OpenReader, OpenFails, ReadSkips, Read, Readable, LoopReturns,
         CloseReader, CloseWaits, CloseDetaches, CloseFrees, Send, LoopLast, HeldOK

-----------------------------------------------------------------------------
\* The steps of the XDP program and of its source.
LEMMA RunsFacts ==
    /\ Idle \in Runs
    /\ \A f \in Frames : [pc |-> "filling", frame |-> f] \in Runs
    /\ \A r \in Runs : r.pc = "filling" => r.frame \in Frames
    /\ \A r \in Runs : [r EXCEPT !.pc = "counting"] \in Runs
    /\ \A r \in Runs : r.pc \in {"idle", "filling", "counting"}
  <1>1. \A r \in Runs : /\ r = [pc |-> r.pc, frame |-> r.frame]
                        /\ r.pc \in {"idle", "filling", "counting"}
                        /\ r.frame \in Frames \union {None}
                        /\ r.pc = "filling" => r.frame \in Frames
    BY DEF Runs
  <1>2. \A r \in Runs : [r EXCEPT !.pc = "counting"] = [pc |-> "counting", frame |-> r.frame]
    BY DEF Runs
  <1>3. \A r \in Runs : [pc |-> "counting", frame |-> r.frame] \in Runs
    BY <1>1 DEF Runs
  <1>4. Idle \in Runs
    BY DEF Runs, Idle
  <1>5. \A f \in Frames : [pc |-> "filling", frame |-> f] \in Runs
    BY DEF Runs
  <1> QED BY <1>1, <1>2, <1>3, <1>4, <1>5

LEMMA CapLenType == ASSUME NEW f \in Frames
                    PROVE  f.len \in Nat /\ CapLen(f) \in Nat /\ Copied(CapLen(f)) \in Nat
  <1>1. f.len \in Nat
    BY FramesAssumption
  <1>2. CapLen(f) \in Nat
    BY <1>1 DEF CapLen, FIXED_SNAP_LEN
  <1>3. \A n \in Nat : n % 4096 \in Nat
    OBVIOUS
  <1> QED BY <1>1, <1>2, <1>3 DEF Copied, FIXED_SNAP_LEN

\* A 16-bit number is two bytes; swapping them is injective.
LEMMA QuotientRange ==
    ASSUME NEW v \in Nat, v < 65536, NEW q \in Nat, NEW r \in Nat, v = 256 * q + r
    PROVE  q < 256
  BY SMT

LEMMA Bytes ==
    ASSUME NEW v \in Nat, v < 65536
    PROVE  /\ v % 256 \in Nat /\ v % 256 < 256
           /\ v \div 256 \in Nat /\ v \div 256 < 256
           /\ v = 256 * (v \div 256) + (v % 256)
  <1> DEFINE r == v % 256  q == v \div 256
  <1>1. r \in Nat /\ r < 256
    BY SMT
  <1>2. q \in Nat
    BY SMT
  <1>3. v = 256 * q + r
    BY SMT
  <1> HIDE DEF r, q
  <1>4. q < 256
    BY <1>1, <1>2, <1>3, QuotientRange, SMT
  <1> QED BY <1>1, <1>2, <1>3, <1>4, SMT DEF r, q

LEMMA BytePairs ==
    ASSUME NEW a \in Nat, NEW b \in Nat, NEW c \in Nat, NEW d \in Nat,
           a < 256, b < 256, c < 256, d < 256
    PROVE  /\ a * 256 + b \in Nat /\ a * 256 + b < 65536
           /\ a * 256 + b = c * 256 + d => a = c /\ b = d
  BY SMT

LEMMA SwapType ==
    ASSUME NEW v \in Nat, v < 65536
    PROVE  hostToNet16(v) \in Nat /\ hostToNet16(v) < 65536 /\ Loaded(v) = hostToNet16(v)
  <1> DEFINE r == v % 256  q == v \div 256
  <1>1. r \in Nat /\ r < 256 /\ q \in Nat /\ q < 256
    BY Bytes, SMT
  <1>2. hostToNet16(v) = r * 256 + q /\ Loaded(v) = r * 256 + q
    BY SMT DEF hostToNet16, Loaded
  <1> HIDE DEF r, q
  <1> QED BY <1>1, <1>2, BytePairs, SMT

LEMMA SwapInjective ==
    ASSUME NEW v \in Nat, v < 65536, NEW w \in Nat, w < 65536, Loaded(v) = hostToNet16(w)
    PROVE  v = w
  <1> DEFINE r == v % 256  q == v \div 256  s == w % 256  p == w \div 256
  <1>1. r \in Nat /\ r < 256 /\ q \in Nat /\ q < 256 /\ v = 256 * q + r
    BY Bytes, SMT
  <1>2. s \in Nat /\ s < 256 /\ p \in Nat /\ p < 256 /\ w = 256 * p + s
    BY Bytes, SMT
  <1>3. r * 256 + q = s * 256 + p
    BY SMT DEF hostToNet16, Loaded
  <1> HIDE DEF r, q, s, p
  <1>4. r = s /\ q = p
    BY <1>1, <1>2, <1>3, BytePairs, SMTT(30)
  <1> QED BY <1>1, <1>2, <1>4, SMT

LEMMA IsPort == \A v \in Nat : v < 65536 <=> v \in Ports
  BY SMTT(30) DEF Ports

LEMMA PortType == Port \in Nat /\ Port < 65536
  BY XDPAssumption, SMTT(30) DEF Ports

\* Which step of mode "ebpf" was taken.
XDPCommon == CommonStep /\ UNCHANGED xdp

LEMMA XDPSteps ==
    ASSUME XDPNext
    PROVE  \/ XDPCommon \/ XDPOpenSetPort \/ XDPOpenAttach \/ XDPProgram \/ XDPSend \/ XDPReceive
  BY DEF XDPNext, XDPOpenReader, XDPOpenFails, XDPLoop, XDPClose, XDPCommon, CommonStep

LEMMA XDPSourceTypes ==
    ASSUME SourceTypeOK({"xdp"}, Cpus, XDPRecords, XDPPackets), XDPTypeOK, LoopLast, XDPNext
    PROVE  /\ RingStep(Cpus, XDPRecords) /\ ChanStep(XDPPackets) /\ HeldStep(XDPRecords) /\ CountStep
           /\ links' \subseteq {"xdp"}
  <1> USE DEF RingStep, ChanStep, HeldStep, CountStep
  <1>t. links \subseteq {"xdp"} /\ HeldOK(XDPRecords)
    BY SourceParts DEF FlagsOK
  <1>1. CASE XDPCommon
    <2> USE DEF XDPCommon
    <2> QED BY ONLY <1>1, CommonTypes, SourceTypeOK({"xdp"}, Cpus, XDPRecords, XDPPackets), LoopLast
  <1>2. CASE XDPOpenSetPort
    BY <1>2, <1>t DEF XDPOpenSetPort, source
  <1>3. CASE XDPOpenAttach
    BY <1>3, <1>t DEF XDPOpenAttach
  <1>4. ASSUME NEW c \in Cpus, NEW f \in Frames, XDPPass(c, f) \/ XDPDrop(c, f) \/ XDPReserve(c, f)
        PROVE  /\ RingStep(Cpus, XDPRecords) /\ ChanStep(XDPPackets) /\ HeldStep(XDPRecords) /\ CountStep
               /\ links' \subseteq {"xdp"}
    BY <1>4, <1>t DEF XDPPass, XDPDrop, XDPReserve, Arrives
  <1>5. ASSUME NEW c \in Cpus, XDPSubmit(c)
        PROVE  /\ RingStep(Cpus, XDPRecords) /\ ChanStep(XDPPackets) /\ HeldStep(XDPRecords) /\ CountStep
               /\ links' \subseteq {"xdp"}
    <2> DEFINE f == cpu[c].frame
               rec == [frame |-> f, len |-> f.len, cap_len |-> CapLen(f), valid |-> Copied(CapLen(f))]
    <2>1. f \in Frames
      <3>1. cpu[c] \in Runs /\ cpu[c].pc = "filling"
        BY <1>5 DEF XDPSubmit, XDPTypeOK
      <3> QED BY <3>1, RunsFacts
    <2>2. rec \in XDPRecords
      BY <2>1, CapLenType DEF XDPRecords
    <2>3. Settle(c, "ready", rec)
      BY <1>5 DEF XDPSubmit, bpf_ringbuf_submit
    <2> HIDE DEF rec
    <2> QED BY <1>5, <1>t, <2>2, <2>3 DEF XDPSubmit
  <1>6. ASSUME NEW c \in Cpus, XDPDiscard(c) \/ XDPCount(c)
        PROVE  /\ RingStep(Cpus, XDPRecords) /\ ChanStep(XDPPackets) /\ HeldStep(XDPRecords) /\ CountStep
               /\ links' \subseteq {"xdp"}
    BY <1>6, <1>t DEF XDPDiscard, XDPCount, bpf_ringbuf_discard
  <1>7. CASE XDPSend
    <2> DEFINE pkt == [frame |-> held.frame, valid |-> held.valid,
                       len |-> IF held.cap_len > FIXED_SNAP_LEN THEN FIXED_SNAP_LEN ELSE held.cap_len]
    <2>1. Send(pkt)
      BY <1>7 DEF XDPSend
    <2>2. held \in XDPRecords
      BY <1>7, <1>t DEF XDPSend, Send, HeldOK
    <2>3. pkt \in XDPPackets
      BY <2>2 DEF XDPRecords, XDPPackets, FIXED_SNAP_LEN
    <2> HIDE DEF pkt
    <2> QED BY ONLY <1>t, <2>1, <2>3, SendTypes
  <1>8. CASE XDPReceive
    BY <1>8, <1>t DEF XDPReceive
  <1> QED
    BY <1>1, <1>2, <1>3, <1>4, <1>5, <1>6, <1>7, <1>8, XDPSteps DEF XDPProgram

CpuOK == cpu \in [Cpus -> Runs]
XDPCountsOK == /\ cfg_port \in Ports /\ arrived \in 0..MaxFrames
               /\ mirrorable \in Nat /\ discards \in Nat /\ taken \in Nat

LEMMA CpuTypeStep == ASSUME CpuOK, XDPNext PROVE CpuOK'
  <1>1. CASE UNCHANGED cpu
    BY <1>1 DEF CpuOK
  <1>2. ASSUME NEW c \in Cpus, NEW r \in Runs, cpu' = [cpu EXCEPT ![c] = r] PROVE CpuOK'
    BY <1>2 DEF CpuOK
  <1>3. ASSUME NEW c \in Cpus, XDPSubmit(c) PROVE CpuOK'
    <2>1. cpu' = [cpu EXCEPT ![c] = [cpu[c] EXCEPT !.pc = "counting"]]
      BY <1>3 DEF XDPSubmit
    <2>2. cpu[c] \in Runs
      BY DEF CpuOK
    <2> QED BY <1>2, <2>1, <2>2, RunsFacts
  <1>4. ASSUME NEW c \in Cpus, NEW f \in Frames, XDPReserve(c, f) PROVE CpuOK'
    BY <1>2, <1>4, RunsFacts DEF XDPReserve
  <1>5. ASSUME NEW c \in Cpus, XDPDiscard(c) \/ XDPCount(c) PROVE CpuOK'
    BY <1>2, <1>5, RunsFacts DEF XDPDiscard, XDPCount
  <1> QED
    BY <1>1, <1>3, <1>4, <1>5, XDPSteps
    DEF XDPCommon, xdp, XDPOpenSetPort, XDPOpenAttach, XDPProgram, XDPPass, XDPDrop, XDPSend, XDPReceive

LEMMA XDPCountsStep == ASSUME XDPCountsOK, XDPNext PROVE XDPCountsOK'
  <1>1. CASE UNCHANGED <<cfg_port, arrived, mirrorable, discards, taken>>
    BY <1>1 DEF XDPCountsOK
  <1>2. CASE XDPOpenSetPort
    <2>1. cfg_port' = hostToNet16(Port) /\ UNCHANGED <<arrived, mirrorable, discards, taken>>
      BY <1>2, SMT DEF XDPOpenSetPort
    <2>2. cfg_port' \in Nat /\ cfg_port' < 65536
      BY <2>1, SwapType, PortType, SMT
    <2>3. cfg_port' \in Ports
      BY <2>2, IsPort
    <2> QED BY <2>1, <2>3 DEF XDPCountsOK
  <1>3. ASSUME NEW c \in Cpus, NEW f \in Frames, Arrives(c, f) PROVE XDPCountsOK'
    BY <1>3, XDPAssumption DEF Arrives, XDPCountsOK
  <1>4. ASSUME NEW c \in Cpus, XDPDiscard(c) PROVE XDPCountsOK'
    BY <1>4 DEF XDPDiscard, XDPCountsOK
  <1>5. CASE XDPReceive
    BY <1>5 DEF XDPReceive, XDPCountsOK
  <1>6. CASE XDPCommon \/ XDPOpenAttach \/ XDPSend
    BY <1>1, <1>6 DEF XDPCommon, XDPOpenAttach, XDPSend, xdp
  <1>7. CASE XDPProgram
    BY <1>1, <1>3, <1>4, <1>7
    DEF XDPProgram, XDPPass, XDPDrop, XDPReserve, XDPSubmit, XDPCount
  <1> QED BY <1>2, <1>5, <1>6, <1>7, XDPSteps

LEMMA XDPTypeStep == ASSUME XDPTypeOK, XDPNext PROVE XDPTypeOK'
  <1>1. CpuOK /\ XDPCountsOK
    BY DEF XDPTypeOK, CpuOK, XDPCountsOK
  <1>2. CpuOK' /\ XDPCountsOK'
    BY <1>1, CpuTypeStep, XDPCountsStep
  <1> QED BY <1>2 DEF XDPTypeOK, CpuOK, XDPCountsOK

-----------------------------------------------------------------------------
\* The steps of the SSL probes and of their source.
SSLCommon == CommonStep /\ UNCHANGED ssl

LEMMA SSLSteps ==
    ASSUME SSLNext
    PROVE  \/ SSLCommon \/ SSLOpenAttach \/ (\E t \in Threads : SSLProbe(t)) \/ SSLSend \/ SSLReceive
           \/ \E key \in DOMAIN pool : SSLFlush(key)
  BY DEF SSLNext, SSLOpenReader, SSLOpenFails, SSLLoop, SSLClose, SSLCommon, CommonStep

ThrOK == thr \in [Threads -> Phases]
MapOK == /\ argmap \in [Dirs -> [Threads -> Elems \union {0}]]
         /\ \A d \in Dirs : \A t, u \in Threads : argmap[d][t] = argmap[d][u] /\ t # u => argmap[d][t] = 0
BufOK == buf_ptr \in [Dirs -> [Elems -> CallIds \union {None}]]
CallsOK == calls \in [Threads -> [Dirs -> Nat]] /\ started \in 0..MaxCalls /\ lost \subseteq CallIds
SeqsOK == /\ DOMAIN seqNums = DOMAIN seqLastSeen /\ DOMAIN seqNums \subseteq Threads \X Dirs
          /\ seqNums \in [DOMAIN seqNums -> Nat] /\ seqLastSeen \in [DOMAIN seqNums -> Nat]
          /\ seqPurgeCounter \in Nat
          /\ \A k \in DOMAIN seqLastSeen : seqLastSeen[k] < seqPurgeCounter

LEMMA SSLParts == SSLTypeOK <=> ThrOK /\ MapOK /\ BufOK /\ CallsOK /\ SeqsOK
  BY Zenon DEF SSLTypeOK, ThrOK, MapOK, BufOK, CallsOK, SeqsOK

\* What the phase of a thread says of its fields.
LEMMA PhasesFacts ==
    /\ Resting \in Phases /\ Dead \in Phases
    /\ \A d \in Dirs, b \in BOOLEAN : InCall(d, b) \in Phases
    /\ \A d \in Dirs, e \in Elems, v \in AllRets : InExit(d, e, v) \in Phases
    /\ \A r \in Phases : r.pc \in {"calling", "filling"} => r.d \in Dirs
    /\ \A r \in Phases : r.pc = "filling" => r.elem \in Elems /\ r.ret \in AllRets
  <1>1. Resting \in Phases /\ Dead \in Phases
    BY DEF Resting, Dead, Phases
  <1>2. \A d \in Dirs, b \in BOOLEAN : InCall(d, b) \in Phases
    BY DEF InCall, Phases
  <1>3. \A d \in Dirs, e \in Elems, v \in AllRets : InExit(d, e, v) \in Phases
    BY DEF InExit, Phases
  <1>4. \A r \in Phases : r.pc \in {"calling", "filling"} => r.d \in Dirs
    BY DEF Phases
  <1>5. \A r \in Phases : r.pc = "filling" => r.elem \in Elems /\ r.ret \in AllRets
    BY DEF Phases
  <1> QED BY <1>1, <1>2, <1>3, <1>4, <1>5, Zenon

\* The call that returns from SSL_read or SSL_write, and its element.
LEMMA CallingFacts ==
    ASSUME ThrOK, NEW t \in Threads, thr[t].pc = "calling"
    PROVE  thr[t] \in Phases /\ thr[t].d \in Dirs
  <1>1. thr[t] \in Phases
    BY DEF ThrOK
  <1> QED BY <1>1, PhasesFacts, Zenon

LEMMA FoundFacts ==
    ASSUME ThrOK, MapOK, NEW t \in Threads, thr[t].pc = "calling", Found(t)
    PROVE  argmap[thr[t].d][t] \in Elems
  BY CallingFacts DEF Found, InMap, MapOK

LEMMA FillingFacts ==
    ASSUME ThrOK, NEW t \in Threads, thr[t].pc = "filling"
    PROVE  thr[t].d \in Dirs /\ thr[t].elem \in Elems /\ thr[t].ret \in AllRets
  <1>1. thr[t] \in Phases
    BY DEF ThrOK
  <1> QED BY <1>1, PhasesFacts, Zenon

LEMMA CallIdType ==
    ASSUME CallsOK, NEW t \in Threads, NEW d \in Dirs
    PROVE  CallId(t, d) \in CallIds /\ [t |-> t, d |-> d, n |-> calls[t][d]] \in CallIds
  BY DEF CallsOK, CallId, CallIds

LEMMA ThrStep == ASSUME ThrOK, MapOK, SSLNext PROVE ThrOK'
  <1>1. CASE UNCHANGED thr
    BY <1>1 DEF ThrOK
  <1>2. ASSUME NEW t \in Threads, NEW r \in Phases, thr' = [thr EXCEPT ![t] = r] PROVE ThrOK'
    BY <1>2 DEF ThrOK
  <1>3. ASSUME NEW t \in Threads, NEW d \in Dirs, Begins(t, d) PROVE ThrOK'
    <2>1. Probed(t, d, "exit") \in BOOLEAN
      BY Zenon DEF Probed, should_trace
    <2> DEFINE r == InCall(d, Probed(t, d, "exit"))
    <2>2. r \in Phases
      BY <2>1, PhasesFacts, Zenon
    <2>3. thr' = [thr EXCEPT ![t] = r]
      BY <1>3, Zenon DEF Begins
    <2> HIDE DEF r
    <2> QED BY <1>2, <2>2, <2>3
  <1>4. ASSUME NEW t \in Threads, NEW ret \in AllRets, ExitReserve(t, ret) PROVE ThrOK'
    <2> DEFINE e == argmap[thr[t].d][t]
    <2>1. thr[t].pc = "calling" /\ Found(t)
      BY <1>4 DEF ExitReserve, Transfers
    <2>2. thr[t].d \in Dirs /\ e \in Elems
      BY <2>1, CallingFacts, FoundFacts
    <2> DEFINE r == InExit(thr[t].d, e, ret)
    <2>3. thr' = [thr EXCEPT ![t] = r]
      BY <1>4, Zenon DEF ExitReserve
    <2>4. r \in Phases
      BY <2>2, PhasesFacts, Zenon
    <2> HIDE DEF e, r
    <2> QED BY <1>2, <2>3, <2>4
  <1>5. ASSUME NEW t \in Threads,
               Dies(t) \/ ReturnsNothing(t) \/ ReturnsUnseen(t) \/ ExitDrop(t) \/ ExitSubmit(t)
        PROVE  ThrOK'
    <2>1. \E r \in {Resting, Dead} : thr' = [thr EXCEPT ![t] = r]
      BY <1>5, Zenon DEF Dies, ReturnsNothing, ReturnsUnseen, ExitDrop, ExitSubmit
    <2> QED BY <1>2, <2>1, PhasesFacts, Zenon
  <1>6. ASSUME NEW t \in Threads, SSLProbe(t) PROVE ThrOK'
    BY <1>3, <1>4, <1>5, <1>6 DEF SSLProbe, Enter, EnterUnseen
  <1> QED
    BY <1>1, <1>6, SSLSteps DEF SSLCommon, ssl, SSLOpenAttach, SSLSend, SSLReceive, SSLFlush

\* The hash maps: an update takes an element that no other thread has.
SetElem(d, t, e) == argmap' = [argmap EXCEPT ![d][t] = e]

LEMMA SetElemStep ==
    ASSUME MapOK, NEW d \in Dirs, NEW t \in Threads, NEW e \in Elems \union {0}, SetElem(d, t, e),
           \A u \in Threads : u # t /\ argmap[d][u] = e => e = 0
    PROVE  MapOK'
  <1>t. /\ argmap \in [Dirs -> [Threads -> Elems \union {0}]]
        /\ \A x \in Dirs : \A u, w \in Threads : argmap[x][u] = argmap[x][w] /\ u # w => argmap[x][u] = 0
    BY DEF MapOK
  <1>1. argmap' \in [Dirs -> [Threads -> Elems \union {0}]]
    BY <1>t DEF SetElem
  <1>2. \A x \in Dirs, u \in Threads :
           argmap'[x][u] = IF x = d /\ u = t THEN e ELSE argmap[x][u]
    BY <1>t DEF SetElem
  <1>3. ASSUME NEW x \in Dirs, NEW u \in Threads, NEW w \in Threads,
               argmap'[x][u] = argmap'[x][w], u # w
        PROVE  argmap'[x][u] = 0
    <2>1. CASE x # d \/ (u # t /\ w # t)
      BY <1>t, <1>2, <1>3, <2>1
    <2>2. CASE x = d /\ u = t
      BY <1>2, <1>3, <2>2
    <2>3. CASE x = d /\ w = t
      BY <1>2, <1>3, <2>3
    <2> QED BY <2>1, <2>2, <2>3
  <1> QED BY <1>1, <1>3 DEF MapOK

\* The element of a call, as the enter probe chooses it.
LEMMA EnterElem ==
    ASSUME MapOK, NEW t \in Threads, NEW d \in Dirs,
           NEW e \in IF InMap(t, d) THEN {argmap[d][t]} ELSE FreeElems(d)
    PROVE  /\ e \in Elems
           /\ \A u \in Threads : u # t /\ argmap[d][u] = e => e = 0
  <1>1. CASE InMap(t, d)
    BY <1>1 DEF InMap, MapOK
  <1>2. CASE ~InMap(t, d)
    BY <1>2 DEF FreeElems
  <1> QED BY <1>1, <1>2

LEMMA MapStep == ASSUME ThrOK, MapOK, SSLNext PROVE MapOK'
  <1>1. CASE UNCHANGED argmap
    BY <1>1 DEF MapOK
  <1>2. ASSUME NEW t \in Threads, NEW d \in Dirs, Enter(t, d) PROVE MapOK'
    <2>1. PICK e \in IF InMap(t, d) THEN {argmap[d][t]} ELSE FreeElems(d) : SetElem(d, t, e)
      BY <1>2 DEF Enter, SetElem
    <2>2. e \in Elems /\ \A u \in Threads : u # t /\ argmap[d][u] = e => e = 0
      BY EnterElem
    <2> QED BY <2>1, <2>2, SetElemStep
  <1>3. ASSUME NEW t \in Threads, thr[t].pc = "calling", argmap' = Deleted(t) PROVE MapOK'
    <2>1. thr[t].d \in Dirs /\ SetElem(thr[t].d, t, 0)
      BY <1>3, CallingFacts DEF Deleted, SetElem
    <2> QED BY <2>1, SetElemStep
  <1>4. ASSUME NEW t \in Threads, SSLProbe(t) PROVE MapOK'
    <2>1. CASE \E d \in Dirs : Enter(t, d)
      BY <1>2, <2>1
    <2>2. CASE UNCHANGED argmap
      BY <1>1, <2>2
    <2>3. CASE thr[t].pc = "calling" /\ argmap' = Deleted(t)
      BY <1>3, <2>3
    <2> QED
      BY <1>4, <2>1, <2>2, <2>3
      DEF SSLProbe, EnterUnseen, Dies, ReturnsNothing, ReturnsUnseen, ExitDrop, ExitReserve, Transfers,
          ExitSubmit
  <1> QED
    BY <1>1, <1>4, SSLSteps DEF SSLCommon, ssl, SSLOpenAttach, SSLSend, SSLReceive, SSLFlush

LEMMA BufStep == ASSUME MapOK, BufOK, CallsOK, SSLNext PROVE BufOK'
  <1>1. CASE UNCHANGED buf_ptr
    BY <1>1 DEF BufOK
  <1>2. ASSUME NEW t \in Threads, NEW d \in Dirs, Enter(t, d) PROVE BufOK'
    <2>1. PICK e \in IF InMap(t, d) THEN {argmap[d][t]} ELSE FreeElems(d) :
             buf_ptr' = [buf_ptr EXCEPT ![d][e] = CallId(t, d)]
      BY <1>2 DEF Enter
    <2>2. e \in Elems /\ CallId(t, d) \in CallIds
      BY EnterElem, CallIdType
    <2> QED BY <2>1, <2>2 DEF BufOK
  <1>4. ASSUME NEW t \in Threads, SSLProbe(t) PROVE BufOK'
    BY <1>1, <1>2, <1>4
    DEF SSLProbe, EnterUnseen, Dies, ReturnsNothing, ReturnsUnseen, ExitDrop, ExitReserve, Transfers,
        ExitSubmit
  <1> QED
    BY <1>1, <1>4, SSLSteps DEF SSLCommon, ssl, SSLOpenAttach, SSLSend, SSLReceive, SSLFlush

LEMMA SSLCallsStep ==
    ASSUME ThrOK, CallsOK, held \in SSLRecords \/ ~(loop = "sending"), SSLNext
    PROVE  CallsOK'
  <1>t. /\ calls \in [Threads -> [Dirs -> Nat]] /\ started \in 0..MaxCalls /\ lost \subseteq CallIds
        /\ MaxCalls \in Nat
    BY SSLAssumption DEF CallsOK
  <1>1. CASE UNCHANGED <<calls, started, lost>>
    BY <1>1 DEF CallsOK
  <1>2. ASSUME NEW t \in Threads, NEW d \in Dirs, Begins(t, d) PROVE CallsOK'
    BY <1>2, <1>t DEF Begins, CallsOK
  <1>3. ASSUME NEW t \in Threads, Transfers(t)
        PROVE  calls' \in [Threads -> [Dirs -> Nat]] /\ started' = started
    BY <1>3, <1>t, CallingFacts DEF Transfers
  <1>4. ASSUME NEW t \in Threads, thr[t].pc = "calling" PROVE CallId(t, thr[t].d) \in CallIds
    BY <1>4, CallingFacts, CallIdType
  <1>5. ASSUME NEW t \in Threads, ReturnsUnseen(t) \/ ExitDrop(t) PROVE CallsOK'
    BY <1>3, <1>4, <1>5, <1>t DEF ReturnsUnseen, ExitDrop, Transfers, CallsOK
  <1>6. ASSUME NEW t \in Threads, NEW ret, ExitReserve(t, ret) PROVE CallsOK'
    BY <1>3, <1>6, <1>t DEF ExitReserve, CallsOK
  <1>7. ASSUME NEW t \in Threads, Dies(t) \/ ReturnsNothing(t) \/ ExitSubmit(t) PROVE CallsOK'
    BY <1>1, <1>7 DEF Dies, ReturnsNothing, ExitSubmit
  <1>8. CASE SSLSend
    <2>1. loop = "sending" /\ UNCHANGED <<calls, started>> /\ lost' \subseteq lost \union {held.call}
      BY <1>8 DEF SSLSend, Send
    <2>2. held.call \in CallIds
      BY <2>1 DEF SSLRecords
    <2> QED BY <1>t, <2>1, <2>2 DEF CallsOK
  <1> QED
    BY <1>1, <1>2, <1>5, <1>6, <1>7, <1>8, SSLSteps
    DEF SSLCommon, ssl, SSLOpenAttach, SSLReceive, SSLFlush, SSLProbe, Enter, EnterUnseen

-----------------------------------------------------------------------------
\* nextSeq: the maps keep one entry for each live thread and direction.
LEMMA WithFacts ==
    ASSUME NEW D, NEW f \in [D -> Nat], NEW k, NEW v \in Nat
    PROVE  /\ With(f, k, v) \in [D \union {k} -> Nat]
           /\ \A j \in D \union {k} : With(f, k, v)[j] = IF j = k THEN v ELSE f[j]
  BY DEF With

LEMMA RestrictedFacts ==
    ASSUME NEW D, NEW f \in [D -> Nat], NEW S, S \subseteq D
    PROVE  /\ Restricted(f, S) \in [S -> Nat]
           /\ \A j \in S : Restricted(f, S)[j] = f[j]
  BY DEF Restricted

LEMMA NextSeqStep ==
    ASSUME SeqsOK, NEW k \in Threads \X Dirs, NEW len \in Nat, nextSeq(k, len)
    PROVE  SeqsOK'
  <1> DEFINE D == DOMAIN seqNums
             c == seqPurgeCounter + 1
             nums == With(seqNums, k, CurrentSeq(k) + len)
             seen == With(seqLastSeen, k, seqPurgeCounter)
             keys == IF c % PurgeEvery = 0 THEN Kept(seen, c) ELSE DOMAIN seen
  <1>t. /\ D \subseteq Threads \X Dirs /\ seqNums \in [D -> Nat] /\ seqLastSeen \in [D -> Nat]
        /\ seqPurgeCounter \in Nat /\ \A j \in D : seqLastSeen[j] < seqPurgeCounter
    BY DEF SeqsOK
  <1>d. seqNums' = Restricted(nums, keys) /\ seqLastSeen' = Restricted(seen, keys) /\ seqPurgeCounter' = c
    BY DEF nextSeq
  <1>1. CurrentSeq(k) + len \in Nat
    BY <1>t DEF CurrentSeq
  <1> HIDE DEF D
  <1>2. nums \in [D \union {k} -> Nat]
    BY <1>t, <1>1, WithFacts
  <1>3. /\ seen \in [D \union {k} -> Nat]
        /\ \A j \in D \union {k} : seen[j] = IF j = k THEN seqPurgeCounter ELSE seqLastSeen[j]
    <2>1. seqLastSeen \in [D -> Nat] /\ seqPurgeCounter \in Nat
      BY <1>t
    <2>2. seen \in [D \union {k} -> Nat]
      BY <2>1, WithFacts
    <2>3. seen = [j \in D \union {k} |-> IF j = k THEN seqPurgeCounter ELSE seqLastSeen[j]]
      <3>1. DOMAIN seqLastSeen = D
        BY <2>1
      <3> QED BY <3>1 DEF With
    <2> HIDE DEF seen
    <2> QED BY <2>2, <2>3
  <1>4. \A j \in D \union {k} : seen[j] < c
    BY <1>t, <1>3
  <1>k. keys \subseteq D \union {k}
    <2>1. DOMAIN seen = D \union {k}
      BY <1>3
    <2> HIDE DEF seen, c
    <2> QED BY <2>1 DEF Kept
  <1> HIDE DEF nums, seen, keys
  <1>5. seqNums' \in [keys -> Nat] /\ seqLastSeen' \in [keys -> Nat]
        /\ \A j \in keys : seqLastSeen'[j] = seen[j]
    BY <1>d, <1>k, <1>2, <1>3, RestrictedFacts
  <1>6. DOMAIN seqNums' = keys /\ DOMAIN seqLastSeen' = keys /\ keys \subseteq Threads \X Dirs
    BY <1>5, <1>k, <1>t
  <1>7. seqPurgeCounter' \in Nat /\ \A j \in keys : seqLastSeen'[j] < seqPurgeCounter'
    BY <1>d, <1>t, <1>k, <1>4, <1>5
  <1> QED BY <1>5, <1>6, <1>7 DEF SeqsOK

\* The record that readLoop holds, and its key.
LEMMA HeldFacts ==
    ASSUME HeldOK(SSLRecords), loop = "sending"
    PROVE  /\ held \in SSLRecords /\ held.cap_len \in Nat /\ held.call \in CallIds
           /\ [pid |-> held.pid, tid |-> held.tid] \in Threads /\ held.d \in Dirs
           /\ held.pid \in Nat /\ held.tid \in Nat /\ held.from \in CallIds \union {None}
           /\ held.ret \in Nat /\ held.valid \in Nat
  <1>1. held \in SSLRecords
    BY DEF HeldOK
  <1>2. /\ held.cap_len \in Nat /\ held.call \in CallIds /\ held.d \in Dirs
        /\ held.pid \in Nat /\ held.tid \in Nat /\ held.from \in CallIds \union {None}
        /\ held.call.t = [pid |-> held.pid, tid |-> held.tid]
        /\ held.ret \in Nat /\ held.valid \in Nat
    BY <1>1 DEF SSLRecords
  <1>3. held.call.t \in Threads
    BY <1>2, SMTT(30) DEF CallIds
  <1> QED BY <1>1, <1>2, <1>3

LEMMA SeqsStep == ASSUME SeqsOK, HeldOK(SSLRecords), SSLNext PROVE SeqsOK'
  <1>1. CASE UNCHANGED seqs
    BY <1>1 DEF SeqsOK, seqs
  <1>2. CASE SSLSend
    <2> DEFINE k == <<[pid |-> held.pid, tid |-> held.tid], held.d>>
    <2>1. loop = "sending" /\ nextSeq(k, held.cap_len)
      BY <1>2 DEF SSLSend, Send
    <2>2. k \in Threads \X Dirs /\ held.cap_len \in Nat
      BY <2>1, HeldFacts
    <2> HIDE DEF k
    <2> QED BY <2>1, <2>2, NextSeqStep
  <1> QED
    BY <1>1, <1>2, SSLSteps
    DEF SSLCommon, ssl, SSLOpenAttach, SSLReceive, SSLFlush, SSLProbe, Enter, EnterUnseen, Begins, Dies,
        ReturnsNothing, ReturnsUnseen, ExitDrop, ExitReserve, Transfers, ExitSubmit

LEMMA SSLTypeStep == ASSUME SSLTypeOK, HeldOK(SSLRecords), SSLNext PROVE SSLTypeOK'
  <1>1. ThrOK /\ MapOK /\ BufOK /\ CallsOK /\ SeqsOK
    BY SSLParts
  <1>2. held \in SSLRecords \/ ~(loop = "sending")
    BY DEF HeldOK
  <1>3. ThrOK' /\ MapOK' /\ BufOK' /\ CallsOK' /\ SeqsOK'
    BY <1>1, <1>2, ThrStep, MapStep, BufStep, SSLCallsStep, SeqsStep
  <1> QED BY <1>3, Zenon DEF SSLTypeOK, ThrOK, MapOK, BufOK, CallsOK, SeqsOK

-----------------------------------------------------------------------------
\* The packets of readLoop: addresses and ports of their width.
LEMMA ByteType == \A n \in Nat : n % 256 \in 0..255 /\ n \div 256 \in Nat /\ n \div 65536 \in Nat
  <1>1. \A n \in Nat : n % 256 \in 0..255
    BY SMT
  <1>2. \A n \in Nat : n \div 256 \in Nat
    BY SMT
  <1>3. \A n \in Nat : n \div 65536 \in Nat
    BY SMT
  <1> QED BY <1>1, <1>2, <1>3, SMT

LEMMA ClientIPType ==
    ASSUME NEW r, r.pid \in Nat, r.tid \in Nat
    PROVE  ClientIP(r) \in Addresses /\ ServerIP \in Addresses
  <1> DEFINE b == (r.pid \div 256) % 256  c == r.pid % 256  d == (r.tid \div 65536) % 256
  <1>1. b \in 0..255 /\ c \in 0..255 /\ d \in 0..255
    BY ByteType, SMTT(30)
  <1>2. 10 \in 0..255 /\ 127 \in 0..255 /\ 0 \in 0..255 /\ 1 \in 0..255
    BY SMT
  <1>3. ClientIP(r) = <<10, b, c, d>>
    BY SMT DEF ClientIP
  <1>4. ServerIP = <<127, 0, 0, 1>>
    BY SMT DEF ServerIP
  <1> HIDE DEF b, c, d
  <1>5. <<10, b, c, d>> \in Addresses
    BY <1>1, <1>2, SMT DEF Addresses
  <1>6. <<127, 0, 0, 1>> \in Addresses
    BY <1>2, SMT DEF Addresses
  <1> QED BY <1>3, <1>4, <1>5, <1>6, SMT

LEMMA ClientPortType ==
    ASSUME NEW r, r.tid \in Nat
    PROVE  ClientPort(r) \in Ports /\ 5432 \in Ports
  <1>1. \A n \in Nat : n % 65536 \in Nat /\ n % 65536 < 65536
    BY SMT
  <1>2. 5432 \in Nat /\ 5432 < 65536 /\ 5433 \in Nat /\ 5433 < 65536
    BY SMT
  <1>3. ClientPort(r) \in Nat /\ ClientPort(r) < 65536
    BY <1>1, <1>2, SMT DEF ClientPort
  <1> QED BY <1>2, <1>3, IsPort, SMT

LEMMA SyntheticType ==
    ASSUME NEW r, r.pid \in Nat, r.tid \in Nat, r.cap_len \in Nat, r.call \in CallIds,
           r.ret \in Nat, r.valid \in Nat, r.from \in CallIds \union {None}, NEW seq \in Nat
    PROVE  Synthetic(r, seq) \in SSLPackets
  <1> DEFINE src == IF r.d = "read" THEN ClientIP(r) ELSE ServerIP
             dst == IF r.d = "read" THEN ServerIP ELSE ClientIP(r)
             sport == IF r.d = "read" THEN ClientPort(r) ELSE 5432
             dport == IF r.d = "read" THEN 5432 ELSE ClientPort(r)
  <1>1. src \in Addresses /\ dst \in Addresses
    BY ClientIPType, SMT
  <1>2. sport \in Ports /\ dport \in Ports
    BY ClientPortType, SMT
  <1>3. Synthetic(r, seq) = [src |-> src, sport |-> sport, dst |-> dst, dport |-> dport,
                             seq |-> seq, len |-> r.cap_len, call |-> r.call,
                             ret |-> r.ret, valid |-> r.valid, from |-> r.from]
    BY SMT DEF Synthetic
  <1> HIDE DEF src, dst, sport, dport
  <1> QED BY <1>1, <1>2, <1>3, SMT DEF SSLPackets

\* The record of an exit probe.
LEMMA RecordType ==
    ASSUME NEW t \in Threads, NEW d \in Dirs, NEW ret \in Nat, NEW len \in Nat, NEW call \in CallIds,
           call.t = t, call.d = d, NEW valid \in Nat, NEW from \in CallIds \union {None}
    PROVE  [pid |-> t.pid, tid |-> t.tid, d |-> d, cap_len |-> len, call |-> call,
            ret |-> ret, valid |-> valid, from |-> from] \in SSLRecords
  <1>1. t.pid \in Nat /\ t.tid \in Nat /\ t = [pid |-> t.pid, tid |-> t.tid]
    BY SSLAssumption, SMT
  <1> QED BY <1>1, SMT DEF SSLRecords

\* The lengths that an exit probe computes.
LEMMA Lengths ==
    ASSUME NEW ret \in AllRets
    PROVE  /\ ret \in Nat /\ DataLen(ret) \in Nat /\ DataLen(ret) > 0 /\ CopiedLen(DataLen(ret)) \in Nat
           /\ ret >= MAX_DATA_LEN \/ (DataLen(ret) = ret /\ CopiedLen(ret) = ret)
  <1>1. ret \in Nat /\ ret > 0
    BY SSLAssumption DEF AllRets
  <1>2. DataLen(ret) \in Nat /\ DataLen(ret) > 0
    BY <1>1, SMT DEF DataLen, MAX_DATA_LEN
  <1>3. \A n \in Nat : CopiedLen(n) \in Nat /\ (n < 4096 => CopiedLen(n) = n)
    BY SMT DEF CopiedLen, MAX_DATA_LEN
  <1>4. ret >= 4096 \/ (ret < 4096 /\ DataLen(ret) = ret)
    BY <1>1, SMT DEF DataLen, MAX_DATA_LEN
  <1> QED BY <1>1, <1>2, <1>3, <1>4 DEF MAX_DATA_LEN

\* The record that an exit probe submits: its data, unless it was spoilt, is whole.
LEMMA SubmitRecord ==
    ASSUME ThrOK, BufOK, CallsOK, NEW t \in Threads, ExitSubmit(t)
    PROVE  \E rec \in SSLRecords :
             /\ Settle(t, "ready", rec)
             /\ rec.call = [t |-> t, d |-> thr[t].d, n |-> calls[t][thr[t].d]]
             /\ rec.from \in {buf_ptr[thr[t].d][thr[t].elem], None} /\ rec.cap_len > 0
             /\ (rec.cap_len = rec.ret /\ rec.valid = rec.ret) \/ Spoilt(rec)
  <1>d. PICK d : d = thr[t].d
    OBVIOUS
  <1>r. PICK ret : ret = thr[t].ret
    OBVIOUS
  <1>c. PICK call : call = [t |-> t, d |-> d, n |-> calls[t][d]]
    OBVIOUS
  <1>p. PICK ptr : ptr = buf_ptr[d][thr[t].elem]
    OBVIOUS
  <1>1. thr[t].pc = "filling"
    BY Zenon DEF ExitSubmit
  <1>2. d \in Dirs /\ thr[t].elem \in Elems /\ ret \in AllRets
    BY <1>d, <1>r, <1>1, FillingFacts, Zenon
  <1>3. call \in CallIds /\ call.t = t /\ call.d = d
    BY <1>c, <1>2, CallIdType
  <1>4. ptr \in CallIds \union {None}
    BY <1>p, <1>2 DEF BufOK
  <1>l. PICK len : len = DataLen(ret)
    OBVIOUS
  <1>5. PICK data \in bpf_probe_read_user(len, ptr) :
           Settle(t, "ready", [pid |-> t.pid, tid |-> t.tid, d |-> d, cap_len |-> len, call |-> call,
                               ret |-> ret, valid |-> data.valid, from |-> data.from])
    BY <1>d, <1>r, <1>c, <1>p, <1>l DEF ExitSubmit, bpf_ringbuf_submit
  <1>6. PICK v, from : v = data.valid /\ from = data.from
    OBVIOUS
  <1>7. (v = CopiedLen(len) /\ from = ptr) \/ (v = 0 /\ from = None)
    BY <1>5, <1>6 DEF bpf_probe_read_user
  <1>8. /\ ret \in Nat /\ len \in Nat /\ len > 0 /\ CopiedLen(len) \in Nat
        /\ ret >= MAX_DATA_LEN \/ (len = ret /\ CopiedLen(len) = ret)
    BY <1>2, <1>l, Lengths
  <1>9. v \in Nat /\ from \in CallIds \union {None} /\ from \in {ptr, None}
    BY <1>4, <1>7, <1>8
  <1>10. PICK rec : rec = [pid |-> t.pid, tid |-> t.tid, d |-> d, cap_len |-> len, call |-> call,
                           ret |-> ret, valid |-> v, from |-> from]
    OBVIOUS
  <1>11. rec \in SSLRecords
    BY <1>2, <1>3, <1>8, <1>9, <1>10, RecordType
  <1>12. rec.call = call /\ rec.from = from /\ rec.cap_len = len /\ rec.ret = ret /\ rec.valid = v
    BY <1>10
  <1>13. (len = ret /\ v = ret) \/ ret >= MAX_DATA_LEN \/ from # call
    <2>1. None # call
      BY <1>3, SSLNoneAssumption
    <2> QED BY <1>7, <1>8, <2>1
  <1>14. Settle(t, "ready", rec)
    BY <1>5, <1>6, <1>10
  <1>15. (rec.cap_len = rec.ret /\ rec.valid = rec.ret) \/ Spoilt(rec)
    BY <1>12, <1>13 DEF Spoilt
  <1> QED BY <1>c, <1>d, <1>p, <1>8, <1>9, <1>11, <1>12, <1>14, <1>15

LEMMA SSLSourceTypes ==
    ASSUME SourceTypeOK(Range(Probes), Threads, SSLRecords, SSLPackets), SSLTypeOK, LoopLast, SSLNext
    PROVE  /\ RingStep(Threads, SSLRecords) /\ ChanStep(SSLPackets) /\ HeldStep(SSLRecords) /\ CountStep
           /\ links' \subseteq Range(Probes)
  <1> DEFINE Goal == /\ RingStep(Threads, SSLRecords) /\ ChanStep(SSLPackets) /\ HeldStep(SSLRecords)
                     /\ CountStep /\ links' \subseteq Range(Probes)
  <1>g. SUFFICES Goal
    OBVIOUS
  <1> USE DEF RingStep, ChanStep, HeldStep, CountStep
  <1>t. /\ links \subseteq Range(Probes) /\ HeldOK(SSLRecords)
        /\ ThrOK /\ MapOK /\ BufOK /\ CallsOK /\ SeqsOK
    BY SourceParts, SSLParts, Zenon DEF FlagsOK
  <1>1. CASE SSLCommon
    <2>1. CommonStep
      BY <1>1 DEF SSLCommon
    <2> QED BY ONLY <2>1, CommonTypes, SourceTypeOK(Range(Probes), Threads, SSLRecords, SSLPackets), LoopLast
  <1>2. CASE SSLOpenAttach
    <2>1. PICK n \in 1..4 : links' = Attached(n)
      BY <1>2 DEF SSLOpenAttach
    <2>2. \A i \in 1..4 : Probes[i] \in Range(Probes)
      BY DEF Probes, Range
    <2>3. links' \subseteq Range(Probes)
      BY <2>1, <2>2 DEF Attached
    <2> QED BY <1>2, <2>3 DEF SSLOpenAttach
  <1>3. ASSUME NEW t \in Threads, NEW d \in Dirs, Begins(t, d) PROVE Goal
    BY <1>3, <1>t DEF Begins, source
  <1>4. ASSUME NEW t \in Threads, Dies(t) \/ ReturnsNothing(t) PROVE Goal
    BY <1>4, <1>t DEF Dies, ReturnsNothing, source
  <1>5. ASSUME NEW t \in Threads, ReturnsUnseen(t) \/ ExitDrop(t) PROVE Goal
    BY <1>5, <1>t DEF ReturnsUnseen, ExitDrop, Transfers
  <1>6. ASSUME NEW t \in Threads, NEW ret \in AllRets, ExitReserve(t, ret) PROVE Goal
    BY <1>6, <1>t DEF ExitReserve, Transfers
  <1>7. ASSUME NEW t \in Threads, ExitSubmit(t) PROVE Goal
    <2>1. PICK rec \in SSLRecords : Settle(t, "ready", rec)
      BY <1>7, <1>t, SubmitRecord
    <2>2. RingStep(Threads, SSLRecords)
      BY <2>1
    <2>3. ChanStep(SSLPackets) /\ HeldStep(SSLRecords) /\ CountStep /\ links' \subseteq Range(Probes)
      BY <1>7, <1>t DEF ExitSubmit
    <2> QED BY <2>2, <2>3
  <1>8. CASE SSLSend
    <2> DEFINE k == <<[pid |-> held.pid, tid |-> held.tid], held.d>>
               pkt == Synthetic(held, CurrentSeq(k))
    <2>1. Send(pkt) /\ loop = "sending"
      BY <1>8 DEF SSLSend, Send
    <2>2. CurrentSeq(k) \in Nat
      <3> HIDE DEF k
      <3>1. CASE k \in DOMAIN seqNums
        BY <1>t, <3>1 DEF CurrentSeq, SeqsOK
      <3>2. CASE k \notin DOMAIN seqNums
        BY <3>2 DEF CurrentSeq
      <3> QED BY <3>1, <3>2
    <2> HIDE DEF k
    <2>3. pkt \in SSLPackets
      BY <1>t, <2>1, <2>2, HeldFacts, SyntheticType
    <2> HIDE DEF pkt
    <2> QED BY ONLY <1>t, <2>1, <2>3, SendTypes
  <1>9. CASE SSLReceive
    BY <1>9, <1>t DEF SSLReceive
  <1>10. ASSUME NEW key, SSLFlush(key) PROVE Goal
    BY <1>10, <1>t DEF SSLFlush, source
  <1> HIDE DEF Goal
  <1> QED
    BY <1>1, <1>2, <1>3, <1>4, <1>5, <1>6, <1>7, <1>8, <1>9, <1>10, SSLSteps
    DEF SSLProbe, Enter, EnterUnseen

-----------------------------------------------------------------------------
(***************************************************************************)
(* The frames of mode "ebpf".  A frame that is being mirrored has the one  *)
(* busy record of its CPU.                                                 *)
(***************************************************************************)
OneBusy ==
  /\ \A c \in Cpus : cpu[c].pc = "filling" => \E i \in DOMAIN ring : ring[i].st = "busy" /\ ring[i].owner = c
  /\ \A i \in DOMAIN ring : ring[i].st = "busy" => cpu[ring[i].owner].pc = "filling"
  /\ \A i, j \in DOMAIN ring :
        ring[i].st = "busy" /\ ring[j].st = "busy" /\ ring[i].owner = ring[j].owner => i = j

\* The program is attached after the port was set.
PortFirst == /\ cfg_port \in {0, hostToNet16(Port)}
             /\ links # {} => cfg_port = hostToNet16(Port)

\* The records of r whose state is in S; the live ones are not discarded.
InState(r, S) == {i \in DOMAIN r : r[i].st \in S}
Live == {"busy", "ready"}
Ready == {"ready"}

AtHand(h) == IF h = None THEN 0 ELSE 1
Counting == {c \in Cpus : cpu[c].pc = "counting"}

\* Where each mirrored frame is, and how often it was counted.
FramesTallied ==
  mirrorable = Cardinality(InState(ring, Live)) + AtHand(held) + Len(packets) + taken
                 + dropped + kstats.dropped + discards
PacketsTallied == received = taken + Len(packets) + dropped
RecordsTallied ==
  kstats.received + Cardinality(Counting) = Cardinality(InState(ring, Ready)) + AtHand(held) + received

XDPInv == OneBusy /\ PortFirst /\ FramesTallied /\ PacketsTallied /\ RecordsTallied

CaptureInv == TypeOK /\ LoopLast /\ Ordered /\ (mode = "ebpf" => XDPInv)

-----------------------------------------------------------------------------
\* Records in a state, as the ring changes.
LEMMA InStateFinite ==
    ASSUME NEW X, NEW r \in Seq(X), NEW S
    PROVE  IsFiniteSet(InState(r, S)) /\ Cardinality(InState(r, S)) \in Nat
  <1>1. InState(r, S) \subseteq 1..Len(r) /\ Len(r) \in Nat
    BY DEF InState
  <1>2. IsFiniteSet(1..Len(r))
    BY <1>1, FS_Interval
  <1> QED BY <1>1, <1>2, FS_Subset, FS_CardinalityType

LEMMA InStateAppend ==
    ASSUME NEW X, NEW r \in Seq(X), NEW e \in X, NEW S
    PROVE  Cardinality(InState(Append(r, e), S))
             = Cardinality(InState(r, S)) + (IF e.st \in S THEN 1 ELSE 0)
  <1> DEFINE n == Len(r) + 1
             s == Append(r, e)
  <1>1. /\ Len(r) \in Nat /\ DOMAIN r = 1..Len(r) /\ DOMAIN s = 1..n
        /\ \A i \in 1..Len(r) : s[i] = r[i]
        /\ s[n] = e
    OBVIOUS
  <1>2. \A i : i \in 1..n <=> (i \in 1..Len(r) \/ i = n)
    BY <1>1
  <1>3. n \notin InState(r, S)
    BY <1>1 DEF InState
  <1> HIDE DEF n, s
  <1>4. CASE e.st \in S
    <2>1. InState(s, S) = InState(r, S) \union {n}
      BY <1>1, <1>2, <1>4 DEF InState
    <2> QED BY <1>3, <1>4, <2>1, InStateFinite, FS_AddElement DEF s
  <1>5. CASE e.st \notin S
    <2>1. InState(s, S) = InState(r, S)
      BY <1>1, <1>2, <1>5 DEF InState
    <2> QED BY <1>5, <2>1, InStateFinite DEF s
  <1> QED BY <1>4, <1>5

LEMMA InStateTail ==
    ASSUME NEW X, NEW r \in Seq(X), r # <<>>, NEW S
    PROVE  Cardinality(InState(r, S))
             = Cardinality(InState(Tail(r), S)) + (IF Head(r).st \in S THEN 1 ELSE 0)
  <1> DEFINE s == Tail(r)
             A == InState(s, S)
             B == InState(r, S) \ {1}
             f == [i \in A |-> i + 1]
  <1>1. /\ Len(r) \in Nat /\ Len(r) > 0 /\ DOMAIN r = 1..Len(r) /\ DOMAIN s = 1..(Len(r) - 1)
        /\ \A i \in 1..(Len(r) - 1) : s[i] = r[i + 1]
        /\ Head(r) = r[1] /\ s \in Seq(X)
    OBVIOUS
  <1> HIDE DEF s
  <1>2. \A i \in A : i \in Nat /\ i + 1 \in B
    BY <1>1 DEF InState
  <1>3. \A j \in B : j \in Nat /\ j - 1 \in A /\ j = (j - 1) + 1
    BY <1>1 DEF InState
  <1> HIDE DEF A, B
  <1>4. f \in Bijection(A, B)
    <2>1. f \in [A -> B]
      BY <1>2
    <2>2. \A i, j \in A : f[i] = f[j] => i = j
      BY <1>2
    <2>3. \A j \in B : \E i \in A : f[i] = j
      BY <1>3
    <2> HIDE DEF f
    <2>4. f \in Injection(A, B)
      BY <2>1, <2>2 DEF Injection, IsInjective
    <2>5. f \in Surjection(A, B)
      BY <2>1, <2>3 DEF Surjection
    <2> QED BY <2>4, <2>5 DEF Bijection
  <1>5. IsFiniteSet(A)
    BY <1>1, InStateFinite DEF A
  <1>6. Cardinality(B) = Cardinality(A) /\ IsFiniteSet(B)
    <2>1. ExistsBijection(A, B)
      BY <1>4, Zenon DEF ExistsBijection
    <2> QED BY <1>5, <2>1, FS_Bijection
  <1>7. Cardinality(A) \in Nat /\ IsFiniteSet(InState(r, S))
    BY <1>5, FS_CardinalityType, InStateFinite
  <1>8. CASE Head(r).st \in S
    <2>1. 1 \in InState(r, S)
      BY <1>1, <1>8 DEF InState
    <2>2. Cardinality(InState(r, S) \ {1}) = Cardinality(InState(r, S)) - 1
          /\ Cardinality(InState(r, S)) \in Nat
      BY <1>7, <2>1, FS_RemoveElement, FS_CardinalityType
    <2>3. Cardinality(InState(r, S)) = Cardinality(A) + 1
      BY <1>6, <1>7, <2>2 DEF B
    <2> QED BY <1>8, <2>3 DEF A, s
  <1>9. CASE Head(r).st \notin S
    <2>1. InState(r, S) \ {1} = InState(r, S)
      BY <1>1, <1>9 DEF InState
    <2>2. Cardinality(InState(r, S)) = Cardinality(A)
      BY <1>6, <2>1 DEF B
    <2> QED BY <1>7, <1>9, <2>2 DEF A, s
  <1> QED BY <1>8, <1>9

LEMMA InStateReplace ==
    ASSUME NEW X, NEW r \in Seq(X), NEW k \in DOMAIN r, NEW e, NEW S,
           NEW s, s = [i \in DOMAIN r |-> IF i = k THEN e ELSE r[i]]
    PROVE  /\ r[k].st \in S /\ e.st \in S => Cardinality(InState(s, S)) = Cardinality(InState(r, S))
           /\ r[k].st \notin S /\ e.st \notin S => Cardinality(InState(s, S)) = Cardinality(InState(r, S))
           /\ r[k].st \notin S /\ e.st \in S => Cardinality(InState(s, S)) = Cardinality(InState(r, S)) + 1
           /\ r[k].st \in S /\ e.st \notin S => Cardinality(InState(s, S)) = Cardinality(InState(r, S)) - 1
  <1>f. IsFiniteSet(InState(r, S)) /\ Cardinality(InState(r, S)) \in Nat
    BY InStateFinite
  <1>1. ASSUME r[k].st \in S, e.st \in S PROVE InState(s, S) = InState(r, S)
    BY <1>1 DEF InState
  <1>2. ASSUME r[k].st \notin S, e.st \notin S PROVE InState(s, S) = InState(r, S)
    BY <1>2 DEF InState
  <1>3. ASSUME r[k].st \notin S, e.st \in S
        PROVE  InState(s, S) = InState(r, S) \union {k} /\ k \notin InState(r, S)
    BY <1>3 DEF InState
  <1>4. ASSUME r[k].st \in S, e.st \notin S
        PROVE  InState(s, S) = InState(r, S) \ {k} /\ k \in InState(r, S)
    BY <1>4 DEF InState
  <1>5. ASSUME r[k].st \notin S, e.st \in S
        PROVE  Cardinality(InState(s, S)) = Cardinality(InState(r, S)) + 1
    BY <1>3, <1>5, <1>f, FS_AddElement
  <1>6. ASSUME r[k].st \in S, e.st \notin S
        PROVE  Cardinality(InState(s, S)) = Cardinality(InState(r, S)) - 1
    BY <1>4, <1>6, <1>f, FS_RemoveElement
  <1> QED BY <1>1, <1>2, <1>5, <1>6

-----------------------------------------------------------------------------
\* The program's test, with the port in network order, picks out exactly the
\* frames with the server's port.
LEMMA SameOffset == ASSUME NEW f \in Frames PROVE TcpOffset(f) = L4(f) /\ L4(f) \in Nat
  <1>1. f.ihl \in 0..15
    BY FramesAssumption
  <1> QED BY <1>1 DEF TcpOffset, L4, ethhdr, ipv6hdr

LEMMA SameHeader ==
    ASSUME NEW f \in Frames
    PROVE  HasTcp(f) <=> /\ f.protocol = 6
                         /\ (f.h_proto = "IPv4" /\ f.ihl >= 5) \/ f.h_proto = "IPv6"
                         /\ L4(f) + 20 <= f.len
  <1>1. f.ihl \in 0..15 /\ f.len \in Nat
    BY FramesAssumption
  <1>2. TcpOffset(f) = L4(f)
    BY SameOffset
  <1>3. CASE f.h_proto = "IPv4"
    BY <1>1, <1>2, <1>3 DEF HasTcp, L4, ethhdr, iphdr, ipv6hdr, tcphdr
  <1>4. CASE f.h_proto # "IPv4"
    BY <1>1, <1>2, <1>4 DEF HasTcp, L4, ethhdr, iphdr, ipv6hdr, tcphdr
  <1> QED BY <1>3, <1>4

LEMMA SamePort ==
    ASSUME NEW p \in Ports, cfg_port = hostToNet16(Port)
    PROVE  Loaded(p) = cfg_port <=> p = Port
  <1>1. p \in Nat /\ p < 65536
    BY SMTT(30) DEF Ports
  <1>2. Loaded(p) = cfg_port => p = Port
    BY <1>1, PortType, SwapInjective, SMT
  <1>3. p = Port => Loaded(p) = cfg_port
    BY PortType, SwapType, SMT
  <1> QED BY <1>2, <1>3, SMTT(30)

LEMMA MatchesPostgres ==
    ASSUME NEW f \in Frames, cfg_port = hostToNet16(Port)
    PROVE  Matches(f) <=> f.postgres
  <1>1. f.postgres <=> OfServer(f)
    BY PostgresAssumption, Zenon
  <1>2. CASE ~HasTcp(f)
    <2>1. ~Matches(f)
      BY <1>2, Zenon DEF Matches
    <2>2. ~OfServer(f)
      BY <1>2, SameHeader, Zenon DEF OfServer
    <2> QED BY <1>1, <2>1, <2>2, Zenon
  <1>3. CASE HasTcp(f)
    <2> DEFINE at == f.at[L4(f)]
    <2>1. f.len >= L4(f) + 20
      <3>1. L4(f) + 20 <= f.len /\ L4(f) \in Nat /\ f.len \in Nat
        BY <1>3, SameHeader, SameOffset, FramesAssumption
      <3> QED BY <3>1
    <2>2. at[1] \in Ports /\ at[2] \in Ports
      BY <2>1, PortsAssumption
    <2>3. Matches(f) <=> Loaded(at[1]) = cfg_port \/ Loaded(at[2]) = cfg_port
      <3>1. Matches(f) <=> \E i \in 1..2 : Loaded(at[i]) = cfg_port
        BY <1>3, SameOffset, Zenon DEF Matches
      <3>2. \A i : i \in 1..2 <=> i = 1 \/ i = 2
        OBVIOUS
      <3> HIDE DEF at
      <3> QED BY <3>1, <3>2, Zenon
    <2>4. OfServer(f) <=> at[1] = Port \/ at[2] = Port
      BY <1>3, SameHeader, Zenon DEF OfServer
    <2> HIDE DEF at
    <2>5. (Loaded(at[1]) = cfg_port <=> at[1] = Port) /\ (Loaded(at[2]) = cfg_port <=> at[2] = Port)
      BY <2>2, SamePort
    <2> QED BY <1>1, <2>3, <2>4, <2>5, Zenon
  <1> QED BY <1>2, <1>3

\* What a program settles is its own record, and only that.
LEMMA SettleAt ==
    ASSUME OneBusy, NEW c \in Cpus, cpu[c].pc = "filling", NEW st, NEW rec, Settle(c, st, rec)
    PROVE  \E k \in DOMAIN ring :
             /\ ring[k].st = "busy" /\ ring[k].owner = c
             /\ ring' = [i \in DOMAIN ring |-> IF i = k THEN [owner |-> c, st |-> st, rec |-> rec]
                                                        ELSE ring[i]]
  <1>1. PICK k \in DOMAIN ring : ring[k].st = "busy" /\ ring[k].owner = c
    BY DEF OneBusy
  <1>2. \A i \in DOMAIN ring : ring[i].owner = c /\ ring[i].st = "busy" <=> i = k
    BY <1>1 DEF OneBusy
  <1> DEFINE e == [owner |-> c, st |-> st, rec |-> rec]
  <1>3. ring' = [i \in DOMAIN ring |-> IF ring[i].owner = c /\ ring[i].st = "busy" THEN e ELSE ring[i]]
    BY DEF Settle
  <1> HIDE DEF e
  <1>4. ring' = [i \in DOMAIN ring |-> IF i = k THEN e ELSE ring[i]]
    BY <1>2, <1>3
  <1> QED BY <1>1, <1>4 DEF e

\* The runs of the program change one at a time.
RunIs(c, pc) == /\ cpu'[c].pc = pc
                /\ \A x \in Cpus : x # c => cpu'[x] = cpu[x]

LEMMA RunsStep ==
    ASSUME CpuOK, NEW c \in Cpus
    PROVE  /\ \A f : XDPReserve(c, f) => RunIs(c, "filling")
           /\ XDPSubmit(c) => RunIs(c, "counting")
           /\ XDPDiscard(c) => RunIs(c, "idle")
           /\ XDPCount(c) => RunIs(c, "idle")
  <1>t. cpu \in [Cpus -> Runs]
    BY DEF CpuOK
  <1>1. ASSUME NEW r, cpu' = [cpu EXCEPT ![c] = r] PROVE RunIs(c, r.pc)
    BY <1>1, <1>t DEF RunIs
  <1>2. ASSUME NEW f, XDPReserve(c, f) PROVE RunIs(c, "filling")
    <2> DEFINE r == [pc |-> "filling", frame |-> f]
    <2>1. cpu' = [cpu EXCEPT ![c] = r] /\ r.pc = "filling"
      BY <1>2 DEF XDPReserve
    <2> HIDE DEF r
    <2> QED BY <1>1, <2>1
  <1>3. ASSUME XDPSubmit(c) PROVE RunIs(c, "counting")
    <2> DEFINE r == [cpu[c] EXCEPT !.pc = "counting"]
    <2>1. cpu' = [cpu EXCEPT ![c] = r]
      BY <1>3 DEF XDPSubmit
    <2>2. r.pc = "counting"
      BY <1>t DEF Runs
    <2> HIDE DEF r
    <2> QED BY <1>1, <2>1, <2>2
  <1>4. ASSUME XDPDiscard(c) \/ XDPCount(c) PROVE RunIs(c, "idle")
    <2>1. cpu' = [cpu EXCEPT ![c] = Idle] /\ Idle.pc = "idle"
      BY <1>4 DEF XDPDiscard, XDPCount, Idle
    <2> QED BY <1>1, <2>1
  <1> QED BY <1>2, <1>3, <1>4

LEMMA SlotOf ==
    ASSUME NEW O, NEW R, RingOK(O, R)
    PROVE  \A i \in DOMAIN ring : ring[i].owner \in O /\ ring[i].st \in {"busy", "ready", "discarded"}
  <1>1. \A i \in DOMAIN ring : ring[i] \in Slot(O, R)
    BY DEF RingOK
  <1>2. \A x \in Slot(O, R) : x.owner \in O /\ x.st \in {"busy", "ready", "discarded"}
    BY DEF Slot
  <1> QED BY <1>1, <1>2

LEMMA OneBusySettle ==
    ASSUME OneBusy, NEW R, RingOK(Cpus, R), NEW c \in Cpus, cpu[c].pc = "filling",
           NEW st \in {"ready", "discarded"}, NEW rec, Settle(c, st, rec), RunIs(c, "counting") \/ RunIs(c, "idle")
    PROVE  OneBusy'
  <1> DEFINE e == [owner |-> c, st |-> st, rec |-> rec]
  <1>1. PICK k \in DOMAIN ring : /\ ring[k].st = "busy" /\ ring[k].owner = c
                                 /\ ring' = [i \in DOMAIN ring |-> IF i = k THEN e ELSE ring[i]]
    BY SettleAt
  <1>2. e.st = st
    OBVIOUS
  <1> HIDE DEF e
  <1>3. /\ DOMAIN ring' = DOMAIN ring /\ ring'[k].st = st
        /\ \A i \in DOMAIN ring : i # k => ring'[i] = ring[i]
    BY <1>1, <1>2
  <1>4. \A i \in DOMAIN ring' : ring'[i].st = "busy" => i # k /\ ring'[i] = ring[i]
    BY <1>3
  <1>5. \A i, j \in DOMAIN ring' :
           ring'[i].st = "busy" /\ ring'[j].st = "busy" /\ ring'[i].owner = ring'[j].owner => i = j
    BY <1>3, <1>4 DEF OneBusy
  <1>6. \A i \in DOMAIN ring' : ring'[i].st = "busy" => ring'[i].owner # c
    BY <1>1, <1>3, <1>4 DEF OneBusy
  <1>7. ring \in Seq(Slot(Cpus, R)) /\ DOMAIN ring = 1..Len(ring)
    BY DEF RingOK
  <1>8. \A x \in Cpus : cpu'[x].pc = "filling" => x # c /\ cpu'[x] = cpu[x]
    BY DEF RunIs
  <1>9. \A x \in Cpus : cpu'[x].pc = "filling"
           => \E i \in DOMAIN ring' : ring'[i].st = "busy" /\ ring'[i].owner = x
    BY <1>1, <1>3, <1>8 DEF OneBusy
  <1>10. ASSUME NEW i \in DOMAIN ring', ring'[i].st = "busy" PROVE cpu'[ring'[i].owner].pc = "filling"
    <2>1. ring'[i] = ring[i] /\ ring[i].owner # c /\ cpu[ring[i].owner].pc = "filling"
      BY <1>3, <1>4, <1>6, <1>10 DEF OneBusy
    <2>2. ring[i].owner \in Cpus
      BY <1>3, SlotOf
    <2> QED BY <2>1, <2>2 DEF RunIs
  <1> QED BY <1>5, <1>9, <1>10 DEF OneBusy

LEMMA OneBusyReserve ==
    ASSUME OneBusy, NEW R, RingOK(Cpus, R), NEW c \in Cpus, cpu[c].pc = "idle",
           bpf_ringbuf_reserve(c), RunIs(c, "filling")
    PROVE  OneBusy'
  <1> DEFINE e == [owner |-> c, st |-> "busy", rec |-> None]
             n == Len(ring) + 1
  <1>t. ring \in Seq(Slot(Cpus, R)) /\ DOMAIN ring = 1..Len(ring) /\ Len(ring) \in Nat
    BY DEF RingOK
  <1>1. ring' = Append(ring, e) /\ e.st = "busy" /\ e.owner = c
    BY DEF bpf_ringbuf_reserve
  <1>2. e \in Slot(Cpus, R)
    BY DEF Slot
  <1> HIDE DEF e
  <1>3. DOMAIN ring' = 1..n /\ ring'[n] = e /\ \A i \in 1..Len(ring) : ring'[i] = ring[i]
    BY <1>t, <1>1, <1>2
  <1>4. \A i \in DOMAIN ring' : (i \in DOMAIN ring /\ ring'[i] = ring[i]) \/ (i = n /\ ring'[i] = e)
    BY <1>t, <1>3
  <1>5. n \in DOMAIN ring' /\ \A i \in DOMAIN ring : i \in DOMAIN ring' /\ ring'[i] = ring[i]
    BY <1>t, <1>3
  <1>6. \A i \in DOMAIN ring : ring[i].owner \in Cpus /\ (ring[i].st = "busy" => ring[i].owner # c)
    BY SlotOf DEF OneBusy
  <1> HIDE DEF n
  <1>7. \A x \in Cpus : cpu'[x].pc = "filling"
           => \E i \in DOMAIN ring' : ring'[i].st = "busy" /\ ring'[i].owner = x
    <2>1. ASSUME NEW x \in Cpus, cpu'[x].pc = "filling", x # c
          PROVE  \E i \in DOMAIN ring' : ring'[i].st = "busy" /\ ring'[i].owner = x
      <3>1. PICK i \in DOMAIN ring : ring[i].st = "busy" /\ ring[i].owner = x
        BY <2>1 DEF RunIs, OneBusy
      <3> QED BY <1>5, <3>1
    <2>2. ring'[n].st = "busy" /\ ring'[n].owner = c
      BY <1>1, <1>3
    <2> QED BY <1>5, <2>1, <2>2
  <1>8. \A i \in DOMAIN ring' : ring'[i].st = "busy" => cpu'[ring'[i].owner].pc = "filling"
    <2>1. ASSUME NEW i \in DOMAIN ring, ring'[i] = ring[i], ring'[i].st = "busy"
          PROVE  cpu'[ring'[i].owner].pc = "filling"
      BY <1>6, <2>1 DEF OneBusy, RunIs
    <2>2. cpu'[e.owner].pc = "filling"
      BY <1>1 DEF RunIs
    <2> QED BY <1>4, <2>1, <2>2
  <1>9. \A i, j \in DOMAIN ring' :
           ring'[i].st = "busy" /\ ring'[j].st = "busy" /\ ring'[i].owner = ring'[j].owner => i = j
    BY <1>1, <1>4, <1>6 DEF OneBusy
  <1> QED BY <1>7, <1>8, <1>9 DEF OneBusy

LEMMA OneBusyTail ==
    ASSUME OneBusy, NEW O, NEW R, RingOK(O, R), ring # <<>>, Head(ring).st # "busy",
           ring' = Tail(ring), UNCHANGED cpu
    PROVE  OneBusy'
  <1>t. /\ ring \in Seq(Slot(O, R)) /\ DOMAIN ring = 1..Len(ring) /\ Len(ring) \in Nat /\ Len(ring) > 0
        /\ Head(ring) = ring[1]
    BY DEF RingOK
  <1>1. /\ DOMAIN ring' = 1..(Len(ring) - 1)
        /\ \A i \in 1..(Len(ring) - 1) : ring'[i] = ring[i + 1]
    BY <1>t
  <1>2. \A i \in DOMAIN ring' : i \in Nat /\ i + 1 \in DOMAIN ring /\ ring'[i] = ring[i + 1]
    BY <1>t, <1>1
  <1>3. \A i \in DOMAIN ring : ring[i].st = "busy" =>
           i - 1 \in DOMAIN ring' /\ ring'[i - 1] = ring[i]
    <2> TAKE i \in DOMAIN ring
    <2> HAVE ring[i].st = "busy"
    <2>1. i # 1
      BY <1>t
    <2>2. i - 1 \in 1..(Len(ring) - 1) /\ (i - 1) + 1 = i
      BY <1>t, <2>1
    <2> QED BY <1>1, <2>2
  <1>4. \A x \in Cpus : cpu'[x].pc = "filling"
           => \E i \in DOMAIN ring' : ring'[i].st = "busy" /\ ring'[i].owner = x
    <2> TAKE x \in Cpus
    <2> HAVE cpu'[x].pc = "filling"
    <2>1. PICK i \in DOMAIN ring : ring[i].st = "busy" /\ ring[i].owner = x
      BY DEF OneBusy
    <2> QED BY <1>3, <2>1
  <1>5. \A i \in DOMAIN ring' : ring'[i].st = "busy" => cpu'[ring'[i].owner].pc = "filling"
    BY <1>2 DEF OneBusy
  <1>6. ASSUME NEW i \in DOMAIN ring', NEW j \in DOMAIN ring', ring'[i].st = "busy", ring'[j].st = "busy",
               ring'[i].owner = ring'[j].owner
        PROVE  i = j
    <2>1. i + 1 = j + 1
      BY <1>2, <1>6 DEF OneBusy
    <2> QED BY <1>2, <2>1
  <1> QED BY <1>4, <1>5, <1>6 DEF OneBusy

LEMMA OneBusySame ==
    ASSUME OneBusy, NEW R, RingOK(Cpus, R), UNCHANGED ring, NEW c \in Cpus, cpu[c].pc = "counting",
           RunIs(c, "idle")
    PROVE  OneBusy'
  <1>t. \A i \in DOMAIN ring : ring[i].owner \in Cpus
    BY SlotOf
  <1>1. \A x \in Cpus : cpu'[x].pc = "filling" <=> cpu[x].pc = "filling"
    BY DEF RunIs
  <1> QED BY <1>t, <1>1 DEF OneBusy

LEMMA OneBusyStep ==
    ASSUME RingOK(Cpus, XDPRecords), CpuOK, OneBusy, XDPNext
    PROVE  OneBusy'
  <1>1. CASE UNCHANGED <<ring, cpu>>
    BY <1>1 DEF OneBusy
  <1>2. CASE (ReadSkips \/ Read) /\ UNCHANGED cpu
    <2>1. ring # <<>> /\ Head(ring).st # "busy" /\ ring' = Tail(ring)
      BY <1>2 DEF ReadSkips, Read, Readable
    <2> QED BY <1>2, <2>1, OneBusyTail
  <1>3. ASSUME NEW c \in Cpus, NEW f, XDPReserve(c, f) PROVE OneBusy'
    <2>1. cpu[c].pc = "idle" /\ bpf_ringbuf_reserve(c) /\ RunIs(c, "filling")
      BY <1>3, RunsStep DEF XDPReserve, Arrives
    <2> QED BY <2>1, OneBusyReserve
  <1>4. ASSUME NEW c \in Cpus, XDPSubmit(c) PROVE OneBusy'
    <2>1. cpu[c].pc = "filling" /\ (\E rec : Settle(c, "ready", rec)) /\ RunIs(c, "counting")
      BY <1>4, RunsStep DEF XDPSubmit, bpf_ringbuf_submit
    <2> QED BY <2>1, OneBusySettle
  <1>5. ASSUME NEW c \in Cpus, XDPDiscard(c) PROVE OneBusy'
    <2>1. cpu[c].pc = "filling" /\ Settle(c, "discarded", None) /\ RunIs(c, "idle")
      BY <1>5, RunsStep DEF XDPDiscard, bpf_ringbuf_discard
    <2> QED BY <2>1, OneBusySettle
  <1>6. ASSUME NEW c \in Cpus, XDPCount(c) PROVE OneBusy'
    <2>1. cpu[c].pc = "counting" /\ UNCHANGED ring /\ RunIs(c, "idle")
      BY <1>6, RunsStep DEF XDPCount
    <2> QED BY <2>1, OneBusySame
  <1>7. CASE XDPCommon
    BY <1>1, <1>2, <1>7
    DEF XDPCommon, xdp, CommonStep, LoadObjects, OpenReader, OpenFails, LoopReturns, CloseReader,
        CloseWaits, CloseDetaches, CloseFrees
  <1>8. CASE XDPOpenSetPort \/ XDPOpenAttach \/ XDPSend \/ XDPReceive
    BY <1>1, <1>8 DEF XDPOpenSetPort, XDPOpenAttach, XDPSend, Send, XDPReceive, source, xdp
  <1>9. CASE XDPProgram
    BY <1>1, <1>3, <1>4, <1>5, <1>6, <1>9 DEF XDPProgram, XDPPass, XDPDrop
  <1> QED BY <1>7, <1>8, <1>9, XDPSteps

LEMMA PortFirstStep == ASSUME links \subseteq {"xdp"}, PortFirst, XDPNext PROVE PortFirst'
  <1>1. CASE UNCHANGED cfg_port /\ links' \subseteq links
    BY <1>1 DEF PortFirst
  <1>2. CASE XDPOpenSetPort
    BY <1>2 DEF XDPOpenSetPort, PortFirst
  <1>3. CASE XDPOpenAttach
    BY <1>3 DEF XDPOpenAttach, PortFirst, xdp
  <1>4. CASE XDPCommon
    <2>1. links' \subseteq links
      BY <1>4
      DEF XDPCommon, CommonStep, LoadObjects, OpenReader, OpenFails, ReadSkips, Read, LoopReturns,
          CloseReader, CloseWaits, CloseDetaches, CloseFrees
    <2> QED BY <1>1, <1>4, <2>1 DEF XDPCommon, xdp
  <1>5. CASE XDPProgram \/ XDPSend \/ XDPReceive
    BY <1>1, <1>5
    DEF XDPProgram, XDPPass, XDPDrop, XDPReserve, Arrives, XDPSubmit, XDPDiscard, XDPCount, XDPSend, Send,
        XDPReceive, xdp
  <1> QED BY <1>2, <1>3, <1>4, <1>5, XDPSteps

-----------------------------------------------------------------------------
\* How the numbers of live and ready records, of the record at hand, of packets
\* and of counting CPUs change.
Moves(live, ready, hand, pkts, counting) ==
  /\ Cardinality(InState(ring, Live))' = Cardinality(InState(ring, Live)) + live
  /\ Cardinality(InState(ring, Ready))' = Cardinality(InState(ring, Ready)) + ready
  /\ AtHand(held)' = AtHand(held) + hand
  /\ Len(packets)' = Len(packets) + pkts
  /\ Cardinality(Counting)' = Cardinality(Counting) + counting

Tallied == FramesTallied /\ PacketsTallied /\ RecordsTallied

Numbers == /\ Cardinality(InState(ring, Live)) \in Nat /\ Cardinality(InState(ring, Ready)) \in Nat
           /\ AtHand(held) \in Nat /\ Len(packets) \in Nat /\ Cardinality(Counting) \in Nat
           /\ IsFiniteSet(Counting)
           /\ taken \in Nat /\ dropped \in Nat /\ received \in Nat /\ discards \in Nat /\ mirrorable \in Nat
           /\ kstats = [received |-> kstats.received, dropped |-> kstats.dropped]
           /\ kstats.received \in Nat /\ kstats.dropped \in Nat

XDPTypes == /\ RingOK(Cpus, XDPRecords) /\ ChanOK(XDPPackets) /\ HeldOK(XDPRecords) /\ CountsOK
            /\ CpuOK /\ XDPCountsOK

LEMMA NumbersOK == ASSUME XDPTypes PROVE Numbers
  <1>1. ring \in Seq(Slot(Cpus, XDPRecords)) /\ packets \in Seq(XDPPackets)
    BY DEF XDPTypes, RingOK, ChanOK
  <1>2. Cardinality(InState(ring, Live)) \in Nat /\ Cardinality(InState(ring, Ready)) \in Nat
    BY <1>1, InStateFinite
  <1>3. AtHand(held) \in Nat /\ Len(packets) \in Nat
    BY <1>1 DEF AtHand
  <1>4. IsFiniteSet(Counting) /\ Cardinality(Counting) \in Nat
    <2>1. Counting \subseteq Cpus /\ IsFiniteSet(Cpus)
      BY XDPAssumption DEF Counting
    <2> QED BY <2>1, FS_Subset, FS_CardinalityType
  <1>5. /\ taken \in Nat /\ dropped \in Nat /\ received \in Nat /\ discards \in Nat /\ mirrorable \in Nat
        /\ kstats = [received |-> kstats.received, dropped |-> kstats.dropped]
        /\ kstats.received \in Nat /\ kstats.dropped \in Nat
    BY DEF XDPTypes, CountsOK, XDPCountsOK
  <1> QED BY <1>2, <1>3, <1>4, <1>5 DEF Numbers

\* The parts of Moves, for each way the ring, the CPUs and the rest change.
LEMMA SameCounting == ASSUME UNCHANGED cpu PROVE Counting' = Counting
  BY DEF Counting

LEMMA TailMoves ==
    ASSUME XDPTypes, ring # <<>>, ring' = Tail(ring)
    PROVE  /\ Head(ring).st = "discarded" =>
                /\ Cardinality(InState(ring', Live)) = Cardinality(InState(ring, Live))
                /\ Cardinality(InState(ring', Ready)) = Cardinality(InState(ring, Ready))
           /\ Head(ring).st = "ready" =>
                /\ Cardinality(InState(ring', Live)) = Cardinality(InState(ring, Live)) - 1
                /\ Cardinality(InState(ring', Ready)) = Cardinality(InState(ring, Ready)) - 1
  <1>1. ring \in Seq(Slot(Cpus, XDPRecords)) /\ ring' \in Seq(Slot(Cpus, XDPRecords))
    BY DEF XDPTypes, RingOK
  <1>2. /\ Cardinality(InState(ring, Live))
             = Cardinality(InState(ring', Live)) + (IF Head(ring).st \in Live THEN 1 ELSE 0)
        /\ Cardinality(InState(ring, Ready))
             = Cardinality(InState(ring', Ready)) + (IF Head(ring).st \in Ready THEN 1 ELSE 0)
    BY <1>1, InStateTail
  <1>3. Cardinality(InState(ring', Live)) \in Nat /\ Cardinality(InState(ring', Ready)) \in Nat
    BY <1>1, InStateFinite
  <1> DEFINE st == Head(ring).st
             l == Cardinality(InState(ring, Live))    m == Cardinality(InState(ring', Live))
             r == Cardinality(InState(ring, Ready))   q == Cardinality(InState(ring', Ready))
  <1>4. l = m + (IF st \in Live THEN 1 ELSE 0) /\ r = q + (IF st \in Ready THEN 1 ELSE 0)
    BY <1>2
  <1>5. m \in Nat /\ q \in Nat
    BY <1>3
  <1> HIDE DEF st, l, m, r, q
  <1>6. st = "discarded" => m = l /\ q = r
    BY <1>4, <1>5 DEF Live, Ready
  <1>7. st = "ready" => m = l - 1 /\ q = r - 1
    BY <1>4, <1>5 DEF Live, Ready
  <1> QED BY <1>6, <1>7 DEF st, l, m, r, q

LEMMA ReserveMoves ==
    ASSUME XDPTypes, NEW c \in Cpus, bpf_ringbuf_reserve(c)
    PROVE  /\ Cardinality(InState(ring', Live)) = Cardinality(InState(ring, Live)) + 1
           /\ Cardinality(InState(ring', Ready)) = Cardinality(InState(ring, Ready))
  <1> DEFINE e == [owner |-> c, st |-> "busy", rec |-> None]
  <1>1. ring \in Seq(Slot(Cpus, XDPRecords)) /\ e \in Slot(Cpus, XDPRecords) /\ e.st = "busy"
    BY DEF XDPTypes, RingOK, Slot
  <1>2. ring' = Append(ring, e)
    BY DEF bpf_ringbuf_reserve
  <1> HIDE DEF e
  <1>3. /\ Cardinality(InState(ring', Live))
             = Cardinality(InState(ring, Live)) + (IF e.st \in Live THEN 1 ELSE 0)
        /\ Cardinality(InState(ring', Ready))
             = Cardinality(InState(ring, Ready)) + (IF e.st \in Ready THEN 1 ELSE 0)
    BY <1>1, <1>2, InStateAppend
  <1>4. Cardinality(InState(ring, Live)) \in Nat /\ Cardinality(InState(ring, Ready)) \in Nat
    BY <1>1, InStateFinite
  <1> QED BY <1>1, <1>3, <1>4 DEF Live, Ready

LEMMA SettleMoves ==
    ASSUME XDPTypes, OneBusy, NEW c \in Cpus, cpu[c].pc = "filling", NEW st, NEW rec, Settle(c, st, rec)
    PROVE  /\ st = "ready" =>
                /\ Cardinality(InState(ring', Live)) = Cardinality(InState(ring, Live))
                /\ Cardinality(InState(ring', Ready)) = Cardinality(InState(ring, Ready)) + 1
           /\ st = "discarded" =>
                /\ Cardinality(InState(ring', Live)) = Cardinality(InState(ring, Live)) - 1
                /\ Cardinality(InState(ring', Ready)) = Cardinality(InState(ring, Ready))
  <1> DEFINE e == [owner |-> c, st |-> st, rec |-> rec]
  <1>1. ring \in Seq(Slot(Cpus, XDPRecords)) /\ e.st = st
    BY DEF XDPTypes, RingOK
  <1>2. PICK k \in DOMAIN ring : /\ ring[k].st = "busy"
                                 /\ ring' = [i \in DOMAIN ring |-> IF i = k THEN e ELSE ring[i]]
    BY SettleAt
  <1> HIDE DEF e
  <1>3. ASSUME NEW S
        PROVE  /\ ring[k].st \in S /\ e.st \in S => Cardinality(InState(ring', S)) = Cardinality(InState(ring, S))
               /\ ring[k].st \notin S /\ e.st \notin S => Cardinality(InState(ring', S)) = Cardinality(InState(ring, S))
               /\ ring[k].st \notin S /\ e.st \in S => Cardinality(InState(ring', S)) = Cardinality(InState(ring, S)) + 1
               /\ ring[k].st \in S /\ e.st \notin S => Cardinality(InState(ring', S)) = Cardinality(InState(ring, S)) - 1
    BY ONLY <1>1, <1>2, InStateReplace
  <1> QED BY <1>1, <1>2, <1>3 DEF Live, Ready

LEMMA CountingMoves ==
    ASSUME Numbers, NEW c \in Cpus
    PROVE  /\ cpu[c].pc # "counting" /\ RunIs(c, "counting") => Cardinality(Counting') = Cardinality(Counting) + 1
           /\ cpu[c].pc = "counting" /\ RunIs(c, "idle") => Cardinality(Counting') = Cardinality(Counting) - 1
           /\ cpu[c].pc # "counting" /\ (RunIs(c, "idle") \/ RunIs(c, "filling"))
                => Cardinality(Counting') = Cardinality(Counting)
  <1>f. IsFiniteSet(Counting) /\ Cardinality(Counting) \in Nat
    BY DEF Numbers
  <1>1. ASSUME cpu[c].pc # "counting", RunIs(c, "counting")
        PROVE  Cardinality(Counting') = Cardinality(Counting) + 1
    <2>1. Counting' = Counting \union {c} /\ c \notin Counting
      BY <1>1 DEF Counting, RunIs
    <2> QED BY <1>f, <2>1, FS_AddElement
  <1>2. ASSUME cpu[c].pc = "counting", RunIs(c, "idle")
        PROVE  Cardinality(Counting') = Cardinality(Counting) - 1
    <2>1. Counting' = Counting \ {c} /\ c \in Counting
      BY <1>2 DEF Counting, RunIs
    <2> QED BY <1>f, <2>1, FS_RemoveElement
  <1>3. ASSUME cpu[c].pc # "counting", RunIs(c, "idle") \/ RunIs(c, "filling")
        PROVE  Counting' = Counting
    BY <1>3 DEF Counting, RunIs
  <1> QED BY <1>1, <1>2, <1>3

-----------------------------------------------------------------------------
\* The tallies hold after a step whose changes balance.
Counts(m, t, d, x, v, kd, kr) ==
  /\ mirrorable' = mirrorable + m
  /\ taken' = taken + t
  /\ dropped' = dropped + d
  /\ discards' = discards + x
  /\ received' = received + v
  /\ kstats'.dropped = kstats.dropped + kd
  /\ kstats'.received = kstats.received + kr

LEMMA Balance ==
    ASSUME Numbers, Tallied,
           NEW l \in Int, NEW r \in Int, NEW h \in Int, NEW p \in Int, NEW c \in Int, Moves(l, r, h, p, c),
           NEW m \in Int, NEW t \in Int, NEW d \in Int, NEW x \in Int, NEW v \in Int, NEW kd \in Int, NEW kr \in Int,
           Counts(m, t, d, x, v, kd, kr),
           m = l + h + p + t + d + kd + x, v = t + p + d, kr + c = r + h + v
    PROVE  Tallied'
  <1> DEFINE L == Cardinality(InState(ring, Live))
             R == Cardinality(InState(ring, Ready))
             H == AtHand(held)
             P == Len(packets)
             C == Cardinality(Counting)
             K == kstats.received
             D == kstats.dropped
  <1>1. /\ L \in Nat /\ R \in Nat /\ H \in Nat /\ P \in Nat /\ C \in Nat /\ K \in Nat /\ D \in Nat
        /\ taken \in Nat /\ dropped \in Nat /\ received \in Nat /\ discards \in Nat /\ mirrorable \in Nat
    BY DEF Numbers
  <1>2. /\ mirrorable = L + H + P + taken + dropped + D + discards
        /\ received = taken + P + dropped
        /\ K + C = R + H + received
    BY DEF Tallied, FramesTallied, PacketsTallied, RecordsTallied
  <1>3. L' = L + l /\ R' = R + r /\ H' = H + h /\ P' = P + p /\ C' = C + c /\ K' = K + kr /\ D' = D + kd
    BY DEF Moves, Counts
  <1>4. /\ mirrorable' = mirrorable + m /\ taken' = taken + t /\ dropped' = dropped + d
        /\ discards' = discards + x /\ received' = received + v
    BY DEF Counts
  <1> HIDE DEF L, R, H, P, C, K, D
  <1>5. /\ mirrorable' = L' + H' + P' + taken' + dropped' + D' + discards'
        /\ received' = taken' + P' + dropped'
        /\ K' + C' = R' + H' + received'
    BY <1>1, <1>2, <1>3, <1>4
  <1> QED BY <1>5 DEF L, R, H, P, C, K, D, Tallied, FramesTallied, PacketsTallied, RecordsTallied

LEMMA SameTallies ==
    ASSUME Numbers, Tallied,
           UNCHANGED <<ring, held, packets, cpu, mirrorable, taken, dropped, discards, received, kstats>>
    PROVE  Tallied'
  BY DEF Tallied, FramesTallied, PacketsTallied, RecordsTallied, InState, AtHand, Counting

\* The steps of readLoop and of the producer.
LEMMA ReadTallies ==
    ASSUME XDPTypes, Numbers, Tallied, ReadSkips \/ Read, UNCHANGED xdp
    PROVE  Tallied'
  <1>1. UNCHANGED <<packets, cpu, mirrorable, taken, dropped, discards, received, kstats>>
    BY DEF ReadSkips, Read, xdp
  <1>2. ring # <<>> /\ ring' = Tail(ring)
    BY DEF ReadSkips, Read, Readable
  <1>3. Counting' = Counting
    BY <1>1, SameCounting
  <1>n. /\ Cardinality(InState(ring, Live)) \in Nat /\ Cardinality(InState(ring, Ready)) \in Nat
        /\ AtHand(held) \in Nat /\ Len(packets) \in Nat /\ Cardinality(Counting) \in Nat
        /\ taken \in Nat /\ dropped \in Nat /\ received \in Nat /\ discards \in Nat /\ mirrorable \in Nat
        /\ kstats.received \in Nat /\ kstats.dropped \in Nat
    BY DEF Numbers
  <1>4. CASE ReadSkips
    <2>1. AtHand(held)' = AtHand(held)
      BY <1>4 DEF ReadSkips, AtHand
    <2>2. /\ Cardinality(InState(ring', Live)) = Cardinality(InState(ring, Live))
          /\ Cardinality(InState(ring', Ready)) = Cardinality(InState(ring, Ready))
      BY <1>2, <1>4, TailMoves DEF ReadSkips
    <2>3. Moves(0, 0, 0, 0, 0)
      BY <1>1, <1>3, <1>n, <2>1, <2>2 DEF Moves
    <2>3c. Counts(0, 0, 0, 0, 0, 0, 0)
      BY <1>1, <1>n DEF Counts
    <2> QED BY ONLY <2>3, <2>3c, Numbers, Tallied, Balance
  <1>5. CASE Read
    <2>1. held = None /\ held' \in XDPRecords
      <3>1. 1 \in DOMAIN ring /\ Head(ring) = ring[1]
        BY <1>2 DEF XDPTypes, RingOK
      <3>2. loop = "reading" /\ held' = Head(ring).rec /\ Head(ring).st = "ready"
        BY <1>5 DEF Read, Readable
      <3> QED BY <3>1, <3>2 DEF XDPTypes, RingOK, HeldOK
    <2>2. AtHand(held)' = AtHand(held) + 1
      BY <2>1, XDPNoneAssumption DEF AtHand
    <2>3. /\ Cardinality(InState(ring', Live)) = Cardinality(InState(ring, Live)) - 1
          /\ Cardinality(InState(ring', Ready)) = Cardinality(InState(ring, Ready)) - 1
      BY <1>2, <1>5, TailMoves DEF Read
    <2>4. Moves(-1, -1, 1, 0, 0)
      BY <1>1, <1>3, <1>n, <2>2, <2>3 DEF Moves
    <2>4c. Counts(0, 0, 0, 0, 0, 0, 0)
      BY <1>1, <1>n DEF Counts
    <2> QED BY ONLY <2>4, <2>4c, Numbers, Tallied, Balance
  <1> QED BY <1>4, <1>5

LEMMA SendTallies ==
    ASSUME XDPTypes, Numbers, Tallied, XDPSend \/ XDPReceive
    PROVE  Tallied'
  <1>n. /\ Cardinality(InState(ring, Live)) \in Nat /\ Cardinality(InState(ring, Ready)) \in Nat
        /\ AtHand(held) \in Nat /\ Len(packets) \in Nat /\ Cardinality(Counting) \in Nat
        /\ taken \in Nat /\ dropped \in Nat /\ received \in Nat /\ discards \in Nat /\ mirrorable \in Nat
        /\ kstats.received \in Nat /\ kstats.dropped \in Nat
    BY DEF Numbers
  <1>1. UNCHANGED <<ring, cpu, mirrorable, discards, kstats>>
    BY DEF XDPSend, Send, XDPReceive, xdp
  <1>2. Counting' = Counting
    BY <1>1, SameCounting
  <1>3. CASE XDPSend
    <2>1. PICK pkt : Send(pkt)
      BY <1>3 DEF XDPSend
    <2>2. received' = received + 1 /\ UNCHANGED taken
      BY <1>3, <2>1 DEF XDPSend, Send, xdp
    <2>3. AtHand(held)' = AtHand(held) + (-1)
      <3>1. held # None /\ held' = None
        BY <2>1 DEF Send, XDPTypes, HeldOK
      <3> QED BY <3>1 DEF AtHand
    <2>4. CASE packets' = Append(packets, pkt) /\ UNCHANGED dropped
      <3>1. Len(packets') = Len(packets) + 1
        BY <2>4 DEF XDPTypes, ChanOK
      <3>2. Moves(0, 0, -1, 1, 0)
        BY <1>1, <1>2, <1>n, <2>3, <3>1 DEF Moves
      <3>2c. Counts(0, 0, 0, 0, 1, 0, 0)
        BY <1>1, <1>n, <2>2, <2>4 DEF Counts
      <3> QED BY ONLY <3>2, <3>2c, Numbers, Tallied, Balance
    <2>5. CASE dropped' = dropped + 1 /\ UNCHANGED packets
      <3>2. Moves(0, 0, -1, 0, 0)
        BY <1>1, <1>2, <1>n, <2>3, <2>5 DEF Moves
      <3>2c. Counts(0, 0, 1, 0, 1, 0, 0)
        BY <1>1, <1>n, <2>2, <2>5 DEF Counts
      <3> QED BY ONLY <3>2, <3>2c, Numbers, Tallied, Balance
    <2> QED BY <2>1, <2>4, <2>5 DEF Send
  <1>4. CASE XDPReceive
    <2>1. packets # <<>> /\ packets' = Tail(packets) /\ taken' = taken + 1 /\ UNCHANGED <<held, received, dropped>>
      BY <1>4 DEF XDPReceive
    <2>2. Len(packets') = Len(packets) + (-1)
      BY <2>1 DEF XDPTypes, ChanOK
    <2>3. Moves(0, 0, 0, -1, 0)
      BY <1>1, <1>2, <1>n, <2>1, <2>2 DEF Moves, AtHand
    <2>3c. Counts(0, 1, 0, 0, 0, 0, 0)
      BY <1>1, <1>n, <2>1 DEF Counts
    <2> QED BY ONLY <2>3, <2>3c, Numbers, Tallied, Balance
  <1> QED BY <1>3, <1>4

\* The steps of the program.
LEMMA ProgramTallies ==
    ASSUME XDPTypes, OneBusy, PortFirst, Numbers, Tallied, XDPProgram
    PROVE  Tallied'
  <1>n. /\ Cardinality(InState(ring, Live)) \in Nat /\ Cardinality(InState(ring, Ready)) \in Nat
        /\ AtHand(held) \in Nat /\ Len(packets) \in Nat /\ Cardinality(Counting) \in Nat
        /\ taken \in Nat /\ dropped \in Nat /\ received \in Nat /\ discards \in Nat /\ mirrorable \in Nat
        /\ kstats.received \in Nat /\ kstats.dropped \in Nat
    BY DEF Numbers
  <1>k. kstats = [received |-> kstats.received, dropped |-> kstats.dropped]
    BY DEF Numbers
  <1>u. UNCHANGED <<held, packets, taken, dropped, received>>
    BY DEF XDPProgram, XDPPass, XDPDrop, XDPReserve, Arrives, XDPSubmit, XDPDiscard, XDPCount
  <1>h. AtHand(held)' = AtHand(held) /\ Len(packets)' = Len(packets)
    BY <1>u DEF AtHand
  <1>c. CpuOK
    BY DEF XDPTypes
  <1>a. ASSUME NEW c \in Cpus, NEW f \in Frames, Arrives(c, f)
        PROVE  /\ Matches(f) => mirrorable' = mirrorable + 1
               /\ ~Matches(f) => mirrorable' = mirrorable
               /\ UNCHANGED discards
    <2>1. cfg_port = hostToNet16(Port)
      BY <1>a DEF Arrives, PortFirst
    <2>2. Matches(f) <=> f.postgres
      BY <2>1, MatchesPostgres
    <2> QED BY <1>a, <2>2 DEF Arrives
  <1>1. ASSUME NEW c \in Cpus, NEW f \in Frames, XDPPass(c, f) PROVE Tallied'
    BY <1>1, <1>a, <1>u, SameTallies DEF XDPPass
  <1>2. ASSUME NEW c \in Cpus, NEW f \in Frames, XDPDrop(c, f) PROVE Tallied'
    <2>1. /\ mirrorable' = mirrorable + 1 /\ UNCHANGED <<discards, ring, cpu>>
          /\ kstats'.dropped = kstats.dropped + 1 /\ kstats'.received = kstats.received
      BY <1>2, <1>a, <1>k DEF XDPDrop, CountDropped
    <2>2. Counting' = Counting
      BY <2>1, SameCounting
    <2>3. Moves(0, 0, 0, 0, 0)
      BY <1>h, <1>n, <2>1, <2>2 DEF Moves
    <2>4. Counts(1, 0, 0, 0, 0, 1, 0)
      BY <1>n, <1>u, <2>1 DEF Counts
    <2> QED BY ONLY <2>3, <2>4, Numbers, Tallied, Balance
  <1>3. ASSUME NEW c \in Cpus, NEW f \in Frames, XDPReserve(c, f) PROVE Tallied'
    <2>1. mirrorable' = mirrorable + 1 /\ UNCHANGED <<discards, kstats>> /\ bpf_ringbuf_reserve(c)
      BY <1>3, <1>a DEF XDPReserve
    <2>2. RunIs(c, "filling") /\ cpu[c].pc # "counting"
      BY <1>3, <1>c, RunsStep DEF XDPReserve, Arrives
    <2>3. Cardinality(Counting') = Cardinality(Counting)
      BY ONLY <2>2, Numbers, CountingMoves, c \in Cpus
    <2>4. /\ Cardinality(InState(ring', Live)) = Cardinality(InState(ring, Live)) + 1
          /\ Cardinality(InState(ring', Ready)) = Cardinality(InState(ring, Ready))
      BY ONLY <2>1, XDPTypes, ReserveMoves, c \in Cpus
    <2>5. Moves(1, 0, 0, 0, 0)
      BY <1>h, <1>n, <2>3, <2>4 DEF Moves
    <2>6. Counts(1, 0, 0, 0, 0, 0, 0)
      BY <1>n, <1>u, <2>1 DEF Counts
    <2> QED BY ONLY <2>5, <2>6, Numbers, Tallied, Balance
  <1>4. ASSUME NEW c \in Cpus, XDPSubmit(c) PROVE Tallied'
    <2>1. UNCHANGED <<mirrorable, discards, kstats>> /\ cpu[c].pc = "filling" /\ \E rec : Settle(c, "ready", rec)
      BY <1>4 DEF XDPSubmit, bpf_ringbuf_submit
    <2>2. RunIs(c, "counting") /\ cpu[c].pc # "counting"
      BY <1>4, <1>c, <2>1, RunsStep
    <2>3. Cardinality(Counting') = Cardinality(Counting) + 1
      BY ONLY <2>2, Numbers, CountingMoves, c \in Cpus
    <2>4. /\ Cardinality(InState(ring', Live)) = Cardinality(InState(ring, Live))
          /\ Cardinality(InState(ring', Ready)) = Cardinality(InState(ring, Ready)) + 1
      BY ONLY <2>1, XDPTypes, OneBusy, SettleMoves, c \in Cpus
    <2>5. Moves(0, 1, 0, 0, 1)
      BY <1>h, <1>n, <2>3, <2>4 DEF Moves
    <2>6. Counts(0, 0, 0, 0, 0, 0, 0)
      BY <1>n, <1>u, <2>1, SMTT(30) DEF Counts
    <2> QED BY ONLY <2>5, <2>6, Numbers, Tallied, Balance
  <1>5. ASSUME NEW c \in Cpus, XDPDiscard(c) PROVE Tallied'
    <2>1. /\ UNCHANGED <<mirrorable, kstats>> /\ discards' = discards + 1
          /\ cpu[c].pc = "filling" /\ Settle(c, "discarded", None)
      BY <1>5 DEF XDPDiscard, bpf_ringbuf_discard
    <2>2. RunIs(c, "idle") /\ cpu[c].pc # "counting"
      BY <1>5, <1>c, <2>1, RunsStep
    <2>3. Cardinality(Counting') = Cardinality(Counting)
      BY ONLY <2>2, Numbers, CountingMoves, c \in Cpus
    <2>4. /\ Cardinality(InState(ring', Live)) = Cardinality(InState(ring, Live)) - 1
          /\ Cardinality(InState(ring', Ready)) = Cardinality(InState(ring, Ready))
      BY ONLY <2>1, XDPTypes, OneBusy, SettleMoves, c \in Cpus
    <2>5. Moves(-1, 0, 0, 0, 0)
      BY <1>h, <1>n, <2>3, <2>4 DEF Moves
    <2>6. Counts(0, 0, 0, 1, 0, 0, 0)
      BY <1>n, <1>u, <2>1, SMTT(30) DEF Counts
    <2> QED BY ONLY <2>5, <2>6, Numbers, Tallied, Balance
  <1>6. ASSUME NEW c \in Cpus, XDPCount(c) PROVE Tallied'
    <2>1. /\ UNCHANGED <<mirrorable, discards, ring>> /\ cpu[c].pc = "counting"
          /\ kstats'.received = kstats.received + 1 /\ kstats'.dropped = kstats.dropped
      BY <1>6, <1>k DEF XDPCount, CountReceived
    <2>2. RunIs(c, "idle")
      BY <1>6, <1>c, RunsStep
    <2>3. Cardinality(Counting') = Cardinality(Counting) - 1
      BY ONLY <2>1, <2>2, Numbers, CountingMoves, c \in Cpus
    <2>4. Moves(0, 0, 0, 0, -1)
      BY <1>h, <1>n, <2>1, <2>3 DEF Moves
    <2>5. Counts(0, 0, 0, 0, 0, 0, 1)
      BY <1>n, <1>u, <2>1 DEF Counts
    <2> QED BY ONLY <2>4, <2>5, Numbers, Tallied, Balance
  <1> QED BY <1>1, <1>2, <1>3, <1>4, <1>5, <1>6 DEF XDPProgram

LEMMA TallyStep ==
    ASSUME XDPTypes, OneBusy, PortFirst, Tallied, XDPNext
    PROVE  Tallied'
  <1>n. Numbers
    BY NumbersOK
  <1>1. CASE XDPCommon
    <2>1. CASE ReadSkips \/ Read
      BY <1>n, <1>1, <2>1, ReadTallies DEF XDPCommon
    <2>2. CASE UNCHANGED <<ring, held, packets, dropped, received, kstats>>
      BY <1>n, <1>1, <2>2, SameTallies DEF XDPCommon, xdp
    <2> QED
      BY <1>1, <2>1, <2>2
      DEF XDPCommon, CommonStep, LoadObjects, OpenReader, OpenFails, LoopReturns, CloseReader, CloseWaits,
          CloseDetaches, CloseFrees
  <1>2. CASE XDPOpenSetPort \/ XDPOpenAttach
    BY <1>n, <1>2, SameTallies DEF XDPOpenSetPort, XDPOpenAttach, source, xdp
  <1>3. CASE XDPProgram
    BY <1>n, <1>3, ProgramTallies
  <1>4. CASE XDPSend \/ XDPReceive
    BY <1>n, <1>4, SendTallies
  <1> QED BY <1>1, <1>2, <1>3, <1>4, XDPSteps

-----------------------------------------------------------------------------
(***************************************************************************)
(* The invariant.                                                          *)
(***************************************************************************)
LEMMA SourceTypeInit ==
    ASSUME NEW P, NEW O, NEW R, NEW K, SourceInit
    PROVE  SourceTypeOK(P, O, R, K)
  <1>1. RingOK(O, R) /\ ChanOK(K)
    <2>1. ring = <<>> /\ packets = <<>>
      BY DEF SourceInit
    <2>2. Len(ring) <= RingCap /\ Len(packets) <= ChanCap
      BY <2>1, SourceAssumption
    <2>3. ring \in Seq(Slot(O, R)) /\ packets \in Seq(K)
      BY <2>1
    <2> QED BY <2>1, <2>2, <2>3 DEF RingOK, ChanOK
  <1>2. HeldOK(R)
    BY DEF SourceInit, HeldOK
  <1>3. FlagsOK(P)
    BY DEF SourceInit, FlagsOK
  <1>4. CountsOK
    BY DEF SourceInit, CountsOK
  <1> QED BY <1>1, <1>2, <1>3, <1>4, SourceParts

LEMMA SameSSL == ASSUME SSLTypeOK, UNCHANGED ssl PROVE SSLTypeOK'
  <1>1. UNCHANGED <<thr, argmap, buf_ptr, calls, started, lost, seqNums, seqLastSeen, seqPurgeCounter>>
    BY DEF ssl, seqs
  <1>2. ThrOK' /\ MapOK' /\ BufOK' /\ CallsOK' /\ SeqsOK'
    BY <1>1, SSLParts DEF ThrOK, MapOK, BufOK, CallsOK, SeqsOK
  <1> QED BY <1>2, Zenon DEF SSLTypeOK, ThrOK, MapOK, BufOK, CallsOK, SeqsOK

LEMMA SameSource ==
    ASSUME NEW P, NEW O, NEW R, NEW K, SourceTypeOK(P, O, R, K), UNCHANGED source
    PROVE  SourceTypeOK(P, O, R, K)'
  <1>1. UNCHANGED <<ring, kstats, links, objs, reader, loop, held, packets, received, dropped, closing>>
    BY DEF source
  <1>2. RingOK(O, R)' /\ ChanOK(K)' /\ HeldOK(R)' /\ FlagsOK(P)' /\ CountsOK'
    BY <1>1, SourceParts DEF RingOK, ChanOK, HeldOK, FlagsOK, CountsOK
  <1> QED BY <1>2, Zenon DEF SourceTypeOK, RingOK, ChanOK, HeldOK, FlagsOK, CountsOK, Slot

LEMMA CaptureInvInit == ASSUME Init PROVE CaptureInv
  <1>1. SourceTypeOK({"xdp"}, Cpus, XDPRecords, XDPPackets)
    BY SourceTypeInit DEF Init
  <1>2. SourceTypeOK(Range(Probes), Threads, SSLRecords, SSLPackets)
    BY SourceTypeInit DEF Init
  <1>3. XDPTypeOK
    <2>1. cpu \in [Cpus -> Runs]
      BY RunsFacts DEF Init, XDPInit
    <2>2. cfg_port \in Ports
      BY IsPort DEF Init, XDPInit
    <2>3. arrived \in 0..MaxFrames /\ mirrorable \in Nat /\ discards \in Nat /\ taken \in Nat
      BY XDPAssumption DEF Init, XDPInit
    <2> QED BY <2>1, <2>2, <2>3 DEF XDPTypeOK
  <1>4. SSLTypeOK
    <2> USE DEF Init, SSLInit
    <2>1. ThrOK
      BY PhasesFacts DEF ThrOK
    <2>2. MapOK /\ BufOK
      BY DEF MapOK, BufOK
    <2>3. CallsOK
      BY SSLAssumption DEF CallsOK
    <2>4. SeqsOK
      BY DEF SeqsOK
    <2> QED BY <2>1, <2>2, <2>3, <2>4, SSLParts
  <1>5. TypeOK
    BY <1>1, <1>2, <1>3, <1>4 DEF TypeOK, Init
  <1>6. LoopLast /\ Ordered
    BY DEF Init, SourceInit, LoopLast, Ordered
  <1>7. OneBusy /\ PortFirst
    BY DEF Init, SourceInit, XDPInit, OneBusy, PortFirst, Idle
  <1>8. FramesTallied /\ PacketsTallied /\ RecordsTallied
    <2>1. InState(ring, Live) = {} /\ InState(ring, Ready) = {} /\ Counting = {} /\ AtHand(held) = 0
      BY DEF Init, SourceInit, XDPInit, InState, Counting, Idle, AtHand
    <2>2. Cardinality({}) = 0
      BY FS_EmptySet
    <2>3. Len(packets) = 0 /\ kstats.dropped = 0 /\ kstats.received = 0 /\ received = 0 /\ dropped = 0
      BY DEF Init, SourceInit
    <2>4. taken = 0 /\ mirrorable = 0 /\ discards = 0
      BY DEF Init, XDPInit
    <2> QED BY <2>1, <2>2, <2>3, <2>4 DEF FramesTallied, PacketsTallied, RecordsTallied
  <1> QED BY <1>5, <1>6, <1>7, <1>8 DEF CaptureInv, XDPInv

LEMMA LoopLastSteps == ASSUME TypeOK, LoopLast, Next PROVE LoopLast'
  <1>1. CASE XDPMode /\ XDPNext
    <2>1. HeldOK(XDPRecords)
      BY <1>1, SourceParts DEF TypeOK, XDPMode
    <2>2. CommonStep \/ (\E pkt : Send(pkt)) \/ UNCHANGED <<reader, loop>>
      BY <1>1, XDPSteps
      DEF XDPCommon, XDPOpenSetPort, XDPOpenAttach, XDPProgram, XDPPass, XDPDrop, XDPReserve, Arrives,
          XDPSubmit, XDPDiscard, XDPCount, XDPSend, XDPReceive, source
    <2> QED BY <2>1, <2>2, LoopLastStep
  <1>2. CASE SSLMode /\ SSLNext
    <2>1. HeldOK(SSLRecords)
      BY <1>2, SourceParts DEF TypeOK, SSLMode
    <2>2. CommonStep \/ (\E pkt : Send(pkt)) \/ UNCHANGED <<reader, loop>>
      BY <1>2, SSLSteps, ZenonT(60)
      DEF SSLCommon, SSLOpenAttach, SSLProbe, Enter, EnterUnseen, Begins, Dies, ReturnsNothing,
          ReturnsUnseen, ExitDrop, ExitReserve, Transfers, ExitSubmit, SSLSend, SSLReceive, SSLFlush, source
    <2> QED BY <2>1, <2>2, LoopLastStep
  <1> QED BY <1>1, <1>2 DEF Next

LEMMA TypeStep == ASSUME TypeOK, LoopLast, Next PROVE TypeOK'
  <1>l. LifeStep
    BY LifeSteps
  <1>1. CASE XDPMode /\ XDPNext
    <2>1. /\ SourceTypeOK({"xdp"}, Cpus, XDPRecords, XDPPackets) /\ XDPTypeOK /\ SSLTypeOK
          /\ mode = "ebpf" /\ mode' = mode /\ mode \in Modes /\ UNCHANGED ssl
      BY <1>1 DEF TypeOK, XDPMode
    <2>2. SourceTypeOK({"xdp"}, Cpus, XDPRecords, XDPPackets)'
      BY <1>1, <1>l, <2>1, XDPSourceTypes, SourceTypeStep, XDPNoneAssumption
    <2>3. XDPTypeOK'
      BY <1>1, <2>1, XDPTypeStep
    <2>4. SSLTypeOK'
      BY <2>1, SameSSL
    <2> QED BY <2>1, <2>2, <2>3, <2>4 DEF TypeOK
  <1>2. CASE SSLMode /\ SSLNext
    <2>1. /\ SourceTypeOK(Range(Probes), Threads, SSLRecords, SSLPackets) /\ XDPTypeOK /\ SSLTypeOK
          /\ mode = "ebpf_ssl" /\ mode' = mode /\ mode \in Modes /\ UNCHANGED xdp
      BY <1>2 DEF TypeOK, SSLMode
    <2>2. SourceTypeOK(Range(Probes), Threads, SSLRecords, SSLPackets)'
      BY <1>2, <1>l, <2>1, SSLSourceTypes, SourceTypeStep, SSLNoneAssumption
    <2>3. SSLTypeOK'
      BY <1>2, <2>1, SourceParts, SSLTypeStep
    <2>4. XDPTypeOK'
      BY <2>1 DEF XDPTypeOK, xdp
    <2> QED BY <2>1, <2>2, <2>3, <2>4 DEF TypeOK
  <1> QED BY <1>1, <1>2 DEF Next

LEMMA XDPInvStep == ASSUME TypeOK, XDPInv, XDPMode /\ XDPNext PROVE XDPInv'
  <1>1. SourceTypeOK({"xdp"}, Cpus, XDPRecords, XDPPackets) /\ XDPTypeOK
    BY DEF TypeOK, XDPMode
  <1>2. XDPTypes /\ links \subseteq {"xdp"}
    <2>1. RingOK(Cpus, XDPRecords) /\ ChanOK(XDPPackets) /\ HeldOK(XDPRecords) /\ FlagsOK({"xdp"}) /\ CountsOK
      BY <1>1, SourceParts
    <2>2. CpuOK /\ XDPCountsOK
      BY <1>1 DEF XDPTypeOK, CpuOK, XDPCountsOK
    <2> QED BY <2>1, <2>2 DEF XDPTypes, FlagsOK
  <1>3. OneBusy' /\ PortFirst'
    BY <1>2, OneBusyStep, PortFirstStep DEF XDPInv, XDPTypes
  <1>4. Tallied'
    BY <1>2, TallyStep DEF XDPInv, Tallied
  <1> QED BY <1>3, <1>4 DEF XDPInv, Tallied

LEMMA SameCapture == ASSUME CaptureInv, UNCHANGED vars PROVE CaptureInv'
  <1>u. UNCHANGED <<mode, source, xdp, ssl>>
    BY DEF vars
  <1>1. TypeOK'
    <2>1. SSLTypeOK' /\ XDPTypeOK'
      BY <1>u, SameSSL DEF CaptureInv, TypeOK, XDPTypeOK, xdp
    <2>2. /\ mode' = "ebpf" => SourceTypeOK({"xdp"}, Cpus, XDPRecords, XDPPackets)'
          /\ mode' = "ebpf_ssl" => SourceTypeOK(Range(Probes), Threads, SSLRecords, SSLPackets)'
      BY <1>u, SameSource DEF CaptureInv, TypeOK
    <2> QED BY <1>u, <2>1, <2>2 DEF CaptureInv, TypeOK
  <1>2. LoopLast' /\ Ordered'
    BY <1>u DEF CaptureInv, LoopLast, Ordered, source
  <1>3. XDPInv => XDPInv'
    BY <1>u DEF source, xdp, XDPInv, OneBusy, PortFirst, FramesTallied, PacketsTallied, RecordsTallied, InState, AtHand, Counting
  <1> QED BY <1>u, <1>1, <1>2, <1>3 DEF CaptureInv

LEMMA CaptureInvStep == ASSUME CaptureInv, [Next]_vars PROVE CaptureInv'
  <1>1. CASE UNCHANGED vars
    BY <1>1, SameCapture
  <1>2. CASE Next
    <2>1. TypeOK' /\ LoopLast'
      BY <1>2, TypeStep, LoopLastSteps DEF CaptureInv
    <2>2. Ordered'
      BY <1>2, LifeSteps, OrderedStep DEF CaptureInv
    <2>3. mode' = "ebpf" => XDPInv'
      BY <1>2, XDPInvStep DEF CaptureInv, Next, XDPMode, SSLMode
    <2> QED BY <2>1, <2>2, <2>3 DEF CaptureInv
  <1> QED BY <1>1, <1>2

THEOREM CaptureInvariant == Spec => []CaptureInv
  BY CaptureInvInit, CaptureInvStep, PTL DEF Spec

\* TypeOK: the state keeps its type, in either mode; in particular the ring and the
\* channel stay within their capacities, and no element of a map is given to two threads.
THEOREM CaptureTypeCorrect == Spec => []TypeOK
  BY CaptureInvariant, PTL DEF CaptureInv

\* NothingLeftAttached: when Close has returned, or the constructor has failed at any of its
\* steps, no probe is attached and the objects are closed.
THEOREM CaptureLeavesNothing == Spec => []NothingLeftAttached
  <1>1. CaptureInv => NothingLeftAttached
    BY DEF CaptureInv, Ordered, NothingLeftAttached
  <1> QED BY <1>1, CaptureInvariant, PTL

LEMMA TalliedIsCounted == ASSUME CaptureInv PROVE FramesCounted
  <1>1. SUFFICES ASSUME mode = "ebpf"
                 PROVE  FramesAccounted /\ ReceivedIsSound
    BY DEF FramesCounted, FramesAccounted, ReceivedIsSound
  <1>2. SourceTypeOK({"xdp"}, Cpus, XDPRecords, XDPPackets) /\ XDPTypeOK
    BY <1>1 DEF CaptureInv, TypeOK
  <1>3. XDPTypes
    BY <1>2, SourceParts DEF XDPTypes, XDPTypeOK, CpuOK, XDPCountsOK
  <1>4. {i \in DOMAIN ring : ring[i].st # "discarded"} = InState(ring, Live)
    <2>1. \A i \in DOMAIN ring : ring[i].st \in {"busy", "ready", "discarded"}
      BY <1>3, SlotOf DEF XDPTypes
    <2> QED BY <2>1 DEF InState, Live
  <1> DEFINE L == Cardinality(InState(ring, Live))
             R == Cardinality(InState(ring, Ready))
             H == AtHand(held)
             P == Len(packets)
             C == Cardinality(Counting)
             K == kstats.received
             D == kstats.dropped
  <1>5. /\ L \in Nat /\ R \in Nat /\ H \in Nat /\ P \in Nat /\ C \in Nat /\ K \in Nat /\ D \in Nat
        /\ taken \in Nat /\ dropped \in Nat /\ received \in Nat /\ discards \in Nat /\ mirrorable \in Nat
    BY <1>3, NumbersOK DEF Numbers
  <1>6. /\ mirrorable = L + H + P + taken + dropped + D + discards
        /\ received = taken + P + dropped
        /\ K + C = R + H + received
    BY <1>1 DEF CaptureInv, XDPInv, FramesTallied, PacketsTallied, RecordsTallied
  <1>7. R <= L
    <2>1. ring \in Seq(Slot(Cpus, XDPRecords))
      BY <1>3 DEF XDPTypes, RingOK
    <2>2. IsFiniteSet(InState(ring, Live)) /\ InState(ring, Ready) \subseteq InState(ring, Live)
      BY <2>1, InStateFinite DEF InState, Live, Ready
    <2> QED BY <2>2, FS_Subset
  <1>8. /\ objs => XDPStats.dropped = dropped + D
        /\ objs => XDPStats.received = IF K > received THEN K ELSE received
        /\ ~objs => XDPStats.dropped = dropped + 0
        /\ ~objs => XDPStats.received = IF 0 > received THEN 0 ELSE received
    BY DEF XDPStats
  <1>9. H = IF held = None THEN 0 ELSE 1
    BY DEF AtHand
  <1> DEFINE sd == XDPStats.dropped
             sr == XDPStats.received
  <1> HIDE DEF L, R, H, P, C, K, D, sd, sr
  <1>10. objs => mirrorable = L + H + P + taken + sd + discards
    BY <1>5, <1>6, <1>8 DEF sd
  <1>11. sr >= taken + P + dropped /\ sr + sd <= mirrorable + dropped
    <2>1. CASE objs
      <3>1. sd = dropped + D /\ (sr = K \/ sr = received) /\ sr >= received
        BY <1>5, <1>8, <2>1 DEF sd, sr
      <3> QED BY <1>5, <1>6, <1>7, <3>1
    <2>2. CASE ~objs
      <3>1. sd = dropped /\ sr = received
        BY <1>5, <1>8, <2>2 DEF sd, sr
      <3> QED BY <1>5, <1>6, <3>1
    <2> QED BY <2>1, <2>2
  <1>12. FramesAccounted
    BY <1>4, <1>9, <1>10 DEF FramesAccounted, L, P, sd
  <1>13. ReceivedIsSound
    BY <1>11 DEF ReceivedIsSound, P, sd, sr
  <1> QED BY <1>12, <1>13

\* FramesCounted: every frame of the server that reached the attached program is in the ring, in
\* readLoop's hand or in the channel, or was delivered, or is counted as dropped or discarded;
\* and what Stats reports as received lies between what was queued and what arrived.
THEOREM CaptureCountsFrames == Spec => []FramesCounted
  BY CaptureInvariant, TalliedIsCounted, PTL

-----------------------------------------------------------------------------
(***************************************************************************)
(* Mode "ebpf_ssl": where the plaintext of a call is, from the exit probe  *)
(* that copies it to its delivery.                                         *)
(***************************************************************************)
\* Threads are processes, whose numbers Linux keeps below 2^22.
Backends == \A t \in Threads : t.pid = t.tid /\ t.pid < 16777216

\* purgeStaleSeqs has not run yet.
BeforePurge == seqPurgeCounter < PurgeEvery

\* The calls of one thread in one direction are one stream, numbered in order.
SameStream(a, b) == a.t = b.t /\ a.d = b.d
Precedes(a, b) == SameStream(a, b) => a.n < b.n

\* The four-tuple of what a thread reads; what it writes has the reverse of it.
Client(t) == [src |-> ClientIP(t), sport |-> ClientPort(t), dst |-> ServerIP, dport |-> 5432]
FourTuple(call) == IF call.d = "read" THEN Client(call.t) ELSE Reversed(Client(call.t))

\* The six places where the data of a call may be, the last one first.
Sides == {"first", "other"}
InExitProbe(a) == \E t \in Threads : thr[t].pc = "filling" /\ a = [t |-> t, d |-> thr[t].d, n |-> calls[t][thr[t].d]]
InRing(a) == \E i \in DOMAIN ring : ring[i].st = "ready" /\ ring[i].rec.call = a
InHand(a) == held # None /\ held.call = a
InChannel(a) == \E i \in DOMAIN packets : packets[i].call = a
InPages(a) == \E k \in DOMAIN pool, h \in Sides : \E i \in DOMAIN pool[k][h].pages : pool[k][h].pages[i].call = a
InStream(a) == \E i \in DOMAIN delivered : delivered[i].pkt.call = a

Place(s, a) == \/ s = 1 /\ InStream(a)
               \/ s = 2 /\ InPages(a)
               \/ s = 3 /\ InChannel(a)
               \/ s = 4 /\ InHand(a)
               \/ s = 5 /\ InRing(a)
               \/ s = 6 /\ InExitProbe(a)

\* Of one stream, what is further on its way is of earlier calls.
InOrder == \A r, s \in 1..6 : r < s => \A a, b \in CallIds : Place(r, a) /\ Place(s, b) => Precedes(a, b)
\* A call that transferred data is in one of the places, or known to be lost.
AllPlaced == \A a \in CallIds : a.n \in 1..calls[a.t][a.d] => a \in lost \/ \E s \in 1..6 : Place(s, a)
\* Nothing is in a place before it is counted.
InCount == \A s \in 1..6 : \A a \in CallIds : Place(s, a) => a.n <= calls[a.t][a.d]

(***************************************************************************)
(* The ring: a thread in the exit probe has one busy record, its last one. *)
(***************************************************************************)
SlotOfThread(i) == /\ ring[i].st = "ready" => ring[i].rec.call.t = ring[i].owner /\ ring[i].rec.cap_len > 0
                   /\ ring[i].st = "busy" => thr[ring[i].owner].pc = "filling"
RingPair(i, j) == /\ ring[i].st = "busy" => ring[j].owner # ring[i].owner
                  /\ ring[i].st = "ready" /\ ring[j].st = "ready" => Precedes(ring[i].rec.call, ring[j].rec.call)
RingOrdered == /\ \A i \in DOMAIN ring : SlotOfThread(i)
               /\ \A i, j \in DOMAIN ring : i < j => RingPair(i, j)
               /\ \A t \in Threads : thr[t].pc = "filling" => \E i \in DOMAIN ring : ring[i].owner = t /\ ring[i].st = "busy"
               /\ held # None => held.cap_len > 0

(***************************************************************************)
(* The channel: packets carry the four-tuple and the bytes of their stream.*)
(***************************************************************************)
End(p) == p.seq + p.len
NextSeq(a) == CurrentSeq(<<a.t, a.d>>)
Addressed(p) == Tuple(p) = FourTuple(p.call) /\ p.len > 0 /\ End(p) <= NextSeq(p.call)
Follows(p, q) == SameStream(p.call, q.call) => p.call.n < q.call.n /\ End(p) <= q.seq
ChannelOrdered == /\ \A i \in DOMAIN packets : Addressed(packets[i])
                  /\ \A i, j \in DOMAIN packets : i < j => Follows(packets[i], packets[j])

(***************************************************************************)
(* The pool: a session has at most one connection, found by the four-tuple *)
(* of either direction; each half holds packets of one stream, beyond its  *)
(* next byte and before those in the channel.                              *)
(***************************************************************************)
Halves == [started : BOOLEAN, next : Nat, pages : Seq(SSLPackets)]
Keys == UNION {{Client(t), Reversed(Client(t))} : t \in Threads}
PoolOK == /\ pool = [k \in DOMAIN pool |-> pool[k]]
          /\ \A k \in DOMAIN pool : pool[k] \in [Sides -> Halves] /\ Reversed(k) \notin DOMAIN pool /\ k \in Keys

\* Is call a of the stream that half h of connection k carries?
Carries(k, h, a) == /\ ConnID(k, 5432) = Client(a.t)
                    /\ a.d = "read" <=> (h = "first" <=> FirstFromClient(k, 5432))

PagesOrdered(k, h, half) ==
  /\ \A i \in DOMAIN half.pages : /\ Carries(k, h, half.pages[i].call) /\ half.pages[i].len > 0
                                  /\ half.started /\ half.pages[i].seq > half.next
  /\ \A i, j \in DOMAIN half.pages : i < j => half.pages[i].call.n < half.pages[j].call.n /\ End(half.pages[i]) <= half.pages[j].seq

\* All that the half has seen ends at or before byte m.
Upto(half, m) == /\ half.started => half.next <= m
                 /\ \A i \in DOMAIN half.pages : End(half.pages[i]) <= m
HalfMark(k, h, half) ==
  /\ \A a \in CallIds : Carries(k, h, a) => Upto(half, NextSeq(a))
  /\ \A j \in DOMAIN packets : Carries(k, h, packets[j].call) => Upto(half, packets[j].seq)

PoolOrdered == \A k \in DOMAIN pool, h \in Sides : PagesOrdered(k, h, pool[k][h]) /\ HalfMark(k, h, pool[k][h])

(***************************************************************************)
(* What was delivered.                                                     *)
(***************************************************************************)
StreamChunks == [pkt : SSLPackets, skip : {0}, conn : Keys, fromClient : BOOLEAN]
ChunkOK(c) == ServerPort = 5432 => c.conn = Client(c.pkt.call.t) /\ c.fromClient = (c.pkt.call.d = "read")
ChunksOrdered(cs) ==
  /\ cs \in Seq(StreamChunks)
  /\ \A i \in DOMAIN cs : ChunkOK(cs[i])
  /\ \A i, j \in DOMAIN cs : i < j => Precedes(cs[i].pkt.call, cs[j].pkt.call)
StreamOrdered == ChunksOrdered(delivered)

SSLInv == /\ InOrder /\ AllPlaced /\ InCount
          /\ RingOrdered /\ ChannelOrdered /\ PoolOK /\ PoolOrdered /\ StreamOrdered

-----------------------------------------------------------------------------
\* Induction over the natural numbers, for the members of a set.
LessThan == {ss \in Nat \X Nat : ss[1] < ss[2]}

LEMMA LessThanWellFounded == IsWellFoundedOn(LessThan, Nat)
  <1>1. LessThan = OpToRel(<, Nat)
    BY Zenon DEF LessThan, OpToRel
  <1> QED BY <1>1, NatLessThanWellFounded, Zenon

LEMMA SetInduction ==
    ASSUME NEW S, 0 \in S, \A n \in Nat : n \in S => n + 1 \in S
    PROVE  Nat \subseteq S
  <1> DEFINE T == Nat \ S
  <1>1. SUFFICES ASSUME T # {} PROVE FALSE
    OBVIOUS
  <1>2. PICK x \in T : \A y \in T : ~(<<y, x>> \in LessThan)
    <2> HIDE DEF T
    <2>1. T \subseteq Nat
      BY DEF T
    <2> QED BY <1>1, <2>1, LessThanWellFounded, WFMin
  <1>3. x # 0 /\ x - 1 \in Nat
    BY <1>2
  <1>4. x - 1 \in T
    BY <1>3
  <1>5. <<x - 1, x>> \in LessThan
    BY <1>3 DEF LessThan
  <1> QED BY <1>2, <1>4, <1>5

-----------------------------------------------------------------------------
(***************************************************************************)
(* What the reassembler does with packets in the order of their bytes.     *)
(***************************************************************************)
Fresh(next) == [next |-> next, pages |-> <<>>, out |-> <<>>]

\* A sequence f that starts and goes on as the fold does is the fold.
LEMMA OfferedIs ==
    ASSUME NEW next, NEW ps, NEW flush, Len(ps) \in Nat, NEW f, f[0] = Fresh(next),
           \A i \in 1..Len(ps) : f[i] = Offer(f[i - 1], ps[i], flush)
    PROVE  Offered(next, ps, flush) = f[Len(ps)]
  <1> DEFINE n == Len(ps)
             g == CHOOSE r : r = [i \in 0..n |-> IF i = 0 THEN Fresh(next) ELSE Offer(r[i - 1], ps[i], flush)]
             h == [i \in 0..n |-> f[i]]
  <1>1. Offered(next, ps, flush) = g[n]
    BY DEF Offered, Fresh
  <1>2. h = [i \in 0..n |-> IF i = 0 THEN Fresh(next) ELSE Offer(h[i - 1], ps[i], flush)]
    <2> DEFINE b == [i \in 0..n |-> IF i = 0 THEN Fresh(next) ELSE Offer(h[i - 1], ps[i], flush)]
    <2>1. ASSUME NEW i \in 0..n PROVE h[i] = b[i]
      <3>1. CASE i = 0
        BY <3>1
      <3>2. CASE i # 0
        <4>1. i \in 1..n /\ i - 1 \in 0..n
          BY <3>2
        <4>2. h[i] = f[i] /\ h[i - 1] = f[i - 1]
          BY <4>1
        <4>3. b[i] = Offer(h[i - 1], ps[i], flush)
          BY <3>2
        <4>4. f[i] = Offer(f[i - 1], ps[i], flush)
          BY <4>1
        <4> HIDE DEF h, b
        <4> QED BY <4>2, <4>3, <4>4
      <3> QED BY <3>1, <3>2
    <2>2. DOMAIN h = 0..n /\ DOMAIN b = 0..n
      OBVIOUS
    <2>3. h = [i \in DOMAIN h |-> h[i]] /\ b = [i \in DOMAIN b |-> b[i]]
      OBVIOUS
    <2> HIDE DEF h, b
    <2>4. h = b
      BY <2>1, <2>2, <2>3
    <2> QED BY <2>4 DEF b
  <1>3. g = [i \in 0..n |-> IF i = 0 THEN Fresh(next) ELSE Offer(g[i - 1], ps[i], flush)]
    <2> HIDE DEF h
    <2> QED BY <1>2, Zenon
  <1> HIDE DEF g
  <1>4. g[0] = Fresh(next) /\ \A i \in 1..n : g[i] = Offer(g[i - 1], ps[i], flush)
    <2>1. ASSUME NEW i \in 0..n PROVE g[i] = IF i = 0 THEN Fresh(next) ELSE Offer(g[i - 1], ps[i], flush)
      BY <1>3, <2>1, Zenon
    <2>2. 0 \in 0..n /\ \A i \in 1..n : i \in 0..n /\ i # 0
      OBVIOUS
    <2> QED BY <2>1, <2>2, Zenon
  <1> DEFINE S == {i \in Nat : i <= n => g[i] = f[i]}
  <1>5. 0 \in S
    BY <1>4
  <1>6. ASSUME NEW i \in Nat, i \in S PROVE i + 1 \in S
    <2>1. SUFFICES ASSUME i + 1 <= n PROVE g[i + 1] = f[i + 1]
      OBVIOUS
    <2>2. i + 1 \in 1..n /\ (i + 1) - 1 = i
      BY <2>1
    <2>3. g[i] = f[i]
      BY <1>6, <2>1
    <2>4. g[i + 1] = Offer(g[i], ps[i + 1], flush) /\ f[i + 1] = Offer(f[i], ps[i + 1], flush)
      BY <1>4, <2>2
    <2> QED BY <2>3, <2>4
  <1>7. Nat \subseteq S
    <2> HIDE DEF S
    <2> QED BY <1>5, <1>6, SetInduction
  <1>8. g[n] = f[n]
    BY <1>7
  <1> QED BY <1>1, <1>8

\* Pages are put in their order.
LEMMA QueuedLast ==
    ASSUME NEW K, NEW pages \in Seq(K), NEW p, p.seq \in Nat,
           \A i \in DOMAIN pages : pages[i].seq \in Nat /\ pages[i].seq <= p.seq
    PROVE  Queued(pages, p) = Append(pages, p)
  <1> DEFINE n == Len(pages)
  <1>1. n \in Nat /\ DOMAIN pages = 1..n
    OBVIOUS
  <1>2. {i \in DOMAIN pages : pages[i].seq <= p.seq} = 1..n
    BY <1>1
  <1>3. Cardinality(1..n) = n
    <2> HIDE DEF n
    <2>1. 1 \in Int /\ n \in Int /\ (1 > n => n = 0) /\ (n - 1) + 1 = n
      BY <1>1
    <2> QED BY <2>1, FS_Interval
  <1>4. Queued(pages, p) = InsertAt(pages, n + 1, p)
    BY <1>2, <1>3 DEF Queued
  <1>5. SubSeq(pages, 1, (n + 1) - 1) = pages
    BY <1>1
  <1>6. SubSeq(pages, n + 1, Len(pages)) = <<>>
    BY <1>1
  <1>7. pages \o <<p>> \o <<>> = Append(pages, p)
    <2>1. pages \in Seq(K \union {p}) /\ <<p>> \in Seq(K \union {p})
      BY <1>1
    <2>2. pages \o <<p>> = Append(pages, p) /\ Append(pages, p) \in Seq(K \union {p})
      BY <2>1
    <2>3. Append(pages, p) \o <<>> = Append(pages, p)
      BY <2>2
    <2> QED BY <2>2, <2>3
  <1> QED BY <1>4, <1>5, <1>6, <1>7 DEF InsertAt

\* A half whose pages are in order, beyond its next byte.
InLine(half) == /\ half \in Halves
                /\ \A i \in DOMAIN half.pages : half.pages[i].len > 0 /\ half.pages[i].seq > half.next
                /\ \A i, j \in DOMAIN half.pages : i < j => End(half.pages[i]) <= half.pages[j].seq
                /\ half.pages # <<>> => half.started

LEMMA PacketNumbers ==
    ASSUME NEW p \in SSLPackets
    PROVE  p.seq \in Nat /\ p.len \in Nat /\ p.call \in CallIds /\ End(p) = p.seq + p.len
  BY DEF SSLPackets, End

LEMMA HalfTypes ==
    ASSUME NEW half \in Halves
    PROVE  /\ half.started \in BOOLEAN /\ half.next \in Nat /\ half.pages \in Seq(SSLPackets)
           /\ Len(half.pages) \in Nat /\ DOMAIN half.pages = 1..Len(half.pages)
           /\ \A i \in DOMAIN half.pages : half.pages[i] \in SSLPackets
  <1>1. half.started \in BOOLEAN /\ half.next \in Nat /\ half.pages \in Seq(SSLPackets)
    BY DEF Halves
  <1> HIDE DEF SSLPackets
  <1> QED BY <1>1

\* A packet that is the next, beyond it, or flushed.
LEMMA OfferKeeps ==
    ASSUME NEW nx \in Nat, NEW pg, NEW out, NEW p \in SSLPackets, p.seq > nx
    PROVE  Offer([next |-> nx, pages |-> pg, out |-> out], p, FALSE) = [next |-> nx, pages |-> Append(pg, p), out |-> out]
  <1> DEFINE r == [next |-> nx, pages |-> pg, out |-> out]
  <1>2. r.next = nx /\ r.pages = pg
    OBVIOUS
  <1>3. \A v : [r EXCEPT !.pages = v] = [next |-> nx, pages |-> v, out |-> out]
    OBVIOUS
  <1> HIDE DEF r
  <1>4. Offer(r, p, FALSE) = [r EXCEPT !.pages = Append(r.pages, p)]
    BY <1>2 DEF Offer
  <1>5. Offer(r, p, FALSE) = [next |-> nx, pages |-> Append(pg, p), out |-> out]
    BY <1>2, <1>3, <1>4
  <1> QED BY <1>5 DEF r

LEMMA OfferTakes ==
    ASSUME NEW nx \in Nat, NEW pg, NEW out, NEW p \in SSLPackets, p.len > 0, NEW flush \in BOOLEAN,
           p.seq = nx \/ (flush /\ p.seq >= nx)
    PROVE  Offer([next |-> nx, pages |-> pg, out |-> out], p, flush)
             = [next |-> End(p), pages |-> pg, out |-> Append(out, [pkt |-> p, skip |-> 0])]
  <1> DEFINE r == [next |-> nx, pages |-> pg, out |-> out]
             o == [pkt |-> p, skip |-> 0]
             m == IF flush /\ p.seq > r.next THEN p.seq ELSE r.next
  <1>1. p.seq \in Nat /\ p.len \in Nat /\ End(p) = p.seq + p.len
    BY PacketNumbers
  <1>2. r.next = nx /\ r.out = out
    OBVIOUS
  <1>3. \A v, w : [r EXCEPT !.out = v, !.next = w] = [next |-> w, pages |-> pg, out |-> v]
    <2>1. \A v : [r EXCEPT !.out = v] = [next |-> nx, pages |-> pg, out |-> v]
      OBVIOUS
    <2>2. \A v, w : [[next |-> nx, pages |-> pg, out |-> v] EXCEPT !.next = w] = [next |-> w, pages |-> pg, out |-> v]
      OBVIOUS
    <2> HIDE DEF r
    <2> QED BY <2>1, <2>2
  <1> HIDE DEF r
  <1>4. m = p.seq
    BY <1>1, <1>2
  <1>5. ~(p.seq > m) /\ ~(p.seq + p.len <= m) /\ m - p.seq = 0
    BY <1>1, <1>4
  <1>6. Offer(r, p, flush) = IF p.seq > m THEN [r EXCEPT !.pages = Append(r.pages, p)]
              ELSE IF p.seq + p.len <= m THEN [r EXCEPT !.next = m]
              ELSE [r EXCEPT !.out = Append(r.out, [pkt |-> p, skip |-> m - p.seq]), !.next = p.seq + p.len]
    BY Zenon DEF Offer, m
  <1> HIDE DEF m
  <1>7. Offer(r, p, flush) = [r EXCEPT !.out = Append(r.out, o), !.next = End(p)]
    BY <1>1, <1>5, <1>6, Zenon
  <1>8. Offer(r, p, flush) = [next |-> End(p), pages |-> pg, out |-> Append(out, o)]
    BY <1>2, <1>3, <1>7, Zenon
  <1> QED BY <1>8 DEF r

\* The elements of a sequence, as it grows.
LEMMA AppendPrefix ==
    ASSUME NEW K, NEW n \in Nat, NEW g \in [1..n -> K], NEW i \in 1..n
    PROVE  Append([j \in 1..(i - 1) |-> g[j]], g[i]) = [j \in 1..i |-> g[j]]
  <1> DEFINE u == [j \in 1..(i - 1) |-> g[j]]
  <1>1. i - 1 \in Nat /\ \A j \in 1..(i - 1) : j \in 1..n
    OBVIOUS
  <1>2. u \in Seq(K) /\ Len(u) = i - 1
    BY <1>1
  <1>3. \A j \in 1..(i - 1) : u[j] = g[j]
    OBVIOUS
  <1> HIDE DEF u
  <1>4. Append(u, g[i]) = [j \in 1..(Len(u) + 1) |-> IF j = Len(u) + 1 THEN g[i] ELSE u[j]]
    BY <1>2
  <1>5. (i - 1) + 1 = i /\ \A j \in 1..i : j # i => j \in 1..(i - 1)
    OBVIOUS
  <1>6. Append(u, g[i]) = [j \in 1..i |-> IF j = i THEN g[i] ELSE u[j]]
    BY <1>2, <1>4, <1>5
  <1>7. \A j \in 1..i : (IF j = i THEN g[i] ELSE u[j]) = g[j]
    BY <1>3, <1>5
  <1>8. Append(u, g[i]) = [j \in 1..i |-> g[j]]
    BY <1>6, <1>7
  <1> QED BY <1>8 DEF u

LEMMA OfferNext ==
    ASSUME NEW p \in SSLPackets, p.len > 0, NEW nx, nx = p.seq
    PROVE  Offered(nx, <<p>>, FALSE) = [next |-> End(p), pages |-> <<>>, out |-> <<[pkt |-> p, skip |-> 0]>>]
  <1>1. nx \in Nat
    BY PacketNumbers
  <1> DEFINE ps == <<p>>
             o == [pkt |-> p, skip |-> 0]
             res == [next |-> End(p), pages |-> <<>>, out |-> Append(<<>>, o)]
             f == [i \in 0..1 |-> IF i = 0 THEN Fresh(nx) ELSE res]
  <1>2. Len(ps) = 1 /\ ps[1] = p /\ Len(ps) \in Nat
    OBVIOUS
  <1>3. Offer(Fresh(nx), p, FALSE) = res
    <2>1. nx \in Nat /\ p.seq = nx
      BY <1>1
    <2>2. Offer([next |-> nx, pages |-> <<>>, out |-> <<>>], p, FALSE) = res
      BY <2>1, OfferTakes
    <2> QED BY <2>2 DEF Fresh
  <1>o. Append(<<>>, o) = <<o>>
    OBVIOUS
  <1> HIDE DEF res, ps
  <1>4. f[0] = Fresh(nx)
    OBVIOUS
  <1>5. f[1] = res /\ \A i \in 1..1 : i = 1 /\ i - 1 = 0
    OBVIOUS
  <1> HIDE DEF f
  <1>6. \A i \in 1..Len(ps) : f[i] = Offer(f[i - 1], ps[i], FALSE)
    BY <1>2, <1>3, <1>4, <1>5
  <1>7. Offered(nx, ps, FALSE) = f[Len(ps)]
    <2>1. Len(ps) \in Nat
      BY <1>2
    <2> QED BY ONLY <2>1, <1>4, <1>6, OfferedIs, Zenon
  <1> QED BY <1>2, <1>5, <1>7, <1>o DEF ps, res

LEMMA OfferBeyond ==
    ASSUME NEW ps \in Seq(SSLPackets), NEW nx \in Nat, \A i \in DOMAIN ps : ps[i].seq > nx /\ ps[i].len > 0
    PROVE  Offered(nx, ps, FALSE) = [next |-> nx, pages |-> ps, out |-> <<>>]
  <1> DEFINE n == Len(ps)
             Part(i) == [j \in 1..i |-> ps[j]]
             f == [i \in 0..n |-> [next |-> nx, pages |-> Part(i), out |-> <<>>]]
  <1>1. /\ n \in Nat /\ DOMAIN ps = 1..n /\ ps = [j \in 1..n |-> ps[j]] /\ ps \in [1..n -> SSLPackets]
        /\ \A i \in 1..n : ps[i] \in SSLPackets
    <2> HIDE DEF SSLPackets
    <2> QED OBVIOUS
  <1>2. Part(0) = <<>>
    OBVIOUS
  <1>3. ASSUME NEW i \in 1..n PROVE f[i] = Offer(f[i - 1], ps[i], FALSE)
    <2>2. i \in 0..n /\ i - 1 \in 0..n
      OBVIOUS
    <2>3. f[i] = [next |-> nx, pages |-> Part(i), out |-> <<>>] /\ f[i - 1] = [next |-> nx, pages |-> Part(i - 1), out |-> <<>>]
      BY <2>2
    <2>4. Append(Part(i - 1), ps[i]) = Part(i)
      BY <1>1, AppendPrefix
    <2> HIDE DEF f, Part
    <2>5. Offer([next |-> nx, pages |-> Part(i - 1), out |-> <<>>], ps[i], FALSE) = [next |-> nx, pages |-> Append(Part(i - 1), ps[i]), out |-> <<>>]
      <3>1. ps[i].seq > nx /\ ps[i] \in SSLPackets
        BY <1>1
      <3> QED BY <3>1, OfferKeeps
    <2> QED BY <2>3, <2>4, <2>5, Zenon
  <1>4. f[0] = Fresh(nx)
    BY <1>1, <1>2 DEF Fresh
  <1>5. f[n] = [next |-> nx, pages |-> ps, out |-> <<>>]
    BY <1>1
  <1> HIDE DEF f
  <1>6. Offered(nx, ps, FALSE) = f[n]
    <2>1. Len(ps) \in Nat
      BY <1>1
    <2> QED BY <2>1, <1>3, <1>4, OfferedIs, Zenon
  <1> QED BY <1>5, <1>6

\* A flush delivers the pages, each from its first byte on.
LEMMA OfferFlush ==
    ASSUME NEW half, InLine(half), NEW ps, ps = half.pages, NEW n, n = Len(ps)
    PROVE  Flushed(half) = [next |-> IF n = 0 THEN half.next ELSE End(ps[n]), pages |-> <<>>,
                            out |-> [i \in 1..n |-> [pkt |-> ps[i], skip |-> 0]]]
  <1> DEFINE nx == half.next
             Next0(i) == IF i = 0 THEN nx ELSE End(ps[i])
             O == [pkt : SSLPackets, skip : {0}]
             g == [j \in 1..n |-> [pkt |-> ps[j], skip |-> 0]]
             Out(i) == [j \in 1..i |-> g[j]]
             f == [i \in 0..n |-> [next |-> Next0(i), pages |-> <<>>, out |-> Out(i)]]
  <1>t. half \in Halves
    BY DEF InLine
  <1>1. n \in Nat /\ nx \in Nat /\ DOMAIN ps = 1..n /\ \A i \in 1..n : ps[i] \in SSLPackets
    BY <1>t, HalfTypes
  <1>2. \A i \in 1..n : ps[i].seq \in Nat /\ ps[i].len \in Nat /\ End(ps[i]) = ps[i].seq + ps[i].len /\ ps[i].len > 0
    BY <1>1, PacketNumbers DEF InLine
  <1>3. \A i \in 1..n : Next0(i - 1) \in Nat /\ ps[i].seq >= Next0(i - 1)
    <2> SUFFICES ASSUME NEW i \in 1..n PROVE Next0(i - 1) \in Nat /\ ps[i].seq >= Next0(i - 1)
      OBVIOUS
    <2>1. CASE i = 1
      BY <1>1, <1>2, <2>1 DEF InLine
    <2>2. CASE i # 1
      <3>1. i - 1 \in 1..n /\ i - 1 < i /\ i - 1 # 0
        BY <1>1, <2>2
      <3>2. End(ps[i - 1]) <= ps[i].seq
        BY <1>1, <3>1 DEF InLine
      <3>3. ps[i - 1].seq \in Nat /\ ps[i - 1].len \in Nat /\ End(ps[i - 1]) = ps[i - 1].seq + ps[i - 1].len /\ ps[i].seq \in Nat
        BY <1>2, <3>1
      <3>4. End(ps[i - 1]) \in Nat
        BY <3>3
      <3> QED BY <3>1, <3>2, <3>3, <3>4
    <2> QED BY <2>1, <2>2
  <1>g. g \in [1..n -> O] /\ \A i \in 1..n : g[i] = [pkt |-> ps[i], skip |-> 0]
    <2> HIDE DEF SSLPackets
    <2> QED BY <1>1
  <1> HIDE DEF g, O
  <1>4. ASSUME NEW i \in 1..n PROVE f[i] = Offer(f[i - 1], ps[i], TRUE)
    <2>2. i \in 0..n /\ i - 1 \in 0..n /\ i # 0
      BY <1>1
    <2>3. f[i] = [next |-> End(ps[i]), pages |-> <<>>, out |-> Out(i)] /\ f[i - 1] = [next |-> Next0(i - 1), pages |-> <<>>, out |-> Out(i - 1)]
      BY <2>2
    <2>4. Append(Out(i - 1), g[i]) = Out(i)
      BY <1>1, <1>g, AppendPrefix
    <2>5. Next0(i - 1) \in Nat /\ ps[i].seq >= Next0(i - 1) /\ ps[i].len > 0 /\ ps[i] \in SSLPackets /\ g[i] = [pkt |-> ps[i], skip |-> 0]
      BY <1>1, <1>2, <1>3, <1>g
    <2> HIDE DEF f, Out, Next0
    <2>6. Offer([next |-> Next0(i - 1), pages |-> <<>>, out |-> Out(i - 1)], ps[i], TRUE)
            = [next |-> End(ps[i]), pages |-> <<>>, out |-> Append(Out(i - 1), g[i])]
      <3>1. \A pg, out : \A m \in Nat, p \in SSLPackets :
              p.len > 0 /\ p.seq >= m =>
                Offer([next |-> m, pages |-> pg, out |-> out], p, TRUE)
                  = [next |-> End(p), pages |-> pg, out |-> Append(out, [pkt |-> p, skip |-> 0])]
        BY OfferTakes
      <3> HIDE DEF SSLPackets
      <3> QED BY <2>5, <3>1, Zenon
    <2> QED BY <2>3, <2>4, <2>6, Zenon
  <1>5. f[0] = Fresh(nx)
    <2>1. Out(0) = <<>>
      OBVIOUS
    <2> QED BY <1>1, <2>1 DEF Fresh
  <1>6. f[n] = [next |-> Next0(n), pages |-> <<>>, out |-> Out(n)]
    BY <1>1
  <1>8. Out(n) = [i \in 1..n |-> [pkt |-> ps[i], skip |-> 0]]
    BY <1>g
  <1>9. Flushed(half) = Offered(nx, ps, TRUE)
    BY Zenon DEF Flushed
  <1> HIDE DEF f, nx, Out
  <1>7. Offered(nx, ps, TRUE) = f[n]
    <2>1. Len(ps) \in Nat
      BY <1>1
    <2> QED BY ONLY <2>1, <1>1, <1>4, <1>5, n = Len(ps), OfferedIs, Zenon
  <1> QED BY <1>6, <1>7, <1>8, <1>9, ZenonT(60) DEF nx

\* A packet that does not begin before what was seen is delivered from its first
\* byte on, or waits behind the pages.
LEMMA AssembledIs ==
    ASSUME NEW half, InLine(half), NEW p \in SSLPackets, p.len > 0, Upto(half, p.seq)
    PROVE  \/ /\ half.pages = <<>>
              /\ Assembled(half, p) = [next |-> End(p), pages |-> <<>>, out |-> <<[pkt |-> p, skip |-> 0]>>]
           \/ /\ half.started /\ p.seq > half.next
              /\ Assembled(half, p) = [next |-> half.next, pages |-> Append(half.pages, p), out |-> <<>>]
  <1> DEFINE ps == half.pages
             nx == Baseline(half, p)
  <1>t. /\ half.started \in BOOLEAN /\ half.next \in Nat /\ ps \in Seq(SSLPackets)
        /\ Len(ps) \in Nat /\ DOMAIN ps = 1..Len(ps) /\ \A i \in DOMAIN ps : ps[i] \in SSLPackets
    BY HalfTypes DEF InLine
  <1>p. p.seq \in Nat /\ p.len \in Nat
    BY PacketNumbers
  <1>1. \A i \in DOMAIN ps : /\ ps[i].seq \in Nat /\ ps[i].len \in Nat /\ ps[i].seq <= p.seq /\ ps[i].len > 0
                             /\ ps[i].seq > half.next /\ ps[i].seq < p.seq
    <2> SUFFICES ASSUME NEW i \in DOMAIN ps
                 PROVE  /\ ps[i].seq \in Nat /\ ps[i].len \in Nat /\ ps[i].seq <= p.seq /\ ps[i].len > 0
                        /\ ps[i].seq > half.next /\ ps[i].seq < p.seq
      OBVIOUS
    <2>1. ps[i].seq \in Nat /\ ps[i].len \in Nat /\ End(ps[i]) = ps[i].seq + ps[i].len
      BY <1>t, PacketNumbers
    <2>2. ps[i].len > 0 /\ ps[i].seq > half.next /\ End(ps[i]) <= p.seq
      BY DEF InLine, Upto
    <2> QED BY <1>p, <2>1, <2>2
  <1>2. Queued(ps, p) = Append(ps, p)
    BY <1>t, <1>p, <1>1, QueuedLast
  <1>3. Assembled(half, p) = Offered(nx, Append(ps, p), FALSE)
    BY <1>2 DEF Assembled
  <1>4. CASE ps = <<>> /\ nx = p.seq
    <2>1. Append(ps, p) = <<p>>
      BY <1>4
    <2>2. Assembled(half, p) = Offered(nx, <<p>>, FALSE)
      BY <1>3, <2>1
    <2> HIDE DEF nx
    <2>3. Offered(nx, <<p>>, FALSE) = [next |-> End(p), pages |-> <<>>, out |-> <<[pkt |-> p, skip |-> 0]>>]
      BY <1>4, OfferNext
    <2> QED BY <1>4, <2>2, <2>3
  <1>5. CASE ~(ps = <<>> /\ nx = p.seq)
    <2>1. half.started
      BY <1>5 DEF Baseline, InLine
    <2>2. nx = half.next
      BY <2>1 DEF Baseline
    <2>3. p.seq > half.next
      <3>1. CASE ps = <<>>
        BY <1>5, <1>t, <1>p, <2>1, <2>2, <3>1 DEF Upto
      <3>2. CASE ps # <<>>
        <4>1. 1 \in DOMAIN ps
          BY <1>t, <3>2
        <4> QED BY <1>1, <1>t, <1>p, <4>1
      <3> QED BY <3>1, <3>2
    <2> DEFINE qs == Append(ps, p)
    <2>4. qs \in Seq(SSLPackets) /\ \A i \in DOMAIN qs : qs[i].seq > half.next /\ qs[i].len > 0
      <3> HIDE DEF SSLPackets
      <3>1. qs \in Seq(SSLPackets) /\ DOMAIN qs = 1..(Len(ps) + 1)
        BY <1>t
      <3>2. \A i \in 1..(Len(ps) + 1) : qs[i] = IF i = Len(ps) + 1 THEN p ELSE ps[i]
        BY <1>t
      <3>3. \A i \in 1..(Len(ps) + 1) : i # Len(ps) + 1 => i \in DOMAIN ps
        BY <1>t
      <3> QED BY <1>1, <2>3, <3>1, <3>2, <3>3
    <2> HIDE DEF qs
    <2>5. Offered(half.next, qs, FALSE) = [next |-> half.next, pages |-> qs, out |-> <<>>]
      BY <1>t, <2>4, OfferBeyond
    <2> QED BY <1>3, <2>1, <2>2, <2>3, <2>5 DEF qs
  <1> QED BY <1>4, <1>5

-----------------------------------------------------------------------------
(***************************************************************************)
(* The four-tuples of the sessions.                                        *)
(***************************************************************************)
LEMMA ThreadNumbers ==
    ASSUME NEW t \in Threads
    PROVE  t.pid \in Nat /\ t.tid \in Nat /\ t = [pid |-> t.pid, tid |-> t.tid]
  BY SSLAssumption

LEMMA Bytes24 ==
    \A a, b \in Nat :
      /\ a < 16777216 /\ b < 16777216 /\ a % 256 = b % 256
      /\ (a \div 256) % 256 = (b \div 256) % 256 /\ (a \div 65536) % 256 = (b \div 65536) % 256
      => a = b
  <1> SUFFICES ASSUME NEW a \in Nat, NEW b \in Nat, a < 16777216, b < 16777216, a % 256 = b % 256,
                      (a \div 256) % 256 = (b \div 256) % 256, (a \div 65536) % 256 = (b \div 65536) % 256
               PROVE  a = b
    OBVIOUS
  <1>1. \A n \in Nat : n < 16777216 => n \div 65536 \in Nat /\ n \div 65536 < 256
    BY SMT
  <1>2. \A n \in Nat : n < 256 => n % 256 = n
    BY SMT
  <1>3. a \div 65536 = b \div 65536
    BY <1>1, <1>2
  <1>4. \A n \in Nat : n \div 256 \in Nat /\ n \div 65536 = (n \div 256) \div 256
    BY SMT
  <1>5. \A n, m \in Nat : n \div 256 = m \div 256 /\ n % 256 = m % 256 => n = m
    BY SMT
  <1>6. a \div 256 = b \div 256
    BY <1>3, <1>4, <1>5
  <1> QED BY <1>5, <1>6

LEMMA ClientInjective ==
    ASSUME Backends, NEW t \in Threads, NEW u \in Threads, ClientIP(t) = ClientIP(u)
    PROVE  t = u
  <1>1. t.pid \in Nat /\ u.pid \in Nat /\ t.pid < 16777216 /\ u.pid < 16777216 /\ t.tid = t.pid /\ u.tid = u.pid
    BY ThreadNumbers DEF Backends
  <1>2. \A a, b, c, x, y, z : <<10, a, b, c>> = <<10, x, y, z>> => a = x /\ b = y /\ c = z
    OBVIOUS
  <1>3. t.pid % 256 = u.pid % 256 /\ (t.pid \div 256) % 256 = (u.pid \div 256) % 256
        /\ (t.tid \div 65536) % 256 = (u.tid \div 65536) % 256
    BY <1>2 DEF ClientIP
  <1>4. t.pid = u.pid
    BY <1>1, <1>3, Bytes24
  <1>5. t = [pid |-> t.pid, tid |-> t.tid] /\ u = [pid |-> u.pid, tid |-> u.tid]
    BY ThreadNumbers
  <1> QED BY <1>1, <1>4, <1>5

LEMMA ClientFacts ==
    ASSUME NEW t \in Threads
    PROVE  /\ FirstFromClient(Client(t), 5432) /\ ~FirstFromClient(Reversed(Client(t)), 5432)
           /\ Reversed(Reversed(Client(t))) = Client(t)
           /\ ConnID(Client(t), 5432) = Client(t) /\ ConnID(Reversed(Client(t)), 5432) = Client(t)
           /\ \A u \in Threads : Reversed(Client(t)) # Client(u)
  <1>1. \A u : ClientPort(u) # 5432
    BY DEF ClientPort
  <1>2. /\ Client(t).dport = 5432 /\ Reversed(Client(t)).sport = 5432 /\ Reversed(Client(t)).dport = ClientPort(t)
    BY DEF Client, Reversed
  <1>3. FirstFromClient(Client(t), 5432) /\ ~FirstFromClient(Reversed(Client(t)), 5432)
    BY <1>1, <1>2 DEF FirstFromClient
  <1>4. Reversed(Reversed(Client(t))) = Client(t)
    BY DEF Client, Reversed
  <1>5. ConnID(Client(t), 5432) = Client(t) /\ ConnID(Reversed(Client(t)), 5432) = Client(t)
    BY <1>3, <1>4 DEF ConnID
  <1>6. \A u \in Threads : Reversed(Client(t)) # Client(u)
    <2> SUFFICES ASSUME NEW u \in Threads PROVE Reversed(Client(t)) # Client(u)
      OBVIOUS
    <2>1. Reversed(Client(t)).sport = 5432 /\ Client(u).sport = ClientPort(u)
      BY <1>2 DEF Client
    <2> QED BY <1>1, <2>1
  <1> QED BY <1>3, <1>4, <1>5, <1>6

LEMMA SameClient ==
    ASSUME Backends, NEW t \in Threads, NEW u \in Threads, Client(t) = Client(u)
    PROVE  t = u
  <1>1. ClientIP(t) = ClientIP(u)
    BY DEF Client
  <1> QED BY <1>1, ClientInjective

LEMMA CallFacts ==
    ASSUME NEW a \in CallIds
    PROVE  a.t \in Threads /\ a.d \in {"read", "write"} /\ a.n \in Nat /\ a = [t |-> a.t, d |-> a.d, n |-> a.n]
  BY DEF CallIds, Dirs

LEMMA CarriesSame ==
    ASSUME Backends, NEW a \in CallIds, NEW b \in CallIds, NEW k, NEW h, Carries(k, h, a)
    PROVE  Carries(k, h, b) <=> SameStream(a, b)
  <1>1. a.t \in Threads /\ b.t \in Threads /\ a.d \in {"read", "write"} /\ b.d \in {"read", "write"}
    BY CallFacts
  <1>2. Client(a.t) = Client(b.t) <=> a.t = b.t
    BY <1>1, SameClient
  <1>3. (a.d = "read" <=> b.d = "read") <=> a.d = b.d
    BY <1>1
  <1>4. Carries(k, h, b) <=> Client(a.t) = Client(b.t) /\ (b.d = "read" <=> a.d = "read")
    BY DEF Carries
  <1> QED BY <1>2, <1>3, <1>4 DEF SameStream

\* Two keys of one session that are not the reverse of each other are the same,
\* and a half is of one stream.
LEMMA OneHome ==
    ASSUME Backends, NEW k, NEW l, k \in Keys, l \in Keys, l # Reversed(k), NEW h \in Sides, NEW g \in Sides,
           NEW a \in CallIds, NEW b \in CallIds, Carries(k, h, a), Carries(l, g, b), a.t = b.t
    PROVE  k = l /\ (a.d = b.d => h = g)
  <1>1. PICK t \in Threads : k \in {Client(t), Reversed(Client(t))}
    BY DEF Keys
  <1>2. PICK u \in Threads : l \in {Client(u), Reversed(Client(u))}
    BY DEF Keys
  <1>3. ConnID(k, 5432) = Client(t) /\ ConnID(l, 5432) = Client(u)
    BY <1>1, <1>2, ClientFacts
  <1>4. Client(t) = Client(u)
    BY <1>3 DEF Carries
  <1>5. t = u
    BY <1>4, SameClient
  <1>6. Reversed(Reversed(Client(t))) = Client(t)
    BY ClientFacts
  <1>8. k = l
    BY <1>1, <1>2, <1>5, <1>6
  <1>9. a.d = b.d => (h = "first" <=> g = "first")
    BY <1>8 DEF Carries
  <1> QED BY <1>8, <1>9 DEF Sides

\* Where the reassembler puts a packet.
LEMMA HomeOf ==
    ASSUME PoolOK, NEW p \in SSLPackets, Tuple(p) = FourTuple(p.call)
    PROVE  /\ KeyOf(pool, p) \in {Client(p.call.t), Reversed(Client(p.call.t))}
           /\ HalfOf(pool, p) \in Sides
           /\ Carries(KeyOf(pool, p), HalfOf(pool, p), p.call)
           /\ Reversed(KeyOf(pool, p)) \notin DOMAIN pool
  <1> DEFINE c == Client(p.call.t)
             x == Tuple(p)
             k == KeyOf(pool, p)
             h == HalfOf(pool, p)
  <1>1. p.call.t \in Threads /\ p.call.d \in {"read", "write"}
    BY PacketNumbers, CallFacts
  <1>2. /\ FirstFromClient(c, 5432) /\ ~FirstFromClient(Reversed(c), 5432) /\ Reversed(Reversed(c)) = c
        /\ ConnID(c, 5432) = c /\ ConnID(Reversed(c), 5432) = c /\ Reversed(c) # c
    BY <1>1, ClientFacts
  <1>3. x = IF p.call.d = "read" THEN c ELSE Reversed(c)
    BY DEF FourTuple
  <1>4. k = IF Reversed(x) \in DOMAIN pool THEN Reversed(x) ELSE x
    BY Zenon DEF KeyOf
  <1>5. h = IF k = x THEN "first" ELSE "other"
    BY Zenon DEF HalfOf
  <1>6. \A l \in DOMAIN pool : Reversed(l) \notin DOMAIN pool
    BY DEF PoolOK
  <1> HIDE DEF c, x, k, h
  <1>7. k \in {c, Reversed(c)} /\ h \in Sides /\ Reversed(k) \notin DOMAIN pool
    BY <1>2, <1>3, <1>4, <1>5, <1>6 DEF Sides
  <1>8. Carries(k, h, p.call)
    <2>1. ConnID(k, 5432) = c
      BY <1>2, <1>7
    <2>2. CASE k = x
      <3>1. h = "first"
        BY <1>5, <2>2
      <3>2. FirstFromClient(k, 5432) <=> p.call.d = "read"
        BY <1>2, <1>3, <2>2
      <3>3. FirstFromClient(k, 5432) \in BOOLEAN
        BY DEF FirstFromClient
      <3> QED BY <2>1, <3>1, <3>2, <3>3 DEF Carries, c
    <2>3. CASE k # x
      <3>1. h = "other"
        BY <1>5, <2>3
      <3>2. k = Reversed(x)
        BY <1>4, <2>3
      <3>3. FirstFromClient(k, 5432) <=> p.call.d # "read"
        BY <1>2, <1>3, <3>2
      <3>4. FirstFromClient(k, 5432) \in BOOLEAN
        BY DEF FirstFromClient
      <3> QED BY <2>1, <3>1, <3>3, <3>4 DEF Carries, c
    <2> QED BY <2>2, <2>3
  <1> QED BY <1>7, <1>8 DEF c, k, h

-----------------------------------------------------------------------------
(***************************************************************************)
(* How the data of a call moves from place to place.                       *)
(***************************************************************************)
Flow == InOrder /\ AllPlaced /\ InCount

LEMMA FlowSame ==
    ASSUME Flow, UNCHANGED calls, lost \subseteq lost',
           \A s \in 1..6, a \in CallIds : Place(s, a)' => Place(s, a),
           \A s \in 1..6, a \in CallIds : Place(s, a) => Place(s, a)' \/ a \in lost'
    PROVE  Flow'
  <1> HIDE DEF CallIds
  <1> USE DEF Flow
  <1>1. InOrder'
    BY DEF InOrder
  <1>2. AllPlaced'
    BY DEF AllPlaced
  <1>3. InCount'
    BY DEF InCount
  <1> QED BY <1>1, <1>2, <1>3

\* A call x goes from one place to an earlier one, ahead of all that is behind it.
LEMMA FlowMove ==
    ASSUME Flow, UNCHANGED calls, lost \subseteq lost', NEW x \in CallIds, NEW lo \in 1..6, NEW hi \in 1..6, lo < hi,
           Place(hi, x), Place(lo, x)',
           \A s \in 1..6, a \in CallIds : Place(s, a)' => Place(s, a) \/ (s = lo /\ a = x),
           \A s \in 1..6, a \in CallIds : Place(s, a) => Place(s, a)' \/ a = x,
           \A s \in 1..6, a \in CallIds : lo < s /\ Place(s, a)' => Precedes(x, a)
    PROVE  Flow'
  <1> HIDE DEF CallIds
  <1> USE DEF Flow
  <1>1. ASSUME NEW r \in 1..6, NEW s \in 1..6, r < s, NEW a \in CallIds, NEW b \in CallIds, Place(r, a)', Place(s, b)'
        PROVE  Precedes(a, b)
    <2>1. CASE Place(r, a) /\ Place(s, b)
      BY <1>1, <2>1 DEF InOrder
    <2>2. CASE r = lo /\ a = x
      BY <1>1, <2>2
    <2>3. CASE Place(r, a) /\ s = lo /\ b = x
      <3>1. r < hi
        BY <1>1, <2>3
      <3> QED BY <2>3, <3>1 DEF InOrder
    <2> QED BY <1>1, <2>1, <2>2, <2>3
  <1>2. InOrder'
    BY <1>1 DEF InOrder, Precedes, SameStream
  <1>3. AllPlaced'
    BY DEF AllPlaced
  <1>4. InCount'
    BY DEF InCount
  <1> QED BY <1>2, <1>3, <1>4

\* A call has transferred data: it is new, in the exit probe or lost.
LEMMA FlowNew ==
    ASSUME Flow, CallsOK, NEW t \in Threads, NEW d \in Dirs, NEW x, x = CallId(t, d),
           calls' = [calls EXCEPT ![t][d] = @ + 1], lost \subseteq lost', x \in lost' \/ Place(6, x)',
           \A s \in 1..6, a \in CallIds : Place(s, a)' => Place(s, a) \/ (s = 6 /\ a = x),
           \A s \in 1..6, a \in CallIds : Place(s, a) => Place(s, a)'
    PROVE  Flow'
  <1> USE DEF Flow
  <1>t. calls \in [Threads -> [Dirs -> Nat]]
    BY DEF CallsOK
  <1>x. x.t = t /\ x.d = d /\ x.n = calls[t][d] + 1 /\ x = [t |-> t, d |-> d, n |-> calls[t][d] + 1]
    BY DEF CallId
  <1>c. ASSUME NEW a \in CallIds
        PROVE  /\ a.n \in Nat /\ calls[a.t][a.d] \in Nat
               /\ calls'[a.t][a.d] = IF a.t = t /\ a.d = d THEN calls[a.t][a.d] + 1 ELSE calls[a.t][a.d]
               /\ SameStream(a, x) <=> a.t = t /\ a.d = d
               /\ a.t = t /\ a.d = d /\ a.n = x.n => a = x
    <2>1. a.t \in Threads /\ a.d \in Dirs /\ a.n \in Nat /\ a = [t |-> a.t, d |-> a.d, n |-> a.n]
      BY DEF CallIds
    <2> QED BY <1>t, <1>x, <2>1 DEF SameStream
  <1> HIDE DEF CallIds
  <1>1. ASSUME NEW r \in 1..6, NEW s \in 1..6, r < s, NEW a \in CallIds, NEW b \in CallIds, Place(r, a)', Place(s, b)'
        PROVE  Precedes(a, b)
    <2>1. Place(r, a)
      BY <1>1
    <2>2. CASE Place(s, b)
      BY <1>1, <2>1, <2>2 DEF InOrder
    <2>3. CASE b = x
      <3>1. a.n <= calls[a.t][a.d]
        BY <2>1 DEF InCount
      <3> QED BY <1>c, <1>x, <2>3, <3>1 DEF Precedes, SameStream
    <2> QED BY <1>1, <2>2, <2>3
  <1>2. InOrder'
    BY <1>1 DEF InOrder, Precedes, SameStream
  <1>3. AllPlaced'
    <2> SUFFICES ASSUME NEW a \in CallIds, a.n \in 1..calls'[a.t][a.d] PROVE a \in lost' \/ \E s \in 1..6 : Place(s, a)'
      BY DEF AllPlaced
    <2>1. CASE a = x
      BY <2>1
    <2>2. CASE a # x
      <3>1. a.n \in 1..calls[a.t][a.d]
        BY <1>c, <1>x, <2>2
      <3> QED BY <3>1 DEF AllPlaced
    <2> QED BY <2>1, <2>2
  <1>4. InCount'
    <2> SUFFICES ASSUME NEW s \in 1..6, NEW a \in CallIds, Place(s, a)' PROVE a.n <= calls'[a.t][a.d]
      BY DEF InCount
    <2>1. CASE a = x
      BY <1>c, <1>x, <2>1
    <2>2. CASE a # x
      <3>1. a.n <= calls[a.t][a.d]
        BY <2>2 DEF InCount
      <3> QED BY <1>c, <3>1
    <2> QED BY <2>1, <2>2
  <1> QED BY <1>2, <1>3, <1>4

-----------------------------------------------------------------------------
(***************************************************************************)
(* The steps, by what they do to the places.                               *)
(***************************************************************************)
SSLTypes == /\ RingOK(Threads, SSLRecords) /\ ChanOK(SSLPackets) /\ HeldOK(SSLRecords)
            /\ ThrOK /\ MapOK /\ BufOK /\ CallsOK /\ SeqsOK /\ CountsOK

\* No thread enters or leaves the filling of a record.
FillingSame == \A t \in Threads : thr'[t] = thr[t] \/ (thr[t].pc # "filling" /\ thr'[t].pc # "filling")
OthersSame(t) == \A u \in Threads : u # t => thr'[u] = thr[u]

QuietStep == UNCHANGED <<ring, held, packets, pool, delivered, lost, calls, seqs>> /\ FillingSame
MissStep(t) == /\ UNCHANGED <<ring, held, packets, pool, delivered, seqs>> /\ FillingSame
               /\ thr[t].pc = "calling" /\ calls' = [calls EXCEPT ![t][thr[t].d] = @ + 1]
               /\ lost' = lost \union {CallId(t, thr[t].d)}

LEMMA StepKinds ==
    ASSUME SSLTypes, SSLNext
    PROVE  \/ QuietStep \/ SSLSend \/ SSLReceive
           \/ Read /\ UNCHANGED ssl
           \/ \E key \in DOMAIN pool : SSLFlush(key)
           \/ \E t \in Threads : \/ MissStep(t) \/ ExitSubmit(t)
                                 \/ \E ret \in AllRets : ExitReserve(t, ret)
  <1>t. thr \in [Threads -> Phases]
    BY DEF SSLTypes, ThrOK
  <1>f. UNCHANGED thr => FillingSame
    BY DEF FillingSame
  <1>s. UNCHANGED ssl => UNCHANGED <<thr, pool, delivered, lost, calls, seqs>>
    BY DEF ssl
  <1>1. CASE LoadObjects /\ UNCHANGED ssl
    BY <1>1, <1>f, <1>s DEF LoadObjects, QuietStep
  <1>2. CASE SSLOpenAttach \/ SSLOpenReader \/ SSLOpenFails
    <2>1. UNCHANGED <<ring, held, packets>> /\ UNCHANGED ssl
      BY <1>2 DEF SSLOpenAttach, SSLOpenReader, OpenReader, SSLOpenFails, OpenFails
    <2> QED BY <2>1, <1>f, <1>s DEF QuietStep
  <1>3. CASE SSLClose
    <2>1. UNCHANGED <<ring, held, packets>> /\ UNCHANGED ssl
      BY <1>3 DEF SSLClose, CloseReader, CloseWaits, CloseDetaches, CloseFrees
    <2> QED BY <2>1, <1>f, <1>s DEF QuietStep
  <1>4. CASE LoopReturns /\ UNCHANGED ssl
    BY <1>4, <1>f, <1>s DEF LoopReturns, QuietStep
  <1>5. ASSUME NEW t \in Threads, NEW r, r.pc # "filling", thr[t].pc # "filling", thr' = [thr EXCEPT ![t] = r]
        PROVE  FillingSame
    BY <1>t, <1>5 DEF FillingSame
  <1>r. Resting.pc # "filling" /\ Dead.pc # "filling" /\ \A d, b : InCall(d, b).pc # "filling"
    BY DEF Resting, Dead, InCall
  <1>6. ASSUME NEW t \in Threads, NEW d \in Dirs, Enter(t, d) \/ EnterUnseen(t, d) PROVE QuietStep
    <2>1. Begins(t, d)
      BY <1>6 DEF Enter, EnterUnseen
    <2>2. thr' = [thr EXCEPT ![t] = InCall(d, Probed(t, d, "exit"))] /\ thr[t].pc = "idle"
      BY <2>1, Zenon DEF Begins
    <2>3. FillingSame
      BY <2>2, <1>5, <1>r
    <2> QED BY <2>1, <2>3 DEF Begins, source, QuietStep
  <1>7. ASSUME NEW t \in Threads, Dies(t) \/ ReturnsNothing(t) PROVE QuietStep
    <2>1. \E r \in {Resting, Dead} : thr' = [thr EXCEPT ![t] = r]
      BY <1>7, Zenon DEF Dies, ReturnsNothing
    <2>2. thr[t].pc = "calling"
      BY <1>7 DEF Dies, ReturnsNothing
    <2>3. FillingSame
      BY <2>1, <2>2, <1>5, <1>r
    <2> QED BY <1>7, <2>3 DEF Dies, ReturnsNothing, source, QuietStep
  <1>8. ASSUME NEW t \in Threads, ReturnsUnseen(t) \/ ExitDrop(t) PROVE MissStep(t)
    <2>1. thr' = [thr EXCEPT ![t] = Resting] /\ thr[t].pc = "calling"
      BY <1>8 DEF ReturnsUnseen, ExitDrop, Transfers
    <2>2. FillingSame
      BY <2>1, <1>5, <1>r
    <2> QED BY <1>8, <2>2 DEF ReturnsUnseen, ExitDrop, Transfers, MissStep
  <1>9. ASSUME NEW t \in Threads, SSLProbe(t)
        PROVE  QuietStep \/ MissStep(t) \/ ExitSubmit(t) \/ \E ret \in AllRets : ExitReserve(t, ret)
    BY <1>6, <1>7, <1>8, <1>9 DEF SSLProbe
  <1> QED BY <1>1, <1>2, <1>3, <1>4, <1>9 DEF SSLNext, SSLLoop

\* In which places a step can change what is there.
LEMMA ExitProbeSame ==
    ASSUME FillingSame, UNCHANGED calls, NEW a
    PROVE  InExitProbe(a)' <=> InExitProbe(a)
  BY DEF InExitProbe, FillingSame

LEMMA QuietFlow ==
    ASSUME Flow, QuietStep
    PROVE  Flow'
  <1>1. \A a : InExitProbe(a)' <=> InExitProbe(a)
    BY ExitProbeSame DEF QuietStep
  <1>2. \A s, a : Place(s, a)' <=> Place(s, a)
    BY <1>1 DEF QuietStep, Place, InRing, InHand, InChannel, InPages, InStream
  <1>3. UNCHANGED <<calls, lost>>
    BY DEF QuietStep
  <1> QED BY <1>2, <1>3, FlowSame

LEMMA MissFlow ==
    ASSUME SSLTypes, Flow, NEW t \in Threads, MissStep(t)
    PROVE  Flow'
  <1> DEFINE d == thr[t].d
             x == CallId(t, d)
  <1>1. d \in Dirs /\ CallsOK /\ thr[t].pc = "calling"
    BY CallingFacts DEF SSLTypes, MissStep
  <1>2. \A a : InExitProbe(a)' <=> InExitProbe(a)
    <2>1. \A u \in Threads : u # t => calls'[u] = calls[u]
      BY <1>1 DEF MissStep, CallsOK
    <2>2. thr[t].pc # "filling" /\ thr'[t].pc # "filling"
      BY <1>1 DEF MissStep, FillingSame
    <2> QED BY <2>1, <2>2 DEF InExitProbe, FillingSame, MissStep
  <1>3. \A s, a : Place(s, a)' <=> Place(s, a)
    BY <1>2 DEF MissStep, Place, InRing, InHand, InChannel, InPages, InStream
  <1>4. calls' = [calls EXCEPT ![t][d] = @ + 1] /\ lost \subseteq lost' /\ x \in lost'
    BY DEF MissStep
  <1> HIDE DEF d, x
  <1>5. x = CallId(t, d)
    BY DEF x
  <1> QED BY <1>1, <1>3, <1>4, <1>5, FlowNew

LEMMA ReserveFlow ==
    ASSUME SSLTypes, Flow, NEW t \in Threads, NEW ret, ExitReserve(t, ret)
    PROVE  Flow'
  <1> DEFINE d == thr[t].d
             x == CallId(t, d)
  <1>1. d \in Dirs /\ CallsOK /\ ThrOK /\ thr[t].pc = "calling" /\ RingOK(Threads, SSLRecords)
    BY CallingFacts DEF SSLTypes, ExitReserve, Transfers
  <1>2. calls' = [calls EXCEPT ![t][d] = @ + 1] /\ lost' = lost
    BY DEF ExitReserve, Transfers
  <1>3. /\ \A u \in Threads : u # t => calls'[u] = calls[u] /\ thr'[u] = thr[u]
        /\ thr'[t].pc = "filling" /\ thr'[t].d = d /\ calls'[t][d] = calls[t][d] + 1
    <2>1. thr' = [thr EXCEPT ![t] = InExit(d, argmap[d][t], ret)]
      BY DEF ExitReserve
    <2>2. \A e : InExit(d, e, ret).pc = "filling" /\ InExit(d, e, ret).d = d
      BY DEF InExit
    <2> HIDE DEF d
    <2>3. \A u \in Threads : u # t => calls'[u] = calls[u] /\ thr'[u] = thr[u]
      BY <1>1, <1>2, <2>1 DEF CallsOK, ThrOK
    <2>4. thr'[t] = InExit(d, argmap[d][t], ret) /\ calls'[t][d] = calls[t][d] + 1
      BY <1>1, <1>2, <2>1 DEF CallsOK, ThrOK
    <2> QED BY <2>2, <2>3, <2>4
  <1>4. \A a : InExitProbe(a)' <=> InExitProbe(a) \/ a = x
    BY <1>1, <1>3 DEF InExitProbe, CallId
  <1>5. \A a : InRing(a)' <=> InRing(a)
    <2> DEFINE e == [owner |-> t, st |-> "busy", rec |-> None]
    <2>1. ring' = Append(ring, e) /\ e.st = "busy"
      BY DEF ExitReserve, bpf_ringbuf_reserve
    <2> HIDE DEF e
    <2>2. /\ DOMAIN ring = 1..Len(ring) /\ Len(ring) \in Nat /\ DOMAIN ring' = 1..(Len(ring) + 1)
          /\ \A i \in 1..Len(ring) : ring'[i] = ring[i]
          /\ ring'[Len(ring) + 1] = e
      <3>1. ring \in Seq(Slot(Threads, SSLRecords))
        BY <1>1 DEF RingOK
      <3> HIDE DEF SSLRecords
      <3> QED BY <2>1, <3>1
    <2>3. \A i \in DOMAIN ring' : i \in DOMAIN ring \/ i = Len(ring) + 1
      BY <2>2
    <2>4. \A i \in DOMAIN ring : i \in DOMAIN ring' /\ ring'[i] = ring[i]
      BY <2>2
    <2> QED BY <2>1, <2>2, <2>3, <2>4 DEF InRing
  <1>6. \A s, a : Place(s, a)' <=> Place(s, a) \/ (s = 6 /\ a = x)
    <2> HIDE DEF x
    <2> QED BY <1>4, <1>5 DEF ExitReserve, Transfers, Place, InHand, InChannel, InPages, InStream
  <1> HIDE DEF d, x
  <1>7. x = CallId(t, d)
    BY DEF x
  <1> QED BY <1>1, <1>2, <1>6, <1>7, FlowNew

-----------------------------------------------------------------------------
(***************************************************************************)
(* The exit probe and the ring.                                            *)
(***************************************************************************)
LEMMA RingFacts ==
    ASSUME SSLTypes
    PROVE  /\ Len(ring) \in Nat /\ DOMAIN ring = 1..Len(ring)
           /\ \A i \in DOMAIN ring : /\ ring[i].owner \in Threads /\ ring[i].st \in {"busy", "ready", "discarded"}
                                     /\ ring[i].st = "ready" => ring[i].rec \in SSLRecords
  <1>1. ring \in Seq(Slot(Threads, SSLRecords)) /\ \A i \in DOMAIN ring : ring[i].st = "ready" => ring[i].rec \in SSLRecords
    BY DEF SSLTypes, RingOK
  <1> HIDE DEF SSLRecords
  <1>2. /\ Len(ring) \in Nat /\ DOMAIN ring = 1..Len(ring)
        /\ \A i \in DOMAIN ring : ring[i] \in Slot(Threads, SSLRecords)
    BY <1>1
  <1>3. \A r \in Slot(Threads, SSLRecords) : r.owner \in Threads /\ r.st \in {"busy", "ready", "discarded"}
    BY DEF Slot
  <1> QED BY <1>1, <1>2, <1>3

LEMMA RecordFacts ==
    ASSUME NEW r \in SSLRecords
    PROVE  /\ r.call \in CallIds /\ r.cap_len \in Nat /\ r.call.t = [pid |-> r.pid, tid |-> r.tid] /\ r.call.d = r.d
           /\ r.d \in Dirs
  BY DEF SSLRecords

LEMMA QuietRing ==
    ASSUME SSLTypes, RingOrdered, UNCHANGED ring, FillingSame, held' = held \/ held' = None
    PROVE  RingOrdered'
  <1>1. \A t \in Threads : thr'[t].pc = "filling" <=> thr[t].pc = "filling"
    BY DEF FillingSame
  <1>2. \A i \in DOMAIN ring : SlotOfThread(i)'
    <2>1. \A i \in DOMAIN ring : ring[i].owner \in Threads
      BY RingFacts
    <2> QED BY <1>1, <2>1 DEF RingOrdered, SlotOfThread
  <1>3. \A i, j \in DOMAIN ring : i < j => RingPair(i, j)'
    BY DEF RingOrdered, RingPair, Precedes, SameStream
  <1>4. \A t \in Threads : thr'[t].pc = "filling" => \E i \in DOMAIN ring' : ring'[i].owner = t /\ ring'[i].st = "busy"
    BY <1>1 DEF RingOrdered
  <1>5. held' # None => held'.cap_len > 0
    BY DEF RingOrdered
  <1> QED BY <1>2, <1>3, <1>4, <1>5 DEF RingOrdered

LEMMA ReserveRing ==
    ASSUME SSLTypes, RingOrdered, NEW t \in Threads, NEW ret, ExitReserve(t, ret)
    PROVE  RingOrdered'
  <1> DEFINE e == [owner |-> t, st |-> "busy", rec |-> None]
             n == Len(ring)
  <1>1. ring' = Append(ring, e) /\ e.st = "busy" /\ e.owner = t /\ held' = held /\ thr[t].pc = "calling"
    BY DEF ExitReserve, bpf_ringbuf_reserve, Transfers
  <1> HIDE DEF e
  <1>2. n \in Nat /\ DOMAIN ring = 1..n /\ \A i \in DOMAIN ring : ring[i].owner \in Threads
    BY RingFacts
  <1>3. /\ DOMAIN ring' = 1..(n + 1) /\ \A i \in 1..n : ring'[i] = ring[i]
        /\ ring'[n + 1] = e
    <2>1. ring \in Seq(Slot(Threads, SSLRecords))
      BY DEF RingOK, SSLTypes
    <2> HIDE DEF SSLRecords
    <2> QED BY <1>1, <2>1
  <1>4. thr'[t].pc = "filling" /\ \A u \in Threads : u # t => thr'[u] = thr[u]
    <2>1. thr' = [thr EXCEPT ![t] = InExit(thr[t].d, argmap[thr[t].d][t], ret)]
      BY DEF ExitReserve
    <2>2. \A d, x : InExit(d, x, ret).pc = "filling"
      BY DEF InExit
    <2> QED BY <2>1, <2>2 DEF SSLTypes, ThrOK
  <1>5. \A i \in DOMAIN ring : ring[i].st = "busy" => ring[i].owner # t
    BY <1>1 DEF RingOrdered, SlotOfThread
  <1>6. ASSUME NEW i \in DOMAIN ring' PROVE SlotOfThread(i)'
    <2>1. CASE i \in 1..n
      BY <1>2, <1>3, <1>4, <1>5, <2>1 DEF RingOrdered, SlotOfThread
    <2>2. CASE i = n + 1
      BY <1>1, <1>3, <1>4, <2>2 DEF SlotOfThread
    <2> QED BY <1>2, <1>3, <2>1, <2>2
  <1>7. ASSUME NEW i \in DOMAIN ring', NEW j \in DOMAIN ring', i < j PROVE RingPair(i, j)'
    <2>1. i \in 1..n
      BY <1>2, <1>3, <1>7
    <2>2. CASE j \in 1..n
      BY <1>2, <1>3, <1>7, <2>1, <2>2 DEF RingOrdered, RingPair, Precedes, SameStream
    <2>3. CASE j = n + 1
      BY <1>1, <1>2, <1>3, <1>5, <2>1, <2>3 DEF RingPair
    <2> QED BY <1>2, <1>3, <2>2, <2>3
  <1>8. ASSUME NEW u \in Threads, thr'[u].pc = "filling"
        PROVE  \E i \in DOMAIN ring' : ring'[i].owner = u /\ ring'[i].st = "busy"
    <2>1. CASE u = t
      <3>1. n + 1 \in DOMAIN ring'
        BY <1>2, <1>3
      <3> QED BY <1>1, <1>3, <2>1, <3>1
    <2>2. CASE u # t
      <3>1. PICK i \in DOMAIN ring : ring[i].owner = u /\ ring[i].st = "busy"
        BY <1>4, <1>8, <2>2 DEF RingOrdered
      <3>2. i \in DOMAIN ring' /\ ring'[i] = ring[i]
        BY <1>2, <1>3
      <3> QED BY <3>1, <3>2
    <2> QED BY <2>1, <2>2
  <1>9. held' # None => held'.cap_len > 0
    BY <1>1 DEF RingOrdered
  <1> QED BY <1>6, <1>7, <1>8, <1>9 DEF RingOrdered

\* The record that an exit probe submits.
LEMMA SubmitEffect ==
    ASSUME SSLTypes, NEW t \in Threads, ExitSubmit(t)
    PROVE  \E rec \in SSLRecords :
             /\ rec.call = [t |-> t, d |-> thr[t].d, n |-> calls[t][thr[t].d]]
             /\ rec.from \in {buf_ptr[thr[t].d][thr[t].elem], None} /\ rec.cap_len > 0
             /\ (rec.cap_len = rec.ret /\ rec.valid = rec.ret) \/ Spoilt(rec)
             /\ DOMAIN ring' = DOMAIN ring
             /\ \A i \in DOMAIN ring :
                  ring'[i] = IF ring[i].owner = t /\ ring[i].st = "busy"
                             THEN [owner |-> t, st |-> "ready", rec |-> rec] ELSE ring[i]
             /\ thr'[t].pc # "filling" /\ OthersSame(t)
             /\ UNCHANGED <<held, packets, pool, delivered, seqs, calls, lost>>
  <1>t. ThrOK /\ BufOK /\ CallsOK
    BY DEF SSLTypes
  <1>1. PICK rec \in SSLRecords :
             /\ Settle(t, "ready", rec)
             /\ rec.call = [t |-> t, d |-> thr[t].d, n |-> calls[t][thr[t].d]]
             /\ rec.from \in {buf_ptr[thr[t].d][thr[t].elem], None} /\ rec.cap_len > 0
             /\ (rec.cap_len = rec.ret /\ rec.valid = rec.ret) \/ Spoilt(rec)
    BY <1>t, SubmitRecord
  <1>2. thr' = [thr EXCEPT ![t] = Resting] /\ UNCHANGED <<held, packets, pool, delivered, seqs, calls, lost>>
    BY DEF ExitSubmit
  <1>3. thr'[t].pc # "filling" /\ OthersSame(t)
    BY <1>t, <1>2 DEF ThrOK, OthersSame, Resting
  <1>4. /\ DOMAIN ring' = DOMAIN ring
        /\ \A i \in DOMAIN ring :
             ring'[i] = IF ring[i].owner = t /\ ring[i].st = "busy"
                        THEN [owner |-> t, st |-> "ready", rec |-> rec] ELSE ring[i]
    BY <1>1 DEF Settle
  <1> QED BY <1>1, <1>2, <1>3, <1>4

LEMMA SubmitFlow ==
    ASSUME SSLTypes, Flow, RingOrdered, NEW t \in Threads, ExitSubmit(t)
    PROVE  Flow' /\ RingOrdered'
  <1>x. PICK x : x = [t |-> t, d |-> thr[t].d, n |-> calls[t][thr[t].d]]
    OBVIOUS
  <1>1. PICK rec \in SSLRecords :
             /\ rec.call = x /\ rec.cap_len > 0
             /\ DOMAIN ring' = DOMAIN ring
             /\ \A i \in DOMAIN ring :
                  ring'[i] = IF ring[i].owner = t /\ ring[i].st = "busy"
                             THEN [owner |-> t, st |-> "ready", rec |-> rec] ELSE ring[i]
             /\ thr'[t].pc # "filling" /\ OthersSame(t)
             /\ UNCHANGED <<held, packets, pool, delivered, seqs, calls, lost>>
    BY <1>x, SubmitEffect
  <1>2. thr[t].pc = "filling" /\ x.t = t
    BY <1>x DEF ExitSubmit
  <1>3. x \in CallIds
    BY <1>1, RecordFacts
  <1>4. PICK i0 \in DOMAIN ring : ring[i0].owner = t /\ ring[i0].st = "busy"
    BY <1>2 DEF RingOrdered
  <1>r. /\ DOMAIN ring = 1..Len(ring) /\ Len(ring) \in Nat
        /\ \A i \in DOMAIN ring : ring[i].st = "ready" => ring[i].rec.call \in CallIds /\ ring[i].owner \in Threads
    BY RingFacts, RecordFacts
  <1>e. InExitProbe(x)
    BY <1>x, <1>2 DEF InExitProbe
  <1> DEFINE Mine(i) == ring[i].owner = t /\ ring[i].st = "busy"
  <1>5. \A i \in DOMAIN ring : /\ Mine(i) => ring'[i].owner = t /\ ring'[i].st = "ready" /\ ring'[i].rec = rec
                               /\ ~Mine(i) => ring'[i] = ring[i]
    BY <1>1
  <1> HIDE DEF Mine
  <1>6. \A a : InRing(a)' <=> InRing(a) \/ a = x
    <2>1. InRing(x)'
      <3>1. Mine(i0)
        BY <1>4 DEF Mine
      <3>2. i0 \in DOMAIN ring' /\ ring'[i0].st = "ready" /\ ring'[i0].rec.call = x
        BY <1>1, <1>5, <3>1
      <3> QED BY <3>2 DEF InRing
    <2>2. \A a : InRing(a) => InRing(a)'
      BY <1>1, <1>5 DEF InRing, Mine
    <2>3. ASSUME NEW a, InRing(a)' PROVE InRing(a) \/ a = x
      <3>1. PICK i \in DOMAIN ring' : ring'[i].st = "ready" /\ ring'[i].rec.call = a
        BY <2>3 DEF InRing
      <3>2. CASE Mine(i)
        BY <1>1, <1>5, <3>1, <3>2
      <3>3. CASE ~Mine(i)
        BY <1>1, <1>5, <3>1, <3>3 DEF InRing
      <3> QED BY <3>2, <3>3
    <2> QED BY <2>1, <2>2, <2>3
  <1>7. \A a : /\ InExitProbe(a)' => InExitProbe(a) /\ a.t # t
               /\ InExitProbe(a) => InExitProbe(a)' \/ a = x
    <2>1. \A a : InExitProbe(a)' => InExitProbe(a) /\ a.t # t
      BY <1>1 DEF InExitProbe, OthersSame
    <2>2. \A a : InExitProbe(a) => InExitProbe(a)' \/ a = x
      BY <1>x, <1>1 DEF InExitProbe, OthersSame
    <2> QED BY <2>1, <2>2
  <1>8. Flow'
    <2>1. \A s \in 1..6, a \in CallIds : Place(s, a)' => Place(s, a) \/ (s = 5 /\ a = x)
      BY <1>1, <1>6, <1>7 DEF Place, InHand, InChannel, InPages, InStream
    <2>2. \A s \in 1..6, a \in CallIds : Place(s, a) => Place(s, a)' \/ a = x
      BY <1>1, <1>6, <1>7 DEF Place, InHand, InChannel, InPages, InStream
    <2>3. \A s \in 1..6, a \in CallIds : 5 < s /\ Place(s, a)' => Precedes(x, a)
      <3> SUFFICES ASSUME NEW s \in 1..6, NEW a \in CallIds, 5 < s, Place(s, a)' PROVE Precedes(x, a)
        OBVIOUS
      <3>1. InExitProbe(a)'
        BY DEF Place
      <3> QED BY <1>2, <1>7, <3>1 DEF Precedes, SameStream
    <2>4. InRing(x)'
      BY <1>6
    <2>5. Place(6, x) /\ Place(5, x)'
      BY <1>e, <2>4 DEF Place
    <2>6. UNCHANGED calls /\ lost \subseteq lost'
      BY <1>1
    <2>7. 5 \in 1..6 /\ 6 \in 1..6 /\ 5 < 6
      OBVIOUS
    <2> HIDE DEF Place, Flow
    <2> QED BY <1>3, <2>1, <2>2, <2>3, <2>5, <2>6, <2>7, FlowMove
  <1>9. ASSUME NEW i \in DOMAIN ring PROVE SlotOfThread(i)'
    <2>1. CASE Mine(i)
      BY <1>1, <1>2, <1>5, <2>1 DEF SlotOfThread
    <2>2. CASE ~Mine(i)
      <3>1. SlotOfThread(i) /\ ring'[i] = ring[i] /\ ring[i].owner \in Threads
        BY <1>5, <2>2, RingFacts DEF RingOrdered
      <3> QED BY <1>1, <2>2, <3>1 DEF SlotOfThread, Mine, OthersSame
    <2> QED BY <2>1, <2>2
  <1>10. ASSUME NEW i \in DOMAIN ring, NEW j \in DOMAIN ring, i < j PROVE RingPair(i, j)'
    <2>0. RingPair(i, j) /\ SlotOfThread(i) /\ SlotOfThread(j)
      BY <1>10 DEF RingOrdered
    <2>1. CASE Mine(i)
      <3>1. ring[j].owner # t
        BY <2>0, <2>1 DEF RingPair, Mine
      <3>2. ring'[j] = ring[j]
        BY <1>5, <3>1 DEF Mine
      <3>3. ring[j].st = "ready" => ring[j].rec.call.t # t
        BY <2>0, <3>1 DEF SlotOfThread
      <3> QED BY <1>1, <1>2, <1>5, <2>1, <3>2, <3>3 DEF RingPair, Precedes, SameStream
    <2>2. CASE ~Mine(i) /\ Mine(j)
      <3>1. ring[i].st = "ready" => Precedes(ring[i].rec.call, x)
        <4> SUFFICES ASSUME ring[i].st = "ready" PROVE Precedes(ring[i].rec.call, x)
          OBVIOUS
        <4>1. Place(5, ring[i].rec.call) /\ Place(6, x) /\ ring[i].rec.call \in CallIds
          BY <1>e, <1>r DEF Place, InRing
        <4>2. 5 \in 1..6 /\ 6 \in 1..6 /\ 5 < 6
          OBVIOUS
        <4> QED BY <1>3, <4>1, <4>2 DEF Flow, InOrder
      <3>2. ring[i].st = "busy" => ring'[j].owner # ring'[i].owner
        BY <1>5, <2>0, <2>2 DEF RingPair, Mine
      <3> QED BY <1>1, <1>5, <2>2, <3>1, <3>2 DEF RingPair, Precedes, SameStream
    <2>3. CASE ~Mine(i) /\ ~Mine(j)
      BY <1>5, <2>0, <2>3 DEF RingPair, Precedes, SameStream
    <2> QED BY <2>1, <2>2, <2>3
  <1>11. ASSUME NEW u \in Threads, thr'[u].pc = "filling"
         PROVE  \E i \in DOMAIN ring' : ring'[i].owner = u /\ ring'[i].st = "busy"
    <2>1. u # t /\ thr[u].pc = "filling"
      BY <1>1, <1>11 DEF OthersSame
    <2>2. PICK i \in DOMAIN ring : ring[i].owner = u /\ ring[i].st = "busy"
      BY <2>1 DEF RingOrdered
    <2> QED BY <1>1, <1>5, <2>1, <2>2 DEF Mine
  <1>12. held' # None => held'.cap_len > 0
    BY <1>1 DEF RingOrdered
  <1>13. RingOrdered'
    BY <1>1, <1>9, <1>10, <1>11, <1>12 DEF RingOrdered
  <1> QED BY <1>8, <1>13

-----------------------------------------------------------------------------
(***************************************************************************)
(* readLoop.                                                               *)
(***************************************************************************)
LEMMA ReadEffect ==
    ASSUME SSLTypes, RingOrdered, Read, UNCHANGED ssl
    PROVE  /\ Len(ring) \in Nat /\ Len(ring) >= 1 /\ DOMAIN ring = 1..Len(ring)
           /\ DOMAIN ring' = 1..(Len(ring) - 1) /\ \A i \in DOMAIN ring' : i + 1 \in DOMAIN ring /\ ring'[i] = ring[i + 1]
           /\ 1 \in DOMAIN ring /\ ring[1].st = "ready" /\ ring[1].rec \in SSLRecords
           /\ held = None /\ held' = ring[1].rec /\ held' # None /\ held'.cap_len > 0
           /\ UNCHANGED <<packets, thr, calls, lost, pool, delivered, seqs>>
  <1>1. ring # <<>> /\ loop = "reading" /\ Head(ring).st = "ready" /\ ring' = Tail(ring) /\ held' = Head(ring).rec
    BY DEF Read, Readable
  <1>2. ring \in Seq(Slot(Threads, SSLRecords))
    BY DEF SSLTypes, RingOK
  <1>3. /\ Len(ring) \in Nat /\ Len(ring) >= 1 /\ DOMAIN ring = 1..Len(ring) /\ Head(ring) = ring[1]
        /\ DOMAIN Tail(ring) = 1..(Len(ring) - 1) /\ \A i \in 1..(Len(ring) - 1) : Tail(ring)[i] = ring[i + 1]
    <2> HIDE DEF SSLRecords
    <2> QED BY <1>1, <1>2
  <1>4. 1 \in DOMAIN ring /\ \A i \in 1..(Len(ring) - 1) : i + 1 \in DOMAIN ring
    BY <1>3
  <1>5. ring[1].rec \in SSLRecords
    BY <1>1, <1>3, <1>4, RingFacts
  <1>6. ring[1].rec # None
    BY <1>5, SSLNoneAssumption
  <1>7. ring[1].rec.cap_len > 0
    BY <1>1, <1>3, <1>4 DEF RingOrdered, SlotOfThread
  <1>8. held = None
    BY <1>1 DEF SSLTypes, HeldOK
  <1>9. UNCHANGED <<packets, thr, calls, lost, pool, delivered, seqs>>
    BY DEF Read, ssl
  <1> QED BY <1>1, <1>3, <1>4, <1>5, <1>6, <1>7, <1>8, <1>9

LEMMA ReadFlow ==
    ASSUME SSLTypes, Flow, RingOrdered, Read, UNCHANGED ssl
    PROVE  Flow' /\ RingOrdered'
  <1>0. /\ Len(ring) \in Nat /\ Len(ring) >= 1 /\ DOMAIN ring = 1..Len(ring)
        /\ DOMAIN ring' = 1..(Len(ring) - 1) /\ \A i \in DOMAIN ring' : i + 1 \in DOMAIN ring /\ ring'[i] = ring[i + 1]
        /\ 1 \in DOMAIN ring /\ ring[1].st = "ready" /\ ring[1].rec \in SSLRecords
        /\ held = None /\ held' = ring[1].rec /\ held' # None /\ held'.cap_len > 0
        /\ UNCHANGED <<packets, thr, calls, lost, pool, delivered, seqs>>
    BY ReadEffect
  <1>x. PICK x : x = ring[1].rec.call
    OBVIOUS
  <1>1. x \in CallIds
    BY <1>0, <1>x, RecordFacts
  <1>2. \A i \in DOMAIN ring : i = 1 \/ (i - 1 \in DOMAIN ring' /\ ring'[i - 1] = ring[i])
    BY <1>0
  <1>3. ASSUME NEW a, InRing(a) PROVE InRing(a)' \/ a = x
    <2>1. PICK i \in DOMAIN ring : ring[i].st = "ready" /\ ring[i].rec.call = a
      BY <1>3 DEF InRing
    <2> QED BY <1>2, <1>x, <2>1 DEF InRing
  <1>4. ASSUME NEW a, InRing(a)' PROVE InRing(a) /\ Precedes(x, a)
    <2>1. PICK i \in DOMAIN ring' : ring'[i].st = "ready" /\ ring'[i].rec.call = a
      BY <1>4 DEF InRing
    <2>2. i + 1 \in DOMAIN ring /\ ring[i + 1].st = "ready" /\ ring[i + 1].rec.call = a /\ 1 < i + 1
      BY <1>0, <2>1
    <2>3. RingPair(1, i + 1)
      BY <1>0, <2>2 DEF RingOrdered
    <2> QED BY <1>0, <1>x, <2>2, <2>3 DEF InRing, RingPair
  <1>5. InRing(x) /\ \A a : InHand(a)' <=> a = x
    BY <1>0, <1>x DEF InRing, InHand
  <1>6. \A a : ~InHand(a)
    BY <1>0 DEF InHand
  <1>7. \A a : /\ InExitProbe(a)' <=> InExitProbe(a)
               /\ InChannel(a)' <=> InChannel(a)
               /\ InPages(a)' <=> InPages(a)
               /\ InStream(a)' <=> InStream(a)
    BY <1>0 DEF InExitProbe, InChannel, InPages, InStream
  <1>8. Flow'
    <2>1. \A s \in 1..6, a \in CallIds : Place(s, a)' => Place(s, a) \/ (s = 4 /\ a = x)
      BY <1>4, <1>5, <1>7 DEF Place
    <2>2. \A s \in 1..6, a \in CallIds : Place(s, a) => Place(s, a)' \/ a = x
      BY <1>3, <1>6, <1>7 DEF Place
    <2>7. 5 \in 1..6 /\ 4 \in 1..6 /\ 6 \in 1..6 /\ 4 < 5 /\ 5 < 6
      OBVIOUS
    <2>5. Place(5, x) /\ Place(4, x)'
      BY <1>5 DEF Place
    <2>3. \A s \in 1..6, a \in CallIds : 4 < s /\ Place(s, a)' => Precedes(x, a)
      <3> SUFFICES ASSUME NEW s \in 1..6, NEW a \in CallIds, 4 < s, Place(s, a)' PROVE Precedes(x, a)
        OBVIOUS
      <3>1. CASE InRing(a)'
        BY <3>1, <1>4
      <3>2. CASE InExitProbe(a)'
        <4>1. Place(6, a)
          BY <1>7, <3>2 DEF Place
        <4> QED BY <1>1, <2>5, <2>7, <4>1 DEF Flow, InOrder
      <3>3. s = 5 \/ s = 6
        OBVIOUS
      <3> QED BY <3>1, <3>2, <3>3 DEF Place
    <2>6. UNCHANGED calls /\ lost \subseteq lost'
      BY <1>0
    <2> HIDE DEF Place, Flow
    <2> QED BY <1>1, <2>1, <2>2, <2>3, <2>5, <2>6, <2>7, FlowMove
  <1>9. \A i \in DOMAIN ring' : SlotOfThread(i)'
    BY <1>0 DEF RingOrdered, SlotOfThread
  <1>10. ASSUME NEW i \in DOMAIN ring', NEW j \in DOMAIN ring', i < j PROVE RingPair(i, j)'
    <2>1. i + 1 \in DOMAIN ring /\ j + 1 \in DOMAIN ring /\ i + 1 < j + 1
      BY <1>0, <1>10
    <2>2. RingPair(i + 1, j + 1)
      BY <2>1 DEF RingOrdered
    <2> QED BY <1>0, <2>2 DEF RingPair, Precedes, SameStream
  <1>11. ASSUME NEW u \in Threads, thr'[u].pc = "filling"
         PROVE  \E i \in DOMAIN ring' : ring'[i].owner = u /\ ring'[i].st = "busy"
    <2>1. PICK i \in DOMAIN ring : ring[i].owner = u /\ ring[i].st = "busy"
      BY <1>0, <1>11 DEF RingOrdered
    <2>2. i # 1
      BY <1>0, <2>1
    <2> QED BY <1>2, <2>1, <2>2
  <1>12. RingOrdered'
    BY <1>0, <1>9, <1>10, <1>11 DEF RingOrdered
  <1> QED BY <1>8, <1>12

LEMMA NoPurgeYet == \A c, m \in Nat : 0 < c /\ c < m => c % m # 0
  <1> SUFFICES ASSUME NEW c \in Nat, NEW m \in Nat, 0 < c, c < m PROVE c % m = c
    OBVIOUS
  <1> QED BY SMT

\* Before the purge, nextSeq numbers the bytes of the stream.
LEMMA SeqEffect ==
    ASSUME SSLTypes, SSLSend, BeforePurge', NEW x, x = held.call
    PROVE  /\ x \in CallIds
           /\ \A a \in CallIds : /\ NextSeq(a) \in Nat
                                 /\ NextSeq(a)' = IF SameStream(a, x) THEN NextSeq(a) + held.cap_len ELSE NextSeq(a)
  <1>1. PICK k : k = <<[pid |-> held.pid, tid |-> held.tid], held.d>>
    OBVIOUS
  <1>2. nextSeq(k, held.cap_len) /\ loop = "sending"
    BY <1>1 DEF SSLSend, Send
  <1>3. held \in SSLRecords /\ held.cap_len \in Nat
    BY <1>2, HeldFacts DEF SSLTypes
  <1>4. x \in CallIds /\ k = <<x.t, x.d>>
    BY <1>1, <1>3, RecordFacts
  <1>s. /\ DOMAIN seqNums = DOMAIN seqLastSeen /\ seqNums \in [DOMAIN seqNums -> Nat] /\ seqPurgeCounter \in Nat
    BY DEF SSLTypes, SeqsOK
  <1> DEFINE c == seqPurgeCounter + 1
             nums == With(seqNums, k, CurrentSeq(k) + held.cap_len)
             seen == With(seqLastSeen, k, seqPurgeCounter)
             keys == IF c % PurgeEvery = 0 THEN Kept(seen, c) ELSE DOMAIN seen
  <1>5. seqNums' = Restricted(nums, keys) /\ seqPurgeCounter' = c
    BY <1>2 DEF nextSeq
  <1>6. DOMAIN seen = DOMAIN seqNums \union {k}
    BY <1>s DEF With
  <1>7. keys = DOMAIN seqNums \union {k}
    <2>1. c \in Nat /\ 0 < c /\ c < PurgeEvery /\ PurgeEvery \in Nat
      BY <1>s, <1>5, SSLAssumption DEF BeforePurge
    <2>2. c % PurgeEvery # 0
      BY <2>1, NoPurgeYet
    <2> HIDE DEF c, seen
    <2> QED BY <1>6, <2>2
  <1>8. seqNums' = [j \in DOMAIN seqNums \union {k} |-> IF j = k THEN CurrentSeq(k) + held.cap_len ELSE seqNums[j]]
    <2>1. nums = [j \in DOMAIN seqNums \union {k} |-> IF j = k THEN CurrentSeq(k) + held.cap_len ELSE seqNums[j]]
      BY DEF With
    <2> HIDE DEF keys, nums
    <2> QED BY <1>5, <1>7, <2>1 DEF Restricted
  <1> HIDE DEF c, nums, seen, keys
  <1>9. \A j : CurrentSeq(j) \in Nat
    BY <1>s DEF CurrentSeq
  <1>10. ASSUME NEW j PROVE CurrentSeq(j)' = IF j = k THEN CurrentSeq(j) + held.cap_len ELSE CurrentSeq(j)
    <2>1. CASE j = k
      <3>1. j \in DOMAIN seqNums'
        BY <1>8, <2>1
      <3>2. seqNums'[j] = CurrentSeq(j) + held.cap_len
        BY <1>8, <2>1
      <3> QED BY <2>1, <3>1, <3>2 DEF CurrentSeq
    <2>2. CASE j # k
      <3>1. j \in DOMAIN seqNums' <=> j \in DOMAIN seqNums
        BY <1>8, <2>2
      <3>2. j \in DOMAIN seqNums => seqNums'[j] = seqNums[j]
        BY <1>8, <2>2
      <3> QED BY <2>2, <3>1, <3>2 DEF CurrentSeq
    <2> QED BY <2>1, <2>2
  <1>11. \A a \in CallIds : <<a.t, a.d>> = k <=> SameStream(a, x)
    BY <1>4 DEF SameStream
  <1> QED BY <1>4, <1>9, <1>10, <1>11 DEF NextSeq

LEMMA SendEffect ==
    ASSUME SSLTypes, RingOrdered, SSLSend, NEW x, x = held.call
    PROVE  \E p \in SSLPackets :
             /\ p.call = x /\ p.seq = NextSeq(x) /\ p.len = held.cap_len /\ p.len > 0
             /\ p.ret = held.ret /\ p.valid = held.valid /\ p.from = held.from
             /\ Tuple(p) = FourTuple(x)
             /\ \/ packets' = Append(packets, p) /\ lost' = lost
                \/ packets' = packets /\ lost' = lost \union {x}
             /\ held # None /\ held' = None
             /\ UNCHANGED <<ring, thr, calls, pool, delivered>>
  <1> DEFINE k == <<[pid |-> held.pid, tid |-> held.tid], held.d>>
  <1>1. PICK p : p = Synthetic(held, CurrentSeq(k))
    OBVIOUS
  <1>2. /\ Send(p) /\ lost' = IF dropped' > dropped THEN lost \union {held.call} ELSE lost
        /\ UNCHANGED <<thr, calls, pool, delivered>>
    BY <1>1 DEF SSLSend
  <1>3. loop = "sending"
    BY <1>2 DEF Send
  <1>4. /\ held \in SSLRecords /\ held.cap_len \in Nat /\ held.call \in CallIds
        /\ held.pid \in Nat /\ held.tid \in Nat /\ held.from \in CallIds \union {None}
        /\ held.ret \in Nat /\ held.valid \in Nat
    BY <1>3, HeldFacts DEF SSLTypes
  <1>5. held.call.t = [pid |-> held.pid, tid |-> held.tid] /\ held.call.d = held.d /\ held.d \in Dirs
    BY <1>4, RecordFacts
  <1>6. k = <<x.t, x.d>> /\ CurrentSeq(k) = NextSeq(x)
    BY <1>5 DEF NextSeq
  <1>7. CurrentSeq(k) \in Nat
    <2> HIDE DEF k
    <2> QED BY DEF CurrentSeq, SSLTypes, SeqsOK
  <1> HIDE DEF k
  <1>8. p \in SSLPackets
    BY <1>1, <1>4, <1>7, SyntheticType
  <1>9. /\ p.call = x /\ p.seq = NextSeq(x) /\ p.len = held.cap_len
        /\ p.ret = held.ret /\ p.valid = held.valid /\ p.from = held.from
    BY <1>1, <1>6 DEF Synthetic
  <1>10. held # None /\ p.len > 0
    BY <1>3, <1>9 DEF SSLTypes, HeldOK, RingOrdered
  <1>11. Tuple(p) = FourTuple(x)
    <2>1. ClientIP(x.t) = ClientIP(held) /\ ClientPort(x.t) = ClientPort(held)
      BY <1>5 DEF ClientIP, ClientPort
    <2>2. Client(x.t) = [src |-> ClientIP(held), sport |-> ClientPort(held), dst |-> ServerIP, dport |-> 5432]
      BY <2>1, Zenon DEF Client
    <2>3. CASE held.d = "read"
      <3>1. FourTuple(x) = Client(x.t)
        BY <1>5, <2>3 DEF FourTuple
      <3>2. p.src = ClientIP(held) /\ p.sport = ClientPort(held) /\ p.dst = ServerIP /\ p.dport = 5432
        BY <1>1, <2>3 DEF Synthetic
      <3> QED BY <2>2, <3>1, <3>2 DEF Tuple
    <2>4. CASE held.d # "read"
      <3>1. FourTuple(x) = Reversed(Client(x.t))
        BY <1>5, <2>4 DEF FourTuple
      <3>2. p.src = ServerIP /\ p.sport = 5432 /\ p.dst = ClientIP(held) /\ p.dport = ClientPort(held)
        BY <1>1, <2>4 DEF Synthetic
      <3>3. Reversed(Client(x.t)) = [src |-> ServerIP, sport |-> 5432, dst |-> ClientIP(held), dport |-> ClientPort(held)]
        BY <2>2 DEF Reversed
      <3> QED BY <3>1, <3>2, <3>3 DEF Tuple
    <2> QED BY <2>3, <2>4
  <1>12. \/ packets' = Append(packets, p) /\ lost' = lost
         \/ packets' = packets /\ lost' = lost \union {x}
    <2>1. dropped \in Nat /\ ~(dropped > dropped) /\ dropped + 1 > dropped
      BY DEF SSLTypes, CountsOK
    <2> QED BY <1>2, <2>1 DEF Send
  <1>13. held' = None /\ UNCHANGED ring
    BY <1>2 DEF Send
  <1> QED BY <1>2, <1>8, <1>9, <1>10, <1>11, <1>12, <1>13

LEMMA AppendFacts ==
    ASSUME NEW K, NEW s \in Seq(K), NEW e \in K
    PROVE  /\ Append(s, e) \in Seq(K) /\ Len(s) \in Nat /\ DOMAIN s = 1..Len(s)
           /\ DOMAIN Append(s, e) = 1..(Len(s) + 1)
           /\ \A i \in DOMAIN s : Append(s, e)[i] = s[i] /\ s[i] \in K
           /\ Append(s, e)[Len(s) + 1] = e
  OBVIOUS

LEMMA SeqFacts ==
    ASSUME NEW K, NEW s \in Seq(K)
    PROVE  /\ Len(s) \in Nat /\ DOMAIN s = 1..Len(s) /\ \A i \in DOMAIN s : s[i] \in K
  OBVIOUS

LEMMA SendFlow ==
    ASSUME SSLTypes, Flow, RingOrdered, SSLSend
    PROVE  Flow' /\ RingOrdered'
  <1>x. PICK x : x = held.call
    OBVIOUS
  <1>1. PICK p \in SSLPackets :
             /\ p.call = x
             /\ \/ packets' = Append(packets, p) /\ lost' = lost
                \/ packets' = packets /\ lost' = lost \union {x}
             /\ held # None /\ held' = None
             /\ UNCHANGED <<ring, thr, calls, pool, delivered>>
    BY <1>x, SendEffect
  <1>2. x \in CallIds
    BY <1>1, PacketNumbers
  <1>3. \A a : InHand(a) <=> a = x
    BY <1>x, <1>1 DEF InHand
  <1>4. \A a : ~InHand(a)'
    BY <1>1 DEF InHand
  <1>5. \A a : /\ InExitProbe(a)' <=> InExitProbe(a)
               /\ InRing(a)' <=> InRing(a)
               /\ InPages(a)' <=> InPages(a)
               /\ InStream(a)' <=> InStream(a)
    BY <1>1 DEF InExitProbe, InRing, InPages, InStream
  <1>6. UNCHANGED calls /\ lost \subseteq lost'
    BY <1>1
  <1>7. ASSUME packets' = Append(packets, p) PROVE Flow'
    <2>0. packets \in Seq(SSLPackets)
      BY DEF SSLTypes, ChanOK
    <2>a. /\ Len(packets) \in Nat /\ DOMAIN packets = 1..Len(packets) /\ DOMAIN packets' = 1..(Len(packets) + 1)
          /\ \A i \in DOMAIN packets : packets'[i] = packets[i]
          /\ packets'[Len(packets) + 1] = p
      BY <1>7, <2>0, AppendFacts
    <2>b. \A i : i \in DOMAIN packets' <=> i \in DOMAIN packets \/ i = Len(packets) + 1
      BY <2>a
    <2>c. \A a : InChannel(a)' <=> InChannel(a) \/ a = x
      BY <1>1, <2>a, <2>b DEF InChannel
    <2>1. \A s \in 1..6, a \in CallIds : Place(s, a)' => Place(s, a) \/ (s = 3 /\ a = x)
      BY <1>4, <1>5, <2>c DEF Place
    <2>2. \A s \in 1..6, a \in CallIds : Place(s, a) => Place(s, a)' \/ a = x
      BY <1>3, <1>5, <2>c DEF Place
    <2>7. 3 \in 1..6 /\ 4 \in 1..6 /\ 3 < 4
      OBVIOUS
    <2>5. Place(4, x) /\ Place(3, x)'
      <3>1. InHand(x) /\ InChannel(x)'
        BY <1>3, <2>c
      <3> QED BY <3>1 DEF Place
    <2>3. \A s \in 1..6, a \in CallIds : 3 < s /\ Place(s, a)' => Precedes(x, a)
      <3> SUFFICES ASSUME NEW s \in 1..6, NEW a \in CallIds, 3 < s, Place(s, a)' PROVE Precedes(x, a)
        OBVIOUS
      <3>1. s # 4
        BY <1>4 DEF Place
      <3>2. 4 < s /\ Place(s, a)
        BY <1>5, <3>1 DEF Place
      <3> QED BY <1>2, <2>5, <2>7, <3>2 DEF Flow, InOrder
    <2> HIDE DEF Place, Flow
    <2> QED BY <1>2, <1>6, <2>1, <2>2, <2>3, <2>5, <2>7, FlowMove
  <1>8. ASSUME packets' = packets, lost' = lost \union {x} PROVE Flow'
    <2>1. \A s \in 1..6, a \in CallIds : Place(s, a)' => Place(s, a)
      BY <1>4, <1>5, <1>8 DEF Place, InChannel
    <2>2. \A s \in 1..6, a \in CallIds : Place(s, a) => Place(s, a)' \/ a \in lost'
      BY <1>3, <1>5, <1>8 DEF Place, InChannel
    <2> HIDE DEF Place, Flow
    <2> QED BY <1>6, <2>1, <2>2, FlowSame
  <1>9. RingOrdered'
    BY <1>1, QuietRing DEF FillingSame
  <1> QED BY <1>1, <1>7, <1>8, <1>9

LEMMA UptoMore ==
    ASSUME NEW half \in Halves, NEW m \in Nat, NEW n \in Nat, m <= n, Upto(half, m)
    PROVE  Upto(half, n)
  <1>1. half.next \in Nat /\ \A i \in DOMAIN half.pages : half.pages[i] \in SSLPackets
    BY HalfTypes
  <1>2. \A i \in DOMAIN half.pages : End(half.pages[i]) \in Nat
    BY <1>1, PacketNumbers
  <1> QED BY <1>1, <1>2 DEF Upto

LEMMA SendOrdered ==
    ASSUME SSLTypes, SSLInv, SSLSend, BeforePurge'
    PROVE  ChannelOrdered' /\ PoolOK' /\ PoolOrdered' /\ StreamOrdered'
  <1>x. PICK x : x = held.call
    OBVIOUS
  <1>1. PICK p \in SSLPackets :
             /\ p.call = x /\ p.seq = NextSeq(x) /\ p.len = held.cap_len /\ p.len > 0
             /\ Tuple(p) = FourTuple(x)
             /\ \/ packets' = Append(packets, p)
                \/ packets' = packets
             /\ held # None
             /\ UNCHANGED <<pool, delivered>>
    BY <1>x, SendEffect DEF SSLInv
  <1>2. /\ x \in CallIds
        /\ \A a \in CallIds : /\ NextSeq(a) \in Nat
                              /\ NextSeq(a)' = IF SameStream(a, x) THEN NextSeq(a) + p.len ELSE NextSeq(a)
    BY <1>x, <1>1, SeqEffect
  <1>p. p.len \in Nat /\ p.seq \in Nat /\ End(p) = p.seq + p.len
    BY PacketNumbers
  <1>3. \A a \in CallIds : NextSeq(a) \in Nat /\ NextSeq(a)' \in Nat /\ NextSeq(a) <= NextSeq(a)'
    BY <1>2, <1>p
  <1>4. \A a \in CallIds : SameStream(a, x) => NextSeq(a) = NextSeq(x)
    BY DEF SameStream, NextSeq
  <1>5. packets \in Seq(SSLPackets)
    BY DEF SSLTypes, ChanOK
  <1>6. /\ Len(packets) \in Nat /\ DOMAIN packets = 1..Len(packets)
        /\ \A i \in DOMAIN packets : packets[i] \in SSLPackets /\ packets[i].call \in CallIds /\ End(packets[i]) \in Nat
    <2>1. Len(packets) \in Nat /\ DOMAIN packets = 1..Len(packets) /\ \A i \in DOMAIN packets : packets[i] \in SSLPackets
      BY ONLY <1>5, SeqFacts
    <2>2. \A q \in SSLPackets : q.call \in CallIds /\ End(q) \in Nat
      BY ONLY PacketNumbers
    <2> QED BY ONLY <2>1, <2>2
  <1>7. \A q \in SSLPackets : Addressed(q) => Addressed(q)'
    <2> SUFFICES ASSUME NEW q \in SSLPackets, Addressed(q) PROVE Addressed(q)'
      OBVIOUS
    <2>1. q.call \in CallIds /\ End(q) \in Nat
      BY PacketNumbers
    <2>2. End(q) <= NextSeq(q.call)'
      BY <1>3, <2>1 DEF Addressed
    <2> QED BY <2>2 DEF Addressed
  <1>8. \A i \in DOMAIN packets : Addressed(packets[i])
    BY DEF SSLInv, ChannelOrdered
  <1>9. Addressed(p)'
    <2>1. NextSeq(x)' = NextSeq(x) + p.len
      BY <1>2 DEF SameStream
    <2> QED BY <1>1, <1>p, <1>3, <1>2, <2>1 DEF Addressed
  <1>10. \A i \in DOMAIN packets : Follows(packets[i], p)
    <2> SUFFICES ASSUME NEW i \in DOMAIN packets, SameStream(packets[i].call, x)
                 PROVE  packets[i].call.n < x.n /\ End(packets[i]) <= p.seq
      BY <1>1 DEF Follows
    <2>1. Place(3, packets[i].call) /\ Place(4, x)
      BY <1>x, <1>1 DEF Place, InChannel, InHand
    <2>2. 3 \in 1..6 /\ 4 \in 1..6 /\ 3 < 4 /\ packets[i].call \in CallIds
      BY <1>6
    <2>3. Precedes(packets[i].call, x)
      BY <1>2, <2>1, <2>2 DEF SSLInv, InOrder
    <2>4. End(packets[i]) <= NextSeq(packets[i].call)
      BY <1>8 DEF Addressed
    <2> QED BY <1>1, <1>4, <2>2, <2>3, <2>4 DEF Precedes
  <1>11. ASSUME NEW i \in DOMAIN packets' PROVE (i \in DOMAIN packets /\ packets'[i] = packets[i]) \/ packets'[i] = p
    <2>1. CASE packets' = packets
      BY <2>1, <1>11
    <2>2. CASE packets' = Append(packets, p)
      <3>1. DOMAIN packets' = 1..(Len(packets) + 1) /\ \A j \in DOMAIN packets : packets'[j] = packets[j]
        BY <1>5, <2>2, AppendFacts
      <3>2. packets'[Len(packets) + 1] = p
        BY <1>5, <2>2, AppendFacts
      <3>3. i \in DOMAIN packets \/ i = Len(packets) + 1
        BY <1>6, <3>1
      <3> QED BY <3>1, <3>2, <3>3
    <2> QED BY <1>1, <2>1, <2>2
  <1>12. ASSUME NEW i \in DOMAIN packets', NEW j \in DOMAIN packets', i < j
         PROVE  i \in DOMAIN packets /\ packets'[i] = packets[i] /\ (packets'[j] = p \/ (j \in DOMAIN packets /\ packets'[j] = packets[j]))
    <2>1. CASE packets' = packets
      BY <2>1
    <2>2. CASE packets' = Append(packets, p)
      <3>1. DOMAIN packets' = 1..(Len(packets) + 1) /\ \A l \in DOMAIN packets : packets'[l] = packets[l]
        BY <1>5, <2>2, AppendFacts
      <3>2. i \in DOMAIN packets
        BY <1>6, <1>12, <3>1
      <3>3. (j \in DOMAIN packets /\ packets'[j] = packets[j]) \/ packets'[j] = p
        BY <1>11
      <3> QED BY <3>1, <3>2, <3>3
    <2> QED BY <1>1, <2>1, <2>2
  <1>13. ChannelOrdered'
    <2>1. \A i \in DOMAIN packets' : Addressed(packets[i])'
      BY <1>6, <1>7, <1>8, <1>9, <1>11 DEF Addressed
    <2>2. ASSUME NEW i \in DOMAIN packets', NEW j \in DOMAIN packets', i < j PROVE Follows(packets'[i], packets'[j])
      BY <1>10, <1>12, <2>2 DEF SSLInv, ChannelOrdered
    <2> QED BY <2>1, <2>2 DEF ChannelOrdered, Follows, SameStream, End
  <1>14. ASSUME NEW k \in DOMAIN pool, NEW h \in Sides PROVE HalfMark(k, h, pool[k][h])'
    <2> DEFINE half == pool[k][h]
    <2>1. half \in Halves /\ pool' = pool
      BY <1>1 DEF SSLInv, PoolOK
    <2>2. HalfMark(k, h, half)
      BY DEF SSLInv, PoolOrdered
    <2>3. \A a \in CallIds : Carries(k, h, a) => Upto(half, NextSeq(a)) /\ Upto(half, NextSeq(a)')
      <3> HIDE DEF half
      <3> QED BY <1>3, <2>1, <2>2, UptoMore DEF HalfMark
    <2>4. ASSUME NEW j \in DOMAIN packets', Carries(k, h, packets'[j].call) PROVE Upto(half, packets'[j].seq)
      <3> HIDE DEF half
      <3>1. CASE packets'[j] = p
        BY <1>1, <1>2, <2>3, <2>4, <3>1
      <3>2. CASE j \in DOMAIN packets /\ packets'[j] = packets[j]
        BY <2>2, <2>4, <3>2 DEF HalfMark
      <3> QED BY <1>11, <3>1, <3>2
    <2> QED BY <2>1, <2>3, <2>4 DEF HalfMark, Upto
  <1>15. PoolOrdered'
    <2>1. \A k \in DOMAIN pool, h \in Sides : PagesOrdered(k, h, pool[k][h])
      BY DEF SSLInv, PoolOrdered
    <2> QED BY <1>1, <1>14, <2>1 DEF PoolOrdered, PagesOrdered
  <1>16. PoolOK'
    <2>1. PoolOK
      BY DEF SSLInv
    <2> QED BY <1>1, <2>1, Zenon DEF PoolOK
  <1>17. StreamOrdered'
    <2>1. StreamOrdered /\ delivered' = delivered
      BY <1>1 DEF SSLInv
    <2> QED BY <2>1 DEF StreamOrdered
  <1> QED BY <1>13, <1>15, <1>16, <1>17

-----------------------------------------------------------------------------
(***************************************************************************)
(* The reassembler.                                                        *)
(***************************************************************************)
\* A step that leaves the channel, the pool and the stream alone.
LEMMA PoolSame ==
    ASSUME SSLInv, UNCHANGED <<packets, pool, delivered, seqs>>
    PROVE  ChannelOrdered' /\ PoolOK' /\ PoolOrdered' /\ StreamOrdered'
  <1>1. ChannelOrdered /\ PoolOK /\ PoolOrdered /\ StreamOrdered
    BY DEF SSLInv
  <1>2. seqNums' = seqNums /\ packets' = packets /\ pool' = pool /\ delivered' = delivered
    BY DEF seqs
  <1>n. \A a : NextSeq(a)' = NextSeq(a)
    BY <1>2 DEF NextSeq, CurrentSeq
  <1>3. ChannelOrdered'
    BY <1>1, <1>2, <1>n DEF ChannelOrdered, Addressed
  <1>4. PoolOK'
    BY <1>1, <1>2, Zenon DEF PoolOK
  <1>5. PoolOrdered'
    BY <1>1, <1>2, <1>n DEF PoolOrdered, HalfMark
  <1>6. StreamOrdered'
    BY <1>1, <1>2 DEF StreamOrdered
  <1> QED BY <1>3, <1>4, <1>5, <1>6

\* What half h of connection k is, before it has a packet too.
HalfAt(k, h) == IF k \in DOMAIN pool THEN pool[k][h] ELSE NewHalf

LEMMA HalfInLine ==
    ASSUME SSLInv, NEW k, NEW h \in Sides
    PROVE  /\ InLine(HalfAt(k, h)) /\ HalfAt(k, h) \in Halves
           /\ PagesOrdered(k, h, HalfAt(k, h)) /\ HalfMark(k, h, HalfAt(k, h))
  <1>1. CASE k \in DOMAIN pool
    <2> DEFINE half == pool[k][h]
    <2>1. half \in Halves /\ PagesOrdered(k, h, half) /\ HalfMark(k, h, half)
      BY <1>1 DEF SSLInv, PoolOK, PoolOrdered
    <2>2. HalfAt(k, h) = half
      BY <1>1 DEF HalfAt
    <2> HIDE DEF half
    <2>3. half.pages # <<>> => half.started
      <3>1. half.pages # <<>> => 1 \in DOMAIN half.pages
        BY <2>1, HalfTypes
      <3> QED BY <2>1, <3>1 DEF PagesOrdered
    <2>4. InLine(half)
      BY <2>1, <2>3 DEF InLine, PagesOrdered
    <2> QED BY <2>1, <2>2, <2>4
  <1>2. CASE k \notin DOMAIN pool
    <2>1. HalfAt(k, h) = NewHalf /\ NewHalf.pages = <<>> /\ ~NewHalf.started
      BY <1>2 DEF HalfAt, NewHalf
    <2>2. NewHalf \in Halves
      BY DEF NewHalf, Halves
    <2>3. DOMAIN NewHalf.pages = {}
      BY <2>1
    <2> HIDE DEF NewHalf
    <2> QED BY <2>1, <2>2, <2>3 DEF InLine, PagesOrdered, HalfMark, Upto
  <1> QED BY <1>1, <1>2

ChunkOf(k, h, p) == Chunk(k, h, ServerPort, [pkt |-> p, skip |-> 0])

\* Packet p is delivered, or waits, in half h of connection k.
Takes(k, h, p) ==
  /\ HalfAt(k, h).pages = <<>>
  /\ pool'[k][h] = [started |-> TRUE, next |-> End(p), pages |-> <<>>]
  /\ delivered' = delivered \o <<ChunkOf(k, h, p)>>
Keeps(k, h, p) ==
  /\ HalfAt(k, h).started /\ p.seq > HalfAt(k, h).next
  /\ pool'[k][h] = [started |-> TRUE, next |-> HalfAt(k, h).next, pages |-> Append(HalfAt(k, h).pages, p)]
  /\ delivered' = delivered
\* The half and the connection are those of the packet's stream; the others are as before.
GoesTo(k, h, p) ==
  /\ h \in Sides /\ Carries(k, h, p.call) /\ k \in Keys /\ Reversed(k) \notin DOMAIN pool
  /\ Upto(HalfAt(k, h), p.seq)
  /\ DOMAIN pool' = DOMAIN pool \union {k} /\ pool' = [l \in DOMAIN pool' |-> pool'[l]]
  /\ \A l \in DOMAIN pool' : pool'[l] \in [Sides -> Halves]
  /\ \A l \in DOMAIN pool', g \in Sides : ~(l = k /\ g = h) => pool'[l][g] = HalfAt(l, g)
  /\ Takes(k, h, p) \/ Keeps(k, h, p)

LEMMA ChannelHead ==
    ASSUME SSLTypes, SSLInv, SSLReceive, NEW p, p = Head(packets)
    PROVE  /\ p \in SSLPackets /\ Addressed(p) /\ 1 \in DOMAIN packets /\ packets[1] = p
           /\ \A j \in DOMAIN packets' : j + 1 \in DOMAIN packets /\ packets'[j] = packets[j + 1] /\ Follows(p, packets'[j])
           /\ \A i \in DOMAIN packets : i = 1 \/ (i - 1 \in DOMAIN packets' /\ packets'[i - 1] = packets[i])
  <1>1. packets \in Seq(SSLPackets) /\ packets # <<>> /\ packets' = Tail(packets)
    BY DEF SSLTypes, ChanOK, SSLReceive
  <1>2. /\ Len(packets) \in Nat /\ Len(packets) >= 1 /\ DOMAIN packets = 1..Len(packets) /\ packets[1] = p /\ packets[1] \in SSLPackets
        /\ DOMAIN packets' = 1..(Len(packets) - 1) /\ \A j \in 1..(Len(packets) - 1) : packets'[j] = packets[j + 1]
    <2> HIDE DEF SSLPackets
    <2> QED BY <1>1
  <1>3. 1 \in DOMAIN packets /\ \A j \in DOMAIN packets' : j + 1 \in DOMAIN packets /\ 1 < j + 1
    BY <1>2
  <1>4. Addressed(p)
    BY <1>2, <1>3 DEF SSLInv, ChannelOrdered
  <1>5. \A j \in DOMAIN packets' : Follows(p, packets[j + 1])
    BY <1>2, <1>3 DEF SSLInv, ChannelOrdered
  <1>6. \A i \in DOMAIN packets : i = 1 \/ (i - 1 \in DOMAIN packets' /\ packets'[i - 1] = packets[i])
    BY <1>2
  <1> QED BY <1>2, <1>3, <1>4, <1>5, <1>6

LEMMA ReceiveEffect ==
    ASSUME SSLTypes, SSLInv, SSLReceive, NEW p, p = Head(packets)
    PROVE  \E k, h : GoesTo(k, h, p)
  <1>1. p \in SSLPackets /\ Addressed(p) /\ 1 \in DOMAIN packets /\ packets[1] = p
    BY ChannelHead
  <1>2. PICK k : k = KeyOf(pool, p)
    OBVIOUS
  <1>3. PICK h : h = HalfOf(pool, p)
    OBVIOUS
  <1>4. Tuple(p) = FourTuple(p.call) /\ p.len > 0 /\ PoolOK
    BY <1>1 DEF Addressed, SSLInv
  <1>5. k \in {Client(p.call.t), Reversed(Client(p.call.t))} /\ h \in Sides /\ Carries(k, h, p.call) /\ Reversed(k) \notin DOMAIN pool
    BY <1>1, <1>2, <1>3, <1>4, HomeOf
  <1>6. k \in Keys
    <2>1. p.call.t \in Threads
      BY <1>1, PacketNumbers, CallFacts
    <2> QED BY <1>5, <2>1 DEF Keys
  <1>7. InLine(HalfAt(k, h)) /\ HalfAt(k, h) \in Halves /\ HalfMark(k, h, HalfAt(k, h))
    BY <1>5, HalfInLine
  <1>8. Upto(HalfAt(k, h), p.seq)
    BY <1>1, <1>5, <1>7 DEF HalfMark
  <1>9. PICK conn : conn = ConnOf(pool, p)
    OBVIOUS
  <1>10. conn \in [Sides -> Halves] /\ \A g \in Sides : conn[g] = HalfAt(k, g)
    <2>1. CASE k \in DOMAIN pool
      BY <1>2, <1>4, <1>9, <2>1 DEF ConnOf, PoolOK, HalfAt
    <2>2. CASE k \notin DOMAIN pool
      <3>1. conn = [first |-> NewHalf, other |-> NewHalf]
        BY <1>2, <1>9, <2>2 DEF ConnOf, NewConn
      <3>2. NewHalf \in Halves
        BY DEF NewHalf, Halves
      <3> HIDE DEF NewHalf
      <3>3. conn \in [Sides -> Halves] /\ \A g \in Sides : conn[g] = NewHalf
        BY <3>1, <3>2 DEF Sides
      <3> QED BY <2>2, <3>3 DEF HalfAt
    <2> QED BY <2>1, <2>2
  <1>11. PICK r : r = Assembled(HalfAt(k, h), p)
    OBVIOUS
  <1>12. PICK conn2 : conn2 = [conn EXCEPT ![h] = Half(r)]
    OBVIOUS
  <1>13. pool' = Insert(pool, k, conn2)
    <2>1. conn[h] = HalfAt(k, h)
      BY <1>5, <1>10
    <2>2. pool' = Insert(pool, k, [conn EXCEPT ![h] = Half(Assembled(conn[h], p))])
      BY <1>2, <1>3, <1>9, Zenon DEF SSLReceive, PoolAfter
    <2> QED BY <1>11, <1>12, <2>1, <2>2
  <1>14. delivered' = delivered \o Chunks(k, h, ServerPort, r.out)
    <2>1. delivered' = delivered \o Delivers(pool, p, ServerPort)
      BY DEF SSLReceive
    <2>2. conn[h] = HalfAt(k, h)
      BY <1>5, <1>10
    <2>3. Delivers(pool, p, ServerPort) = Chunks(k, h, ServerPort, Assembled(conn[h], p).out)
      BY <1>2, <1>3, <1>9, Zenon DEF Delivers
    <2> QED BY <1>11, <2>1, <2>2, <2>3
  <1>15. \/ /\ HalfAt(k, h).pages = <<>>
            /\ r = [next |-> End(p), pages |-> <<>>, out |-> <<[pkt |-> p, skip |-> 0]>>]
         \/ /\ HalfAt(k, h).started /\ p.seq > HalfAt(k, h).next
            /\ r = [next |-> HalfAt(k, h).next, pages |-> Append(HalfAt(k, h).pages, p), out |-> <<>>]
    BY <1>1, <1>4, <1>7, <1>8, <1>11, AssembledIs
  <1>16. Half(r) = [started |-> TRUE, next |-> r.next, pages |-> r.pages]
    BY DEF Half
  <1>17. Half(r) \in Halves
    <2>1. /\ HalfAt(k, h).next \in Nat /\ HalfAt(k, h).pages \in Seq(SSLPackets)
          /\ End(p) \in Nat /\ <<>> \in Seq(SSLPackets)
      BY <1>1, <1>7, HalfTypes, PacketNumbers
    <2>2. Append(HalfAt(k, h).pages, p) \in Seq(SSLPackets)
      BY <1>1, <2>1, AppendFacts
    <2>3. r.next \in Nat /\ r.pages \in Seq(SSLPackets)
      <3>1. \/ r.next = End(p) /\ r.pages = <<>>
            \/ r.next = HalfAt(k, h).next /\ r.pages = Append(HalfAt(k, h).pages, p)
        BY <1>15
      <3> HIDE DEF SSLPackets
      <3> QED BY <2>1, <2>2, <3>1
    <2> HIDE DEF SSLPackets
    <2> QED BY <1>16, <2>3 DEF Halves
  <1>18. conn2 \in [Sides -> Halves] /\ conn2[h] = Half(r) /\ \A g \in Sides : g # h => conn2[g] = HalfAt(k, g)
    <2> HIDE DEF Halves, Half, HalfAt
    <2> QED BY <1>5, <1>10, <1>12, <1>17
  <1>19. /\ DOMAIN pool' = DOMAIN pool \union {k} /\ pool' = [l \in DOMAIN pool' |-> pool'[l]]
         /\ pool'[k] = conn2 /\ \A l \in DOMAIN pool : l # k => pool'[l] = pool[l]
    BY <1>13 DEF Insert
  <1>20. \A l \in DOMAIN pool' : pool'[l] \in [Sides -> Halves]
    BY <1>4, <1>18, <1>19 DEF PoolOK
  <1>21. \A l \in DOMAIN pool', g \in Sides : ~(l = k /\ g = h) => pool'[l][g] = HalfAt(l, g)
    <2> SUFFICES ASSUME NEW l \in DOMAIN pool', NEW g \in Sides, ~(l = k /\ g = h) PROVE pool'[l][g] = HalfAt(l, g)
      OBVIOUS
    <2>1. CASE l = k
      BY <1>18, <1>19, <2>1
    <2>2. CASE l # k
      BY <1>19, <2>2 DEF HalfAt
    <2> QED BY <2>1, <2>2
  <1>22. pool'[k][h] = [started |-> TRUE, next |-> r.next, pages |-> r.pages]
    BY <1>16, <1>18, <1>19
  <1>23. Takes(k, h, p) \/ Keeps(k, h, p)
    <2>1. CASE /\ HalfAt(k, h).pages = <<>>
               /\ r = [next |-> End(p), pages |-> <<>>, out |-> <<[pkt |-> p, skip |-> 0]>>]
      <3>1. r.next = End(p) /\ r.pages = <<>> /\ r.out = <<[pkt |-> p, skip |-> 0]>>
        BY <2>1
      <3>2. Chunks(k, h, ServerPort, r.out) = <<ChunkOf(k, h, p)>>
        <4>1. DOMAIN r.out = 1..1 /\ \A i \in 1..1 : r.out[i] = [pkt |-> p, skip |-> 0]
          BY <3>1
        <4>2. Chunks(k, h, ServerPort, r.out) = [i \in 1..1 |-> ChunkOf(k, h, p)]
          BY <4>1 DEF Chunks, ChunkOf
        <4>3. \A v : [i \in 1..1 |-> v] = <<v>>
          OBVIOUS
        <4> QED BY <4>2, <4>3
      <3> QED BY <1>14, <1>22, <2>1, <3>1, <3>2 DEF Takes
    <2>2. CASE /\ HalfAt(k, h).started /\ p.seq > HalfAt(k, h).next
               /\ r = [next |-> HalfAt(k, h).next, pages |-> Append(HalfAt(k, h).pages, p), out |-> <<>>]
      <3>1. r.next = HalfAt(k, h).next /\ r.pages = Append(HalfAt(k, h).pages, p) /\ r.out = <<>>
        BY <2>2
      <3>2. Chunks(k, h, ServerPort, r.out) = <<>>
        BY <3>1 DEF Chunks
      <3>3. delivered \in Seq(StreamChunks)
        BY DEF SSLInv, StreamOrdered, ChunksOrdered
      <3>4. delivered' = delivered
        BY <1>14, <3>2, <3>3
      <3> QED BY <1>22, <2>2, <3>1, <3>4 DEF Keeps
    <2> QED BY <1>15, <2>1, <2>2
  <1> QED BY <1>5, <1>6, <1>8, <1>19, <1>20, <1>21, <1>23 DEF GoesTo

\* Sequences of chunks, one behind the other.
LEMMA ConcatFacts ==
    ASSUME NEW K, NEW s \in Seq(K), NEW u \in Seq(K)
    PROVE  /\ s \o u \in Seq(K) /\ DOMAIN s = 1..Len(s) /\ DOMAIN u = 1..Len(u) /\ Len(s) \in Nat /\ Len(u) \in Nat
           /\ DOMAIN (s \o u) = 1..(Len(s) + Len(u))
           /\ \A i \in DOMAIN s : i \in DOMAIN (s \o u) /\ (s \o u)[i] = s[i]
           /\ \A i \in DOMAIN u : Len(s) + i \in DOMAIN (s \o u) /\ (s \o u)[Len(s) + i] = u[i]
           /\ \A i \in DOMAIN (s \o u) : i \in DOMAIN s \/ (i - Len(s) \in DOMAIN u /\ i > Len(s) /\ (s \o u)[i] = u[i - Len(s)])
  <1>1. s \o u \in Seq(K) /\ DOMAIN s = 1..Len(s) /\ DOMAIN u = 1..Len(u) /\ Len(s) \in Nat /\ Len(u) \in Nat
    OBVIOUS
  <1>2. DOMAIN (s \o u) = 1..(Len(s) + Len(u))
    OBVIOUS
  <1>3. \A i \in DOMAIN (s \o u) : (s \o u)[i] = IF i <= Len(s) THEN s[i] ELSE u[i - Len(s)]
    BY <1>2
  <1>4. \A i \in DOMAIN s : i \in DOMAIN (s \o u) /\ (s \o u)[i] = s[i]
    BY <1>1, <1>2, <1>3
  <1>5. \A i \in DOMAIN u : Len(s) + i \in DOMAIN (s \o u) /\ (s \o u)[Len(s) + i] = u[i]
    <2> TAKE i \in DOMAIN u
    <2>1. Len(s) + i \in DOMAIN (s \o u) /\ ~(Len(s) + i <= Len(s)) /\ (Len(s) + i) - Len(s) = i
      BY <1>1, <1>2
    <2> QED BY <1>3, <2>1
  <1>6. \A i \in DOMAIN (s \o u) : i \in DOMAIN s \/ (i - Len(s) \in DOMAIN u /\ i > Len(s) /\ (s \o u)[i] = u[i - Len(s)])
    BY <1>1, <1>2, <1>3
  <1> QED BY <1>1, <1>2, <1>4, <1>5, <1>6

LEMMA ChunksConcat ==
    ASSUME NEW s, NEW u, ChunksOrdered(s), ChunksOrdered(u),
           \A i \in DOMAIN s, j \in DOMAIN u : Precedes(s[i].pkt.call, u[j].pkt.call)
    PROVE  ChunksOrdered(s \o u)
  <1> DEFINE w == s \o u
  <1>1. s \in Seq(StreamChunks) /\ u \in Seq(StreamChunks)
    BY DEF ChunksOrdered
  <1>2. /\ w \in Seq(StreamChunks) /\ Len(s) \in Nat /\ DOMAIN w = 1..(Len(s) + Len(u)) /\ DOMAIN s = 1..Len(s) /\ DOMAIN u = 1..Len(u)
        /\ \A i \in DOMAIN s : w[i] = s[i]
        /\ \A i \in DOMAIN w : i \in DOMAIN s \/ (i - Len(s) \in DOMAIN u /\ i > Len(s) /\ w[i] = u[i - Len(s)])
    BY <1>1, ConcatFacts
  <1>n. Len(u) \in Nat
    BY <1>1
  <1> HIDE DEF w
  <1>3. \A i \in DOMAIN w : ChunkOK(w[i])
    BY <1>2 DEF ChunksOrdered
  <1>4. ASSUME NEW i \in DOMAIN w, NEW j \in DOMAIN w, i < j PROVE Precedes(w[i].pkt.call, w[j].pkt.call)
    <2>1. CASE j \in DOMAIN s
      <3>1. i \in DOMAIN s
        BY <1>2, <1>n, <1>4, <2>1
      <3> QED BY <1>2, <1>4, <2>1, <3>1 DEF ChunksOrdered
    <2>2. CASE i \in DOMAIN s /\ j \notin DOMAIN s
      BY <1>2, <2>2
    <2>3. CASE i \notin DOMAIN s
      <3>1. j \notin DOMAIN s
        BY <1>2, <1>n, <1>4, <2>3
      <3>2. i - Len(s) \in DOMAIN u /\ j - Len(s) \in DOMAIN u /\ i - Len(s) < j - Len(s)
        BY <1>2, <1>n, <1>4, <2>3, <3>1
      <3> QED BY <1>2, <2>3, <3>1, <3>2 DEF ChunksOrdered
    <2> QED BY <2>1, <2>2, <2>3
  <1>5. ChunksOrdered(w)
    BY <1>2, <1>3, <1>4 DEF ChunksOrdered
  <1> QED BY <1>5 DEF w

\* What the handler is given of a packet.
LEMMA ChunkFacts ==
    ASSUME NEW k \in Keys, NEW h \in Sides, NEW p \in SSLPackets, Carries(k, h, p.call)
    PROVE  ChunkOf(k, h, p) \in StreamChunks /\ ChunkOK(ChunkOf(k, h, p)) /\ ChunkOf(k, h, p).pkt = p
  <1> DEFINE c == ChunkOf(k, h, p)
  <1>1. /\ c = [pkt |-> p, skip |-> 0, conn |-> ConnID(k, ServerPort),
                fromClient |-> (h = "first") = FirstFromClient(k, ServerPort)]
    BY DEF ChunkOf, Chunk
  <1>2. c.pkt = p /\ c.conn = ConnID(k, ServerPort) /\ c.fromClient = ((h = "first") = FirstFromClient(k, ServerPort))
    BY <1>1
  <1>3. ConnID(k, ServerPort) \in Keys
    <2>1. PICK t \in Threads : k \in {Client(t), Reversed(Client(t))}
      BY DEF Keys
    <2>2. Reversed(Reversed(Client(t))) = Client(t)
      BY ClientFacts
    <2>3. ConnID(k, ServerPort) \in {Client(t), Reversed(Client(t))}
      BY <2>1, <2>2 DEF ConnID
    <2> QED BY <2>3 DEF Keys
  <1>4. c \in StreamChunks
    <2> DEFINE b == ((h = "first") = FirstFromClient(k, ServerPort))
               n == ConnID(k, ServerPort)
    <2>1. b \in BOOLEAN /\ n \in Keys
      BY <1>3
    <2>2. c = [pkt |-> p, skip |-> 0, conn |-> n, fromClient |-> b]
      BY <1>1
    <2> HIDE DEF b, n, c, SSLPackets, Keys
    <2> QED BY <2>1, <2>2 DEF StreamChunks
  <1>5. ChunkOK(c)
    <2> HIDE DEF c
    <2> SUFFICES ASSUME ServerPort = 5432 PROVE c.conn = Client(p.call.t) /\ c.fromClient = (p.call.d = "read")
      BY <1>2 DEF ChunkOK
    <2>1. c.conn = Client(p.call.t)
      BY <1>2 DEF Carries
    <2>2. FirstFromClient(k, 5432) \in BOOLEAN
      BY DEF FirstFromClient
    <2>3. p.call.d = "read" <=> (h = "first" <=> FirstFromClient(k, 5432))
      BY DEF Carries
    <2>4. ((h = "first") = FirstFromClient(k, 5432)) = (p.call.d = "read")
      BY <2>2, <2>3
    <2>5. c.fromClient = ((h = "first") = FirstFromClient(k, 5432))
      BY <1>2
    <2> QED BY <2>1, <2>4, <2>5
  <1> QED BY <1>2, <1>4, <1>5 DEF c

\* What the channel and the sequence numbers say of the packets behind the first.
LEMMA ReceiveMarks ==
    ASSUME Backends, SSLTypes, SSLInv, SSLReceive, NEW p, p = Head(packets), NEW k, NEW h, Carries(k, h, p.call)
    PROVE  /\ \A a \in CallIds : NextSeq(a)' = NextSeq(a) /\ NextSeq(a) \in Nat
           /\ \A a \in CallIds : Carries(k, h, a) => End(p) <= NextSeq(a)
           /\ \A j \in DOMAIN packets' : Carries(k, h, packets'[j].call) => End(p) <= packets'[j].seq
           /\ \A j \in DOMAIN packets' : packets'[j] \in SSLPackets
  <1>1. /\ p \in SSLPackets /\ Addressed(p)
        /\ \A j \in DOMAIN packets' : j + 1 \in DOMAIN packets /\ packets'[j] = packets[j + 1] /\ Follows(p, packets'[j])
    BY ChannelHead
  <1>2. UNCHANGED seqNums
    BY DEF SSLReceive, seqs
  <1>3. \A a : NextSeq(a)' = NextSeq(a) /\ NextSeq(a) \in Nat
    BY <1>2 DEF NextSeq, CurrentSeq, SSLTypes, SeqsOK
  <1>4. packets \in Seq(SSLPackets)
    BY DEF SSLTypes, ChanOK
  <1>5. \A j \in DOMAIN packets' : packets'[j] \in SSLPackets
    BY <1>1, <1>4, SeqFacts
  <1>6. p.call \in CallIds /\ \A j \in DOMAIN packets' : packets'[j].call \in CallIds
    BY <1>1, <1>5, PacketNumbers
  <1>7. \A a \in CallIds : Carries(k, h, a) => SameStream(p.call, a)
    BY <1>6, CarriesSame
  <1>8. \A a \in CallIds : Carries(k, h, a) => End(p) <= NextSeq(a)
    BY <1>1, <1>7 DEF Addressed, SameStream, NextSeq
  <1>9. \A j \in DOMAIN packets' : Carries(k, h, packets'[j].call) => End(p) <= packets'[j].seq
    BY <1>1, <1>6, <1>7 DEF Follows
  <1> QED BY <1>3, <1>5, <1>8, <1>9

LEMMA ReceivePool ==
    ASSUME Backends, SSLTypes, SSLInv, SSLReceive, NEW p, p = Head(packets), NEW k, NEW h, GoesTo(k, h, p)
    PROVE  ChannelOrdered' /\ PoolOK' /\ PoolOrdered'
  <1>1. /\ p \in SSLPackets /\ Addressed(p) /\ 1 \in DOMAIN packets /\ packets[1] = p
        /\ \A j \in DOMAIN packets' : j + 1 \in DOMAIN packets /\ packets'[j] = packets[j + 1]
    BY ChannelHead
  <1>2. /\ \A a \in CallIds : NextSeq(a)' = NextSeq(a) /\ NextSeq(a) \in Nat
        /\ \A a \in CallIds : Carries(k, h, a) => End(p) <= NextSeq(a)
        /\ \A j \in DOMAIN packets' : Carries(k, h, packets'[j].call) => End(p) <= packets'[j].seq
        /\ \A j \in DOMAIN packets' : packets'[j] \in SSLPackets
    BY ReceiveMarks DEF GoesTo
  <1>p. p.len \in Nat /\ p.seq \in Nat /\ End(p) = p.seq + p.len /\ p.call \in CallIds /\ p.len > 0
    BY <1>1, PacketNumbers DEF Addressed
  <1>3. ChannelOrdered'
    <2>0. \A j \in DOMAIN packets' : j \in Nat
      <3>1. packets \in Seq(SSLPackets) /\ packets' = Tail(packets) /\ packets # <<>>
        BY DEF SSLTypes, ChanOK, SSLReceive
      <3> HIDE DEF SSLPackets
      <3> QED BY <3>1
    <2>1. ASSUME NEW j \in DOMAIN packets' PROVE Addressed(packets[j])'
      <3>1. Addressed(packets[j + 1])
        BY <1>1 DEF SSLInv, ChannelOrdered
      <3>2. Addressed(packets'[j])
        BY <1>1, <3>1
      <3>3. packets'[j].call \in CallIds
        BY <1>2, PacketNumbers
      <3> QED BY <1>2, <3>2, <3>3 DEF Addressed
    <2>2. ASSUME NEW i \in DOMAIN packets', NEW j \in DOMAIN packets', i < j PROVE Follows(packets'[i], packets'[j])
      <3>1. i + 1 < j + 1
        BY <2>0, <2>2
      <3>2. Follows(packets[i + 1], packets[j + 1])
        BY <1>1, <3>1 DEF SSLInv, ChannelOrdered
      <3> QED BY <1>1, <3>2
    <2> QED BY <2>1, <2>2 DEF ChannelOrdered, Follows, SameStream, End
  <1>4. PoolOK'
    <2>1. /\ k \in Keys /\ Reversed(k) \notin DOMAIN pool /\ DOMAIN pool' = DOMAIN pool \union {k}
          /\ pool' = [l \in DOMAIN pool' |-> pool'[l]] /\ \A l \in DOMAIN pool' : pool'[l] \in [Sides -> Halves]
      BY DEF GoesTo
    <2>2. \A l \in DOMAIN pool : l \in Keys /\ Reversed(l) \notin DOMAIN pool
      BY DEF SSLInv, PoolOK
    <2>3. \A l \in Keys : Reversed(Reversed(l)) = l /\ Reversed(l) # l
      <3> SUFFICES ASSUME NEW t \in Threads, NEW l \in {Client(t), Reversed(Client(t))} PROVE Reversed(Reversed(l)) = l /\ Reversed(l) # l
        BY DEF Keys
      <3> QED BY ClientFacts
    <2>4. \A l \in DOMAIN pool' : l \in Keys /\ Reversed(l) \notin DOMAIN pool'
      BY <2>1, <2>2, <2>3
    <2> QED BY <2>1, <2>4, Zenon DEF PoolOK
  <1>5. ASSUME NEW l \in DOMAIN pool', NEW g \in Sides, ~(l = k /\ g = h)
        PROVE  PagesOrdered(l, g, pool'[l][g]) /\ HalfMark(l, g, pool[l][g])'
    <2>1. pool'[l][g] = HalfAt(l, g)
      BY <1>5 DEF GoesTo
    <2>2. PagesOrdered(l, g, HalfAt(l, g)) /\ HalfMark(l, g, HalfAt(l, g))
      BY HalfInLine
    <2>3. \A j \in DOMAIN packets' : Carries(l, g, packets'[j].call) => Upto(HalfAt(l, g), packets'[j].seq)
      BY <1>1, <2>2 DEF HalfMark
    <2>4. \A a \in CallIds : Carries(l, g, a) => Upto(HalfAt(l, g), NextSeq(a)')
      BY <1>2, <2>2 DEF HalfMark
    <2>5. PICK half : half = HalfAt(l, g)
      OBVIOUS
    <2> QED BY <2>1, <2>2, <2>3, <2>4, <2>5 DEF HalfMark, Upto
  <1>6. PICK old : old = HalfAt(k, h)
    OBVIOUS
  <1>7. PICK new : new = pool'[k][h]
    OBVIOUS
  <1>o. h \in Sides /\ Carries(k, h, p.call) /\ Upto(old, p.seq) /\ (Takes(k, h, p) \/ Keeps(k, h, p)) /\ k \in DOMAIN pool'
    BY <1>6 DEF GoesTo
  <1>8. old \in Halves /\ PagesOrdered(k, h, old) /\ HalfMark(k, h, old)
    BY <1>6, <1>o, HalfInLine
  <1>9. /\ \A a \in CallIds : Carries(k, h, a) => Upto(old, NextSeq(a))
        /\ \A j \in DOMAIN packets' : Carries(k, h, packets'[j].call) => Upto(old, packets'[j].seq)
    BY <1>1, <1>8 DEF HalfMark
  <1>10. ASSUME NEW m \in Nat, Upto(old, m), End(p) <= m PROVE Upto(new, m)
    <2>1. CASE Takes(k, h, p)
      <3>1. new = [started |-> TRUE, next |-> End(p), pages |-> <<>>]
        BY <1>7, <2>1 DEF Takes
      <3>2. new.next = End(p) /\ new.pages = <<>> /\ DOMAIN new.pages = {}
        BY <3>1
      <3> QED BY <1>10, <3>2 DEF Upto
    <2>2. CASE Keeps(k, h, p)
      <3>1. new = [started |-> TRUE, next |-> old.next, pages |-> Append(old.pages, p)] /\ old.started
        BY <1>6, <1>7, <2>2 DEF Keeps
      <3>2. new.next = old.next /\ new.pages = Append(old.pages, p)
        BY <3>1
      <3>3. old.pages \in Seq(SSLPackets)
        BY <1>8, HalfTypes
      <3>4. \A i \in DOMAIN new.pages : new.pages[i] = p \/ (i \in DOMAIN old.pages /\ new.pages[i] = old.pages[i])
        <4>1. /\ Len(old.pages) \in Nat /\ DOMAIN old.pages = 1..Len(old.pages) /\ DOMAIN new.pages = 1..(Len(old.pages) + 1)
              /\ \A i \in DOMAIN old.pages : new.pages[i] = old.pages[i]
              /\ new.pages[Len(old.pages) + 1] = p
          BY <1>1, <3>2, <3>3, AppendFacts
        <4>2. \A i \in 1..(Len(old.pages) + 1) : i \in 1..Len(old.pages) \/ i = Len(old.pages) + 1
          BY <4>1
        <4> QED BY <4>1, <4>2
      <3>5. \A i \in DOMAIN new.pages : End(new.pages[i]) <= m
        BY <1>10, <3>4 DEF Upto
      <3> QED BY <1>10, <3>1, <3>2, <3>5 DEF Upto
    <2> QED BY <1>o, <2>1, <2>2
  <1>11. HalfMark(k, h, pool[k][h])'
    <2>1. \A a \in CallIds : Carries(k, h, a) => Upto(new, NextSeq(a)')
      BY <1>2, <1>9, <1>10
    <2>2. \A j \in DOMAIN packets' : Carries(k, h, packets'[j].call) => Upto(new, packets'[j].seq)
      BY <1>2, <1>9, <1>10, PacketNumbers
    <2> QED BY <1>7, <2>1, <2>2 DEF HalfMark, Upto
  <1>12. PagesOrdered(k, h, new)
    <2>1. CASE Takes(k, h, p)
      <3>1. new = [started |-> TRUE, next |-> End(p), pages |-> <<>>]
        BY <1>7, <2>1 DEF Takes
      <3>2. DOMAIN new.pages = {}
        BY <3>1
      <3> QED BY <3>2 DEF PagesOrdered
    <2>2. CASE Keeps(k, h, p)
      <3>1. new = [started |-> TRUE, next |-> old.next, pages |-> Append(old.pages, p)] /\ old.started /\ p.seq > old.next
        BY <1>6, <1>7, <2>2 DEF Keeps
      <3>2. new.next = old.next /\ new.pages = Append(old.pages, p) /\ new.started
        BY <3>1
      <3>3. old.pages \in Seq(SSLPackets) /\ \A i \in DOMAIN old.pages : old.pages[i] \in SSLPackets
        BY <1>8, HalfTypes
      <3>4. /\ Len(old.pages) \in Nat /\ DOMAIN old.pages = 1..Len(old.pages) /\ DOMAIN new.pages = 1..(Len(old.pages) + 1)
            /\ \A i \in DOMAIN old.pages : new.pages[i] = old.pages[i]
            /\ new.pages[Len(old.pages) + 1] = p
        BY <1>1, <3>2, <3>3, AppendFacts
      <3>5. \A i \in DOMAIN new.pages : i \in DOMAIN old.pages \/ i = Len(old.pages) + 1
        BY <3>4
      <3>6. ASSUME NEW i \in DOMAIN new.pages
            PROVE  /\ Carries(k, h, new.pages[i].call) /\ new.pages[i].len > 0
                   /\ new.started /\ new.pages[i].seq > new.next
        <4>1. CASE i \in DOMAIN old.pages
          BY <1>8, <3>2, <3>4, <4>1 DEF PagesOrdered
        <4>2. CASE i = Len(old.pages) + 1
          BY <1>o, <1>p, <3>1, <3>2, <3>4, <4>2
        <4> QED BY <3>5, <4>1, <4>2
      <3>7. ASSUME NEW i \in DOMAIN old.pages PROVE old.pages[i].call.n < p.call.n /\ End(old.pages[i]) <= p.seq
        <4>1. k \in DOMAIN pool /\ old = pool[k][h]
          BY <1>6, <3>1 DEF HalfAt, NewHalf
        <4>2. Place(2, old.pages[i].call) /\ Place(3, p.call)
          BY <1>1, <1>o, <4>1 DEF Place, InPages, InChannel
        <4>3. 2 \in 1..6 /\ 3 \in 1..6 /\ 2 < 3 /\ old.pages[i].call \in CallIds
          BY <3>3, PacketNumbers
        <4>4. Precedes(old.pages[i].call, p.call)
          BY <1>p, <4>2, <4>3 DEF SSLInv, InOrder
        <4>5. Carries(k, h, old.pages[i].call)
          BY <1>8 DEF PagesOrdered
        <4>6. SameStream(old.pages[i].call, p.call)
          BY <1>o, <1>p, <4>3, <4>5, CarriesSame
        <4> QED BY <1>o, <4>4, <4>6 DEF Precedes, Upto
      <3>8. ASSUME NEW i \in DOMAIN new.pages, NEW j \in DOMAIN new.pages, i < j
            PROVE  new.pages[i].call.n < new.pages[j].call.n /\ End(new.pages[i]) <= new.pages[j].seq
        <4>1. i \in DOMAIN old.pages
          BY <3>4, <3>8
        <4>2. CASE j \in DOMAIN old.pages
          BY <1>8, <3>4, <3>8, <4>1, <4>2 DEF PagesOrdered
        <4>3. CASE j = Len(old.pages) + 1
          BY <3>4, <3>7, <4>1, <4>3
        <4> QED BY <3>5, <4>2, <4>3
      <3> QED BY <3>6, <3>8 DEF PagesOrdered
    <2> QED BY <1>o, <2>1, <2>2
  <1>13. PoolOrdered'
    <2> SUFFICES ASSUME NEW l \in DOMAIN pool', NEW g \in Sides
                 PROVE  PagesOrdered(l, g, pool'[l][g]) /\ HalfMark(l, g, pool[l][g])'
      BY DEF PoolOrdered, PagesOrdered, Carries, End
    <2>1. CASE l = k /\ g = h
      BY <1>7, <1>11, <1>12, <2>1
    <2>2. CASE ~(l = k /\ g = h)
      BY <1>5, <2>2
    <2> QED BY <2>1, <2>2
  <1> QED BY <1>3, <1>4, <1>13

LEMMA ReceiveStream ==
    ASSUME SSLTypes, SSLInv, SSLReceive, NEW p, p = Head(packets), NEW k, NEW h, GoesTo(k, h, p)
    PROVE  StreamOrdered'
  <1>1. p \in SSLPackets /\ 1 \in DOMAIN packets /\ packets[1] = p /\ p.call \in CallIds
    BY ChannelHead, PacketNumbers
  <1>2. ChunksOrdered(delivered)
    BY DEF SSLInv, StreamOrdered
  <1>3. CASE Keeps(k, h, p)
    BY <1>2, <1>3 DEF Keeps, StreamOrdered
  <1>4. CASE Takes(k, h, p)
    <2> DEFINE c == ChunkOf(k, h, p)
               u == <<c>>
    <2>1. c \in StreamChunks /\ ChunkOK(c) /\ c.pkt = p
      BY <1>1, ChunkFacts DEF GoesTo
    <2> HIDE DEF c
    <2>2. u \in Seq(StreamChunks) /\ \A i \in DOMAIN u : i = 1 /\ u[i] = c
      <3> HIDE DEF StreamChunks
      <3> QED BY <2>1
    <2>3. \A i, j \in DOMAIN u : ~(i < j)
      BY <2>2
    <2>u. delivered' = delivered \o u
      BY <1>4 DEF Takes, c
    <2> HIDE DEF u
    <2>4. ChunksOrdered(u)
      BY <2>1, <2>2, <2>3 DEF ChunksOrdered
    <2>5. ASSUME NEW i \in DOMAIN delivered, NEW j \in DOMAIN u PROVE Precedes(delivered[i].pkt.call, u[j].pkt.call)
      <3>1. delivered[i] \in StreamChunks
        BY <1>2, SeqFacts DEF ChunksOrdered
      <3>2. delivered[i].pkt.call \in CallIds
        BY <3>1, PacketNumbers DEF StreamChunks
      <3>3. Place(1, delivered[i].pkt.call) /\ Place(3, p.call)
        BY <1>1 DEF Place, InStream, InChannel
      <3>4. 1 \in 1..6 /\ 3 \in 1..6 /\ 1 < 3
        OBVIOUS
      <3>5. Precedes(delivered[i].pkt.call, p.call)
        BY <1>1, <3>2, <3>3, <3>4 DEF SSLInv, InOrder
      <3> QED BY <2>1, <2>2, <3>5
    <2>6. ChunksOrdered(delivered \o u)
      BY <1>2, <2>4, <2>5, ChunksConcat
    <2> QED BY <2>u, <2>6 DEF StreamOrdered
  <1> QED BY <1>3, <1>4 DEF GoesTo

\* The calls of the stream, when a chunk is added to it.
LEMMA StreamGrows ==
    ASSUME SSLInv, NEW c \in StreamChunks, NEW x, c.pkt.call = x, delivered' = delivered \o <<c>>, NEW a
    PROVE  InStream(a)' <=> InStream(a) \/ a = x
  <1> DEFINE u == <<c>>
  <1>1. delivered \in Seq(StreamChunks)
    BY DEF SSLInv, StreamOrdered, ChunksOrdered
  <1>2. u \in Seq(StreamChunks) /\ 1 \in DOMAIN u /\ \A i \in DOMAIN u : u[i] = c
    <2> HIDE DEF StreamChunks
    <2> QED OBVIOUS
  <1>u. delivered' = delivered \o u
    OBVIOUS
  <1> HIDE DEF u
  <1>3. /\ \A i \in DOMAIN delivered : i \in DOMAIN delivered' /\ delivered'[i] = delivered[i]
        /\ \A i \in DOMAIN u : Len(delivered) + i \in DOMAIN delivered' /\ delivered'[Len(delivered) + i] = u[i]
        /\ \A i \in DOMAIN delivered' : i \in DOMAIN delivered \/ (i - Len(delivered) \in DOMAIN u /\ delivered'[i] = u[i - Len(delivered)])
    BY <1>1, <1>2, <1>u, ConcatFacts
  <1>4. InStream(a) => InStream(a)'
    BY <1>3 DEF InStream
  <1>5. InStream(x)'
    <2>1. Len(delivered) + 1 \in DOMAIN delivered' /\ delivered'[Len(delivered) + 1].pkt.call = x
      BY <1>2, <1>3
    <2> QED BY <2>1 DEF InStream
  <1>6. ASSUME InStream(a)' PROVE InStream(a) \/ a = x
    <2>1. PICK i \in DOMAIN delivered' : delivered'[i].pkt.call = a
      BY <1>6 DEF InStream
    <2> QED BY <1>2, <1>3, <2>1 DEF InStream
  <1> QED BY <1>4, <1>5, <1>6

LEMMA ReceiveFlow ==
    ASSUME Backends, SSLTypes, SSLInv, SSLReceive, NEW p, p = Head(packets), NEW k, NEW h, GoesTo(k, h, p)
    PROVE  Flow'
  <1>1. /\ p \in SSLPackets /\ 1 \in DOMAIN packets /\ packets[1] = p
        /\ \A j \in DOMAIN packets' : j + 1 \in DOMAIN packets /\ packets'[j] = packets[j + 1] /\ Follows(p, packets'[j])
        /\ \A i \in DOMAIN packets : i = 1 \/ (i - 1 \in DOMAIN packets' /\ packets'[i - 1] = packets[i])
    BY ChannelHead
  <1>x. PICK x : x = p.call
    OBVIOUS
  <1>2. x \in CallIds
    BY <1>1, <1>x, PacketNumbers
  <1>3. UNCHANGED calls /\ lost \subseteq lost' /\ UNCHANGED <<ring, held, thr>>
    BY DEF SSLReceive
  <1>4. \A a : /\ InExitProbe(a)' <=> InExitProbe(a)
               /\ InRing(a)' <=> InRing(a)
               /\ InHand(a)' <=> InHand(a)
    BY <1>3 DEF InExitProbe, InRing, InHand
  <1>5. \A a : /\ InChannel(a)' => InChannel(a) /\ Precedes(x, a)
               /\ InChannel(a) => InChannel(a)' \/ a = x
    <2>1. ASSUME NEW a, InChannel(a)' PROVE InChannel(a) /\ Precedes(x, a)
      <3>1. PICK j \in DOMAIN packets' : packets'[j].call = a
        BY <2>1 DEF InChannel
      <3> QED BY <1>1, <1>x, <3>1 DEF InChannel, Follows, Precedes
    <2>2. ASSUME NEW a, InChannel(a) PROVE InChannel(a)' \/ a = x
      <3>1. PICK i \in DOMAIN packets : packets[i].call = a
        BY <2>2 DEF InChannel
      <3> QED BY <1>1, <1>x, <3>1 DEF InChannel
    <2> QED BY <2>1, <2>2
  <1>6. Place(3, x)
    BY <1>1, <1>x DEF Place, InChannel
  <1>7. 1 \in 1..6 /\ 2 \in 1..6 /\ 3 \in 1..6 /\ 1 < 3 /\ 2 < 3
    OBVIOUS
  <1>8. ASSUME NEW s \in 1..6, NEW a \in CallIds, 2 < s, Place(s, a)' PROVE Precedes(x, a)
    <2>1. CASE s = 3
      BY <1>5, <1>8, <2>1 DEF Place
    <2>2. CASE s > 3
      <3>1. Place(s, a)
        BY <1>4, <1>8, <2>2 DEF Place
      <3> QED BY <1>2, <1>6, <1>7, <2>2, <3>1 DEF SSLInv, InOrder
    <2> QED BY <1>8, <2>1, <2>2
  <1>9. /\ h \in Sides /\ k \in Keys /\ Carries(k, h, x) /\ k \in DOMAIN pool' /\ DOMAIN pool' = DOMAIN pool \union {k}
        /\ Reversed(k) \notin DOMAIN pool
        /\ \A l \in DOMAIN pool', g \in Sides : ~(l = k /\ g = h) => pool'[l][g] = HalfAt(l, g)
    BY <1>x DEF GoesTo
  \* A page of another half was there before, and is of another stream.
  <1>10. ASSUME NEW a, NEW l \in DOMAIN pool', NEW g \in Sides, ~(l = k /\ g = h),
                NEW i \in DOMAIN pool'[l][g].pages, pool'[l][g].pages[i].call = a
         PROVE  InPages(a) /\ ~SameStream(x, a)
    <2>1. pool'[l][g] = HalfAt(l, g)
      BY <1>9, <1>10
    <2>2. l \in DOMAIN pool /\ HalfAt(l, g) = pool[l][g]
      <3>1. HalfAt(l, g) # NewHalf
        BY <1>10, <2>1 DEF NewHalf
      <3> QED BY <3>1 DEF HalfAt
    <2>3. InPages(a)
      BY <1>10, <2>1, <2>2 DEF InPages
    <2>4. PagesOrdered(l, g, HalfAt(l, g)) /\ HalfAt(l, g) \in Halves
      BY HalfInLine
    <2>5. Carries(l, g, a) /\ a \in CallIds
      BY <1>10, <2>1, <2>4, HalfTypes, PacketNumbers DEF PagesOrdered
    <2>6. l \in Keys /\ l # Reversed(k)
      BY <1>9, <2>2 DEF SSLInv, PoolOK
    <2>7. SameStream(x, a) => l = k /\ g = h
      BY <1>2, <1>9, <2>5, <2>6, OneHome DEF SameStream
    <2> QED BY <1>10, <2>3, <2>7
  <1>11. ASSUME NEW a, InPages(a) PROVE InPages(a)' \/ \E i \in DOMAIN HalfAt(k, h).pages : HalfAt(k, h).pages[i].call = a
    <2>1. PICK l \in DOMAIN pool, g \in Sides : \E i \in DOMAIN pool[l][g].pages : pool[l][g].pages[i].call = a
      BY <1>11 DEF InPages
    <2>2. pool[l][g] = HalfAt(l, g)
      BY DEF HalfAt
    <2>3. CASE l = k /\ g = h
      BY <2>1, <2>2, <2>3
    <2>4. CASE ~(l = k /\ g = h)
      <3>1. l \in DOMAIN pool' /\ pool'[l][g] = pool[l][g]
        BY <1>9, <2>2, <2>4
      <3> QED BY <2>1, <3>1 DEF InPages
    <2> QED BY <2>3, <2>4
  <1>12. Flow
    BY DEF SSLInv, Flow
  <1>13. ASSUME Takes(k, h, p) PROVE Flow'
    <2>1. HalfAt(k, h).pages = <<>> /\ pool'[k][h] = [started |-> TRUE, next |-> End(p), pages |-> <<>>]
          /\ delivered' = delivered \o <<ChunkOf(k, h, p)>>
      BY <1>13 DEF Takes
    <2>2. ChunkOf(k, h, p) \in StreamChunks /\ ChunkOf(k, h, p).pkt.call = x
      BY <1>1, <1>x, <1>9, ChunkFacts
    <2>3. \A a : InStream(a)' <=> InStream(a) \/ a = x
      BY <2>1, <2>2, StreamGrows
    <2>4. DOMAIN HalfAt(k, h).pages = {} /\ DOMAIN pool'[k][h].pages = {}
      BY <2>1
    <2>5. \A a : InPages(a) => InPages(a)'
      BY <1>11, <2>4
    <2>6. ASSUME NEW a, InPages(a)' PROVE InPages(a) /\ Precedes(x, a)
      <3>0. PICK l \in DOMAIN pool', g \in Sides : \E i \in DOMAIN pool'[l][g].pages : pool'[l][g].pages[i].call = a
        BY <2>6 DEF InPages
      <3>1. PICK i \in DOMAIN pool'[l][g].pages : pool'[l][g].pages[i].call = a
        BY <3>0
      <3>2. ~(l = k /\ g = h)
        BY <2>4
      <3> QED BY <1>10, <3>1, <3>2 DEF Precedes
    <2>7. Place(1, x)'
      <3>1. InStream(x)'
        BY <2>3
      <3> QED BY <3>1 DEF Place
    <2>8. \A s \in 1..6, a \in CallIds : Place(s, a)' => Place(s, a) \/ (s = 1 /\ a = x)
      BY <1>4, <1>5, <2>3, <2>6 DEF Place
    <2>9. \A s \in 1..6, a \in CallIds : Place(s, a) => Place(s, a)' \/ a = x
      BY <1>4, <1>5, <2>3, <2>5 DEF Place
    <2>10. ASSUME NEW s \in 1..6, NEW a \in CallIds, 1 < s, Place(s, a)' PROVE Precedes(x, a)
      <3>1. CASE s = 2
        BY <2>6, <2>10, <3>1 DEF Place
      <3>2. CASE s > 2
        BY <1>8, <2>10, <3>2
      <3> QED BY <2>10, <3>1, <3>2
    <2> HIDE DEF Place, Flow
    <2> QED BY <1>2, <1>3, <1>6, <1>7, <1>12, <2>7, <2>8, <2>9, <2>10, FlowMove
  <1>14. ASSUME Keeps(k, h, p) PROVE Flow'
    <2> DEFINE old == HalfAt(k, h)
    <2>1. /\ pool'[k][h] = [started |-> TRUE, next |-> old.next, pages |-> Append(old.pages, p)] /\ old.started
          /\ delivered' = delivered
      BY <1>14 DEF Keeps
    <2>2. pool'[k][h].pages = Append(old.pages, p)
      BY <2>1
    <2>3. old.pages \in Seq(SSLPackets)
      BY <1>9, HalfInLine, HalfTypes
    <2> DEFINE new == Append(old.pages, p)
    <2>4. /\ Len(old.pages) \in Nat /\ DOMAIN old.pages = 1..Len(old.pages) /\ DOMAIN new = 1..(Len(old.pages) + 1)
          /\ \A i \in DOMAIN old.pages : new[i] = old.pages[i]
          /\ new[Len(old.pages) + 1] = p
      BY <1>1, <2>3, AppendFacts
    <2>5. k \in DOMAIN pool /\ old = pool[k][h]
      BY <2>1 DEF HalfAt, NewHalf
    <2> HIDE DEF new, old
    <2>n. pool'[k][h].pages = new
      BY <2>2 DEF new
    <2>6. /\ Len(old.pages) + 1 \in DOMAIN new
          /\ \A i \in DOMAIN old.pages : i \in DOMAIN new
          /\ \A i \in DOMAIN new : i \in DOMAIN old.pages \/ i = Len(old.pages) + 1
      BY <2>4
    <2>7. InPages(x)'
      BY <1>9, <1>x, <2>4, <2>6, <2>n DEF InPages
    <2>8. ASSUME NEW a, InPages(a) PROVE InPages(a)'
      <3>1. CASE \E i \in DOMAIN old.pages : old.pages[i].call = a
        BY <1>9, <2>4, <2>6, <2>n, <3>1 DEF InPages
      <3> QED BY <1>11, <2>8, <3>1 DEF old
    <2>9. ASSUME NEW a, InPages(a)' PROVE InPages(a) \/ a = x
      <3>0. PICK l \in DOMAIN pool', g \in Sides : \E i \in DOMAIN pool'[l][g].pages : pool'[l][g].pages[i].call = a
        BY <2>9 DEF InPages
      <3>1. PICK i \in DOMAIN pool'[l][g].pages : pool'[l][g].pages[i].call = a
        BY <3>0
      <3>2. CASE l = k /\ g = h
        <4>1. i \in DOMAIN new /\ new[i].call = a
          BY <2>n, <3>1, <3>2
        <4>2. CASE i \in DOMAIN old.pages
          BY <1>9, <2>4, <2>5, <4>1, <4>2 DEF InPages
        <4>3. CASE i = Len(old.pages) + 1
          BY <1>x, <2>4, <4>1, <4>3
        <4> QED BY <2>6, <4>1, <4>2, <4>3
      <3>3. CASE ~(l = k /\ g = h)
        BY <1>10, <3>1, <3>3
      <3> QED BY <3>2, <3>3
    <2>10. \A a : InStream(a)' <=> InStream(a)
      BY <2>1 DEF InStream
    <2>11. Place(2, x)'
      BY <2>7 DEF Place
    <2>12. \A s \in 1..6, a \in CallIds : Place(s, a)' => Place(s, a) \/ (s = 2 /\ a = x)
      BY <1>4, <1>5, <2>9, <2>10 DEF Place
    <2>13. \A s \in 1..6, a \in CallIds : Place(s, a) => Place(s, a)' \/ a = x
      BY <1>4, <1>5, <2>8, <2>10 DEF Place
    <2> HIDE DEF Place, Flow
    <2> QED BY <1>2, <1>3, <1>6, <1>7, <1>8, <1>12, <2>11, <2>12, <2>13, FlowMove
  <1> QED BY <1>13, <1>14 DEF GoesTo

-----------------------------------------------------------------------------
\* What the idle ticker releases of half h: all its pages.
Released(key, h) == [i \in DOMAIN pool[key][h].pages |-> ChunkOf(key, h, pool[key][h].pages[i])]

LEMMA ReleasedIs ==
    ASSUME SSLInv, NEW key \in DOMAIN pool, NEW h \in Sides
    PROVE  /\ Chunks(key, h, ServerPort, Flushed(pool[key][h]).out) = Released(key, h)
           /\ Flushed(pool[key][h]).pages = <<>> /\ Flushed(pool[key][h]).next \in Nat
           /\ \A m \in Nat : Upto(pool[key][h], m) /\ pool[key][h].started => Flushed(pool[key][h]).next <= m
           /\ ~pool[key][h].started => pool[key][h].pages = <<>>
  <1>1. PICK half : half = pool[key][h]
    OBVIOUS
  <1>2. InLine(half) /\ half \in Halves
    BY <1>1, HalfInLine DEF HalfAt
  <1>3. PICK ps : ps = half.pages
    OBVIOUS
  <1>4. PICK n : n = Len(ps)
    OBVIOUS
  <1>5. /\ half.next \in Nat /\ n \in Nat /\ DOMAIN ps = 1..n
        /\ \A i \in DOMAIN ps : ps[i] \in SSLPackets
    BY <1>2, <1>3, <1>4, HalfTypes
  <1>6. Flushed(half) = [next |-> IF n = 0 THEN half.next ELSE End(ps[n]), pages |-> <<>>,
                         out |-> [i \in 1..n |-> [pkt |-> ps[i], skip |-> 0]]]
    BY <1>2, <1>3, <1>4, OfferFlush
  <1>7. /\ Flushed(half).next = IF n = 0 THEN half.next ELSE End(ps[n])
        /\ Flushed(half).pages = <<>>
        /\ Flushed(half).out = [i \in 1..n |-> [pkt |-> ps[i], skip |-> 0]]
    BY <1>6
  <1>8. Chunks(key, h, ServerPort, Flushed(half).out) = [i \in 1..n |-> ChunkOf(key, h, ps[i])]
    BY <1>7 DEF Chunks, ChunkOf
  <1>9. n # 0 => n \in DOMAIN ps /\ End(ps[n]) \in Nat
    <2> SUFFICES ASSUME n # 0 PROVE n \in DOMAIN ps /\ End(ps[n]) \in Nat
      OBVIOUS
    <2>1. n \in DOMAIN ps
      BY <1>5
    <2>2. ps[n] \in SSLPackets
      BY <1>5, <2>1
    <2>3. ps[n].seq \in Nat /\ ps[n].len \in Nat /\ End(ps[n]) = ps[n].seq + ps[n].len
      BY <2>2, PacketNumbers
    <2> QED BY <2>1, <2>3
  <1>10. Flushed(half).next \in Nat
    BY <1>5, <1>7, <1>9
  <1>11. ASSUME NEW m \in Nat, Upto(half, m), half.started PROVE Flushed(half).next <= m
    BY <1>3, <1>7, <1>9, <1>11 DEF Upto
  <1>12. ~half.started => half.pages = <<>>
    BY <1>2 DEF InLine
  <1>13. Released(key, h) = [i \in 1..n |-> ChunkOf(key, h, ps[i])]
    BY <1>1, <1>3, <1>5 DEF Released
  <1> QED BY <1>1, <1>7, <1>8, <1>10, <1>11, <1>12, <1>13

LEMMA ReleasedOrdered ==
    ASSUME SSLInv, NEW key \in DOMAIN pool, NEW h \in Sides
    PROVE  /\ ChunksOrdered(Released(key, h))
           /\ DOMAIN Released(key, h) = DOMAIN pool[key][h].pages
           /\ \A i \in DOMAIN Released(key, h) : /\ Released(key, h)[i].pkt = pool[key][h].pages[i]
                                                 /\ pool[key][h].pages[i].call \in CallIds
                                                 /\ Carries(key, h, pool[key][h].pages[i].call)
                                                 /\ Place(2, pool[key][h].pages[i].call)
  <1>1. PICK ps : ps = pool[key][h].pages
    OBVIOUS
  <1>2. pool[key][h] \in Halves /\ PagesOrdered(key, h, pool[key][h]) /\ key \in Keys
    BY HalfInLine DEF HalfAt, SSLInv, PoolOK
  <1>3. Len(ps) \in Nat /\ DOMAIN ps = 1..Len(ps) /\ \A i \in DOMAIN ps : ps[i] \in SSLPackets
    BY <1>1, <1>2, HalfTypes
  <1>4. \A i \in DOMAIN ps : Carries(key, h, ps[i].call)
    BY <1>1, <1>2 DEF PagesOrdered
  <1>5. \A i, j \in DOMAIN ps : i < j => ps[i].call.n < ps[j].call.n
    BY <1>1, <1>2 DEF PagesOrdered
  <1>6. \A i \in DOMAIN ps : ChunkOf(key, h, ps[i]) \in StreamChunks /\ ChunkOK(ChunkOf(key, h, ps[i])) /\ ChunkOf(key, h, ps[i]).pkt = ps[i]
    BY <1>2, <1>3, <1>4, ChunkFacts
  <1>7. PICK cs : cs = Released(key, h)
    OBVIOUS
  <1>8. DOMAIN cs = DOMAIN ps /\ \A i \in DOMAIN ps : cs[i] = ChunkOf(key, h, ps[i])
    BY <1>1, <1>7 DEF Released
  <1>9. cs \in Seq(StreamChunks)
    <2>1. cs = [i \in 1..Len(ps) |-> ChunkOf(key, h, ps[i])]
      BY <1>1, <1>3, <1>7 DEF Released
    <2>2. \A i \in 1..Len(ps) : ChunkOf(key, h, ps[i]) \in StreamChunks
      BY <1>3, <1>6
    <2> HIDE DEF StreamChunks, ChunkOf
    <2> QED BY <1>3, <2>1, <2>2
  <1>10. ChunksOrdered(cs)
    <2>1. \A i, j \in DOMAIN cs : i < j => Precedes(cs[i].pkt.call, cs[j].pkt.call)
      BY <1>5, <1>6, <1>8 DEF Precedes
    <2> QED BY <1>6, <1>8, <1>9, <2>1 DEF ChunksOrdered
  <1>11. \A i \in DOMAIN ps : Place(2, ps[i].call)
    BY <1>1 DEF Place, InPages
  <1>12. \A i \in DOMAIN ps : ps[i].call \in CallIds
    BY <1>3, PacketNumbers
  <1> QED BY <1>1, <1>4, <1>6, <1>7, <1>8, <1>10, <1>11, <1>12

LEMMA FlushEffect ==
    ASSUME SSLInv, NEW key \in DOMAIN pool, SSLFlush(key)
    PROVE  /\ delivered' = delivered \o (Released(key, "first") \o Released(key, "other"))
           /\ pool' = [l \in DOMAIN pool' |-> pool'[l]] /\ DOMAIN pool' \subseteq DOMAIN pool
           /\ \A l \in DOMAIN pool : l # key => l \in DOMAIN pool' /\ pool'[l] = pool[l]
           /\ key \in DOMAIN pool' =>
                /\ pool'[key] \in [Sides -> Halves]
                /\ \A h \in Sides : /\ pool'[key][h].pages = <<>>
                                    /\ \A m \in Nat : Upto(pool[key][h], m) => Upto(pool'[key][h], m)
           /\ UNCHANGED <<ring, held, packets, thr, calls, lost, seqs>>
  <1>c. PICK conn : conn = pool[key]
    OBVIOUS
  <1>1. conn \in [Sides -> Halves] /\ pool = [l \in DOMAIN pool |-> pool[l]]
    BY <1>c DEF SSLInv, PoolOK
  <1>2. \A h \in Sides :
           /\ Chunks(key, h, ServerPort, Flushed(conn[h]).out) = Released(key, h)
           /\ Flushed(conn[h]).pages = <<>> /\ Flushed(conn[h]).next \in Nat
           /\ \A m \in Nat : Upto(conn[h], m) /\ conn[h].started => Flushed(conn[h]).next <= m
           /\ ~conn[h].started => conn[h].pages = <<>>
    BY <1>c, ReleasedIs
  <1>3. delivered' = delivered \o (Released(key, "first") \o Released(key, "other"))
    <2>1. conn.first = conn["first"] /\ conn.other = conn["other"] /\ "first" \in Sides /\ "other" \in Sides
      BY DEF Sides
    <2>2. delivered' = delivered \o (Chunks(key, "first", ServerPort, Flushed(conn.first).out)
                                       \o Chunks(key, "other", ServerPort, Flushed(conn.other).out))
      BY <1>c DEF SSLFlush, FlushDelivers
    <2> QED BY <1>2, <2>1, <2>2
  <1>4. UNCHANGED <<ring, held, packets, thr, calls, lost, seqs>>
    BY DEF SSLFlush, source
  <1>5. CASE pool' = PoolWithout(pool, key)
    <2>1. pool' = [l \in DOMAIN pool \ {key} |-> pool[l]]
      BY <1>5 DEF PoolWithout
    <2> QED BY <1>3, <1>4, <2>1
  <1>6. CASE pool' = PoolFlushed(pool, key)
    <2>1. PICK new : new = [side \in Sides |-> IF conn[side].started THEN Half(Flushed(conn[side])) ELSE conn[side]]
      OBVIOUS
    <2>2. DOMAIN conn = Sides
      BY <1>1
    <2>3. pool' = [pool EXCEPT ![key] = new]
      BY <1>6, <1>c, <2>1, <2>2 DEF PoolFlushed
    <2>4. pool' = [l \in DOMAIN pool' |-> pool'[l]] /\ DOMAIN pool' = DOMAIN pool /\ pool'[key] = new /\ \A l \in DOMAIN pool : l # key => pool'[l] = pool[l]
      BY <1>1, <2>3
    <2>5. ASSUME NEW h \in Sides
          PROVE  /\ new[h] \in Halves /\ new[h].pages = <<>>
                 /\ \A m \in Nat : Upto(conn[h], m) => Upto(new[h], m)
      <3>1. CASE ~conn[h].started
        BY <1>1, <1>2, <2>1, <3>1
      <3>2. CASE conn[h].started
        <4>1. PICK f : f = Flushed(conn[h])
          OBVIOUS
        <4>2. f.pages = <<>> /\ f.next \in Nat /\ \A m \in Nat : Upto(conn[h], m) => f.next <= m
          BY <1>2, <3>2, <4>1
        <4>3. new[h] = [started |-> TRUE, next |-> f.next, pages |-> f.pages]
          BY <2>1, <3>2, <4>1 DEF Half
        <4>4. new[h].pages = <<>> /\ new[h].next = f.next /\ DOMAIN new[h].pages = {}
          BY <4>2, <4>3
        <4>5. new[h] \in Halves
          <5>1. <<>> \in Seq(SSLPackets)
            OBVIOUS
          <5> HIDE DEF SSLPackets
          <5> QED BY <4>2, <4>3, <5>1 DEF Halves
        <4> QED BY <4>2, <4>4, <4>5 DEF Upto
      <3> QED BY <3>1, <3>2
    <2>6. new \in [Sides -> Halves]
      <3>1. new = [side \in Sides |-> new[side]]
        BY <2>1
      <3> HIDE DEF Halves
      <3> QED BY <2>5, <3>1
    <2> QED BY <1>3, <1>4, <1>c, <2>4, <2>5, <2>6
  <1> QED BY <1>5, <1>6 DEF SSLFlush

LEMMA FlushPool ==
    ASSUME SSLTypes, SSLInv, NEW key \in DOMAIN pool, SSLFlush(key)
    PROVE  ChannelOrdered' /\ PoolOK' /\ PoolOrdered'
  <1>0. /\ pool' = [l \in DOMAIN pool' |-> pool'[l]] /\ DOMAIN pool' \subseteq DOMAIN pool
        /\ \A l \in DOMAIN pool : l # key => l \in DOMAIN pool' /\ pool'[l] = pool[l]
        /\ key \in DOMAIN pool' =>
             /\ pool'[key] \in [Sides -> Halves]
             /\ \A h \in Sides : /\ pool'[key][h].pages = <<>>
                                 /\ \A m \in Nat : Upto(pool[key][h], m) => Upto(pool'[key][h], m)
        /\ UNCHANGED <<packets, seqs>>
    BY FlushEffect
  <1>n. \A a : NextSeq(a)' = NextSeq(a) /\ NextSeq(a) \in Nat
    BY <1>0 DEF NextSeq, CurrentSeq, SSLTypes, SeqsOK, seqs
  <1>1. ChannelOrdered'
    BY <1>0, <1>n DEF SSLInv, ChannelOrdered, Addressed
  <1>2. PoolOK'
    <2>1. \A l \in DOMAIN pool : pool[l] \in [Sides -> Halves] /\ Reversed(l) \notin DOMAIN pool /\ l \in Keys
      BY DEF SSLInv, PoolOK
    <2>2. \A l \in DOMAIN pool' : pool'[l] \in [Sides -> Halves] /\ Reversed(l) \notin DOMAIN pool' /\ l \in Keys
      BY <1>0, <2>1
    <2> QED BY <1>0, <2>2, Zenon DEF PoolOK
  <1>3. ASSUME NEW l \in DOMAIN pool', NEW h \in Sides PROVE PagesOrdered(l, h, pool'[l][h]) /\ HalfMark(l, h, pool[l][h])'
    <2>1. PagesOrdered(l, h, pool[l][h]) /\ HalfMark(l, h, pool[l][h])
      BY <1>0 DEF SSLInv, PoolOrdered
    <2>2. PICK half : half = pool'[l][h]
      OBVIOUS
    <2>3. \A m \in Nat : Upto(pool[l][h], m) => Upto(half, m)
      BY <1>0, <2>2
    <2>4. PagesOrdered(l, h, half)
      <3>1. CASE l = key
        <4>1. DOMAIN half.pages = {}
          BY <1>0, <2>2, <3>1
        <4> QED BY <4>1 DEF PagesOrdered
      <3>2. CASE l # key
        BY <1>0, <2>1, <2>2, <3>2
      <3> QED BY <3>1, <3>2
    <2>5. \A j \in DOMAIN packets : packets[j].seq \in Nat
      <3>1. packets \in Seq(SSLPackets)
        BY DEF SSLTypes, ChanOK
      <3> QED BY <3>1, SeqFacts, PacketNumbers
    <2>6. \A j \in DOMAIN packets' : Carries(l, h, packets'[j].call) => Upto(half, packets'[j].seq)
      BY <1>0, <2>1, <2>3, <2>5 DEF HalfMark
    <2>7. \A a \in CallIds : Carries(l, h, a) => Upto(half, NextSeq(a)')
      BY <1>n, <2>1, <2>3 DEF HalfMark
    <2> QED BY <2>2, <2>4, <2>6, <2>7 DEF HalfMark, Upto
  <1>4. PoolOrdered'
    BY <1>3 DEF PoolOrdered, PagesOrdered, Carries, End
  <1> QED BY <1>1, <1>2, <1>4

\* The two directions of a connection are different streams.
LEMMA OtherDirection ==
    ASSUME NEW k, NEW a \in CallIds, NEW b \in CallIds, Carries(k, "first", a), Carries(k, "other", b)
    PROVE  ~SameStream(a, b)
  <1>1. FirstFromClient(k, 5432) \in BOOLEAN
    BY DEF FirstFromClient
  <1>2. (a.d = "read") <=> FirstFromClient(k, 5432)
    BY <1>1 DEF Carries
  <1>3. (b.d = "read") <=> ~FirstFromClient(k, 5432)
    BY <1>1 DEF Carries
  <1> QED BY <1>2, <1>3 DEF SameStream

\* What is released, in the order of its delivery.
CallOf(u, a) == \E i \in DOMAIN u : u[i].pkt.call = a
WaitsAt(key, p) == \E h \in Sides : \E j \in DOMAIN pool[key][h].pages : p = pool[key][h].pages[j]
PageOf(key, a) == \E h \in Sides : \E i \in DOMAIN pool[key][h].pages : pool[key][h].pages[i].call = a

LEMMA FlushedChunks ==
    ASSUME SSLInv, NEW key \in DOMAIN pool, NEW u, u = Released(key, "first") \o Released(key, "other")
    PROVE  /\ ChunksOrdered(u)
           /\ \A a : CallOf(u, a) <=> PageOf(key, a)
           /\ \A i \in DOMAIN u : Place(2, u[i].pkt.call) /\ u[i].pkt.call \in CallIds /\ \E h \in Sides : Carries(key, h, u[i].pkt.call)
           /\ \A i \in DOMAIN u : WaitsAt(key, u[i].pkt)
  <1>1. PICK f : f = Released(key, "first")
    OBVIOUS
  <1>2. PICK o : o = Released(key, "other")
    OBVIOUS
  <1>3. "first" \in Sides /\ "other" \in Sides /\ \A h \in Sides : h = "first" \/ h = "other"
    BY DEF Sides
  <1>4. PICK pf : pf = pool[key]["first"].pages
    OBVIOUS
  <1>5. PICK po : po = pool[key]["other"].pages
    OBVIOUS
  <1>6. /\ ChunksOrdered(f) /\ DOMAIN f = DOMAIN pf
        /\ \A i \in DOMAIN f : f[i].pkt = pf[i] /\ pf[i].call \in CallIds /\ Carries(key, "first", pf[i].call) /\ Place(2, pf[i].call)
    BY <1>1, <1>3, <1>4, ReleasedOrdered
  <1>7. /\ ChunksOrdered(o) /\ DOMAIN o = DOMAIN po
        /\ \A i \in DOMAIN o : o[i].pkt = po[i] /\ po[i].call \in CallIds /\ Carries(key, "other", po[i].call) /\ Place(2, po[i].call)
    BY <1>2, <1>3, <1>5, ReleasedOrdered
  <1>8. \A i \in DOMAIN f, j \in DOMAIN o : Precedes(f[i].pkt.call, o[j].pkt.call)
    BY <1>6, <1>7, OtherDirection DEF Precedes
  <1>9. u = f \o o
    BY <1>1, <1>2
  <1>10. ChunksOrdered(u)
    BY <1>6, <1>7, <1>8, <1>9, ChunksConcat
  <1>11. f \in Seq(StreamChunks) /\ o \in Seq(StreamChunks)
    BY <1>6, <1>7 DEF ChunksOrdered
  <1>12. /\ \A i \in DOMAIN f : i \in DOMAIN u /\ u[i] = f[i]
         /\ \A i \in DOMAIN o : Len(f) + i \in DOMAIN u /\ u[Len(f) + i] = o[i]
         /\ \A i \in DOMAIN u : i \in DOMAIN f \/ (i - Len(f) \in DOMAIN o /\ u[i] = o[i - Len(f)])
    <2> DEFINE w == f \o o
    <2>1. /\ \A i \in DOMAIN f : i \in DOMAIN w /\ w[i] = f[i]
          /\ \A i \in DOMAIN o : Len(f) + i \in DOMAIN w /\ w[Len(f) + i] = o[i]
          /\ \A i \in DOMAIN w : i \in DOMAIN f \/ (i - Len(f) \in DOMAIN o /\ w[i] = o[i - Len(f)])
      BY <1>11, ConcatFacts
    <2>2. u = w
      BY <1>9
    <2> HIDE DEF w
    <2> QED BY <2>1, <2>2
  <1>13. ASSUME NEW i \in DOMAIN u
         PROVE  \/ i \in DOMAIN pf /\ u[i].pkt = pf[i]
                \/ i - Len(f) \in DOMAIN po /\ u[i].pkt = po[i - Len(f)]
    BY <1>6, <1>7, <1>12
  <1>14. \A i \in DOMAIN u : Place(2, u[i].pkt.call) /\ u[i].pkt.call \in CallIds /\ \E h \in Sides : Carries(key, h, u[i].pkt.call)
    BY <1>3, <1>6, <1>7, <1>13
  <1>15. ASSUME NEW i \in DOMAIN u PROVE \E h \in Sides : \E j \in DOMAIN pool[key][h].pages : u[i].pkt = pool[key][h].pages[j]
    BY <1>3, <1>4, <1>5, <1>13
  <1>16. ASSUME NEW a, NEW i \in DOMAIN u, u[i].pkt.call = a
         PROVE  \E h \in Sides : \E j \in DOMAIN pool[key][h].pages : pool[key][h].pages[j].call = a
    BY <1>15, <1>16
  <1>17. ASSUME NEW a, NEW h \in Sides, NEW i \in DOMAIN pool[key][h].pages, pool[key][h].pages[i].call = a
         PROVE  \E j \in DOMAIN u : u[j].pkt.call = a
    <2>1. CASE h = "first"
      <3>1. i \in DOMAIN f /\ f[i].pkt.call = a
        BY <1>4, <1>6, <1>17, <2>1
      <3> QED BY <1>12, <3>1
    <2>2. CASE h = "other"
      <3>1. i \in DOMAIN o /\ o[i].pkt.call = a
        BY <1>5, <1>7, <1>17, <2>2
      <3> QED BY <1>12, <3>1
    <2> QED BY <1>3, <2>1, <2>2
  <1>18. \A a : CallOf(u, a) <=> PageOf(key, a)
    BY <1>16, <1>17 DEF CallOf, PageOf
  <1> QED BY <1>10, <1>14, <1>15, <1>18 DEF WaitsAt

LEMMA FlushFlow ==
    ASSUME Backends, SSLTypes, SSLInv, NEW key \in DOMAIN pool, SSLFlush(key)
    PROVE  Flow' /\ StreamOrdered'
  <1>u. PICK u : u = Released(key, "first") \o Released(key, "other")
    OBVIOUS
  <1>0. /\ delivered' = delivered \o u
        /\ DOMAIN pool' \subseteq DOMAIN pool
        /\ \A l \in DOMAIN pool : l # key => l \in DOMAIN pool' /\ pool'[l] = pool[l]
        /\ key \in DOMAIN pool' => \A h \in Sides : pool'[key][h].pages = <<>>
        /\ UNCHANGED <<ring, held, packets, thr, calls, lost>>
    BY <1>u, FlushEffect
  <1>1. /\ ChunksOrdered(u)
        /\ \A a : CallOf(u, a) <=> PageOf(key, a)
        /\ \A i \in DOMAIN u : Place(2, u[i].pkt.call) /\ u[i].pkt.call \in CallIds /\ \E h \in Sides : Carries(key, h, u[i].pkt.call)
    BY <1>u, FlushedChunks
  <1>2. ChunksOrdered(delivered)
    BY DEF SSLInv, StreamOrdered
  <1>3. delivered \in Seq(StreamChunks) /\ u \in Seq(StreamChunks)
    BY <1>1, <1>2 DEF ChunksOrdered
  <1>4. \A i \in DOMAIN delivered : delivered[i].pkt.call \in CallIds /\ Place(1, delivered[i].pkt.call)
    <2> SUFFICES ASSUME NEW i \in DOMAIN delivered PROVE delivered[i].pkt.call \in CallIds /\ Place(1, delivered[i].pkt.call)
      OBVIOUS
    <2>1. delivered[i] \in StreamChunks
      BY <1>3, SeqFacts
    <2>2. delivered[i].pkt.call \in CallIds
      BY <2>1, PacketNumbers DEF StreamChunks
    <2> QED BY <2>2 DEF Place, InStream
  <1>7. 1 \in 1..6 /\ 2 \in 1..6 /\ 1 < 2
    OBVIOUS
  <1>5. StreamOrdered'
    <2>1. \A i \in DOMAIN delivered, j \in DOMAIN u : Precedes(delivered[i].pkt.call, u[j].pkt.call)
      BY <1>1, <1>4, <1>7 DEF SSLInv, InOrder
    <2>2. ChunksOrdered(delivered \o u)
      BY <1>1, <1>2, <2>1, ChunksConcat
    <2> QED BY <1>0, <2>2 DEF StreamOrdered
  <1>6. /\ \A i \in DOMAIN delivered : i \in DOMAIN delivered' /\ delivered'[i] = delivered[i]
        /\ \A i \in DOMAIN u : Len(delivered) + i \in DOMAIN delivered' /\ delivered'[Len(delivered) + i] = u[i]
        /\ \A i \in DOMAIN delivered' : i \in DOMAIN delivered \/ (i - Len(delivered) \in DOMAIN u /\ delivered'[i] = u[i - Len(delivered)])
    BY <1>0, <1>3, ConcatFacts
  <1> DEFINE Moved(a) == CallOf(u, a)
  <1>8. ASSUME NEW a PROVE InStream(a)' <=> InStream(a) \/ Moved(a)
    <2>1. InStream(a) => InStream(a)'
      BY <1>6 DEF InStream
    <2>2. ASSUME Moved(a) PROVE InStream(a)'
      <3>1. PICK i \in DOMAIN u : u[i].pkt.call = a
        BY <2>2 DEF CallOf
      <3>2. Len(delivered) + i \in DOMAIN delivered' /\ delivered'[Len(delivered) + i].pkt.call = a
        BY <1>6, <3>1
      <3> QED BY <3>2 DEF InStream
    <2>3. ASSUME InStream(a)' PROVE InStream(a) \/ Moved(a)
      <3>1. PICK i \in DOMAIN delivered' : delivered'[i].pkt.call = a
        BY <2>3 DEF InStream
      <3> QED BY <1>6, <3>1 DEF InStream, CallOf
    <2> QED BY <2>1, <2>2, <2>3
  <1>9. ASSUME NEW a PROVE /\ Moved(a) => InPages(a) /\ a \in CallIds /\ \E h \in Sides : Carries(key, h, a)
                           /\ InPages(a) => InPages(a)' \/ Moved(a)
    <2>1. Moved(a) => InPages(a) /\ a \in CallIds /\ \E h \in Sides : Carries(key, h, a)
      BY <1>1 DEF Place, CallOf
    <2>2. ASSUME InPages(a) PROVE InPages(a)' \/ Moved(a)
      <3>1. PICK l \in DOMAIN pool, h \in Sides : \E i \in DOMAIN pool[l][h].pages : pool[l][h].pages[i].call = a
        BY <2>2 DEF InPages
      <3>2. CASE l = key
        BY <1>1, <3>1, <3>2 DEF PageOf
      <3>3. CASE l # key
        BY <1>0, <3>1, <3>3 DEF InPages
      <3> QED BY <3>2, <3>3
    <2> QED BY <2>1, <2>2
  <1>10. ASSUME NEW a, InPages(a)'
         PROVE  InPages(a) /\ a \in CallIds /\ \E l \in DOMAIN pool, g \in Sides : l # key /\ Carries(l, g, a)
    <2>1. PICK l \in DOMAIN pool', h \in Sides : \E i \in DOMAIN pool'[l][h].pages : pool'[l][h].pages[i].call = a
      BY <1>10 DEF InPages
    <2>2. PICK i \in DOMAIN pool'[l][h].pages : pool'[l][h].pages[i].call = a
      BY <2>1
    <2>3. l # key
      BY <1>0, <2>2
    <2>4. l \in DOMAIN pool /\ pool'[l] = pool[l]
      BY <1>0, <2>3
    <2>5. PagesOrdered(l, h, pool[l][h]) /\ pool[l][h] \in Halves
      BY <2>4 DEF SSLInv, PoolOrdered, PoolOK
    <2>6. Carries(l, h, a) /\ a \in CallIds
      BY <2>2, <2>4, <2>5, HalfTypes, PacketNumbers DEF PagesOrdered
    <2> QED BY <2>2, <2>3, <2>4, <2>6 DEF InPages
  <1>11. ASSUME NEW a, NEW b, Moved(a), InPages(b)' PROVE ~SameStream(a, b)
    <2>1. PICK h \in Sides : Carries(key, h, a)
      BY <1>9, <1>11
    <2>2. PICK l \in DOMAIN pool, g \in Sides : l # key /\ Carries(l, g, b)
      BY <1>10, <1>11
    <2>3. l \in Keys /\ key \in Keys /\ l # Reversed(key) /\ a \in CallIds /\ b \in CallIds
      BY <1>9, <1>10, <1>11 DEF SSLInv, PoolOK
    <2> QED BY <2>1, <2>2, <2>3, OneHome DEF SameStream
  <1> HIDE DEF Moved
  <1>12. \A a : /\ InExitProbe(a)' <=> InExitProbe(a)
                /\ InRing(a)' <=> InRing(a)
                /\ InHand(a)' <=> InHand(a)
                /\ InChannel(a)' <=> InChannel(a)
    BY <1>0 DEF InExitProbe, InRing, InHand, InChannel
  <1>13. \A s \in 1..6, a \in CallIds : Place(s, a)' => Place(s, a) \/ (s = 1 /\ Moved(a) /\ Place(2, a))
    BY <1>8, <1>9, <1>10, <1>12 DEF Place
  <1>14. \A s \in 1..6, a \in CallIds : Place(s, a) => Place(s, a)' \/ Place(1, a)'
    BY <1>8, <1>9, <1>12 DEF Place
  <1>15. ASSUME NEW r \in 1..6, NEW s \in 1..6, r < s, NEW a \in CallIds, NEW b \in CallIds, Place(r, a)', Place(s, b)'
         PROVE  Precedes(a, b)
    <2>0. Place(s, b) /\ s # 1
      BY <1>13, <1>15
    <2>1. CASE Place(r, a)
      BY <1>15, <2>0, <2>1 DEF SSLInv, InOrder
    <2>2. CASE r = 1 /\ Moved(a) /\ Place(2, a)
      <3>1. CASE s = 2
        <4>1. InPages(b)'
          BY <1>15, <3>1 DEF Place
        <4> QED BY <1>11, <2>2, <4>1 DEF Precedes
      <3>2. CASE s > 2
        BY <1>7, <2>0, <2>2, <3>2 DEF SSLInv, InOrder
      <3> QED BY <2>0, <3>1, <3>2
    <2> QED BY <1>13, <1>15, <2>1, <2>2
  <1>16. InOrder'
    BY <1>15 DEF InOrder, Precedes, SameStream
  <1>17. AllPlaced'
    <2> HIDE DEF CallIds
    <2> QED BY <1>0, <1>7, <1>14 DEF SSLInv, AllPlaced
  <1>18. InCount'
    <2> HIDE DEF CallIds
    <2> QED BY <1>0, <1>7, <1>13 DEF SSLInv, InCount
  <1> QED BY <1>5, <1>16, <1>17, <1>18 DEF Flow

-----------------------------------------------------------------------------
(***************************************************************************)
(* The invariant of mode "ebpf_ssl", until the first purge.                *)
(***************************************************************************)
LEMMA ServerTypes == ASSUME TypeOK, mode = "ebpf_ssl" PROVE SSLTypes
  <1>1. SourceTypeOK(Range(Probes), Threads, SSLRecords, SSLPackets) /\ SSLTypeOK
    BY DEF TypeOK
  <1> QED BY <1>1, SourceParts, SSLParts DEF SSLTypes

\* The calls of nextSeq are counted up.
LEMMA PurgeCounts == ASSUME SSLTypes, SSLNext, BeforePurge' PROVE BeforePurge
  <1>1. CASE UNCHANGED seqs
    BY <1>1 DEF seqs, BeforePurge
  <1>2. CASE SSLSend
    <2>1. seqPurgeCounter' = seqPurgeCounter + 1 /\ seqPurgeCounter \in Nat /\ PurgeEvery \in Nat
      BY <1>2, SSLAssumption DEF SSLSend, nextSeq, SSLTypes, SeqsOK
    <2> QED BY <2>1 DEF BeforePurge
  <1>3. UNCHANGED ssl => UNCHANGED seqs
    BY DEF ssl
  <1> QED
    BY <1>1, <1>2, <1>3, StepKinds
    DEF QuietStep, MissStep, ExitSubmit, ExitReserve, Transfers, SSLReceive, SSLFlush

LEMMA SSLInvStep ==
    ASSUME Backends, SSLTypes, SSLInv, SSLNext \/ QuietStep, BeforePurge'
    PROVE  SSLInv'
  <1>f. Flow /\ RingOrdered
    BY DEF SSLInv, Flow
  <1>g. ASSUME Flow', RingOrdered', ChannelOrdered' /\ PoolOK' /\ PoolOrdered' /\ StreamOrdered' PROVE SSLInv'
    BY <1>g DEF Flow, SSLInv
  <1>1. CASE QuietStep
    <2>1. UNCHANGED <<ring, held, packets, pool, delivered, seqs>> /\ FillingSame
      BY <1>1 DEF QuietStep
    <2>2. Flow' /\ RingOrdered'
      BY <1>1, <1>f, <2>1, QuietFlow, QuietRing
    <2> QED BY <1>g, <2>1, <2>2, PoolSame
  <1>2. ASSUME NEW t \in Threads, MissStep(t) PROVE SSLInv'
    <2>1. UNCHANGED <<ring, held, packets, pool, delivered, seqs>> /\ FillingSame
      BY <1>2 DEF MissStep
    <2>2. Flow' /\ RingOrdered'
      BY <1>2, <1>f, <2>1, MissFlow, QuietRing
    <2> QED BY <1>g, <2>1, <2>2, PoolSame
  <1>3. ASSUME NEW t \in Threads, NEW ret \in AllRets, ExitReserve(t, ret) PROVE SSLInv'
    <2>1. UNCHANGED <<packets, pool, delivered, seqs>>
      BY <1>3 DEF ExitReserve, Transfers
    <2>2. Flow' /\ RingOrdered'
      BY <1>3, <1>f, ReserveFlow, ReserveRing
    <2> QED BY <1>g, <2>1, <2>2, PoolSame
  <1>4. ASSUME NEW t \in Threads, ExitSubmit(t) PROVE SSLInv'
    <2>1. UNCHANGED <<packets, pool, delivered, seqs>>
      BY <1>4 DEF ExitSubmit
    <2>2. Flow' /\ RingOrdered'
      BY <1>4, <1>f, SubmitFlow
    <2> QED BY <1>g, <2>1, <2>2, PoolSame
  <1>5. CASE Read /\ UNCHANGED ssl
    <2>1. UNCHANGED <<packets, pool, delivered, seqs>>
      BY <1>5 DEF Read, ssl
    <2>2. Flow' /\ RingOrdered'
      BY <1>5, <1>f, ReadFlow
    <2> QED BY <1>g, <2>1, <2>2, PoolSame
  <1>6. CASE SSLSend
    <2>1. Flow' /\ RingOrdered'
      BY <1>6, <1>f, SendFlow
    <2> QED BY <1>6, <1>g, <2>1, SendOrdered
  <1>7. CASE SSLReceive
    <2>1. PICK p : p = Head(packets)
      OBVIOUS
    <2>2. PICK k, h : GoesTo(k, h, p)
      BY <1>7, <2>1, ReceiveEffect
    <2>3. Flow' /\ ChannelOrdered' /\ PoolOK' /\ PoolOrdered' /\ StreamOrdered'
      BY <1>7, <2>1, <2>2, ReceiveFlow, ReceivePool, ReceiveStream
    <2>4. RingOrdered'
      BY <1>7, <1>f, QuietRing DEF SSLReceive, FillingSame
    <2> QED BY <1>g, <2>3, <2>4
  <1>8. ASSUME NEW key \in DOMAIN pool, SSLFlush(key) PROVE SSLInv'
    <2>1. Flow' /\ ChannelOrdered' /\ PoolOK' /\ PoolOrdered' /\ StreamOrdered'
      BY <1>8, FlushFlow, FlushPool
    <2>2. RingOrdered'
      BY <1>8, <1>f, QuietRing DEF SSLFlush, source, FillingSame
    <2> QED BY <1>g, <2>1, <2>2
  <1> QED BY <1>1, <1>2, <1>3, <1>4, <1>5, <1>6, <1>7, <1>8, StepKinds

LEMMA SSLInvInit == ASSUME Init PROVE SSLInv
  <1> USE DEF Init, SourceInit, SSLInit
  <1>1. /\ ring = <<>> /\ held = None /\ packets = <<>> /\ pool = <<>> /\ delivered = <<>>
        /\ \A t \in Threads : thr[t].pc = "idle"
        /\ \A t \in Threads, d \in Dirs : calls[t][d] = 0
    BY DEF Resting
  <1>2. DOMAIN ring = {} /\ DOMAIN packets = {} /\ DOMAIN pool = {} /\ DOMAIN delivered = {}
    BY <1>1
  <1>3. \A s, a : ~Place(s, a)
    BY <1>1, <1>2 DEF Place, InExitProbe, InRing, InHand, InChannel, InPages, InStream
  <1>4. InOrder /\ InCount
    BY <1>3 DEF InOrder, InCount
  <1>5. AllPlaced
    <2>1. \A a \in CallIds : calls[a.t][a.d] = 0
      BY <1>1, CallFacts DEF Dirs
    <2> HIDE DEF CallIds
    <2> QED BY <2>1 DEF AllPlaced
  <1>6. RingOrdered
    BY <1>1, <1>2 DEF RingOrdered
  <1>7. ChannelOrdered /\ PoolOrdered
    BY <1>2 DEF ChannelOrdered, PoolOrdered
  <1>8. PoolOK
    BY <1>1, <1>2 DEF PoolOK
  <1>9. StreamOrdered
    <2>1. <<>> \in Seq(StreamChunks)
      OBVIOUS
    <2> QED BY <1>1, <1>2, <2>1 DEF StreamOrdered, ChunksOrdered
  <1> QED BY <1>4, <1>5, <1>6, <1>7, <1>8, <1>9 DEF SSLInv

\* In mode "ebpf" no probe is attached to the server.
NoCalls == delivered = <<>> /\ \A t \in Threads, d \in Dirs : calls[t][d] = 0

SessionInv == /\ CaptureInv
              /\ mode = "ebpf" => NoCalls
              /\ mode = "ebpf_ssl" /\ BeforePurge => SSLInv

LEMMA SessionInvInit == ASSUME Init PROVE SessionInv
  <1>1. NoCalls
    BY DEF Init, SSLInit, NoCalls
  <1> QED BY <1>1, CaptureInvInit, SSLInvInit DEF SessionInv

LEMMA StutterQuiet == ASSUME UNCHANGED vars PROVE QuietStep /\ UNCHANGED mode
  <1>1. UNCHANGED <<mode, source, ssl>>
    BY DEF vars
  <1> QED BY <1>1 DEF source, ssl, QuietStep, FillingSame

LEMMA SessionInvStep == ASSUME Backends, SessionInv, [Next]_vars PROVE SessionInv'
  <1>1. CaptureInv' /\ CaptureInv
    BY CaptureInvStep DEF SessionInv
  <1>2. mode' = mode
    BY StutterQuiet DEF Next, XDPMode, SSLMode
  <1>3. ASSUME mode = "ebpf" PROVE NoCalls'
    <2>1. UNCHANGED <<delivered, calls>>
      <3>1. CASE UNCHANGED vars
        BY <3>1, StutterQuiet DEF QuietStep
      <3>2. CASE Next
        BY <1>3, <3>2 DEF Next, XDPMode, SSLMode, ssl
      <3> QED BY <3>1, <3>2
    <2> QED BY <1>3, <2>1 DEF SessionInv, NoCalls
  <1>4. ASSUME mode = "ebpf_ssl", BeforePurge' PROVE SSLInv'
    <2>1. SSLTypes
      BY <1>1, <1>4, ServerTypes DEF CaptureInv
    <2>2. SSLNext \/ QuietStep
      BY <1>4, StutterQuiet DEF Next, XDPMode, SSLMode
    <2>3. BeforePurge
      BY <1>4, <2>1, <2>2, PurgeCounts DEF QuietStep, seqs, BeforePurge
    <2> QED BY <1>4, <2>1, <2>2, <2>3, SSLInvStep DEF SessionInv
  <1> QED BY <1>1, <1>2, <1>3, <1>4 DEF SessionInv

-----------------------------------------------------------------------------
(***************************************************************************)
(* The buffer.  Until readLoop has returned, both probes of a direction    *)
(* are attached when a return probe is; so the element that an exit probe  *)
(* finds was written by the enter probe of its call.  The exit probe frees *)
(* it and reads it later: only another thread may have written it then.    *)
(***************************************************************************)
Looping == loop # "returned"
ProbeAt(d, at) == [d |-> d, at |-> at]
BothProbes == Looping => \A d \in Dirs : ProbeAt(d, "exit") \in links => ProbeAt(d, "enter") \in links
DetachLast == closing \in {"detach", "free"} => ~Looping

OwnElement(t) == LET d == thr[t].d
                 IN  /\ thr[t].pc = "calling" /\ thr[t].hooked /\ InMap(t, d) => buf_ptr[d][argmap[d][t]] = CallId(t, d)
                     /\ thr[t].pc = "filling" => NotStale(buf_ptr[d][thr[t].elem], [t |-> t, d |-> d, n |-> calls[t][d]])
OwnElements == Looping => \A t \in Threads : OwnElement(t)

\* A record or packet x of length len holds the data of its call, or is spoilt.
Own(x, len) == NotStale(x.from, x.call) /\ ((len = x.ret /\ x.valid = x.ret) \/ Spoilt(x))
OwnRecord(r) == Own(r, r.cap_len)
OwnPacket(p) == Own(p, p.len)
OwnRecords == /\ Looping => \A i \in DOMAIN ring : ring[i].st = "ready" => OwnRecord(ring[i].rec)
              /\ held # None => OwnRecord(held)
OwnPackets == /\ \A i \in DOMAIN packets : OwnPacket(packets[i])
              /\ \A k \in DOMAIN pool, h \in Sides : \A i \in DOMAIN pool[k][h].pages : OwnPacket(pool[k][h].pages[i])
              /\ \A i \in DOMAIN delivered : OwnPacket(delivered[i].pkt)

BufferInv == BothProbes /\ DetachLast /\ OwnElements /\ OwnRecords /\ OwnPackets

LEMMA AttachedPairs ==
    ASSUME NEW n \in 1..4, NEW d \in Dirs, ProbeAt(d, "exit") \in Attached(n)
    PROVE  ProbeAt(d, "enter") \in Attached(n)
  <1>1. PICK i \in 1..n : ProbeAt(d, "exit") = Probes[i]
    BY DEF Attached
  <1>2. i \in {1, 2, 3, 4}
    OBVIOUS
  <1>3. /\ Probes[1] = ProbeAt("read", "enter") /\ Probes[2] = ProbeAt("read", "exit")
        /\ Probes[3] = ProbeAt("write", "enter") /\ Probes[4] = ProbeAt("write", "exit")
    BY DEF Probes, ProbeAt
  <1>4. \A at1, at2, d1, d2 : ProbeAt(d1, at1) = ProbeAt(d2, at2) => d1 = d2 /\ at1 = at2
    <2>1. \A at, d1 : ProbeAt(d1, at).at = at /\ ProbeAt(d1, at).d = d1
      BY DEF ProbeAt
    <2> QED BY <2>1
  <1>5. i # 1 /\ i # 3
    BY <1>1, <1>3, <1>4
  <1>6. i - 1 \in 1..n
    BY <1>2, <1>5
  <1>7. Probes[i - 1] = ProbeAt(d, "enter")
    <2>1. CASE i = 2
      BY <1>1, <1>3, <1>4, <2>1
    <2>2. CASE i = 4
      BY <1>1, <1>3, <1>4, <2>2
    <2> QED BY <1>2, <1>5, <2>1, <2>2
  <1> QED BY <1>6, <1>7 DEF Attached

LEMMA ProbesStep ==
    ASSUME LoopLast, BothProbes, DetachLast, SSLNext
    PROVE  BothProbes' /\ DetachLast' /\ (Looping' => Looping)
  <1> USE DEF Looping
  <1>s. ASSUME UNCHANGED <<links, closing, loop>> PROVE BothProbes' /\ DetachLast' /\ (Looping' => Looping)
    BY <1>s DEF BothProbes, DetachLast
  <1>1. CASE LoadObjects
    BY <1>1, <1>s DEF LoadObjects
  <1>2. CASE SSLOpenAttach
    <2>1. PICK n \in 1..4 : links' = Attached(n)
      BY <1>2 DEF SSLOpenAttach
    <2>2. UNCHANGED <<closing, loop>>
      BY <1>2 DEF SSLOpenAttach
    <2>3. \A d \in Dirs : ProbeAt(d, "exit") \in Attached(n) => ProbeAt(d, "enter") \in Attached(n)
      BY AttachedPairs
    <2> QED BY <2>1, <2>2, <2>3 DEF BothProbes, DetachLast
  <1>3. CASE SSLOpenReader
    <2>1. reader = "none" /\ loop' = "reading" /\ UNCHANGED <<links, closing>>
      BY <1>3 DEF SSLOpenReader, OpenReader
    <2>2. loop = "none"
      BY <2>1 DEF LoopLast
    <2> QED BY <2>1, <2>2 DEF BothProbes, DetachLast
  <1>4. CASE SSLOpenFails
    <2>1. PICK n \in 1..5 : links = Attached(n - 1) /\ OpenFails(Unwound(n))
      BY <1>4 DEF SSLOpenFails
    <2>2. links' = {} /\ closing' = "done" /\ UNCHANGED loop
      BY <2>1 DEF OpenFails, Unwound
    <2> QED BY <2>2 DEF BothProbes, DetachLast
  <1>5. ASSUME NEW t \in Threads, SSLProbe(t) PROVE UNCHANGED <<links, closing, loop>>
    BY <1>5 DEF SSLProbe, Enter, EnterUnseen, Begins, Dies, ReturnsNothing, ReturnsUnseen, ExitDrop, ExitReserve,
                Transfers, ExitSubmit, source
  <1>6. CASE Read \/ SSLSend
    <2>1. loop \in {"reading", "sending"} /\ loop' \in {"reading", "sending"} /\ UNCHANGED <<links, closing>>
      BY <1>6 DEF Read, Readable, SSLSend, Send
    <2> QED BY <2>1 DEF BothProbes, DetachLast
  <1>7. CASE LoopReturns
    BY <1>7 DEF LoopReturns, BothProbes, DetachLast
  <1>8. CASE SSLReceive \/ \E key \in DOMAIN pool : SSLFlush(key)
    BY <1>8, <1>s DEF SSLReceive, SSLFlush, source
  <1>9. CASE SSLClose
    <2>1. CASE CloseReader
      BY <2>1 DEF CloseReader, BothProbes, DetachLast
    <2>2. CASE CloseWaits
      BY <2>2 DEF CloseWaits, BothProbes, DetachLast
    <2>3. CASE CloseDetaches(Probes) \/ CloseFrees
      <3>1. ~Looping /\ UNCHANGED loop
        BY <2>3 DEF CloseDetaches, CloseFrees, DetachLast
      <3> QED BY <3>1 DEF BothProbes, DetachLast
    <2> QED BY <1>9, <2>1, <2>2, <2>3 DEF SSLClose
  <1> QED BY <1>1, <1>2, <1>3, <1>4, <1>5, <1>6, <1>7, <1>8, <1>9, <1>s DEF SSLNext, SSLLoop

\* A step of thread t leaves the calls and the elements of the others alone.
StepOf(t) == /\ OthersSame(t)
             /\ \A u \in Threads : u # t => calls'[u] = calls[u] /\ \A d \in Dirs : argmap'[d][u] = argmap[d][u]

\* Thread t gives up the element of direction d, or all stay as they are.
LEMMA ElementsAfter ==
    ASSUME MapOK, NEW t \in Threads, NEW d \in Dirs, NEW e, SetElem(d, t, e)
    PROVE  \A x \in Dirs, u \in Threads : argmap'[x][u] = IF x = d /\ u = t THEN e ELSE argmap[x][u]
  BY DEF MapOK, SetElem

LEMMA OthersOwn ==
    ASSUME ThrOK, NEW t \in Threads, NEW u \in Threads, u # t, StepOf(t), UNCHANGED buf_ptr, OwnElement(u)
    PROVE  OwnElement(u)'
  <1>1. thr'[u] = thr[u] /\ calls'[u] = calls[u]
    BY DEF StepOf, OthersSame
  <1>2. thr[u].pc \in {"calling", "filling"} => thr[u].d \in Dirs
    BY CallingFacts, FillingFacts
  <1>3. thr[u].d \in Dirs => argmap'[thr[u].d][u] = argmap[thr[u].d][u]
    BY DEF StepOf
  <1> QED BY <1>1, <1>2, <1>3 DEF OwnElement, InMap, CallId

\* The call of thread t ends, and its element may be deleted.
EndsCall(t) == /\ StepOf(t) /\ UNCHANGED buf_ptr
               /\ thr'[t].pc \notin {"calling", "filling"}
               /\ \A d \in Dirs : argmap'[d][t] \in {argmap[d][t], 0}

LEMMA EndsElements ==
    ASSUME ThrOK, OwnElements, Looping' => Looping, NEW t \in Threads, EndsCall(t)
    PROVE  OwnElements'
  <1>1. ASSUME Looping', NEW u \in Threads PROVE OwnElement(u)'
    <2>1. CASE u = t
      BY <2>1 DEF EndsCall, OwnElement
    <2>2. CASE u # t
      <3>1. OwnElement(u)
        BY <1>1 DEF OwnElements
      <3> QED BY <2>2, <3>1, OthersOwn DEF EndsCall
    <2> QED BY <2>1, <2>2
  <1> QED BY <1>1 DEF OwnElements

LEMMA ReserveElements ==
    ASSUME ThrOK, MapOK, CallsOK, OwnElements, Looping' => Looping, NEW t \in Threads, NEW ret, ExitReserve(t, ret)
    PROVE  OwnElements'
  <1>d. PICK d : d = thr[t].d
    OBVIOUS
  <1>e. PICK e : e = argmap[d][t]
    OBVIOUS
  <1>1. thr[t].pc = "calling" /\ Found(t) /\ UNCHANGED buf_ptr
    BY DEF ExitReserve, Transfers
  <1>2. d \in Dirs /\ e \in Elems /\ e # 0 /\ InMap(t, d) /\ thr[t].hooked
    <2>1. d \in Dirs /\ e \in Elems /\ InMap(t, d) /\ thr[t].hooked
      BY <1>d, <1>e, <1>1, CallingFacts, FoundFacts DEF Found
    <2> QED BY <2>1, SSLAssumption DEF Elems
  <1>3. thr' = [thr EXCEPT ![t] = InExit(d, e, ret)] /\ calls' = [calls EXCEPT ![t][d] = @ + 1] /\ SetElem(d, t, 0)
    BY <1>d, <1>e DEF ExitReserve, Transfers, Deleted, SetElem
  <1>4. /\ thr'[t].pc = "filling" /\ thr'[t].d = d /\ thr'[t].elem = e
        /\ \A u \in Threads : u # t => thr'[u] = thr[u] /\ calls'[u] = calls[u]
        /\ calls'[t][d] = calls[t][d] + 1
    <2>1. InExit(d, e, ret).pc = "filling" /\ InExit(d, e, ret).d = d /\ InExit(d, e, ret).elem = e
      BY DEF InExit
    <2>2. thr'[t] = InExit(d, e, ret) /\ \A u \in Threads : u # t => thr'[u] = thr[u] /\ calls'[u] = calls[u]
      BY <1>3 DEF ThrOK, CallsOK
    <2>3. calls'[t][d] = calls[t][d] + 1
      BY <1>2, <1>3 DEF CallsOK
    <2> QED BY <2>1, <2>2, <2>3
  <1>5. \A x \in Dirs, u \in Threads : argmap'[x][u] = IF x = d /\ u = t THEN 0 ELSE argmap[x][u]
    BY <1>2, <1>3, ElementsAfter
  <1>6. StepOf(t)
    BY <1>4, <1>5 DEF StepOf, OthersSame
  <1>7. ASSUME Looping', NEW u \in Threads PROVE OwnElement(u)'
    <2>1. OwnElement(u)
      BY <1>7 DEF OwnElements
    <2>2. CASE u = t
      <3>1. buf_ptr[d][e] = [t |-> t, d |-> d, n |-> calls[t][d] + 1]
        BY <1>d, <1>e, <1>1, <1>2, <2>1, <2>2 DEF OwnElement, CallId
      <3> QED BY <1>1, <1>4, <2>2, <3>1 DEF OwnElement, NotStale
    <2>3. CASE u # t
      BY <1>1, <1>6, <2>1, <2>3, OthersOwn
    <2> QED BY <2>2, <2>3
  <1> QED BY <1>7 DEF OwnElements

\* A call begins: the enter probe writes element e, or no probe sees it.
LEMMA BeginEffect ==
    ASSUME ThrOK, NEW t \in Threads, NEW d \in Dirs, Begins(t, d)
    PROVE  /\ thr'[t].pc = "calling" /\ thr'[t].d = d /\ (thr'[t].hooked <=> Probed(t, d, "exit"))
           /\ OthersSame(t) /\ calls' = calls
  <1>1. thr' = [thr EXCEPT ![t] = InCall(d, Probed(t, d, "exit"))] /\ calls' = calls
    BY Zenon DEF Begins
  <1>2. PICK b : b = Probed(t, d, "exit")
    OBVIOUS
  <1>3. InCall(d, b).pc = "calling" /\ InCall(d, b).d = d /\ InCall(d, b).hooked = b
    BY DEF InCall
  <1>4. thr'[t] = InCall(d, b) /\ OthersSame(t)
    BY <1>1, <1>2 DEF ThrOK, OthersSame
  <1> QED BY <1>1, <1>2, <1>3, <1>4

LEMMA EnterElements ==
    ASSUME ThrOK, MapOK, BufOK, OwnElements, Looping' => Looping,
           NEW t \in Threads, NEW d \in Dirs, Enter(t, d)
    PROVE  OwnElements'
  <1>1. PICK e \in IF InMap(t, d) THEN {argmap[d][t]} ELSE FreeElems(d) :
           SetElem(d, t, e) /\ buf_ptr' = [buf_ptr EXCEPT ![d][e] = CallId(t, d)]
    BY DEF Enter, SetElem
  <1>2. e \in Elems /\ e # 0 /\ \A u \in Threads : u # t => argmap[d][u] # e
    <2>1. e \in Elems /\ \A u \in Threads : u # t /\ argmap[d][u] = e => e = 0
      BY EnterElem
    <2>2. e # 0
      BY <2>1, SSLAssumption DEF Elems
    <2> QED BY <2>1, <2>2
  <1>4. \A x \in Dirs, u \in Threads : argmap'[x][u] = IF x = d /\ u = t THEN e ELSE argmap[x][u]
    BY <1>1, ElementsAfter
  <1>5. \A x \in Dirs, f \in Elems : buf_ptr'[x][f] = IF x = d /\ f = e THEN CallId(t, d) ELSE buf_ptr[x][f]
    BY <1>1, <1>2 DEF BufOK
  <1>6. /\ thr'[t].pc = "calling" /\ thr'[t].d = d /\ OthersSame(t) /\ calls' = calls
    BY BeginEffect DEF Enter
  <1>7. ASSUME Looping', NEW u \in Threads PROVE OwnElement(u)'
    <2>1. CASE u = t
      <3>1. buf_ptr'[d][argmap'[d][t]] = CallId(t, d)
        BY <1>2, <1>4, <1>5
      <3>2. CallId(t, d)' = CallId(t, d)
        BY <1>6 DEF CallId
      <3> QED BY <1>6, <2>1, <3>1, <3>2 DEF OwnElement
    <2>2. CASE u # t
      <3>0. OwnElement(u) /\ thr'[u] = thr[u]
        BY <1>6, <1>7, <2>2 DEF OwnElements, OthersSame
      <3>1. ASSUME thr[u].pc = "calling", thr[u].hooked, argmap'[thr[u].d][u] # 0
            PROVE  buf_ptr'[thr[u].d][argmap'[thr[u].d][u]] = CallId(u, thr[u].d)
        <4>1. PICK x : x = thr[u].d
          OBVIOUS
        <4>2. x \in Dirs
          BY <3>1, <4>1, CallingFacts
        <4>3. argmap'[x][u] = argmap[x][u] /\ argmap[x][u] \in Elems /\ ~(x = d /\ argmap[x][u] = e)
          BY <1>2, <1>4, <2>2, <3>1, <4>1, <4>2 DEF MapOK
        <4>4. buf_ptr'[x][argmap[x][u]] = buf_ptr[x][argmap[x][u]]
          BY <1>5, <4>2, <4>3
        <4> QED BY <3>0, <3>1, <4>1, <4>3, <4>4 DEF OwnElement, InMap
      <3>2. ASSUME thr[u].pc = "filling", NEW n
            PROVE  NotStale(buf_ptr[thr[u].d][thr[u].elem], [t |-> u, d |-> thr[u].d, n |-> n])
                     => NotStale(buf_ptr'[thr[u].d][thr[u].elem], [t |-> u, d |-> thr[u].d, n |-> n])
        <4>1. thr[u].d \in Dirs /\ thr[u].elem \in Elems
          BY <3>2, FillingFacts
        <4>2. CASE thr[u].d = d /\ thr[u].elem = e
          <5>1. buf_ptr'[thr[u].d][thr[u].elem] = CallId(t, d)
            BY <1>5, <4>1, <4>2
          <5>2. CallId(t, d).d = d /\ CallId(t, d).t = t
            BY DEF CallId
          <5> QED BY <2>2, <4>2, <5>1, <5>2 DEF NotStale
        <4>3. CASE ~(thr[u].d = d /\ thr[u].elem = e)
          <5>1. buf_ptr'[thr[u].d][thr[u].elem] = buf_ptr[thr[u].d][thr[u].elem]
            BY <1>5, <4>1, <4>3
          <5> QED BY <5>1
        <4> QED BY <4>2, <4>3
      <3> QED BY <1>6, <3>0, <3>1, <3>2 DEF OwnElement, InMap, CallId
    <2> QED BY <2>1, <2>2
  <1> QED BY <1>7 DEF OwnElements

LEMMA UnseenElements ==
    ASSUME ThrOK, BothProbes, OwnElements, Looping' => Looping,
           NEW t \in Threads, NEW d \in Dirs, EnterUnseen(t, d)
    PROVE  OwnElements'
  <1>1. /\ thr'[t].pc = "calling" /\ thr'[t].d = d /\ (thr'[t].hooked <=> Probed(t, d, "exit"))
        /\ OthersSame(t) /\ calls' = calls /\ UNCHANGED <<argmap, buf_ptr>>
    BY BeginEffect DEF EnterUnseen
  <1>2. Probed(t, d, "enter") => ~InMap(t, d)
    BY DEF EnterUnseen
  <1>3. StepOf(t)
    BY <1>1 DEF StepOf
  <1>4. ASSUME Looping', NEW u \in Threads PROVE OwnElement(u)'
    <2>1. CASE u = t
      <3>1. Probed(t, d, "exit") => Probed(t, d, "enter")
        BY <1>4 DEF BothProbes, Probed, ProbeAt
      <3>2. thr'[t].hooked => argmap'[d][t] = 0
        BY <1>1, <1>2, <3>1 DEF InMap
      <3> QED BY <1>1, <2>1, <3>2 DEF OwnElement, InMap
    <2>2. CASE u # t
      <3>1. OwnElement(u)
        BY <1>4 DEF OwnElements
      <3> QED BY <1>1, <1>3, <2>2, <3>1, OthersOwn
    <2> QED BY <2>1, <2>2
  <1> QED BY <1>4 DEF OwnElements

LEMMA EndsCalls ==
    ASSUME SSLTypes, NEW t \in Threads, Dies(t) \/ ReturnsNothing(t) \/ ReturnsUnseen(t) \/ ExitDrop(t) \/ ExitSubmit(t)
    PROVE  EndsCall(t)
  <1>t. ThrOK /\ MapOK /\ CallsOK
    BY DEF SSLTypes
  <1>1. UNCHANGED buf_ptr
    BY DEF Dies, ReturnsNothing, ReturnsUnseen, ExitDrop, Transfers, ExitSubmit
  <1>2. PICK r \in {Resting, Dead} : thr' = [thr EXCEPT ![t] = r]
    BY Zenon DEF Dies, ReturnsNothing, ReturnsUnseen, ExitDrop, ExitSubmit
  <1>3. thr'[t].pc \notin {"calling", "filling"} /\ OthersSame(t)
    BY <1>t, <1>2 DEF ThrOK, OthersSame, Resting, Dead
  <1>4. \A u \in Threads : u # t => calls'[u] = calls[u]
    <2>1. calls' = calls \/ calls' = [calls EXCEPT ![t][thr[t].d] = @ + 1]
      BY DEF Dies, ReturnsNothing, ReturnsUnseen, ExitDrop, Transfers, ExitSubmit
    <2> QED BY <1>t, <2>1 DEF CallsOK
  <1>5. \A d \in Dirs, u \in Threads : argmap'[d][u] = argmap[d][u] \/ (u = t /\ argmap'[d][u] = 0)
    <2>1. CASE UNCHANGED argmap
      BY <2>1
    <2>2. CASE thr[t].pc = "calling" /\ argmap' = Deleted(t)
      <3>1. thr[t].d \in Dirs /\ SetElem(thr[t].d, t, 0)
        BY <1>t, <2>2, CallingFacts DEF Deleted, SetElem
      <3> QED BY <1>t, <3>1, ElementsAfter
    <2> QED BY <2>1, <2>2 DEF Dies, ReturnsNothing, ReturnsUnseen, ExitDrop, Transfers, ExitSubmit
  <1> QED BY <1>1, <1>3, <1>4, <1>5 DEF EndsCall, StepOf

LEMMA ElementsSame ==
    ASSUME OwnElements, Looping' => Looping, UNCHANGED <<thr, argmap, buf_ptr, calls>>
    PROVE  OwnElements'
  <1>1. \A t \in Threads : OwnElement(t) => OwnElement(t)'
    BY DEF OwnElement, InMap, CallId
  <1> QED BY <1>1 DEF OwnElements

LEMMA ElementsStep ==
    ASSUME SSLTypes, BothProbes, OwnElements, Looping' => Looping, SSLNext
    PROVE  OwnElements'
  <1>t. ThrOK /\ MapOK /\ BufOK /\ CallsOK
    BY DEF SSLTypes
  <1>1. ASSUME NEW t \in Threads, SSLProbe(t) PROVE OwnElements'
    <2>1. ASSUME NEW d \in Dirs, Enter(t, d) PROVE OwnElements'
      BY <1>t, <2>1, EnterElements
    <2>2. ASSUME NEW d \in Dirs, EnterUnseen(t, d) PROVE OwnElements'
      BY <1>t, <2>2, UnseenElements
    <2>3. ASSUME NEW ret \in AllRets, ExitReserve(t, ret) PROVE OwnElements'
      BY <1>t, <2>3, ReserveElements
    <2>4. CASE Dies(t) \/ ReturnsNothing(t) \/ ReturnsUnseen(t) \/ ExitDrop(t) \/ ExitSubmit(t)
      BY <1>t, <2>4, EndsCalls, EndsElements
    <2> QED BY <1>1, <2>1, <2>2, <2>3, <2>4 DEF SSLProbe
  <1>2. CASE SSLCommon \/ SSLOpenAttach \/ SSLSend \/ SSLReceive \/ \E key \in DOMAIN pool : SSLFlush(key)
    <2>1. UNCHANGED <<thr, argmap, buf_ptr, calls>>
      BY <1>2 DEF SSLCommon, ssl, SSLOpenAttach, SSLSend, SSLReceive, SSLFlush
    <2> QED BY <2>1, ElementsSame
  <1> QED BY <1>1, <1>2, SSLSteps

\* The records and packets that there are after a step hold the data of their own calls.
LEMMA OwnSame ==
    ASSUME OwnRecords, OwnPackets, Looping' => Looping, UNCHANGED <<ring, held, packets, pool, delivered>>
    PROVE  OwnRecords' /\ OwnPackets'
  BY DEF OwnRecords, OwnPackets

LEMMA SubmitOwn ==
    ASSUME SSLTypes, OwnRecords, OwnPackets, OwnElements, Looping' => Looping, NEW t \in Threads, ExitSubmit(t)
    PROVE  OwnRecords' /\ OwnPackets'
  <1>1. PICK rec \in SSLRecords :
             /\ rec.call = [t |-> t, d |-> thr[t].d, n |-> calls[t][thr[t].d]]
             /\ rec.from \in {buf_ptr[thr[t].d][thr[t].elem], None}
             /\ (rec.cap_len = rec.ret /\ rec.valid = rec.ret) \/ Spoilt(rec)
             /\ DOMAIN ring' = DOMAIN ring
             /\ \A i \in DOMAIN ring :
                  ring'[i] = IF ring[i].owner = t /\ ring[i].st = "busy"
                             THEN [owner |-> t, st |-> "ready", rec |-> rec] ELSE ring[i]
             /\ UNCHANGED <<held, packets, pool, delivered>>
    BY SubmitEffect
  <1>2. thr[t].pc = "filling"
    BY Zenon DEF ExitSubmit
  <1>3. Looping' => OwnRecord(rec)
    <2>1. Looping' => NotStale(rec.from, rec.call)
      BY <1>1, <1>2 DEF OwnElements, OwnElement, NotStale
    <2> QED BY <1>1, <2>1 DEF OwnRecord, Own
  <1>4. Looping' => \A i \in DOMAIN ring' : ring'[i].st = "ready" => OwnRecord(ring'[i].rec)
    BY <1>1, <1>3 DEF OwnRecords
  <1>5. (held # None => OwnRecord(held))'
    BY <1>1 DEF OwnRecords, OwnRecord
  <1>6. OwnPackets'
    BY <1>1 DEF OwnPackets
  <1> QED BY <1>4, <1>5, <1>6 DEF OwnRecords, OwnRecord

LEMMA ReserveOwn ==
    ASSUME SSLTypes, OwnRecords, OwnPackets, NEW t \in Threads, NEW ret, ExitReserve(t, ret)
    PROVE  OwnRecords' /\ OwnPackets'
  <1>1. PICK e : e = [owner |-> t, st |-> "busy", rec |-> None]
    OBVIOUS
  <1>2. ring' = Append(ring, e) /\ e.st = "busy" /\ UNCHANGED <<loop, held, packets, pool, delivered>>
    BY <1>1 DEF ExitReserve, bpf_ringbuf_reserve, Transfers
  <1>3. ring \in Seq(Slot(Threads, SSLRecords)) /\ Len(ring) \in Nat /\ DOMAIN ring = 1..Len(ring)
    BY RingFacts DEF SSLTypes, RingOK
  <1>4. DOMAIN ring' = 1..(Len(ring) + 1) /\ (\A i \in 1..Len(ring) : ring'[i] = ring[i]) /\ ring'[Len(ring) + 1] = e
    <2> HIDE DEF SSLRecords
    <2> QED BY <1>2, <1>3
  <1>5. \A i \in DOMAIN ring' : ring'[i].st = "ready" => i \in DOMAIN ring /\ ring'[i] = ring[i]
    BY <1>2, <1>3, <1>4
  <1> QED BY <1>2, <1>5 DEF OwnRecords, OwnPackets, Looping

LEMMA ReadOwn ==
    ASSUME SSLTypes, RingOrdered, OwnRecords, OwnPackets, Read, UNCHANGED ssl
    PROVE  OwnRecords' /\ OwnPackets'
  <1>1. /\ DOMAIN ring = 1..Len(ring)
        /\ \A i \in DOMAIN ring' : i + 1 \in DOMAIN ring /\ ring'[i] = ring[i + 1]
        /\ 1 \in DOMAIN ring /\ ring[1].st = "ready" /\ held' = ring[1].rec
        /\ UNCHANGED <<packets, pool, delivered>>
    BY ReadEffect
  <1>2. Looping
    BY DEF Read, Readable, Looping
  <1>3. \A i \in DOMAIN ring : ring[i].st = "ready" => OwnRecord(ring[i].rec)
    BY <1>2 DEF OwnRecords
  <1> QED BY <1>1, <1>3 DEF OwnRecords, OwnPackets

LEMMA SendOwn ==
    ASSUME SSLTypes, RingOrdered, OwnRecords, OwnPackets, Looping' => Looping, SSLSend
    PROVE  OwnRecords' /\ OwnPackets'
  <1>1. PICK p \in SSLPackets :
             /\ p.call = held.call /\ p.len = held.cap_len
             /\ p.ret = held.ret /\ p.valid = held.valid /\ p.from = held.from
             /\ packets' = Append(packets, p) \/ packets' = packets
             /\ held # None /\ held' = None
             /\ UNCHANGED <<ring, pool, delivered>>
    BY SendEffect
  <1>2. OwnPacket(p)
    BY <1>1 DEF OwnRecords, OwnRecord, OwnPacket, Own, Spoilt
  <1>3. \A i \in DOMAIN packets' : (i \in DOMAIN packets /\ packets'[i] = packets[i]) \/ packets'[i] = p
    <2>1. packets \in Seq(SSLPackets)
      BY DEF SSLTypes, ChanOK
    <2> HIDE DEF SSLPackets
    <2> QED BY <1>1, <2>1
  <1>4. \A i \in DOMAIN packets' : OwnPacket(packets'[i])
    BY <1>2, <1>3 DEF OwnPackets
  <1> QED BY <1>1, <1>4 DEF OwnRecords, OwnPackets

LEMMA ReceiveOwn ==
    ASSUME SSLTypes, SSLInv, OwnRecords, OwnPackets, Looping' => Looping, SSLReceive
    PROVE  OwnRecords' /\ OwnPackets'
  <1>1. PICK p : p = Head(packets)
    OBVIOUS
  <1>2. /\ p \in SSLPackets /\ 1 \in DOMAIN packets /\ packets[1] = p
        /\ \A j \in DOMAIN packets' : j + 1 \in DOMAIN packets /\ packets'[j] = packets[j + 1]
    BY <1>1, ChannelHead
  <1>3. OwnPacket(p) /\ \A j \in DOMAIN packets' : OwnPacket(packets'[j])
    BY <1>2 DEF OwnPackets
  <1>4. PICK k, h : GoesTo(k, h, p)
    BY <1>1, ReceiveEffect
  <1>5. ASSUME NEW l \in Keys, NEW g \in Sides, NEW i \in DOMAIN HalfAt(l, g).pages PROVE OwnPacket(HalfAt(l, g).pages[i])
    <2>1. CASE l \in DOMAIN pool
      <3>1. HalfAt(l, g) = pool[l][g]
        BY <2>1 DEF HalfAt
      <3> QED BY <1>5, <2>1, <3>1 DEF OwnPackets
    <2>2. CASE l \notin DOMAIN pool
      <3>1. DOMAIN HalfAt(l, g).pages = {}
        BY <2>2 DEF HalfAt, NewHalf
      <3> QED BY <1>5, <3>1
    <2> QED BY <2>1, <2>2
  <1>6. \A l \in DOMAIN pool' : l \in Keys
    BY <1>4 DEF GoesTo, SSLInv, PoolOK
  <1>7. ASSUME NEW l \in DOMAIN pool', NEW g \in Sides, NEW i \in DOMAIN pool'[l][g].pages PROVE OwnPacket(pool'[l][g].pages[i])
    <2>1. CASE ~(l = k /\ g = h)
      <3>1. pool'[l][g] = HalfAt(l, g)
        BY <1>4, <2>1 DEF GoesTo
      <3> QED BY <1>5, <1>6, <1>7, <3>1
    <2>2. CASE l = k /\ g = h /\ Takes(k, h, p)
      <3>1. DOMAIN pool'[l][g].pages = {}
        BY <2>2 DEF Takes
      <3> QED BY <1>7, <3>1
    <2>3. CASE l = k /\ g = h /\ Keeps(k, h, p)
      <3>1. PICK old : old = HalfAt(k, h).pages
        OBVIOUS
      <3>2. pool'[l][g].pages = Append(old, p)
        BY <2>3, <3>1 DEF Keeps
      <3>3. old \in Seq(SSLPackets)
        BY <1>4, <3>1, HalfInLine, HalfTypes DEF GoesTo
      <3>4. (i \in DOMAIN old /\ Append(old, p)[i] = old[i]) \/ Append(old, p)[i] = p
        <4> HIDE DEF SSLPackets
        <4>1. i \in DOMAIN Append(old, p)
          BY <3>2
        <4> QED BY <3>3, <4>1
      <3> QED BY <1>3, <1>5, <1>6, <2>3, <3>1, <3>2, <3>4
    <2> QED BY <1>4, <2>1, <2>2, <2>3 DEF GoesTo
  <1>8. \A i \in DOMAIN delivered' : OwnPacket(delivered'[i].pkt)
    <2>1. \A i \in DOMAIN delivered : OwnPacket(delivered[i].pkt)
      BY DEF OwnPackets
    <2>2. CASE delivered' = delivered
      BY <2>1, <2>2
    <2>3. CASE delivered' = delivered \o <<ChunkOf(k, h, p)>>
      <3>1. PICK c : c = ChunkOf(k, h, p)
        OBVIOUS
      <3>2. c.pkt = p
        BY <3>1 DEF ChunkOf, Chunk
      <3>3. delivered \in Seq(StreamChunks)
        BY DEF SSLInv, StreamOrdered, ChunksOrdered
      <3>4. \A i \in DOMAIN delivered' : (i \in DOMAIN delivered /\ delivered'[i] = delivered[i]) \/ delivered'[i] = c
        <4>1. delivered' = delivered \o <<c>>
          BY <2>3, <3>1
        <4> HIDE DEF StreamChunks
        <4> QED BY <3>3, <4>1
      <3> QED BY <1>3, <2>1, <3>2, <3>4
    <2> QED BY <1>4, <2>2, <2>3 DEF GoesTo, Takes, Keeps
  <1>9. OwnPackets'
    BY <1>3, <1>7, <1>8 DEF OwnPackets
  <1>10. OwnRecords'
    BY DEF OwnRecords, SSLReceive
  <1> QED BY <1>9, <1>10

LEMMA FlushOwn ==
    ASSUME SSLTypes, SSLInv, OwnRecords, OwnPackets, Looping' => Looping, NEW key \in DOMAIN pool, SSLFlush(key)
    PROVE  OwnRecords' /\ OwnPackets'
  <1>u. PICK u : u = Released(key, "first") \o Released(key, "other")
    OBVIOUS
  <1>1. /\ delivered' = delivered \o u
        /\ DOMAIN pool' \subseteq DOMAIN pool
        /\ \A l \in DOMAIN pool : l # key => pool'[l] = pool[l]
        /\ key \in DOMAIN pool' => \A h \in Sides : pool'[key][h].pages = <<>>
        /\ UNCHANGED <<ring, held, packets>>
    BY <1>u, FlushEffect
  <1>2. /\ ChunksOrdered(u)
        /\ \A i \in DOMAIN u : WaitsAt(key, u[i].pkt)
    BY <1>u, FlushedChunks
  <1>3. \A i \in DOMAIN u : OwnPacket(u[i].pkt)
    BY <1>2 DEF OwnPackets, WaitsAt
  <1>4. delivered \in Seq(StreamChunks) /\ u \in Seq(StreamChunks)
    BY <1>2 DEF SSLInv, StreamOrdered, ChunksOrdered
  <1>5. \A i \in DOMAIN delivered' : OwnPacket(delivered'[i].pkt)
    <2>1. /\ \A i \in DOMAIN delivered : delivered'[i] = delivered[i]
          /\ \A i \in DOMAIN delivered' : i \in DOMAIN delivered \/ (i - Len(delivered) \in DOMAIN u /\ delivered'[i] = u[i - Len(delivered)])
      BY <1>1, <1>4, ConcatFacts
    <2> QED BY <1>3, <2>1 DEF OwnPackets
  <1>6. ASSUME NEW l \in DOMAIN pool', NEW h \in Sides, NEW i \in DOMAIN pool'[l][h].pages PROVE OwnPacket(pool'[l][h].pages[i])
    <2>1. CASE l = key
      <3>1. DOMAIN pool'[l][h].pages = {}
        BY <1>1, <2>1
      <3> QED BY <1>6, <3>1
    <2>2. CASE l # key
      BY <1>1, <1>6, <2>2 DEF OwnPackets
    <2> QED BY <2>1, <2>2
  <1>7. OwnPackets'
    BY <1>1, <1>5, <1>6 DEF OwnPackets
  <1>8. OwnRecords'
    BY <1>1 DEF OwnRecords
  <1> QED BY <1>7, <1>8

LEMMA OwnStep ==
    ASSUME SSLTypes, SSLInv, OwnElements, OwnRecords, OwnPackets, Looping' => Looping, SSLNext
    PROVE  OwnRecords' /\ OwnPackets'
  <1>1. RingOrdered
    BY DEF SSLInv
  <1>2. CASE UNCHANGED <<ring, held, packets, pool, delivered>>
    BY <1>2, OwnSame
  <1>3. ASSUME NEW t \in Threads, NEW ret \in AllRets, ExitReserve(t, ret) PROVE OwnRecords' /\ OwnPackets'
    BY <1>3, ReserveOwn
  <1>4. ASSUME NEW t \in Threads, ExitSubmit(t) PROVE OwnRecords' /\ OwnPackets'
    BY <1>4, SubmitOwn
  <1>5. CASE Read /\ UNCHANGED ssl
    BY <1>1, <1>5, ReadOwn
  <1>6. CASE SSLSend
    BY <1>1, <1>6, SendOwn
  <1>7. CASE SSLReceive
    BY <1>7, ReceiveOwn
  <1>8. ASSUME NEW key \in DOMAIN pool, SSLFlush(key) PROVE OwnRecords' /\ OwnPackets'
    BY <1>8, FlushOwn
  <1>9. (QuietStep \/ \E t \in Threads : MissStep(t)) => UNCHANGED <<ring, held, packets, pool, delivered>>
    BY DEF QuietStep, MissStep
  <1> QED BY <1>2, <1>3, <1>4, <1>5, <1>6, <1>7, <1>8, <1>9, StepKinds

LEMMA BufferInvStep ==
    ASSUME SSLTypes, LoopLast, SSLInv, BufferInv, SSLNext
    PROVE  BufferInv'
  <1>1. BothProbes' /\ DetachLast' /\ (Looping' => Looping)
    BY ProbesStep DEF BufferInv
  <1>2. OwnElements'
    BY <1>1, ElementsStep DEF BufferInv
  <1>3. OwnRecords' /\ OwnPackets'
    BY <1>1, OwnStep DEF BufferInv
  <1> QED BY <1>1, <1>2, <1>3 DEF BufferInv

LEMMA BufferInvInit == ASSUME Init PROVE BufferInv
  <1>1. /\ ring = <<>> /\ held = None /\ packets = <<>> /\ pool = <<>> /\ delivered = <<>>
        /\ links = {} /\ closing = "no" /\ \A t \in Threads : thr[t].pc = "idle"
    BY DEF Init, SourceInit, SSLInit, Resting
  <1>2. DOMAIN ring = {} /\ DOMAIN packets = {} /\ DOMAIN pool = {} /\ DOMAIN delivered = {}
    BY <1>1
  <1>3. BothProbes /\ DetachLast
    BY <1>1 DEF BothProbes, DetachLast
  <1>4. OwnElements
    BY <1>1 DEF OwnElements, OwnElement
  <1>5. OwnRecords /\ OwnPackets
    BY <1>1, <1>2 DEF OwnRecords, OwnPackets
  <1> QED BY <1>3, <1>4, <1>5 DEF BufferInv

BufferSessionInv == SessionInv /\ (mode = "ebpf_ssl" /\ BeforePurge => BufferInv)

LEMMA BufferSame == ASSUME BufferInv, UNCHANGED vars PROVE BufferInv'
  <1>1. UNCHANGED <<loop, links, closing>> /\ UNCHANGED <<ring, held, packets, pool, delivered>>
        /\ UNCHANGED <<thr, argmap, buf_ptr, calls>>
    BY DEF vars, source, ssl
  <1>2. BothProbes' /\ DetachLast' /\ (Looping' => Looping)
    BY <1>1 DEF BufferInv, BothProbes, DetachLast, Looping
  <1> QED BY <1>1, <1>2, ElementsSame, OwnSame DEF BufferInv

LEMMA BufferSessionStep ==
    ASSUME Backends, BufferSessionInv, [Next]_vars
    PROVE  BufferSessionInv'
  <1>1. SessionInv'
    BY SessionInvStep DEF BufferSessionInv
  <1>2. mode' = mode
    BY StutterQuiet DEF Next, XDPMode, SSLMode
  <1>3. ASSUME mode = "ebpf_ssl", BeforePurge' PROVE BufferInv'
    <2>1. SSLTypes /\ LoopLast
      BY <1>3, ServerTypes DEF BufferSessionInv, SessionInv, CaptureInv
    <2>2. CASE UNCHANGED vars
      <3>1. BeforePurge
        BY <1>3, <2>2 DEF vars, ssl, seqs, BeforePurge
      <3> QED BY <1>3, <2>2, <3>1, BufferSame DEF BufferSessionInv
    <2>3. CASE Next
      <3>1. SSLNext
        BY <1>3, <2>3 DEF Next, XDPMode, SSLMode
      <3>2. BeforePurge
        BY <1>3, <2>1, <3>1, PurgeCounts
      <3> QED BY <1>3, <2>1, <3>1, <3>2, BufferInvStep DEF BufferSessionInv, SessionInv
    <2> QED BY <2>2, <2>3
  <1> QED BY <1>1, <1>2, <1>3 DEF BufferSessionInv

LEMMA PlacedIsKnown == ASSUME SSLInv, OwnPackets PROVE NothingVanishes
  <1> SUFFICES ASSUME NEW t \in Threads, NEW d \in Dirs, NEW n \in 1..calls[t][d], NEW a, a = [t |-> t, d |-> d, n |-> n]
               PROVE  \/ a \in lost \union InFlight
                      \/ \E c \in Range(delivered) : c.pkt.call = a /\ c.skip = 0 /\ (Whole(c.pkt) \/ Spoilt(c.pkt))
    BY DEF NothingVanishes
  <1>1. a \in CallIds /\ a.n \in 1..calls[a.t][a.d]
    <2>1. n \in Nat
      OBVIOUS
    <2> QED BY <2>1 DEF CallIds
  <1>2. a \in lost \/ \E s \in 1..6 : Place(s, a)
    <2> HIDE DEF CallIds
    <2> QED BY <1>1 DEF SSLInv, AllPlaced
  <1>3. ASSUME InStream(a) PROVE \E c \in Range(delivered) : c.pkt.call = a /\ c.skip = 0 /\ (Whole(c.pkt) \/ Spoilt(c.pkt))
    <2>1. PICK i \in DOMAIN delivered : delivered[i].pkt.call = a
      BY <1>3 DEF InStream
    <2>2. delivered \in Seq(StreamChunks)
      BY DEF SSLInv, StreamOrdered, ChunksOrdered
    <2>3. delivered[i] \in StreamChunks
      BY <2>2, SeqFacts
    <2>4. delivered[i].skip = 0
      BY <2>3 DEF StreamChunks
    <2>5. Whole(delivered[i].pkt) \/ Spoilt(delivered[i].pkt)
      BY DEF OwnPackets, OwnPacket, Own, Whole
    <2> QED BY <2>1, <2>4, <2>5 DEF Range
  <1>4. ASSUME InPages(a) PROVE a \in InFlight
    <2>1. PICK k \in DOMAIN pool, h \in Sides : \E i \in DOMAIN pool[k][h].pages : pool[k][h].pages[i].call = a
      BY <1>4 DEF InPages
    <2>2. PICK i \in DOMAIN pool[k][h].pages : pool[k][h].pages[i].call = a
      BY <2>1
    <2>3. PICK p : p = pool[k][h].pages[i]
      OBVIOUS
    <2>4. p \in Range(pool[k][h].pages)
      BY <2>2, <2>3 DEF Range
    <2>5. p \in Packets
      BY <2>4 DEF Packets, Sides
    <2>6. p.call \in {q.call : q \in Packets}
      BY <2>5
    <2> QED BY <2>2, <2>3, <2>6 DEF InFlight
  <1>5. InChannel(a) => a \in InFlight
    BY DEF InChannel, InFlight, Packets, Range
  <1>6. InHand(a) => a \in InFlight
    BY DEF InHand, InFlight
  <1>7. InRing(a) => a \in InFlight
    BY DEF InRing, InFlight, Range
  <1>8. InExitProbe(a) => a \in InFlight
    BY DEF InExitProbe, InFlight
  <1> QED BY <1>2, <1>3, <1>4, <1>5, <1>6, <1>7, <1>8 DEF Place

\* NothingVanishes: until purgeStaleSeqs runs, the data of each call is on its way, or was
\* delivered with every byte, or was lost where the code gives up, or was spoilt in the exit
\* probe (4096 bytes or more, a failed copy, a pointer that is not the call's own) and still
\* takes its place in the stream; the reassembler takes no record for a retransmission.
\* Threads are processes (PostgreSQL backends) with numbers below 2^24.
THEOREM CaptureLosesNothing ==
    ASSUME Backends
    PROVE  Spec => [](BeforePurge => NothingVanishes)
  <1>1. Init => BufferSessionInv
    BY SessionInvInit, BufferInvInit DEF BufferSessionInv
  <1>2. BufferSessionInv /\ [Next]_vars => BufferSessionInv'
    BY BufferSessionStep
  <1>3. BufferSessionInv => (BeforePurge => NothingVanishes)
    <2>1. NoCalls => NothingVanishes
      BY DEF NoCalls, NothingVanishes
    <2>2. SessionInv => mode \in {"ebpf", "ebpf_ssl"}
      BY ModesAssumption DEF SessionInv, CaptureInv, TypeOK
    <2> QED BY <2>1, <2>2, PlacedIsKnown DEF BufferSessionInv, SessionInv, BufferInv
  <1> QED BY <1>1, <1>2, <1>3, PTL DEF Spec

LEMMA StreamIsOwn ==
    ASSUME Backends, ServerPort = 5432, SSLInv, BufferInv
    PROVE  PlainTextStaysInSession
  <1>1. NoStalePointer
    BY DEF BufferInv, OwnPackets, OwnPacket, Own, NoStalePointer, Range
  <1>2. ChunksOrdered(delivered)
    BY DEF SSLInv, StreamOrdered
  <1>3. ASSUME NEW i \in DOMAIN delivered
        PROVE  /\ delivered[i].conn = Client(delivered[i].pkt.call.t)
               /\ delivered[i].fromClient = (delivered[i].pkt.call.d = "read")
               /\ delivered[i].pkt.call.t \in Threads
    <2>1. delivered \in Seq(StreamChunks) /\ ChunkOK(delivered[i])
      BY <1>2 DEF ChunksOrdered
    <2>2. delivered[i] \in StreamChunks
      BY <2>1, SeqFacts
    <2>3. delivered[i].pkt.call.t \in Threads
      BY <2>2, PacketNumbers, CallFacts DEF StreamChunks
    <2> QED BY <2>1, <2>3 DEF ChunkOK
  <1>4. ASSUME NEW i \in DOMAIN delivered, NEW j \in DOMAIN delivered
        PROVE  /\ delivered[i].fromClient <=> (delivered[i].pkt.call.d = "read")
               /\ delivered[i].conn = delivered[j].conn <=> delivered[i].pkt.call.t = delivered[j].pkt.call.t
               /\ i < j /\ delivered[i].pkt.call.t = delivered[j].pkt.call.t /\ delivered[i].pkt.call.d = delivered[j].pkt.call.d
                    => delivered[i].pkt.call.n < delivered[j].pkt.call.n
    <2>1. delivered[i].fromClient <=> (delivered[i].pkt.call.d = "read")
      <3>1. delivered[i].fromClient = (delivered[i].pkt.call.d = "read")
        BY <1>3
      <3> QED BY <3>1, Zenon
    <2>2. delivered[i].conn = delivered[j].conn <=> delivered[i].pkt.call.t = delivered[j].pkt.call.t
      BY <1>3, SameClient
    <2>3. i < j => Precedes(delivered[i].pkt.call, delivered[j].pkt.call)
      BY <1>2 DEF ChunksOrdered
    <2> QED BY <2>1, <2>2, <2>3 DEF Precedes, SameStream
  <1>5. DeliveredToOwnStream
    BY <1>4 DEF DeliveredToOwnStream
  <1> QED BY <1>1, <1>5 DEF PlainTextStaysInSession

\* PlainTextStaysInSession: until purgeStaleSeqs runs, what is delivered was not read through a
\* pointer that an earlier call of its thread, or a call of the other direction, has left, and
\* reaches the stream of its own session, in its direction and in order, also when the element
\* of an exit probe is taken by another thread before it is read.  The reassembler's port is
\* the synthetic packets' 5432, and threads are processes with numbers below 2^24.
THEOREM CapturePlainTextStays ==
    ASSUME Backends, ServerPort = 5432
    PROVE  Spec => [](BeforePurge => PlainTextStaysInSession)
  <1>1. Init => BufferSessionInv
    BY SessionInvInit, BufferInvInit DEF BufferSessionInv
  <1>2. BufferSessionInv /\ [Next]_vars => BufferSessionInv'
    BY BufferSessionStep
  <1>3. BufferSessionInv => (BeforePurge => PlainTextStaysInSession)
    <2>1. NoCalls => PlainTextStaysInSession
      <3>1. NoCalls => DOMAIN delivered = {}
        BY DEF NoCalls
      <3> QED BY <3>1 DEF PlainTextStaysInSession, NoStalePointer, DeliveredToOwnStream, Range
    <2>2. SessionInv => mode \in {"ebpf", "ebpf_ssl"}
      BY ModesAssumption DEF SessionInv, CaptureInv, TypeOK
    <2> QED BY <2>1, <2>2, StreamIsOwn DEF BufferSessionInv, SessionInv
  <1> QED BY <1>1, <1>2, <1>3, PTL DEF Spec
=============================================================================
