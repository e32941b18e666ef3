----------------------------- MODULE Reassembler -----------------------------
(***************************************************************************)
(* The TCP reassembler (src/pkg/capture/reassembler.go), as operators on   *)
(* its pool of connections.  A connection is found by the four-tuple of    *)
(* its first packet or by the reverse of it.  The reassembly of one half   *)
(* of a connection is external (gopacket/reassembly): the first packet     *)
(* sets the baseline, since Accept forces start; bytes before the next     *)
(* expected one are dropped as retransmitted, packets beyond it wait.      *)
(*                                                                         *)
(* A packet has the fields src, sport, dst, dport, seq and len.            *)
(***************************************************************************)
EXTENDS Integers, Sequences, FiniteSets, SequencesExt

Tuple(p) == [src |-> p.src, sport |-> p.sport, dst |-> p.dst, dport |-> p.dport]
Reversed(t) == [src |-> t.dst, sport |-> t.dport, dst |-> t.src, dport |-> t.sport]

\* streamFactory.New: was the connection's first packet sent by the client?
FirstFromClient(t, serverPort) == t.dport = serverPort \/ t.sport # serverPort
\* The ConnID, oriented from the client to the server.
ConnID(t, serverPort) == IF FirstFromClient(t, serverPort) THEN t ELSE Reversed(t)

NewHalf == [started |-> FALSE, next |-> 0, pages |-> <<>>]
NewConn == [first |-> NewHalf, other |-> NewHalf]

\* The connection of packet p in the pool, and the half that p belongs to.
KeyOf(pool, p) == IF Reversed(Tuple(p)) \in DOMAIN pool THEN Reversed(Tuple(p)) ELSE Tuple(p)
HalfOf(pool, p) == IF KeyOf(pool, p) = Tuple(p) THEN "first" ELSE "other"
ConnOf(pool, p) == IF KeyOf(pool, p) \in DOMAIN pool THEN pool[KeyOf(pool, p)] ELSE NewConn

\* A packet against the next expected byte: delivered from that byte on,
\* dropped, or kept for later; a flush skips the bytes that are missing.
Offer(r, p, flush) ==
  LET next == IF flush /\ p.seq > r.next THEN p.seq ELSE r.next
  IN  IF p.seq > next THEN [r EXCEPT !.pages = Append(@, p)]
      ELSE IF p.seq + p.len <= next THEN [r EXCEPT !.next = next]
      ELSE [r EXCEPT !.out = Append(@, [pkt |-> p, skip |-> next - p.seq]),
                     !.next = p.seq + p.len]

\* The packets of ps, one after the other, against a half whose next expected
\* byte is next.
Offered(next, ps, flush) ==
  LET r[i \in 0..Len(ps)] == IF i = 0 THEN [next |-> next, pages |-> <<>>, out |-> <<>>]
                             ELSE Offer(r[i - 1], ps[i], flush)
  IN  r[Len(ps)]

\* A packet joins the pages behind those with sequence numbers up to its own.
Queued(pages, p) == InsertAt(pages, Cardinality({i \in DOMAIN pages : pages[i].seq <= p.seq}) + 1, p)

Baseline(half, p) == IF half.started THEN half.next ELSE p.seq

Assembled(half, p) == Offered(Baseline(half, p), Queued(half.pages, p), FALSE)
Flushed(half) == Offered(half.next, half.pages, TRUE)

Half(r) == [started |-> TRUE, next |-> r.next, pages |-> r.pages]

\* ReassembledSG: the handler gets the bytes with the connection and direction.
Chunk(key, side, serverPort, o) ==
  [pkt |-> o.pkt, skip |-> o.skip, conn |-> ConnID(key, serverPort),
   fromClient |-> (side = "first") = FirstFromClient(key, serverPort)]
Chunks(key, side, serverPort, out) == [i \in DOMAIN out |-> Chunk(key, side, serverPort, out[i])]

Insert(pool, key, conn) == [k \in DOMAIN pool \union {key} |-> IF k = key THEN conn ELSE pool[k]]

\* Assemble(pkt): the pool afterwards, and what is delivered to OnBytes.
PoolAfter(pool, p) ==
  LET side == HalfOf(pool, p)
      conn == ConnOf(pool, p)
  IN  Insert(pool, KeyOf(pool, p), [conn EXCEPT ![side] = Half(Assembled(@, p))])
Delivers(pool, p, serverPort) ==
  Chunks(KeyOf(pool, p), HalfOf(pool, p), serverPort, Assembled(ConnOf(pool, p)[HalfOf(pool, p)], p).out)

\* FlushOlderThan, for one connection: packets that have waited for long are
\* delivered; a connection that has been idle is then released with OnClose.
PoolFlushed(pool, key) ==
  [pool EXCEPT ![key] = [side \in DOMAIN @ |-> IF @[side].started THEN Half(Flushed(@[side])) ELSE @[side]]]
PoolWithout(pool, key) == [k \in DOMAIN pool \ {key} |-> pool[k]]
FlushDelivers(pool, key, serverPort) ==
  Chunks(key, "first", serverPort, Flushed(pool[key].first).out)
    \o Chunks(key, "other", serverPort, Flushed(pool[key].other).out)
=============================================================================
