---------------------------- MODULE MCEBPFCapture ----------------------------
(***************************************************************************)
(* EBPFCapture for TLC: the frames and the threads.                        *)
(***************************************************************************)
EXTENDS EBPFCapture

CONSTANTS cpu1, cpu2

NoPorts == <<0, 0>>
Frame(h_proto, protocol, ihl, len, ports, elsewhere, postgres) ==
  [h_proto |-> h_proto, protocol |-> protocol, ihl |-> ihl, len |-> len, postgres |-> postgres,
   at |-> [o \in {34, 38, 54} |->
             IF o = (IF h_proto = "IPv6" THEN 54 ELSE 14 + 4 * ihl) THEN ports ELSE elsewhere]]

\* A query and an answer, over IPv4 and IPv6, with and without IP options,
\* up to and beyond the snap length.
Wanted == {Frame("IPv4", 6, 5, 120, <<40000, 5432>>, NoPorts, TRUE),
           Frame("IPv4", 6, 6, 4095, <<40000, 5432>>, NoPorts, TRUE),
           Frame("IPv6", 6, 5, 5000, <<5432, 40001>>, NoPorts, TRUE)}
\* Too short, not IP, not TCP, of another port, with an incomplete header, and
\* with IP options that look like PostgreSQL's ports.
Unwanted == {Frame("IPv4", 6, 5, 10, NoPorts, NoPorts, FALSE),
             Frame("ARP", 0, 0, 60, NoPorts, NoPorts, FALSE),
             Frame("IPv4", 17, 5, 120, <<40000, 5432>>, NoPorts, FALSE),
             Frame("IPv4", 6, 5, 120, <<40000, 5433>>, <<5432, 5432>>, FALSE),
             Frame("IPv6", 6, 5, 60, <<40000, 5432>>, NoPorts, FALSE),
             Frame("IPv4", 6, 6, 120, <<80, 443>>, <<5432, 5432>>, FALSE)}
MCFrames == Wanted \union Unwanted

\* Backends, whose thread is the process: the port 5432 itself, and a number
\* with the same low 16 bits.
MCThreads == {[pid |-> 5432, tid |-> 5432], [pid |-> 70968, tid |-> 70968]}

\* SSL_read fits a record and SSL_write is above the cap; both fit.
MixedRets == [read |-> {100}, write |-> {5000}]
SmallRets == [read |-> {100}, write |-> {100}]
=============================================================================
