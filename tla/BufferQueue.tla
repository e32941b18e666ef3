---------------------------- MODULE BufferQueue ----------------------------
(***************************************************************************)
(* What pgshadow's in-memory Buffer_Queue promises the rest of the         *)
(* pipeline (src/pkg/queue/queue.go: the Queue interface and its           *)
(* OverflowPolicy): a bounded FIFO that is filled by producers, emptied by *)
(* consumers, and can be closed once.  A producer numbers its own events;  *)
(* it stands for one source connection (ConnID).  How callers wait is not  *)
(* visible here: RingBuffer refines this module.                           *)
(***************************************************************************)
EXTENDS Integers, Sequences

CONSTANTS Producers,   \* callers of Enqueue, one per source connection
          Capacity,    \* Config.Capacity
          Policies,    \* the overflow policies a configuration may name
          MaxSeq       \* bound: events a producer offers

\* The part of core.SQLEvent that order is about: its ConnID and its Seq.
Event == [conn : Producers, seq : 1..MaxSeq]

VARIABLES q,           \* the buffered events, oldest first
          policy,      \* Config.Overflow: drop_oldest, drop_newest or block
          closed,      \* Close was called
          sent,        \* events offered so far, per producer
          out,         \* events handed to consumers, in order
          dropped      \* Enqueue calls that discarded an event

qvars == <<q, policy, closed, sent, out, dropped>>

QInit == /\ q = << >>
         /\ policy \in Policies
         /\ closed = FALSE
         /\ sent = [p \in Producers |-> 0]
         /\ out = << >>
         /\ dropped = 0

\* The event producer p offers next.
NextEvent(p) == [conn |-> p, seq |-> sent[p] + 1]

Offer(p) == /\ sent[p] < MaxSeq
            /\ sent' = [sent EXCEPT ![p] = @ + 1]

\* Enqueue with room: the event goes to the back.
Put(p) == /\ Offer(p)
          /\ ~closed
          /\ Len(q) < Capacity
          /\ q' = Append(q, NextEvent(p))
          /\ UNCHANGED <<closed, out, dropped>>

\* Enqueue at capacity under drop_oldest: the front makes room.
PutEvict(p) == /\ Offer(p)
               /\ ~closed
               /\ policy = "drop_oldest"
               /\ Len(q) = Capacity
               /\ q' = Append(Tail(q), NextEvent(p))
               /\ dropped' = dropped + 1
               /\ UNCHANGED <<closed, out>>

\* Enqueue at capacity under drop_newest: the offered event is discarded.
PutReject(p) == /\ Offer(p)
                /\ ~closed
                /\ policy = "drop_newest"
                /\ Len(q) = Capacity
                /\ dropped' = dropped + 1
                /\ UNCHANGED <<q, closed, out>>

\* Enqueue on a closed queue: the event is refused and not counted.
PutClosed(p) == /\ Offer(p)
                /\ closed
                /\ UNCHANGED <<q, closed, out, dropped>>

\* Dequeue returns the oldest event, also after Close.
Get == /\ q # << >>
       /\ out' = Append(out, Head(q))
       /\ q' = Tail(q)
       /\ UNCHANGED <<closed, sent, dropped>>

QClose == /\ ~closed
          /\ closed' = TRUE
          /\ UNCHANGED <<q, sent, out, dropped>>

QNext == /\ \/ \E p \in Producers : \/ Put(p)       \/ PutEvict(p)
                                     \/ PutReject(p) \/ PutClosed(p)
            \/ Get
            \/ QClose
         /\ UNCHANGED policy

QSpec == QInit /\ [][QNext]_qvars
----------------------------------------------------------------------------
\* Everything that came out, followed by everything still inside.
History == out \o q

(***************************************************************************)
(* Per-connection order (R6.6, ringbuffer.go:3-5): of two events of one    *)
(* connection, the one offered first is delivered first; events may be     *)
(* missing (overflow, close) but never swapped or repeated, whether they   *)
(* have been handed out or are still buffered.                             *)
(***************************************************************************)
PerConnOrder ==
    \A i, j \in 1..Len(History) :
        i < j /\ History[i].conn = History[j].conn
            => History[i].seq < History[j].seq
=============================================================================
