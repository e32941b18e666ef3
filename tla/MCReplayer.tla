------------------------------ MODULE MCReplayer ------------------------------
(***************************************************************************)
(* Replayer for TLC: the configurations of the runs.                       *)
(***************************************************************************)
EXTENDS Replayer

Bounded == [serial |-> FALSE, slots |-> 2, pool |-> 2, lanes |-> 2, queue |-> 0, lag |-> FALSE,
            policy |-> "skip", attempts |-> 0, faults |-> TRUE, cancels |-> TRUE]

\* A slot for each of the lanes under skip; one slot for all of them; serial
\* replay under retry; and serial replay under abort on a pool that is smaller
\* than the number of sources.
AllModes == {Bounded, [Bounded EXCEPT !.slots = 1, !.lanes = 1, !.faults = FALSE],
             [Bounded EXCEPT !.policy = "retry", !.attempts = 1, !.serial = TRUE, !.slots = 1],
             [Bounded EXCEPT !.serial = TRUE, !.slots = 1, !.pool = 1, !.policy = "abort"]}

\* Nothing fails and nobody cancels.
Quiet == [Bounded EXCEPT !.lanes = 4, !.faults = FALSE, !.cancels = FALSE]

\* The guard's queue depth is configured.
QueueGuard == {[Quiet EXCEPT !.queue = 1]}
=============================================================================
