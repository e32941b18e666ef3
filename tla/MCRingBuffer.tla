---------------------------- MODULE MCRingBuffer ----------------------------
(***************************************************************************)
(* Model-checking instances of RingBuffer.  The .cfg files choose the      *)
(* overflow policy, the goroutines, the capacity and how many events each  *)
(* producer offers: enough to wrap around the array and to overflow it.    *)
(***************************************************************************)
EXTENDS RingBuffer
=============================================================================
