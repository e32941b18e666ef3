----------------------------- MODULE MCKafkaQueue -----------------------------
(***************************************************************************)
(* KafkaQueue for TLC.                                                     *)
(***************************************************************************)
EXTENDS KafkaQueue
=============================================================================
