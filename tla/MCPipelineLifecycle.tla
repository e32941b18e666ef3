------------------------- MODULE MCPipelineLifecycle -------------------------
(***************************************************************************)
(* PipelineLifecycle for TLC: one module for every configuration; which    *)
(* callers exist and what may fail is chosen by the cfg files.             *)
(***************************************************************************)
EXTENDS PipelineLifecycle

CONSTANTS h1, h2, det, ipA, ipB
=============================================================================
