-------------------------- MODULE MCOrderPipeline ---------------------------
(* An instance of OrderPipeline for TLC.                                   *)
EXTENDS OrderPipeline
=============================================================================
