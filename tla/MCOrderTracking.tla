-------------------------- MODULE MCOrderTracking ---------------------------
(* An instance of OrderTracking for TLC.                                   *)
EXTENDS OrderTracking
=============================================================================
