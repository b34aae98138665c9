----------------------------- MODULE MCClients ------------------------------
(* An instance of Clients for TLC.                                         *)
EXTENDS Clients
=============================================================================
