----------------------------- MODULE MCGateway -----------------------------
(***************************************************************************)
(* An instance of StationConnections for TLC.                              *)
(***************************************************************************)
EXTENDS StationConnections
=============================================================================
