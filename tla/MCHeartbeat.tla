---------------------------- MODULE MCHeartbeat ----------------------------
(***************************************************************************)
(* A bounded instance of Heartbeat for TLC.                                *)
(***************************************************************************)
EXTENDS Heartbeat
=============================================================================
