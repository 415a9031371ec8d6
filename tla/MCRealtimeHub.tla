---------------------------- MODULE MCRealtimeHub ----------------------------
(* RealtimeHub with two connections; the names and the buffer are in the cfgs. *)
EXTENDS RealtimeHub
=============================================================================
