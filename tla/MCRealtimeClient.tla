-------------------------- MODULE MCRealtimeClient --------------------------
(* RealtimeClient with two stores that share a channel, and in an outage. *)
EXTENDS RealtimeClient

\* The API is down throughout: no ticket comes, so no socket is made.
OutageSpec == ClientInit /\ [][ClientNext /\ net' = net]_clientVars
=============================================================================
