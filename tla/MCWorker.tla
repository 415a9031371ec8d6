------------------------------ MODULE MCWorker ------------------------------
(* Worker with an interval longer than the first backoff. *)
EXTENDS Worker
=============================================================================
