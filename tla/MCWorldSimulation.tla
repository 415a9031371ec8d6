------------------------ MODULE MCWorldSimulation ------------------------
(* WorldSimulation on small instances. *)
EXTENDS WorldSimulation

\* An hour can lose, or earn; the loss takes an account below the floor in two.
MCNetFlows == {-2, 1}
MCFloor == -3
============================================================================
