--------------------------- MODULE BillingPromise ---------------------------
(***************************************************************************)
(* What the simulation promises a player about game time, whoever drives    *)
(* it: the spans between the player's clock and the season's are billed     *)
(* together, each once, in one step with the clock, never ahead of the      *)
(* season.  A reset starts a new account at the season's time.              *)
(***************************************************************************)
EXTENDS Integers

CONSTANTS Players, MaxTime

VARIABLES season, clock, start, billed

vars == <<season, clock, start, billed>>

Spans == 0 .. MaxTime - 1

Init ==
  /\ season = 0
  /\ clock = [p \in Players |-> 0]
  /\ start = [p \in Players |-> 0]
  /\ billed = [p \in Players |-> [t \in Spans |-> 0]]

\* The world moves on one tick.
Advance ==
  /\ season < MaxTime
  /\ season' = season + 1
  /\ UNCHANGED <<clock, start, billed>>

\* Player p is brought up to time u: the spans in between, all of them, once.
Bill(p, u) ==
  /\ clock[p] < u /\ u <= season
  /\ clock' = [clock EXCEPT ![p] = u]
  /\ billed' = [billed EXCEPT ![p] = [t \in Spans |->
                  @[t] + IF clock[p] <= t /\ t < u THEN 1 ELSE 0]]
  /\ UNCHANGED <<season, start>>

\* Player p begins a new airline.
Restart(p) ==
  /\ clock' = [clock EXCEPT ![p] = season]
  /\ start' = [start EXCEPT ![p] = season]
  /\ billed' = [billed EXCEPT ![p] = [t \in Spans |-> 0]]
  /\ UNCHANGED season

Next ==
  \/ Advance
  \/ \E p \in Players : Restart(p) \/ \E u \in 1 .. season : Bill(p, u)

Spec == Init /\ [][Next]_vars
=============================================================================
