------------------------------- MODULE Hangar -------------------------------
(***************************************************************************)
(* What an airline is promised about its aircraft, whatever requests race:  *)
(* an aircraft serves one route at a time, leaves the fleet only while it   *)
(* serves none, and is settled with the player exactly once when it does.   *)
(***************************************************************************)
EXTENDS Naturals

CONSTANTS Aircraft, Routes, NoAircraft

VARIABLES
  present, \* aircraft of the fleet
  holds,   \* the aircraft each route flies with
  settled  \* sales and lease terminations booked

vars == <<present, holds, settled>>

Free(a) == \A r \in Routes : holds[r] # a

Init ==
  /\ present = {}
  /\ holds = [r \in Routes |-> NoAircraft]
  /\ settled = 0

Join(a) ==
  /\ present' = present \cup {a}
  /\ UNCHANGED <<holds, settled>>

Assign(r, a) ==
  /\ a \in present
  /\ \A q \in Routes \ {r} : holds[q] # a
  /\ holds' = [holds EXCEPT ![r] = a]
  /\ UNCHANGED <<present, settled>>

Release(r) ==
  /\ holds' = [holds EXCEPT ![r] = NoAircraft]
  /\ UNCHANGED <<present, settled>>

Dispose(a) ==
  /\ a \in present
  /\ Free(a)
  /\ present' = present \ {a}
  /\ settled' = settled + 1
  /\ UNCHANGED holds

\* The airline is reset.
Disband ==
  /\ present' = {}
  /\ holds' = [r \in Routes |-> NoAircraft]
  /\ UNCHANGED settled

Next ==
  \/ \E a \in Aircraft : Join(a) \/ Dispose(a)
  \/ \E r \in Routes : Release(r) \/ \E a \in Aircraft : Assign(r, a)
  \/ Disband

Spec == Init /\ [][Next]_vars
=============================================================================
