---------------------------- MODULE MCBotAirline ----------------------------
(* BotAirline on small instances. *)
EXTENDS BotAirline, TLC

\* Repairs and audits are allowed in every turn of six hours, the rest in every other
\* one; repairs and growth wait 12 and 18 hours in the code, the others as long as here.
MCEvery == [repair |-> 6, growth |-> 12, audit |-> 4, change |-> 8, financial |-> 12]

\* Desperate, in between, and rich enough to buy an aircraft.
MCCashes == {4, 20, 80}

\* Airframes and destinations are interchangeable.
MCSymmetry == Permutations(Aircraft) \cup Permutations(Airports)
============================================================================
