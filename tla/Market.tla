-------------------------------- MODULE Market --------------------------------
(***************************************************************************)
(* One city pair served by computer-run airlines, and perhaps by a player:   *)
(* what demand a fare meets, what a week of flights earns, how often a bot    *)
(* flies and how it answers the others' fares, review after review.  Reviews  *)
(* come every six hours of game time, one of every bot in turn, in any order. *)
(*                                                                          *)
(* Reals are integers: money in hundredths of the reference fare of the route, *)
(* times in tenths of an hour, shares in per cent or per mille, flights that    *)
(* are flown in tenths.  A bot leases and buys aircraft with economy seats only. *)
(*                                                                          *)
(* Events and worn aircraft change the bill of a route and nothing else: the    *)
(* estimate by which the bots open and cut routes does not see them.           *)
(***************************************************************************)
EXTENDS Integers, FiniteSets

CONSTANTS
  Rivals,                \* the bots
  PriceMult, SchedRatio, \* of the archetype, per cent
  Adjustment,            \* of the archetype to its fare, per cent
  Leased,                \* bots whose aircraft is leased
  Capacity,              \* seats of the bot's aircraft, all economy
  MinProfit,             \* routeCandidateMinProfit
  Threshold,             \* bot_competitive_price_threshold, per cent
  Outsiders,             \* bound: fares of the player, 0 for none
  Events,                \* bound: what game_events make of demand, seats and costs
  MaxShocks,             \* bound: what changes from outside: stages, fares, events, ...
  Distance, Speed, Turnaround, MaxWeekly,
  PoolScale, OriginDemand, DestDemand,
  FuelPerFlight, CrewPerHour, MaintPerHour, LeasePerMonth

Base == 100

\* No event of the pair, nor of all: per cent of demand, seats, fuel and maintenance.
Calm == [demand |-> 100, capacity |-> 100, fuel |-> 100, maint |-> 100]

Stages == {"stable", "cautious", "defensive", "desperate"}

ASSUME MarketAssumption ==
  /\ IsFiniteSet(Rivals)
  /\ {PriceMult, SchedRatio, Adjustment, Capacity} \subseteq [Rivals -> Nat \ {0}]
  /\ Leased \subseteq Rivals
  /\ Outsiders \subseteq Nat
  /\ Events \subseteq [demand : Nat, capacity : Nat, fuel : Nat, maint : Nat]
  /\ \A b \in Rivals : Adjustment[b] >= 90
  /\ {Distance, Speed, Turnaround, MaxWeekly} \subseteq Nat \ {0}
  /\ (Distance * 10) \div Speed + Turnaround <= MaxWeekly * 10 \* one flight fits the week
  /\ {MinProfit, Threshold, MaxShocks, PoolScale, OriginDemand, DestDemand, FuelPerFlight,
      CrewPerHour, MaintPerHour, LeasePerMonth} \subseteq Nat

VARIABLES
  route,     \* status of the bot's route: "none", "active" or "cancelled"
  fare,      \* ticket_price
  flights,   \* flights_per_week
  stage,     \* distress
  outsider,  \* the player's fare
  event,     \* the multipliers of the active events
  unfit,     \* bots whose aircraft is below the condition threshold
  due,       \* bots that have not reviewed in this round
  shocks,
  cutAt      \* history: the fare at which the bot last cut its flights

outside == <<event, unfit>>
marketVars == <<route, fare, flights, stage, outsider, outside, due, shocks, cutAt>>

----------------------------------------------------------------------------
Least(a, b) == IF a < b THEN a ELSE b

Greatest(a, b) == IF a > b THEN a ELSE b

\* math.Round and round2: to the nearest, halves up.
Nearest(n, d) == (2 * n + d) \div (2 * d)

Ceiling(n, d) == (n + d - 1) \div d

----------------------------------------------------------------------------
(* Demand and capacity *)

\* Per mille: whole up to 500 km, 350 from 12000 km, and straight in between.
distanceDemandFactor(km) ==
  IF km <= 500 THEN 1000
  ELSE IF km >= 12000 THEN 350
  ELSE 1000 - ((km - 500) * 650) \div 11500

\* Per mille, of a fare in hundredths of the reference.
Elasticity(price) == Greatest(0, 1500 - (price * price * 8) \div 100)

\* Passengers a day, whatever the number of flights.
routeDailyDemand(price) ==
  (((PoolScale * OriginDemand * DestDemand) \div 10000) * distanceDemandFactor(Distance)
    * Elasticity(price)) \div 1000000

\* Who finds no premium seat flies economy: an aircraft without any takes the
\* whole pool.  Of the flights flown in a week, a day offers the nearest to a
\* seventh; an event e scales the seats and the pool.
allocateCabins(capacity, flown, price, e) ==
  Least((Nearest(capacity * flown, 70) * e.capacity) \div 100,
        (routeDailyDemand(price) * e.demand) \div 100) * price

FlightTime == (Distance * 10) \div Speed + Turnaround

calcMaxWeeklyFlights == (MaxWeekly * 10) \div FlightTime

\* Mutant of botTargetFlights: no flight is left where there is no demand.
botTargetFlightsNone(capacity, pool, ratio) ==
  IF capacity = 0 \/ calcMaxWeeklyFlights = 0 THEN 0
  ELSE Least(Ceiling(pool * 7 * ratio, capacity * 100), calcMaxWeeklyFlights)

\* The flights that carry ratio per cent of the pool, at least one and no more
\* than the aircraft can make.
botTargetFlights(capacity, pool, ratio) ==
  IF capacity = 0 \/ calcMaxWeeklyFlights = 0 THEN 0
  ELSE Least(Greatest(Ceiling(pool * 7 * ratio, capacity * 100), 1), calcMaxWeeklyFlights)

\* What an audit finds that a route needs at a fare, at defaultSchedRatio.
Healthy(b, price) == botTargetFlights(Capacity[b], routeDailyDemand(price), 72)

----------------------------------------------------------------------------
(* What a route earns: by the bot's estimate, and by the simulation's bill *)

\* Crew by the hour, by the size of the aircraft against 180 seats, half to two
\* and a half times.
crewCostFor(capacity) ==
  (CrewPerHour * Least(Greatest((capacity * 1000) \div 180, 500), 2500)) \div 1000

FuelCost(flown, e) == (flown * FuelPerFlight * e.fuel) \div 1000

CrewCost(b, flown) == (flown * FlightTime * crewCostFor(Capacity[b])) \div 100

MaintCost(flown, e) ==
  (flown * ((Distance * 10) \div Speed) * MaintPerHour * e.maint) \div 10000

LeaseCost(b, days) == IF b \in Leased THEN (LeasePerMonth * days) \div 30 ELSE 0

\* The estimate flies what the quotient of the week and the flight allows, not
\* rounded to whole flights.
EstimatedFlights(n) == Least(10 * n, (MaxWeekly * 100) \div FlightTime)


\* routeWeeklyProfit, without events.
WeeklyProfit(b, price, n) ==
  LET flown == EstimatedFlights(n)
      tickets == 7 * allocateCabins(Capacity[b], flown, price, Calm)
  IN  tickets + tickets \div 20
        - FuelCost(flown, Calm) - CrewCost(b, flown) - MaintCost(flown, Calm)
        - LeaseCost(b, 7)

\* The simulation flies whole flights, as many as the week holds.
BilledFlights(n) ==
  10 * (IF calcMaxWeeklyFlights > 0 /\ n > calcMaxWeeklyFlights THEN calcMaxWeeklyFlights ELSE n)

\* A window of ProcessPlayer, under the event there is: at most a week of flights,
\* but all of the lease.  A route whose aircraft is unfit is not selected, and its
\* lease is not idle either.
Billed(b, price, n, days) ==
  LET flown == BilledFlights(n)
      share == Least(days, 7)
      revenue == allocateCabins(Capacity[b], flown, price, event) * share
      operations == FuelCost(flown, event) + CrewCost(b, flown) + MaintCost(flown, event)
  IN  IF b \in unfit THEN 0
      ELSE revenue + revenue \div 20 - (operations * share) \div 7 - LeaseCost(b, days)

----------------------------------------------------------------------------
(* Fares *)

Serving == {b \in Rivals : route[b] = "active"}

\* The fares of the others on the pair, the player's among them.
Competitors(b) == {<<c, fare[c]>> : c \in Serving \ {b}}
                    \cup (IF outsider > 0 THEN {<<"outsider", outsider>>} ELSE {})

\* Their sum, as the number of <<fare, unit of it>>.
TotalFare(others) == Cardinality(UNION {{other} \X (1 .. other[2]) : other \in others})

AverageFare(others) ==
  IF others = {} THEN 0 ELSE TotalFare(others) \div Cardinality(others)

\* The fare of the archetype, lowered with the distress.
OwnFare(b) ==
  (Base * PriceMult[b] * (CASE stage[b] = "desperate" -> 90 [] stage[b] = "defensive" -> 95
                           [] stage[b] = "cautious" -> 98 [] OTHER -> Adjustment[b])) \div 10000

\* Mutant of UndercutTarget: the floor of the reference fare is missing.
UndercutTargetBare(average) == (average * 98) \div 100

\* What a bot that is undercut moves to: just below the others, but not below
\* nine tenths of the reference fare.
UndercutTarget(average) == Greatest((average * 98) \div 100, (Base * 9) \div 10)

Undercut(b) ==
  LET average == AverageFare(Competitors(b))
  IN  average > 0 /\ 100 * fare[b] > average * (100 + Threshold)

\* botRespondPrice: undercut by more than the threshold, cheapest by more than
\* the threshold, or neither.
botRespondPrice(b) ==
  LET price == fare[b]
      average == AverageFare(Competitors(b))
  IN  IF Undercut(b)
      THEN Nearest(price * 35 + UndercutTarget(average) * 65, 100)
      ELSE IF average > 0 /\ 100 * price < average * (100 - Threshold)
      THEN Nearest(price * 70 + ((average * 99) \div 100) * 30, 100)
      ELSE Nearest(price * 55 + OwnFare(b) * 45, 100)

OpeningFare(b) == (Base * PriceMult[b]) \div 100

----------------------------------------------------------------------------
routePerformance(b) == WeeklyProfit(b, fare[b], flights[b])

\* Mutant of AuditedFlights: a losing route gives up one flight per audit.
AuditedFlightsStepwise(b) ==
  IF routePerformance(b) < 0 /\ Healthy(b, fare[b]) < flights[b]
  THEN flights[b] - 1 ELSE flights[b]

\* The audit of a losing route: the flights its demand needs, in one cut.
AuditedFlights(b) ==
  IF routePerformance(b) < 0 /\ Healthy(b, fare[b]) < flights[b]
  THEN Healthy(b, fare[b]) ELSE flights[b]

\* The turn of a bot: first the audit of its route, then the review of its fare,
\* which a bot that is alone makes only now and then.
Turn(b) ==
  /\ b \in due
  /\ due' = due \ {b}
  /\ IF b \in Serving
     THEN /\ flights' = [flights EXCEPT ![b] = AuditedFlights(b)]
          /\ cutAt' = [cutAt EXCEPT ![b] = IF AuditedFlights(b) < flights[b] THEN fare[b] ELSE @]
          /\ \/ fare' = [fare EXCEPT ![b] = botRespondPrice(b)]
             \/ Competitors(b) = {} /\ UNCHANGED fare
     ELSE UNCHANGED <<fare, flights, cutAt>>
  /\ UNCHANGED <<route, stage, outsider, outside, shocks>>

NewRound ==
  /\ due = {}
  /\ due' = Rivals
  /\ UNCHANGED <<route, fare, flights, stage, outsider, outside, shocks, cutAt>>

Shock ==
  /\ shocks < MaxShocks
  /\ shocks' = shocks + 1

\* botHandleRouteCreation takes the pair where it expects to earn a thousand a
\* week, but never again one that it has closed.
Opens(b) ==
  LET target == botTargetFlights(Capacity[b], routeDailyDemand(OpeningFare(b)), SchedRatio[b])
  IN  /\ route[b] = "none"
      /\ WeeklyProfit(b, OpeningFare(b), target) >= MinProfit
      /\ Shock
      /\ route' = [route EXCEPT ![b] = "active"]
      /\ fare' = [fare EXCEPT ![b] = OpeningFare(b)]
      /\ flights' = [flights EXCEPT ![b] = target]
      /\ UNCHANGED <<stage, outsider, outside, due, cutAt>>

\* The audits or the end of the airline close the route (BotAirline, BotRoster).
Closes(b) ==
  /\ b \in Serving
  /\ Shock
  /\ route' = [route EXCEPT ![b] = "cancelled"]
  /\ UNCHANGED <<fare, flights, stage, outsider, outside, due, cutAt>>

\* The bot's balance moves it to another stage.
Distressed(b) ==
  /\ Shock
  /\ \E s \in Stages \ {stage[b]} : stage' = [stage EXCEPT ![b] = s]
  /\ UNCHANGED <<route, fare, flights, outsider, outside, due, cutAt>>

\* A player enters, leaves or reprices, at any fare.
Player ==
  /\ Shock
  /\ outsider' \in Outsiders \ {outsider}
  /\ UNCHANGED <<route, fare, flights, stage, outside, due, cutAt>>

\* An event of the pair or of all begins; each ends after its 72 hours.
EventBegins ==
  /\ Shock
  /\ event' \in Events \ {event}
  /\ UNCHANGED <<route, fare, flights, stage, outsider, unfit, due, cutAt>>

EventEnds ==
  /\ event # Calm
  /\ event' = Calm
  /\ UNCHANGED <<route, fare, flights, stage, outsider, unfit, due, shocks, cutAt>>

\* The simulation wears the aircraft under the threshold, and the bot repairs it.
Wears(b) ==
  /\ b \in Serving \ unfit
  /\ Shock
  /\ unfit' = unfit \cup {b}
  /\ UNCHANGED <<route, fare, flights, stage, outsider, event, due, cutAt>>

Repaired(b) ==
  /\ b \in unfit
  /\ unfit' = unfit \ {b}
  /\ UNCHANGED <<route, fare, flights, stage, outsider, event, due, shocks, cutAt>>

----------------------------------------------------------------------------
MarketInit ==
  /\ route \in [Rivals -> {"none", "active"}]
  /\ fare = [b \in Rivals |-> OpeningFare(b)]
  /\ flights = [b \in Rivals |->
                  botTargetFlights(Capacity[b], routeDailyDemand(OpeningFare(b)), SchedRatio[b])]
  /\ stage = [b \in Rivals |-> "stable"]
  /\ outsider = 0
  /\ event = Calm
  /\ unfit = {}
  /\ due = {}
  /\ shocks = 0
  /\ cutAt = [b \in Rivals |-> 0]

Reviews == NewRound \/ \E b \in Rivals : Turn(b)

MarketNext ==
  \/ Reviews \/ Player \/ EventBegins \/ EventEnds
  \/ \E b \in Rivals : Opens(b) \/ Closes(b) \/ Distressed(b) \/ Wears(b) \/ Repaired(b)

MarketSpec == MarketInit /\ [][MarketNext]_marketVars

\* The world ticks (Worker.KeepsTicking): the cooldown of the reviews passes, and
\* the hours of an event.
MarketFairSpec == MarketSpec /\ WF_marketVars(Reviews) /\ WF_marketVars(EventEnds)

----------------------------------------------------------------------------
\* The type invariant.  Whoever serves flies, and no more than the aircraft can.
MarketTypeOK ==
  /\ route \in [Rivals -> {"none", "active", "cancelled"}]
  /\ fare \in [Rivals -> Nat]
  /\ flights \in [Rivals -> 0 .. calcMaxWeeklyFlights]
  /\ stage \in [Rivals -> Stages]
  /\ outsider \in Outsiders \cup {0}
  /\ event \in Events \cup {Calm}
  /\ unfit \subseteq Rivals
  /\ due \subseteq Rivals
  /\ shocks \in 0 .. MaxShocks
  /\ cutAt \in [Rivals -> Nat]
  /\ \A b \in Serving : fare[b] > 0 /\ flights[b] > 0

\* However low the others go, review after review, a bot's fare stays above nine
\* tenths of the reference fare (bots_decide.go:123, "never below the marginal
\* base fare") or of the fare of its archetype, where that is lower.
NoRaceToBottom ==
  \A b \in Serving : 10 * fare[b] >= 9 * Least(Base, OpeningFare(b)) - 9

\* "One audit is enough now" (bots.go:406-410): a bot that has cut the flights of
\* a losing route cuts them again only at a higher fare, that is for less demand.
OneCutEnough ==
  [][\A b \in Rivals : flights'[b] \in 1 .. flights[b] - 1 => fare[b] > cutAt[b]]_marketVars


\* Violated: a bot "blends [...] with a decisive response to a cheaper competitor,
\* so bots converge toward the market within 1-2 reviews" (bots_decide.go:102-103).
\* Once back within the threshold a bot drifts up to its own fare until it is
\* undercut again, for ever where two archetypes are apart by more than it.
ConvergesToMarket == <>[](\A b \in Serving : ~ Undercut(b))
=============================================================================
