------------------------------ MODULE BotAirline ------------------------------
(***************************************************************************)
(* One computer-run airline over the world ticks: the decisions of pass 2   *)
(* of ProcessBots, handler by handler, in their order.  The bot keeps, in    *)
(* its profile, when it last did a thing of each kind; a thing is done and   *)
(* then marked by a second statement, whose error is dropped.  The balance   *)
(* is read once, before the handlers that spend from it.                     *)
(*                                                                          *)
(* Between two turns the balance is the simulation's (WorldSimulation), so   *)
(* every turn finds any of Cashes.  Whether a route earns or loses, and what  *)
(* frequency would serve its demand, is Market's.  Random choices are        *)
(* choices.  Money is in units of half a million.                            *)
(***************************************************************************)
EXTENDS Integers, FiniteSets

CONSTANTS
  Aircraft, Airports,  \* bounds: airframes, and destinations of the hub
  Nothing, Closed,     \* no route yet, and none any more
  Unflown,             \* a route without an aircraft
  Every,               \* game hours between two acts of a kind
  TickHours,           \* game hours between two ticks
  FleetCap,            \* TargetFleetCap of the archetype
  Reserve,             \* MinCashReserve of the archetype
  StartingCash, Million,
  LossDays,            \* bot_consecutive_loss_days_threshold
  RepairCost, LeaseCost, Price,
  Cashes, Balances,    \* bounds: balances of the account, 20% of a loan's balance
  MaxLoans, MaxFaults  \* bounds

Kinds == {"repair", "growth", "audit", "change", "financial"}

\* Writes whose dropped errors matter later: the marks "change" and "recovery" and the
\* reset of the loss days.
Losses == {"change", "recovery", "reset"}

ASSUME AirlineAssumption ==
  /\ IsFiniteSet(Aircraft) /\ IsFiniteSet(Airports)
  /\ {Nothing, Closed, Unflown} \cap Aircraft = {} /\ Cardinality({Nothing, Closed, Unflown}) = 3
  /\ Every \in [Kinds -> Nat \ {0}]
  /\ {TickHours, FleetCap, Reserve, StartingCash, Million, LossDays,
      RepairCost, LeaseCost, Price, MaxLoans, MaxFaults} \subseteq Nat \ {0}
  /\ Cashes \subseteq Nat /\ Balances \subseteq Nat \ {0}

VARIABLES
  phase,         \* the handler that is next, "away" between turns
  stage,         \* Stage of botDistress
  losing,        \* consecutive_negative_days > 0
  seen,          \* the cash read at the start of the turn
  cash,          \* the balance, 0 between turns
  profile,       \* is there a bot_profiles row
  since,         \* game hours since the mark of each kind, up to Every
  lossDays, recoveryTaken,
  fleet, worn,   \* aircraft, those below the condition threshold
  route,         \* of each destination: Nothing, Closed, Unflown or the aircraft
  loans,         \* active loans
  faults,
  quiet,         \* history: game hours since a route was opened, cut or closed
  recoveries,    \* history: recovery loans since the last stable turn
  lost           \* history: errors dropped, by what they lost

turn == <<phase, stage, losing, seen, cash>>
marks == <<since, lossDays, recoveryTaken>>
airline == <<fleet, worn, route>>
history == <<quiet, recoveries, lost>>
vars == <<turn, profile, marks, airline, loans, faults, history>>

----------------------------------------------------------------------------
LesserOf(a, b) == IF a < b THEN a ELSE b

Fault ==
  /\ faults < MaxFaults
  /\ faults' = faults + 1

NoFault == UNCHANGED faults

Routes == {d \in Airports : route[d] \notin {Nothing, Closed}}

\* What routePerformance joins: routes with an aircraft.
FlownRoutes == {d \in Airports : route[d] \in Aircraft}

Stranded == {d \in Airports : route[d] = Unflown}

Idle == {a \in fleet : \A d \in Airports : route[d] # a}

\* balance is under pct per cent of the starting cash
Under(balance, pct) == 100 * balance < pct * StartingCash

Distress(days, balance) ==
  IF days >= 5 \/ Under(balance, 18) THEN "desperate"
  ELSE IF days >= 3 \/ Under(balance, 30) THEN "defensive"
  ELSE IF days >= 1 \/ Under(balance, 50) THEN "cautious"
  ELSE "stable"

\* MinCashReserve in tenths of the unit, raised with the distress.
ReserveTenths ==
  Reserve * (CASE stage = "desperate" -> 15 [] stage = "defensive" -> 13
               [] stage = "cautious" -> 11 [] OTHER -> 10)

\* Every cooldown is a query on the profile: without that row it says no.
Allowed(kind) == profile /\ since[kind] >= Every[kind]

\* A dropped error is counted where it may matter later.
Forget(kind, ok) == IF ok THEN lost ELSE [lost EXCEPT ![kind] = @ + 1]

\* The statement that marks the kinds as done now; ok is FALSE where it failed.
Marked(kinds, ok) ==
  since' = [k \in Kinds |-> IF profile /\ ok /\ k \in kinds THEN 0 ELSE since[k]]

\* Statements of the handler fail, together, or none does.
Outcome(ok) == IF ok THEN NoFault ELSE Fault

\* Which of these statements may fail, as long as any may.
Failing(statements) == IF faults < MaxFaults THEN SUBSET statements ELSE {{}}

Skip(next) ==
  /\ NoFault
  /\ phase' = next
  /\ UNCHANGED <<stage, losing, seen, cash, profile, marks, airline, loans, history>>

\* A query that fails answers with the zero value, and the handler sees nothing to do.
SkipFailing(next) ==
  /\ Fault
  /\ phase' = next
  /\ UNCHANGED <<stage, losing, seen, cash, profile, marks, airline, loans, history>>

\* The turn goes on to the next handler, with its balance and stage.
GoOn(next) == phase' = next /\ UNCHANGED <<stage, losing, seen, profile>>

----------------------------------------------------------------------------
\* The season clock has moved by a tick and the simulation by as much: it wears
\* aircraft and it may see a loan paid off.  A balance that cannot be read
\* counts as zero, and so do the days it was negative.
BeginTurn ==
  /\ phase = "away"
  /\ since' = [k \in Kinds |-> LesserOf(since[k] + TickHours, Every[k])]
  /\ quiet' = LesserOf(quiet + TickHours, Every["change"])
  /\ cash' \in Cashes
  /\ \E days \in {0, 1, 3, 5}, failed \in Failing({"days", "balance"}) :
       /\ Outcome(failed = {})
       /\ seen' = IF "balance" \in failed THEN 0 ELSE cash'
       /\ stage' = Distress(IF "days" \in failed THEN 0 ELSE days, seen')
       /\ losing' = (days > 0)
  /\ worn' \in {worn \cup w : w \in SUBSET fleet}
  /\ loans' \in 0 .. loans
  /\ phase' = "repair"
  /\ UNCHANGED <<profile, lossDays, recoveryTaken, fleet, route, recoveries, lost>>

\* Only a missed installment grounds an aircraft by status (dayboundary.go:177
\* and 262), and a bot pledges none.
Grounded == {}

\* What botHandleRepair looks for: a desperate bot only for the grounded in good
\* condition.
Repairable == IF stage = "desperate" THEN Grounded \ worn ELSE worn \cup Grounded

\* Fleet.Repair may refuse, and does so where the bot cannot pay; the attempt is
\* marked all the same.
Repair ==
  /\ phase = "repair"
  /\ IF Allowed("repair") /\ Repairable # {}
     THEN \/ /\ \/ /\ cash >= RepairCost
                   /\ cash' = cash - RepairCost
                   /\ \E a \in Repairable : worn' = worn \ {a}
                \/ UNCHANGED <<cash, worn>>
             /\ \E ok \in BOOLEAN : Outcome(ok) /\ Marked({"repair"}, ok)
             /\ GoOn("audit")
             /\ UNCHANGED <<lossDays, recoveryTaken, fleet, route, loans, history>>
          \/ SkipFailing("audit")
     ELSE Skip("audit")

----------------------------------------------------------------------------
(* Route lifecycle *)

\* Routes.Delete cancels the row and frees the aircraft; only an error keeps the
\* route.  The row stays, and with it the destination is spent.
Close(d, ok) == route' = IF ok THEN [route EXCEPT ![d] = Closed] ELSE route

\* An audit that finds routes and none of them earning is a loss day, and only one
\* without a losing route starts the count again.
CountedDays(perf, earning) ==
  IF perf = {} THEN lossDays
  ELSE IF earning = perf THEN 0
  ELSE IF earning = {} THEN lossDays + 1
  ELSE lossDays

\* Mutant of BadEnough: one bad audit more.
BadEnoughLater(days) == days > LossDays

BadEnough(days) == days >= LossDays

\* What may fail in an audit, each by itself: the cuts and their marks, the count of
\* loss days and its reading, the closing, the UPDATE that resets the count and marks
\* the change, and the mark of the audit.
Statements(losers, cut) ==
  {"count", "read", "audit mark"}
    \cup (IF cut = {} THEN {} ELSE {"cut", "cut mark"})
    \cup (IF losers = {} THEN {} ELSE {"close", "reset"})

\* The frequency of losing routes is cut to what the demand needs, and after
\* LossDays bad audits the worst of them is closed.
AuditRoutes(perf, earning, cut, failed) ==
  LET counted == IF "count" \in failed THEN lossDays ELSE CountedDays(perf, earning)
      due     == BadEnough(counted) /\ earning # perf
      closing == due /\ "read" \notin failed
      reset   == closing /\ "reset" \notin failed
      changed == (cut # {} /\ "cut" \notin failed) \/ (closing /\ "close" \notin failed)
      marked  == (cut # {} /\ "cut mark" \notin failed) \/ reset
      kinds   == {k \in {"audit", "change"} :
                    IF k = "audit" THEN "audit mark" \notin failed ELSE marked}
  IN  /\ IF closing THEN \E worst \in perf \ earning : Close(worst, "close" \notin failed)
         ELSE UNCHANGED route
      /\ lossDays' = IF reset THEN 0 ELSE counted
      /\ Marked(kinds, TRUE)
      /\ quiet' = IF changed THEN 0 ELSE quiet
      /\ lost' = [lost EXCEPT !["change"] = IF changed /\ ~ marked THEN @ + 1 ELSE @,
                             !["reset"] = IF due /\ ~ reset THEN @ + 1 ELSE @]

\* A bot without a route skips the trim as well.  What routePerformance cannot read
\* it leaves out.
Audit ==
  /\ phase = "audit"
  /\ IF Routes = {} THEN Skip("growth")
     ELSE \/ SkipFailing("growth")
          \/ IF Allowed("audit")
             THEN \/ /\ \E perf \in SUBSET FlownRoutes :
                        \E earning \in SUBSET perf : \E cut \in SUBSET (perf \ earning) :
                        \E failed \in Failing(Statements(perf \ earning, cut)) :
                          /\ Outcome(failed = {} /\ perf = FlownRoutes)
                          /\ AuditRoutes(perf, earning, cut, failed)
                     /\ GoOn("trim")
                     /\ UNCHANGED <<cash, recoveryTaken, fleet, worn, loans, recoveries>>
                  \/ SkipFailing("trim")
             ELSE Skip("trim")

\* Mutant of Trimmed: a trim is not marked as a change of routes.
TrimmedUnmarked(ok, changed) ==
  /\ quiet' = IF changed THEN 0 ELSE quiet
  /\ UNCHANGED <<since, lost>>

\* The mark is set, whether or not the trim found anything to change.
Trimmed(ok, changed) ==
  /\ quiet' = IF changed THEN 0 ELSE quiet
  /\ Marked({"change"}, ok)
  /\ lost' = Forget("change", ok \/ ~ changed)

\* In distress the worst route, where it loses money, is cut to the frequency
\* its demand needs, or closed by a desperate bot where that is a single flight.
Trim ==
  /\ phase = "trim"
  /\ \/ /\ stage \in {"defensive", "desperate"}
        /\ \E worst \in FlownRoutes, done, ok \in BOOLEAN :
             /\ Outcome(done /\ ok)
             /\ \/ stage = "desperate" /\ Close(worst, done) /\ Trimmed(ok, done)
                \/ UNCHANGED route /\ \E cut \in BOOLEAN : Trimmed(ok, done /\ cut)
        /\ GoOn("growth")
        /\ UNCHANGED <<cash, lossDays, recoveryTaken, fleet, worn, loans, recoveries>>
     \/ Skip("growth")

----------------------------------------------------------------------------
(* Fleet growth and route creation *)

\* Everything is read again by a statement of its own; one that fails leaves zero.
GrowthWanted(failed) ==
  LET Count(items, query) == IF query \in failed THEN 0 ELSE Cardinality(items)
      fleetCount == Count(fleet, "fleet")
  IN  /\ Allowed("growth")
      /\ fleetCount < FleetCap
      /\ 10 * seen > ReserveTenths
      /\ losing => "days" \in failed
      /\ Count(Idle, "idle") = 0
      /\ Count(Routes, "routes") >= fleetCount
      /\ stage # "desperate"

\* A lease, or a purchase where the balance read at the start allowed one; both
\* refuse a bot that cannot pay.
Acquire(a) ==
  /\ \/ cash >= LeaseCost /\ cash' = cash - LeaseCost
     \/ 2 * seen > 3 * StartingCash /\ cash >= Price /\ cash' = cash - Price
  /\ fleet' = fleet \cup {a}

Grow ==
  /\ phase = "growth"
  /\ \/ /\ \E failed \in Failing({"fleet", "routes", "idle", "days"}), ok \in BOOLEAN :
             /\ Outcome(failed = {} /\ ok)
             /\ GrowthWanted(failed)
             /\ Marked({"growth"}, ok)
        /\ \/ \E a \in Aircraft \ fleet : Acquire(a)
           \/ UNCHANGED <<cash, fleet>>
        /\ GoOn("creation")
        /\ UNCHANGED <<lossDays, recoveryTaken, worn, route, loans, history>>
     \/ Skip("creation")

\* Mutant of Ready: an aircraft that flies is ready for another route.
ReadyAnyway == fleet \ worn

\* Aircraft a new route can have.
Ready == Idle \ worn

\* Routes.Create and then, past all that Assign checks, an UPDATE of the row;
\* where that one fails the route stays without aircraft for good: the audit
\* does not see it and no one assigns to a route that exists.
Open(d, a) ==
  \/ NoFault /\ route' = [route EXCEPT ![d] = a] /\ quiet' = 0
  \/ Fault /\ route' = [route EXCEPT ![d] = Unflown] /\ quiet' = 0
  \/ NoFault /\ UNCHANGED <<route, quiet>>

Create ==
  /\ phase = "creation"
  /\ \/ /\ Allowed("change")
        /\ stage # "desperate"
        /\ Cardinality(Routes) < FleetCap
        /\ \E a \in Ready, d \in {x \in Airports : route[x] = Nothing} :
             \/ Open(d, a) /\ Marked({"change"}, TRUE) /\ UNCHANGED lost
             \/ /\ Fault
                /\ route' = [route EXCEPT ![d] = a] /\ quiet' = 0
                /\ Marked({"change"}, FALSE) /\ lost' = Forget("change", FALSE)
        /\ GoOn("repay")
        /\ UNCHANGED <<cash, lossDays, recoveryTaken, fleet, worn, loans, recoveries>>
     \/ Skip("repay")

----------------------------------------------------------------------------
(* Loans *)

\* A fifth of the dearest loan, or what the balance read at the start leaves
\* above the reserve; Bank.Repay refuses what the account does not hold.
Repay ==
  /\ phase = "repay"
  /\ IF /\ Allowed("financial") /\ stage # "desperate"
        /\ loans > 0 /\ 20 * seen > 3 * ReserveTenths
     THEN \/ /\ \E share \in Balances, ok \in BOOLEAN :
                  LET repay == LesserOf(share, (10 * seen - ReserveTenths) \div 10)
                  IN  /\ Outcome(ok)
                      /\ cash' = IF cash >= repay THEN cash - repay ELSE cash
                      /\ Marked({"financial"}, ok)
             /\ GoOn("borrow")
             /\ UNCHANGED <<lossDays, recoveryTaken, airline, loans, history>>
          \/ SkipFailing("borrow")
     ELSE Skip("borrow")

\* What the ordinary loan and the recovery loan are asked for.
OrdinaryWanted ==
  stage \in {"cautious", "defensive"} /\ Under(seen, 50) /\ seen > Million

\* Mutant of RecoveryWanted: the flag is not asked.
RecoveryWantedAgain(taken) ==
  stage = "desperate" /\ Under(seen, 30) /\ 2 * seen > Million

RecoveryWanted(taken) ==
  stage = "desperate" /\ ~ taken /\ Under(seen, 30) /\ 2 * seen > Million

\* Between turns the balance is the simulation's.
EndTurn ==
  /\ phase' = "away"
  /\ stage' = "stable"
  /\ losing' = FALSE
  /\ seen' = 0
  /\ cash' = 0

\* TakeLoan accepts or refuses, as the credit tier has it; either way the flag
\* of the recovery loan is set, in the profile the bot may not have.
Borrow ==
  /\ phase = "borrow"
  /\ \E counted, read, ok \in BOOLEAN :
       LET activeLoans == IF counted THEN loans ELSE 0
           taken == read /\ profile /\ recoveryTaken
           recovery == activeLoans = 0 /\ RecoveryWanted(taken)
           asked == activeLoans = 0 /\ (recovery \/ OrdinaryWanted)
           stable == stage = "stable"
       IN  /\ Outcome(counted /\ read /\ ok)
           /\ \E granted \in BOOLEAN :
                /\ granted => asked /\ loans < MaxLoans
                /\ loans' = IF granted THEN loans + 1 ELSE loans
                /\ recoveries' = IF stable THEN 0
                                 ELSE IF granted /\ recovery
                                   THEN LesserOf(recoveries + 1, MaxFaults + 2)
                                 ELSE recoveries
           /\ recoveryTaken' = IF profile /\ ok /\ (stable \/ recovery) THEN recovery
                               ELSE recoveryTaken
           /\ lost' = Forget("recovery", (read /\ ok) \/ ~ recovery)
  /\ EndTurn
  /\ UNCHANGED <<profile, since, lossDays, airline, quiet>>

\* The process ends or the tick's deadline passes between two handlers.
Crash ==
  /\ phase # "away"
  /\ Fault
  /\ EndTurn
  /\ UNCHANGED <<profile, marks, airline, loans, history>>

----------------------------------------------------------------------------
\* A bot just spawned, with its profile or without (BotRoster.SpawnProfile);
\* its marks are NULL, which allows everything.
Init ==
  /\ phase = "away" /\ stage = "stable" /\ losing = FALSE /\ seen = 0 /\ cash = 0
  /\ profile \in BOOLEAN
  /\ since = Every
  /\ lossDays = 0
  /\ recoveryTaken = FALSE
  /\ fleet = {} /\ worn = {}
  /\ route = [d \in Airports |-> Nothing]
  /\ loans = 0
  /\ faults = 0
  /\ quiet = Every["change"]
  /\ recoveries = 0
  /\ lost = [k \in Losses |-> 0]

Next ==
  \/ BeginTurn \/ Repair \/ Audit \/ Trim \/ Grow \/ Create \/ Repay \/ Borrow
  \/ Crash

Spec == Init /\ [][Next]_vars

----------------------------------------------------------------------------
\* The type invariant.  The loss days are below the threshold that closes a route,
\* but for audits that reached it and could not read or reset them (bots.go:385-390).
TypeOK ==
  /\ phase \in {"away", "repair", "audit", "trim", "growth", "creation", "repay", "borrow"}
  /\ stage \in {"stable", "cautious", "defensive", "desperate"}
  /\ losing \in BOOLEAN /\ profile \in BOOLEAN
  /\ seen \in Nat /\ cash \in Nat
  /\ since \in [Kinds -> Nat] /\ \A k \in Kinds : since[k] <= Every[k]
  /\ lossDays \in 0 .. LossDays - 1 + lost["reset"]
  /\ recoveryTaken \in BOOLEAN
  /\ fleet \subseteq Aircraft /\ worn \subseteq fleet
  /\ route \in [Airports -> Aircraft \cup {Nothing, Closed, Unflown}]
  /\ loans \in 0 .. MaxLoans
  /\ faults \in 0 .. MaxFaults
  /\ quiet \in 0 .. Every["change"]
  /\ recoveries \in 0 .. MaxFaults + 2
  /\ lost \in [Losses -> 0 .. faults]

\* The bot assigns with an UPDATE of its own (bots.go:566-569), past the checks of
\* Routes.Assign: still no aircraft flies two routes, and none of another fleet.
OneRouteEach ==
  /\ \A d \in FlownRoutes : route[d] \in fleet
  /\ \A d, e \in FlownRoutes : route[d] = route[e] => d = e

\* The recovery loan is for once, until the bot has been stable again
\* (bots.go:652-670): a second one takes a flag that could not be read or written.
RecoveryLoanOnce == profile => recoveries <= 1 + lost["recovery"]

\* Routes are not opened and closed in turn (bots_decide.go:56-59): a bot opens one
\* only when it has opened, cut or closed none for Every["change"] hours, wherever
\* in its turns that was, unless the mark of it was lost.
NoChurn ==
  [][\A d \in Airports : route[d] = Nothing /\ route'[d] # Nothing =>
       quiet >= Every["change"] \/ lost["change"] > 0]_vars

\* Violated: "faithful ke execute_bot_decisions" (bots.go:1), which reads the
\* balance again after every handler (00_baseline.sql:1678-1700) so that a
\* repayment leaves the reserve in the account.
RepayLeavesReserve ==
  [][phase = "repay" /\ phase' = "borrow" /\ cash' < cash => 10 * cash' >= ReserveTenths]_vars
=============================================================================
