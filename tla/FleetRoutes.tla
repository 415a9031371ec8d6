----------------------------- MODULE FleetRoutes -----------------------------
(***************************************************************************)
(* The fleet and the routes of one player.  Assign, Sell, TerminateLease    *)
(* and UpdateFreqPrice each read first and write statements later; the      *)
(* transactions of the first three lock the aircraft's row in between       *)
(* (AUDIT-08).  They race with each other and with the single-statement     *)
(* requests, wear, grounding, bankruptcy and Reset.                         *)
(*                                                                          *)
(* Prices and balances are left out: a debit that the account does not      *)
(* cover is one of the ways a transaction rolls back.                       *)
(***************************************************************************)
EXTENDS Naturals

CONSTANTS
  Requests,   \* request goroutines
  Aircraft,   \* rows of fleet_aircraft, present or not
  Routes,     \* rows of route_assignments, one per city pair
  Nobody,     \* "row not locked" and "no route"
  NoAircraft, \* assigned_aircraft_id NULL
  Freqs,      \* flights per week a player asks for
  MaxFreq,    \* what a schedule may ask for at most (168)
  Capacity    \* calcMaxWeeklyFlights of each aircraft, zero where it cannot tell

ASSUME FleetAssumption ==
  /\ Nobody \notin Requests \cup Routes
  /\ NoAircraft \notin Aircraft
  /\ Freqs \subseteq Nat
  /\ MaxFreq \in Nat
  /\ Capacity \in [Aircraft -> Nat]

VARIABLES
  fleet,   \* table fleet_aircraft
  route,   \* table route_assignments
  rowLock, \* who holds an aircraft row FOR UPDATE
  pc,      \* where each request is
  op,      \* what it does: assign, sell or terminate
  plane,   \* aircraft of the request
  line,    \* route of the request
  freq,    \* assign: frequency read; adjust: frequency asked for
  settled  \* ledger entries of sales and terminated leases

locals == <<op, plane, line, freq>>
vars == <<fleet, route, rowLock, pc, locals, settled>>

----------------------------------------------------------------------------
Kinds == {"none", "purchase", "lease", "gone"}
Conditions == {"new", "fair", "worn"}  \* 100; at, below the safety threshold
RouteStates == {"none", "active", "cancelled", "deleted"}

FleetRow == [kind : Kinds, status : {"active", "grounded"}, condition : Conditions]
RouteRow == [state : RouteStates, freq : Nat, aircraft : Aircraft \cup {NoAircraft}]

Present == {a \in Aircraft : fleet[a].kind \in {"purchase", "lease"}}
Known == {r \in Routes : route[r].state \in {"active", "cancelled"}}
Holders(a) == {r \in Routes : route[r].aircraft = a}

\* Mutant of Legal: a frequency of 0 passes.
LegalFromZero(f) == f <= MaxFreq

\* The range check of Create and UpdateFreqPrice.
Legal(f) == 1 <= f /\ f <= MaxFreq

\* The capacity bounds a schedule where there is one: calcMaxWeeklyFlights is zero for
\* an aircraft it knows no time of.
Fits(f, a) == Capacity[a] > 0 => f <= Capacity[a]

\* ON DELETE SET NULL
Release(a) == [r \in Routes |->
  IF route[r].aircraft = a THEN [route[r] EXCEPT !.aircraft = NoAircraft]
                           ELSE route[r]]

Step(q, here, there) ==
  /\ pc[q] = here
  /\ pc' = [pc EXCEPT ![q] = there]

Unlock(q) ==
  rowLock' = [a \in Aircraft |-> IF rowLock[a] = q THEN Nobody ELSE rowLock[a]]

Idle(q) ==
  /\ pc' = [pc EXCEPT ![q] = "idle"]
  /\ op' = [op EXCEPT ![q] = "none"]
  /\ plane' = [plane EXCEPT ![q] = NoAircraft]
  /\ line' = [line EXCEPT ![q] = Nobody]
  /\ freq' = [freq EXCEPT ![q] = 0]

----------------------------------------------------------------------------
(* Assign *)

\* The route's distance and frequency, outside the transaction.
ReadRoute(q) ==
  /\ Step(q, "idle", "lock")
  /\ op' = [op EXCEPT ![q] = "assign"]
  /\ \E r \in Known, a \in Aircraft :
       /\ plane' = [plane EXCEPT ![q] = a]
       /\ line' = [line EXCEPT ![q] = r]
       /\ freq' = [freq EXCEPT ![q] = route[r].freq]
  /\ UNCHANGED <<fleet, route, rowLock, settled>>

\* Mutant of LockAircraft: the SELECT without FOR UPDATE.
LockAircraftFree(q) ==
  /\ Step(q, "lock", IF op[q] = "assign" THEN "check" ELSE "recheck")
  /\ plane[q] \in Present
  /\ UNCHANGED <<fleet, route, rowLock, locals, settled>>

\* SELECT ... FOR UPDATE: Assign, Sell and TerminateLease alike.
LockAircraft(q) ==
  /\ Step(q, "lock", IF op[q] = "assign" THEN "check" ELSE "recheck")
  /\ plane[q] \in Present
  /\ rowLock[plane[q]] = Nobody
  /\ rowLock' = [rowLock EXCEPT ![plane[q]] = q]
  /\ UNCHANGED <<fleet, route, locals, settled>>

\* Mutant of CheckAssignment: the double-assignment check is dropped.
CheckAssignmentShared(q) ==
  LET a == plane[q] IN
  /\ Step(q, "check", "assign")
  /\ fleet[a].condition # "worn"
  /\ Fits(freq[q], a)
  /\ fleet[a].status # "grounded"
  /\ UNCHANGED <<fleet, route, rowLock, locals, settled>>

\* Mutant of CheckAssignment: the status read under the lock is not looked at.
CheckAssignmentGrounded(q) ==
  LET a == plane[q] IN
  /\ Step(q, "check", "assign")
  /\ fleet[a].condition # "worn"
  /\ Fits(freq[q], a)
  /\ Holders(a) \subseteq {line[q]}
  /\ UNCHANGED <<fleet, route, rowLock, locals, settled>>

\* Condition, range and capacity, double assignment, grounding.  What counts as worn is
\* the player's own threshold, read before the transaction (routes.go:113-116) and
\* taken as constant here.
CheckAssignment(q) ==
  LET a == plane[q] IN
  /\ Step(q, "check", "assign")
  /\ fleet[a].condition # "worn"
  /\ Fits(freq[q], a)
  /\ Holders(a) \subseteq {line[q]}
  /\ fleet[a].status # "grounded"
  /\ UNCHANGED <<fleet, route, rowLock, locals, settled>>

\* The UPDATE looks at neither the route's status nor its present frequency.
AssignAircraft(q) ==
  LET r == line[q] IN
  /\ pc[q] = "assign"
  /\ route' = IF r \in Known THEN [route EXCEPT ![r].aircraft = plane[q]] ELSE route
  /\ Unlock(q)
  /\ Idle(q)
  /\ UNCHANGED <<fleet, settled>>

----------------------------------------------------------------------------
(* Sell and TerminateLease *)

\* Fast-fail checks, outside the transaction.
ReadAircraft(q) ==
  /\ Step(q, "idle", "lock")
  /\ \E a \in Present :
       /\ Holders(a) = {}
       /\ plane' = [plane EXCEPT ![q] = a]
       /\ op' = [op EXCEPT ![q] = IF fleet[a].kind = "lease" THEN "terminate" ELSE "sell"]
  /\ UNCHANGED <<fleet, route, rowLock, line, freq, settled>>

RecheckAssignment(q) ==
  /\ Step(q, "recheck", "dispose")
  /\ Holders(plane[q]) = {}
  /\ UNCHANGED <<fleet, route, rowLock, locals, settled>>

\* Sale value credited or exit fee debited, and the row deleted.
DisposeAircraft(q) ==
  LET a == plane[q] IN
  /\ pc[q] = "dispose"
  /\ fleet' = [fleet EXCEPT ![a].kind = "gone"]
  /\ route' = Release(a)
  /\ settled' = settled + 1
  /\ Unlock(q)
  /\ Idle(q)

----------------------------------------------------------------------------
(* UpdateFreqPrice: no transaction *)

\* A route without an aircraft takes any frequency.
ReadSchedule(q) ==
  /\ Step(q, "idle", "adjust")
  /\ \E r \in Known, f \in Freqs :
       LET a == route[r].aircraft IN
       /\ Legal(f)
       /\ a # NoAircraft => a \in Present /\ Fits(f, a)
       /\ line' = [line EXCEPT ![q] = r]
       /\ freq' = [freq EXCEPT ![q] = f]
  /\ UNCHANGED <<fleet, route, rowLock, op, plane, settled>>

AdjustSchedule(q) ==
  LET r == line[q] IN
  /\ pc[q] = "adjust"
  /\ route' = IF r \in Known THEN [route EXCEPT ![r].freq = freq[q]] ELSE route
  /\ Idle(q)
  /\ UNCHANGED <<fleet, rowLock, settled>>

\* A check refuses, a statement fails or the debit is not covered: rolled back.
Refuse(q) ==
  /\ pc[q] # "idle"
  /\ Unlock(q)
  /\ Idle(q)
  /\ UNCHANGED <<fleet, route, settled>>

----------------------------------------------------------------------------
(* Requests of one statement or one transaction *)

\* Purchase and Lease.
Acquire(a) ==
  /\ fleet[a].kind = "none"
  /\ \E k \in {"purchase", "lease"} :
       fleet' = [fleet EXCEPT ![a] = [kind |-> k, status |-> "active",
                                      condition |-> "new"]]
  /\ UNCHANGED <<route, rowLock, pc, locals, settled>>

Repair(a) ==
  /\ a \in Present
  /\ rowLock[a] = Nobody
  /\ fleet[a].condition # "new"
  /\ fleet' = [fleet EXCEPT ![a].status = "active", ![a].condition = "new"]
  /\ UNCHANGED <<route, rowLock, pc, locals, settled>>

\* One row per city pair, cancelled or not: a closed route is not re-opened.
Create(r) ==
  /\ route[r].state = "none"
  /\ \E f \in Freqs :
       /\ Legal(f)
       /\ route' = [route EXCEPT ![r] = [state |-> "active", freq |-> f,
                                         aircraft |-> NoAircraft]]
  /\ UNCHANGED <<fleet, rowLock, pc, locals, settled>>

Delete(r) ==
  /\ r \in Known
  /\ route' = [route EXCEPT ![r].state = "cancelled", ![r].aircraft = NoAircraft]
  /\ UNCHANGED <<fleet, rowLock, pc, locals, settled>>

\* Assign with an empty aircraft id.
Unassign(r) ==
  /\ r \in Known
  /\ route' = [route EXCEPT ![r].aircraft = NoAircraft]
  /\ UNCHANGED <<fleet, rowLock, pc, locals, settled>>

----------------------------------------------------------------------------
(* What the simulation does to the same rows; each UPDATE waits for the row *)

\* The window selected what flies by an earlier query and asks nothing of it again: the
\* aircraft may have left its route, been grounded or repaired since.
Wear(a) ==
  /\ a \in Present
  /\ rowLock[a] = Nobody
  /\ fleet[a].condition # "worn"
  /\ fleet' = [fleet EXCEPT ![a].condition = IF @ = "new" THEN "fair" ELSE "worn"]
  /\ UNCHANGED <<route, rowLock, pc, locals, settled>>

\* A loan servicer grounds the collateral.
Ground(a) ==
  /\ a \in Present
  /\ rowLock[a] = Nobody
  /\ fleet' = [fleet EXCEPT ![a].status = "grounded"]
  /\ UNCHANGED <<route, rowLock, pc, locals, settled>>

\* Routes are cancelled, their aircraft stay assigned to them.
ApplyBankruptcy ==
  /\ \A a \in Present : rowLock[a] = Nobody
  /\ fleet' = [a \in Aircraft |-> IF a \in Present
                                   THEN [fleet[a] EXCEPT !.status = "grounded"]
                                   ELSE fleet[a]]
  /\ route' = [r \in Routes |-> IF route[r].state = "active"
                                 THEN [route[r] EXCEPT !.state = "cancelled"]
                                 ELSE route[r]]
  /\ UNCHANGED <<rowLock, pc, locals, settled>>

Reset ==
  /\ \A a \in Present : rowLock[a] = Nobody
  /\ fleet' = [a \in Aircraft |-> IF a \in Present
                                   THEN [fleet[a] EXCEPT !.kind = "gone"]
                                   ELSE fleet[a]]
  /\ route' = [r \in Routes |-> IF r \in Known
                                 THEN [route[r] EXCEPT !.state = "deleted",
                                                       !.aircraft = NoAircraft]
                                 ELSE route[r]]
  /\ UNCHANGED <<rowLock, pc, locals, settled>>

----------------------------------------------------------------------------
Init ==
  /\ fleet = [a \in Aircraft |-> [kind |-> "none", status |-> "active",
                                  condition |-> "new"]]
  /\ route = [r \in Routes |-> [state |-> "none", freq |-> 0,
                                aircraft |-> NoAircraft]]
  /\ rowLock = [a \in Aircraft |-> Nobody]
  /\ pc = [q \in Requests |-> "idle"]
  /\ op = [q \in Requests |-> "none"]
  /\ plane = [q \in Requests |-> NoAircraft]
  /\ line = [q \in Requests |-> Nobody]
  /\ freq = [q \in Requests |-> 0]
  /\ settled = 0

Request(q) ==
  \/ ReadRoute(q) \/ LockAircraft(q) \/ CheckAssignment(q) \/ AssignAircraft(q)
  \/ ReadAircraft(q) \/ RecheckAssignment(q) \/ DisposeAircraft(q)
  \/ ReadSchedule(q) \/ AdjustSchedule(q) \/ Refuse(q)

Next ==
  \/ \E q \in Requests : Request(q)
  \/ \E a \in Aircraft : Acquire(a) \/ Repair(a) \/ Wear(a) \/ Ground(a)
  \/ \E r \in Routes : Create(r) \/ Delete(r) \/ Unassign(r)
  \/ ApplyBankruptcy
  \/ Reset

Spec == Init /\ [][Next]_vars

----------------------------------------------------------------------------
(* Properties *)

TypeOK ==
  /\ fleet \in [Aircraft -> FleetRow]
  /\ route \in [Routes -> RouteRow]
  /\ \A r \in Known : route[r].freq \in 1 .. MaxFreq
  /\ rowLock \in [Aircraft -> Requests \cup {Nobody}]
  /\ pc \in [Requests -> {"idle", "lock", "check", "assign", "recheck",
                          "dispose", "adjust"}]
  /\ op \in [Requests -> {"none", "assign", "sell", "terminate"}]
  /\ plane \in [Requests -> Aircraft \cup {NoAircraft}]
  /\ line \in [Requests -> Routes \cup {Nobody}]
  /\ freq \in [Requests -> Nat]
  /\ settled \in Nat

\* AUDIT-08 (routes.go:121): concurrent assigns never put one aircraft on two
\* routes, closed routes included, nor on a route after it was sold.
OneRoutePerAircraft ==
  /\ \A a \in Aircraft : \A r, s \in Holders(a) : r = s
  /\ \A r \in Routes : route[r].aircraft \in Present \cup {NoAircraft}

\* Assignment, sale and termination are each one step of the Hangar: a sale
\* takes no aircraft from a route and is booked once, whatever raced with it.
Promise == INSTANCE Hangar WITH
  present <- Present,
  holds <- [r \in Routes |-> route[r].aircraft]
KeepsAssignments == Promise!Spec

\* An aircraft that was grounded, or worn below the safety threshold the request read,
\* after the request looked at it is not put on a route all the same.
AssignedAirworthy ==
  [][\A r \in Routes :
       LET a == route'[r].aircraft IN
       a \notin {route[r].aircraft, NoAircraft} =>
         fleet[a].status = "active" /\ fleet[a].condition # "worn"]_vars

\* "Route frequency exceeds this aircraft's weekly operating capacity."
\* (routes.go:147): Assign checks a frequency that UpdateFreqPrice may replace
\* before the aircraft is assigned.
WithinCapacity ==
  \A r \in Routes :
    LET a == route[r].aircraft IN a # NoAircraft => Fits(route[r].freq, a)
=============================================================================
