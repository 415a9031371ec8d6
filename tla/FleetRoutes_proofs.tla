------------------------- MODULE FleetRoutes_proofs -------------------------
(***************************************************************************)
(* Proofs about FleetRoutes, for any requests, aircraft and routes.  From   *)
(* the lock to the write a request holds the row of its aircraft            *)
(* (RowsLocked), so what it checked in between is still so when it writes   *)
(* (ChecksStand): nobody else can put that aircraft on a route or remove it. *)
(***************************************************************************)
EXTENDS FleetRoutes, TLAPS

Locking == {"check", "assign", "recheck", "dispose"}

RowsLocked ==
  \A q \in Requests : pc[q] \in Locking =>
    plane[q] \in Present /\ rowLock[plane[q]] = q

ChecksStand ==
  \A q \in Requests :
    /\ pc[q] = "assign" => Holders(plane[q]) \subseteq {line[q]}
    /\ pc[q] = "dispose" => Holders(plane[q]) = {}

\* Rows that are not there hold nothing.
UnknownEmpty == \A r \in Routes \ Known : route[r].aircraft = NoAircraft

\* A frequency asked for passed the range check.
SchedulesLegal ==
  \A q \in Requests : pc[q] = "adjust" => freq[q] \in 1 .. MaxFreq

IInv ==
  /\ TypeOK
  /\ SchedulesLegal
  /\ RowsLocked
  /\ ChecksStand
  /\ UnknownEmpty
  /\ OneRoutePerAircraft

----------------------------------------------------------------------------
\* A fresh airline has no aircraft, no route and no request under way.
LEMMA InitIInv == Init => IInv
BY FleetAssumption
DEF Init, IInv, TypeOK, SchedulesLegal, RowsLocked, ChecksStand, UnknownEmpty, Locking,
    Known, OneRoutePerAircraft, Holders, Kinds, Conditions, RouteStates, FleetRow, RouteRow

\* An update of some columns gives a row and leaves the other columns alone.
LEMMA RowState ==
  ASSUME NEW x \in RouteRow, NEW t \in RouteStates
  PROVE  LET y == [x EXCEPT !.state = t] IN
         y \in RouteRow /\ y.state = t /\ y.freq = x.freq /\ y.aircraft = x.aircraft
BY DEF RouteRow

\* ... the same for its frequency,
LEMMA RowFreq ==
  ASSUME NEW x \in RouteRow, NEW n \in Nat
  PROVE  LET y == [x EXCEPT !.freq = n] IN
         y \in RouteRow /\ y.state = x.state /\ y.freq = n /\ y.aircraft = x.aircraft
BY DEF RouteRow

\* ... for its aircraft,
LEMMA RowAircraft ==
  ASSUME NEW x \in RouteRow, NEW a \in Aircraft \cup {NoAircraft}
  PROVE  LET y == [x EXCEPT !.aircraft = a] IN
         y \in RouteRow /\ y.state = x.state /\ y.freq = x.freq /\ y.aircraft = a
BY DEF RouteRow

\* ... and for a change of state that takes the aircraft off.
LEMMA RowEmptied ==
  ASSUME NEW x \in RouteRow, NEW t \in RouteStates
  PROVE  LET y == [x EXCEPT !.state = t, !.aircraft = NoAircraft] IN
         /\ y \in RouteRow /\ y.state = t /\ y.freq = x.freq
         /\ y.aircraft = NoAircraft
BY DEF RouteRow

\* Every action writes whole fleet rows of the right type.
LEMMA FleetTyped == IInv /\ [Next]_vars => fleet' \in [Aircraft -> FleetRow]
<1> SUFFICES ASSUME IInv, [Next]_vars PROVE fleet' \in [Aircraft -> FleetRow]
  OBVIOUS
<1> DEFINE Good == fleet' \in [Aircraft -> FleetRow]
<1>0. /\ fleet \in [Aircraft -> FleetRow]
      /\ \A a \in Aircraft : fleet[a] \in FleetRow
  BY DEF IInv, TypeOK
<1>1. ASSUME NEW q \in Requests, DisposeAircraft(q) PROVE Good
  <2>1. \A a \in Aircraft : [fleet[a] EXCEPT !.kind = "gone"] \in FleetRow
    BY <1>0 DEF FleetRow, Kinds
  <2> QED
    BY <1>0, <1>1, <2>1 DEF DisposeAircraft
<1>2. ASSUME NEW a \in Aircraft, Acquire(a) PROVE Good
  <2>1. {"purchase", "lease"} \subseteq Kinds /\ "new" \in Conditions
    BY DEF Kinds, Conditions
  <2> QED
    BY <1>0, <1>2, <2>1 DEF Acquire, FleetRow
<1>3. ASSUME NEW a \in Aircraft, Repair(a) PROVE Good
  <2>1. [fleet[a] EXCEPT !.status = "active", !.condition = "new"] \in FleetRow
    BY <1>0 DEF FleetRow, Conditions
  <2> QED
    BY <1>0, <1>3, <2>1 DEF Repair
<1>4. ASSUME NEW a \in Aircraft, Wear(a) PROVE Good
  <2>1. {"fair", "worn"} \subseteq Conditions
    BY DEF Conditions
  <2>2. [fleet[a] EXCEPT !.condition = IF @ = "new" THEN "fair" ELSE "worn"]
          \in FleetRow
    BY <1>0, <2>1 DEF FleetRow
  <2> QED
    BY <1>0, <1>4, <2>2 DEF Wear
<1>5. ASSUME NEW a \in Aircraft, Ground(a) PROVE Good
  <2>1. [fleet[a] EXCEPT !.status = "grounded"] \in FleetRow
    BY <1>0 DEF FleetRow
  <2> QED
    BY <1>0, <1>5, <2>1 DEF Ground
<1>6. CASE ApplyBankruptcy
  <2>1. \A a \in Aircraft : [fleet[a] EXCEPT !.status = "grounded"] \in FleetRow
    BY <1>0 DEF FleetRow
  <2> QED
    BY <1>0, <1>6, <2>1 DEF ApplyBankruptcy
<1>7. CASE Reset
  <2>1. \A a \in Aircraft : [fleet[a] EXCEPT !.kind = "gone"] \in FleetRow
    BY <1>0 DEF FleetRow, Kinds
  <2> QED
    BY <1>0, <1>7, <2>1 DEF Reset
<1>8. CASE fleet' = fleet
  BY <1>0, <1>8
<1> QED
  BY <1>1, <1>2, <1>3, <1>4, <1>5, <1>6, <1>7, <1>8
  DEF Next, vars, Request, ReadRoute, LockAircraft, CheckAssignment,
      AssignAircraft, ReadAircraft, RecheckAssignment, ReadSchedule,
      AdjustSchedule, Refuse, Create, Delete, Unassign

\* Routes keep their type, and a schedule in force keeps a legal frequency.
LEMMA RoutesTyped ==
  IInv /\ [Next]_vars =>
    /\ route' \in [Routes -> RouteRow]
    /\ \A r \in Known' : route'[r].freq \in 1 .. MaxFreq
<1> DEFINE Good(new) ==
      /\ new \in [Routes -> RouteRow]
      /\ \A r \in Routes : new[r].state \in {"active", "cancelled"} =>
           new[r].freq \in 1 .. MaxFreq
<1> SUFFICES ASSUME IInv, [Next]_vars PROVE Good(route')
  BY DEF Known
<1>0. /\ Good(route)
      /\ \A r \in Routes : route[r] \in RouteRow
      /\ {"active", "cancelled", "deleted"} \subseteq RouteStates
  BY DEF IInv, TypeOK, Known, RouteStates
<1>1. ASSUME NEW q \in Requests, AssignAircraft(q) PROVE Good(route')
  <2>1. plane[q] \in Aircraft \cup {NoAircraft}
    BY DEF IInv, TypeOK
  <2>2. CASE line[q] \in Known
    <3>1. LET y == [route[line[q]] EXCEPT !.aircraft = plane[q]] IN
          /\ y \in RouteRow
          /\ y.state = route[line[q]].state
          /\ y.freq = route[line[q]].freq
      BY <1>0, <2>1, <2>2, RowAircraft DEF Known
    <3> QED
      BY <1>0, <1>1, <2>2, <3>1 DEF AssignAircraft, Known
  <2> QED
    BY <1>0, <1>1, <2>2 DEF AssignAircraft
<1>2. ASSUME NEW q \in Requests, DisposeAircraft(q) PROVE Good(route')
  <2>1. \A r \in Routes :
          /\ route'[r] \in RouteRow
          /\ route'[r].state = route[r].state
          /\ route'[r].freq = route[r].freq
    BY <1>0, <1>2, RowAircraft DEF DisposeAircraft, Release
  <2> QED
    BY <1>0, <1>2, <2>1 DEF DisposeAircraft, Release
<1>3. ASSUME NEW q \in Requests, AdjustSchedule(q) PROVE Good(route')
  <2>1. freq[q] \in Nat /\ freq[q] \in 1 .. MaxFreq
    BY <1>3 DEF IInv, TypeOK, SchedulesLegal, AdjustSchedule
  <2>2. CASE line[q] \in Known
    <3>1. LET y == [route[line[q]] EXCEPT !.freq = freq[q]] IN
          /\ y \in RouteRow
          /\ y.freq = freq[q]
      BY <1>0, <2>1, <2>2, RowFreq DEF Known
    <3> QED
      BY <1>0, <1>3, <2>1, <2>2, <3>1 DEF AdjustSchedule, Known
  <2> QED
    BY <1>0, <1>3, <2>2 DEF AdjustSchedule
<1>4. ASSUME NEW r \in Routes, Create(r) PROVE Good(route')
  <2>1. PICK f \in Freqs :
          /\ Legal(f)
          /\ route' = [route EXCEPT ![r] = [state |-> "active", freq |-> f,
                                            aircraft |-> NoAircraft]]
    BY <1>4 DEF Create
  <2>2. f \in Nat /\ f \in 1 .. MaxFreq
    BY <2>1, FleetAssumption DEF Legal
  <2>3. [state |-> "active", freq |-> f, aircraft |-> NoAircraft] \in RouteRow
    BY <1>0, <2>2 DEF RouteRow
  <2> QED
    BY <1>0, <2>1, <2>2, <2>3
<1>5. ASSUME NEW r \in Routes, Delete(r) \/ Unassign(r) PROVE Good(route')
  <2>1. r \in Known /\ route[r].freq \in 1 .. MaxFreq
    BY <1>0, <1>5 DEF Delete, Unassign, Known
  <2>2. /\ route'[r] \in RouteRow
        /\ route'[r].freq = route[r].freq
        /\ route' = [route EXCEPT ![r] = route'[r]]
    <3>1. CASE Delete(r)
      <4>1. LET y == [route[r] EXCEPT !.state = "cancelled", !.aircraft = NoAircraft]
            IN  y \in RouteRow /\ y.freq = route[r].freq
        BY <1>0, RowEmptied
      <4> QED
        BY <1>0, <3>1, <4>1 DEF Delete
    <3>2. CASE Unassign(r)
      BY <1>0, <3>2, RowAircraft DEF Unassign
    <3> QED
      BY <1>5, <3>1, <3>2
  <2> QED
    BY <1>0, <2>1, <2>2
<1>6. CASE ApplyBankruptcy
  <2>1. \A r \in Routes :
          /\ [route[r] EXCEPT !.state = "cancelled"] \in RouteRow
          /\ [route[r] EXCEPT !.state = "cancelled"].freq = route[r].freq
    BY <1>0, RowState
  <2> QED
    BY <1>0, <1>6, <2>1 DEF ApplyBankruptcy
<1>7. CASE Reset
  <2>1. \A r \in Routes :
          /\ [route[r] EXCEPT !.state = "deleted", !.aircraft = NoAircraft]
               \in RouteRow
          /\ [route[r] EXCEPT !.state = "deleted", !.aircraft = NoAircraft].state
               = "deleted"
    BY <1>0, RowEmptied
  <2> QED
    BY <1>0, <1>7, <2>1 DEF Reset, Known
<1>8. CASE route' = route
  BY <1>0, <1>8
<1> QED
  BY <1>1, <1>2, <1>3, <1>4, <1>5, <1>6, <1>7, <1>8
  DEF Next, vars, Request, ReadRoute, LockAircraft, CheckAssignment,
      ReadAircraft, RecheckAssignment, ReadSchedule, Refuse, Acquire, Repair,
      Wear, Ground

\* Every variable keeps its type, and a frequency asked for was checked.
LEMMA TypeStep == IInv /\ [Next]_vars => TypeOK' /\ SchedulesLegal'
<1> SUFFICES ASSUME IInv, [Next]_vars PROVE TypeOK' /\ SchedulesLegal'
  OBVIOUS
<1> DEFINE Good ==
      /\ rowLock' \in [Aircraft -> Requests \cup {Nobody}]
      /\ pc' \in [Requests -> {"idle", "lock", "check", "assign", "recheck",
                               "dispose", "adjust"}]
      /\ op' \in [Requests -> {"none", "assign", "sell", "terminate"}]
      /\ plane' \in [Requests -> Aircraft \cup {NoAircraft}]
      /\ line' \in [Requests -> Routes \cup {Nobody}]
      /\ freq' \in [Requests -> Nat]
      /\ settled' \in Nat
      /\ SchedulesLegal'
<1> SUFFICES Good
  BY FleetTyped, RoutesTyped DEF TypeOK
<1> USE FleetAssumption DEF IInv, TypeOK, SchedulesLegal, locals, Step, Idle, Unlock
<1>1. ASSUME NEW q \in Requests, ReadRoute(q) PROVE Good
  <2>1. \A r \in Known : r \in Routes /\ route[r].freq \in Nat
    BY DEF Known, RouteRow
  <2> QED
    BY <1>1, <2>1 DEF ReadRoute
<1>2. ASSUME NEW q \in Requests, LockAircraft(q) PROVE Good
  BY <1>2 DEF LockAircraft
<1>3. ASSUME NEW q \in Requests, CheckAssignment(q) \/ RecheckAssignment(q)
      PROVE  Good
  BY <1>3 DEF CheckAssignment, RecheckAssignment
<1>4. ASSUME NEW q \in Requests, AssignAircraft(q) PROVE Good
  BY <1>4 DEF AssignAircraft
<1>5. ASSUME NEW q \in Requests, ReadAircraft(q) PROVE Good
  BY <1>5 DEF ReadAircraft, Present
<1>6. ASSUME NEW q \in Requests, DisposeAircraft(q) PROVE Good
  BY <1>6 DEF DisposeAircraft
<1>7. ASSUME NEW q \in Requests, ReadSchedule(q) PROVE Good
  BY <1>7 DEF ReadSchedule, Known, Legal
<1>8. ASSUME NEW q \in Requests, AdjustSchedule(q) PROVE Good
  BY <1>8 DEF AdjustSchedule
<1>9. ASSUME NEW q \in Requests, Refuse(q) PROVE Good
  BY <1>9 DEF Refuse
<1>10. CASE UNCHANGED <<rowLock, pc, locals, settled>>
  BY <1>10
<1> QED
  BY <1>1, <1>2, <1>3, <1>4, <1>5, <1>6, <1>7, <1>8, <1>9, <1>10
  DEF Next, vars, Request, Acquire, Repair, Wear, Ground, Create, Delete, Unassign,
      ApplyBankruptcy, Reset

----------------------------------------------------------------------------
\* What a step does to the four tables the rest of the argument is about.

\* Only Reset, and a disposal by the holder of its row, take an aircraft away.
LEMMA PresentKept ==
  ASSUME IInv, [Next]_vars,
         NEW a \in Present, Reset => rowLock[a] # Nobody,
         \A q \in Requests : DisposeAircraft(q) => plane[q] # a
  PROVE  a \in Present'
<1> USE DEF Present, IInv, TypeOK, locals, Kinds
<1>1. ASSUME NEW q \in Requests, DisposeAircraft(q) PROVE a \in Present'
  BY <1>1 DEF DisposeAircraft
<1>2. ASSUME NEW b \in Aircraft, Acquire(b) \/ Repair(b) \/ Wear(b) \/ Ground(b)
      PROVE  a \in Present'
  <2>1. \A c \in Aircraft : c # b => fleet'[c] = fleet[c]
    BY <1>2 DEF Acquire, Repair, Wear, Ground
  <2>2. b = a => fleet'[a].kind = fleet[a].kind
    <3>1. fleet[a] \in FleetRow /\ fleet \in [Aircraft -> FleetRow]
      OBVIOUS
    <3>2. ~ (b = a /\ Acquire(b))
      BY DEF Acquire
    <3>3. CASE Repair(b)
      BY <3>1, <3>3 DEF Repair, FleetRow
    <3>4. CASE Wear(b)
      BY <3>1, <3>4 DEF Wear, FleetRow
    <3>5. CASE Ground(b)
      BY <3>1, <3>5 DEF Ground, FleetRow
    <3> QED
      BY <1>2, <3>2, <3>3, <3>4, <3>5
  <2> QED
    BY <2>1, <2>2
<1>3. CASE ApplyBankruptcy
  BY <1>3 DEF ApplyBankruptcy
<1>4. CASE Reset
  BY <1>4 DEF Reset
<1>5. CASE fleet' = fleet
  BY <1>5
<1> QED
  BY <1>1, <1>2, <1>3, <1>4, <1>5
  DEF Next, vars, Request, ReadRoute, LockAircraft, CheckAssignment,
      AssignAircraft, ReadAircraft, RecheckAssignment, ReadSchedule,
      AdjustSchedule, Refuse, Create, Delete, Unassign

\* Only an assignment gives a route an aircraft it did not have.
LEMMA HoldersShrink ==
  ASSUME IInv, [Next]_vars,
         NEW a \in Aircraft,
         \A q \in Requests : AssignAircraft(q) => plane[q] # a
  PROVE  Holders(a)' \subseteq Holders(a)
<1> USE FleetAssumption DEF Holders, IInv, TypeOK, locals
<1>1. ASSUME NEW q \in Requests, AssignAircraft(q)
      PROVE  Holders(a)' \subseteq Holders(a)
  <2>1. plane[q] # a
    BY <1>1
  <2>2. CASE line[q] \in Known
    <3>1. [route[line[q]] EXCEPT !.aircraft = plane[q]].aircraft = plane[q]
      BY <2>2, RowAircraft DEF Known
    <3> QED
      BY <1>1, <2>1, <2>2, <3>1 DEF AssignAircraft, Known
  <2> QED
    BY <1>1, <2>2 DEF AssignAircraft
<1>2. ASSUME NEW q \in Requests, DisposeAircraft(q)
      PROVE  Holders(a)' \subseteq Holders(a)
  BY <1>2 DEF DisposeAircraft, Release
<1>3. ASSUME NEW q \in Requests, AdjustSchedule(q)
      PROVE  Holders(a)' \subseteq Holders(a)
  BY <1>3 DEF AdjustSchedule
<1>4. ASSUME NEW r \in Routes, Create(r) \/ Delete(r) \/ Unassign(r)
      PROVE  Holders(a)' \subseteq Holders(a)
  <2>1. \A s \in Routes : s # r => route'[s] = route[s]
    BY <1>4 DEF Create, Delete, Unassign
  <2>2. route'[r].aircraft = NoAircraft
    <3>0. route[r] \in RouteRow /\ "cancelled" \in RouteStates
      BY DEF RouteStates
    <3>1. CASE Create(r)
      BY <3>1 DEF Create
    <3>2. CASE Delete(r)
      <4>1. [route[r] EXCEPT !.state = "cancelled", !.aircraft = NoAircraft].aircraft
              = NoAircraft
        BY <3>0 DEF RouteRow
      <4> QED
        BY <3>2, <4>1 DEF Delete
    <3>3. CASE Unassign(r)
      BY <3>0, <3>3, RowAircraft DEF Unassign
    <3> QED
      BY <1>4, <3>1, <3>2, <3>3
  <2> QED
    BY <2>1, <2>2
<1>5. CASE ApplyBankruptcy
  <2>1. \A r \in Routes : route'[r].aircraft = route[r].aircraft
    BY <1>5, RowState DEF ApplyBankruptcy, RouteStates
  <2> HIDE DEF IInv, TypeOK
  <2> QED
    BY <2>1
<1>6. CASE Reset
  <2>1. \A r \in Routes : route'[r].aircraft \in {route[r].aircraft, NoAircraft}
    <3>1. ASSUME NEW r \in Routes, r \in Known PROVE route'[r].aircraft = NoAircraft
      <4>1. route[r] \in RouteRow /\ "deleted" \in RouteStates
        BY DEF RouteStates
      <4>2. [route[r] EXCEPT !.state = "deleted", !.aircraft = NoAircraft].aircraft
              = NoAircraft
        BY <4>1 DEF RouteRow
      <4> QED
        BY <1>6, <3>1, <4>2 DEF Reset
    <3>2. ASSUME NEW r \in Routes, r \notin Known PROVE route'[r] = route[r]
      BY <1>6, <3>2 DEF Reset
    <3> QED
      BY <3>1, <3>2
  <2> HIDE DEF IInv, TypeOK
  <2> QED
    BY <2>1
<1>7. CASE route' = route
  BY <1>7
<1> QED
  BY <1>1, <1>2, <1>3, <1>4, <1>5, <1>6, <1>7
  DEF Next, vars, Request, ReadRoute, LockAircraft, CheckAssignment,
      ReadAircraft, RecheckAssignment, ReadSchedule, Refuse,
      Acquire, Repair, Wear, Ground

\* The row of a locked aircraft stays locked until its holder unlocks it.
LEMMA LockKept ==
  ASSUME IInv, [Next]_vars,
         NEW q \in Requests, pc[q] \in Locking, pc'[q] \in Locking
  PROVE  plane'[q] = plane[q] /\ line'[q] = line[q] /\ rowLock'[plane[q]] = q
<1> USE FleetAssumption DEF IInv, TypeOK, RowsLocked, Locking, locals, Step, Idle, Unlock, Present
<1>1. ASSUME NEW p \in Requests, Request(p)
      PROVE  plane'[q] = plane[q] /\ line'[q] = line[q] /\ rowLock'[plane[q]] = q
  <2>1. CASE LockAircraft(p)
    BY <2>1 DEF LockAircraft
  <2>2. CASE ReadRoute(p) \/ ReadAircraft(p) \/ ReadSchedule(p)
    BY <2>2 DEF ReadRoute, ReadAircraft, ReadSchedule
  <2>3. CASE CheckAssignment(p) \/ RecheckAssignment(p)
    BY <2>3 DEF CheckAssignment, RecheckAssignment
  <2>4. CASE AssignAircraft(p) \/ DisposeAircraft(p)
    BY <2>4 DEF AssignAircraft, DisposeAircraft
  <2>5. CASE AdjustSchedule(p) \/ Refuse(p)
    BY <2>5 DEF AdjustSchedule, Refuse
  <2> QED
    BY <1>1, <2>1, <2>2, <2>3, <2>4, <2>5 DEF Request
<1>2. CASE UNCHANGED <<rowLock, pc, locals, settled>>
  BY <1>2
<1> QED
  BY <1>1, <1>2
  DEF Next, vars, Acquire, Repair, Wear, Ground, Create, Delete, Unassign,
      ApplyBankruptcy, Reset

\* A request past its lock has its row, and its checks, to itself.
LEMMA Alone ==
  ASSUME IInv, NEW q \in Requests, pc[q] \in Locking,
         NEW p \in Requests, pc[p] \in Locking, plane[p] = plane[q]
  PROVE  p = q
BY DEF IInv, RowsLocked

\* A request past its SELECT ... FOR UPDATE holds the row until it unlocks it.
LEMMA LocksStep == IInv /\ [Next]_vars => RowsLocked'
<1> SUFFICES ASSUME IInv, [Next]_vars,
                    NEW q \in Requests, pc'[q] \in Locking
             PROVE  plane'[q] \in Present' /\ rowLock'[plane'[q]] = q
  BY DEF RowsLocked
<1>1. CASE pc[q] \in Locking
  <2>1. /\ plane'[q] = plane[q] /\ rowLock'[plane[q]] = q
        /\ plane[q] \in Present /\ rowLock[plane[q]] = q /\ q # Nobody
    BY <1>1, LockKept, FleetAssumption DEF IInv, RowsLocked
  <2>2. ASSUME NEW p \in Requests, DisposeAircraft(p), plane[p] = plane[q]
        PROVE  FALSE
    <3>1. p = q
      BY <1>1, <2>2, Alone DEF DisposeAircraft, Locking
    <3> QED
      BY <2>2, <3>1 DEF DisposeAircraft, Idle, Locking, IInv, TypeOK
  <2> QED
    BY <2>1, <2>2, PresentKept
<1>2. CASE pc[q] \notin Locking
  <2>1. ASSUME NEW p \in Requests, Request(p)
        PROVE  /\ LockAircraft(q)
               /\ plane'[q] = plane[q] /\ plane[q] \in Present /\ Present' = Present
               /\ rowLock'[plane[q]] = q
    <3> USE DEF IInv, TypeOK, Step, Idle, locals
    <3>1. CASE LockAircraft(p)
      BY <1>2, <3>1 DEF LockAircraft, Present, Locking
    <3>2. CASE ReadRoute(p) \/ ReadAircraft(p) \/ ReadSchedule(p)
      BY <1>2, <3>2 DEF ReadRoute, ReadAircraft, ReadSchedule, Locking
    <3>3. CASE CheckAssignment(p) \/ RecheckAssignment(p)
      BY <1>2, <3>3 DEF CheckAssignment, RecheckAssignment, Locking
    <3>4. CASE AssignAircraft(p) \/ DisposeAircraft(p)
      BY <1>2, <3>4 DEF AssignAircraft, DisposeAircraft, Locking
    <3>5. CASE AdjustSchedule(p) \/ Refuse(p)
      BY <1>2, <3>5 DEF AdjustSchedule, Refuse, Locking
    <3> QED
      BY <2>1, <3>1, <3>2, <3>3, <3>4, <3>5 DEF Request
  <2>2. pc' # pc
    BY <1>2
  <2>3. \E p \in Requests : Request(p)
    BY <2>2 DEF Next, vars, Acquire, Repair, Wear, Ground, Create, Delete,
               Unassign, ApplyBankruptcy, Reset
  <2> QED
    BY <2>1, <2>3
<1> QED
  BY <1>1, <1>2

\* Between its check and its write a request is the only one to assign.
LEMMA ChecksStep == IInv /\ [Next]_vars => ChecksStand'
<1> SUFFICES ASSUME IInv, [Next]_vars, NEW q \in Requests
             PROVE  /\ pc'[q] = "assign" => Holders(plane[q])' \subseteq {line'[q]}
                    /\ pc'[q] = "dispose" => Holders(plane[q])' = {}
  BY DEF ChecksStand, Holders
<1> USE DEF Locking
<1>1. ASSUME pc'[q] = pc[q], pc[q] \in {"assign", "dispose"}
      PROVE  /\ plane'[q] = plane[q] /\ line'[q] = line[q]
             /\ Holders(plane[q])' \subseteq Holders(plane[q])
  <2>1. plane'[q] = plane[q] /\ line'[q] = line[q]
    BY <1>1, LockKept
  <2>2. plane[q] \in Aircraft
    BY <1>1 DEF IInv, RowsLocked, Present
  <2>3. ASSUME NEW p \in Requests, AssignAircraft(p), plane[p] = plane[q]
        PROVE  FALSE
    <3>1. p = q
      BY <1>1, <2>3, Alone DEF AssignAircraft
    <3> QED
      BY <1>1, <2>3, <3>1 DEF AssignAircraft, Idle, IInv, TypeOK
  <2>4. \A a \in Aircraft : a = plane[q] => Holders(a)' \subseteq Holders(a)
    BY <2>3, HoldersShrink
  <2> QED
    BY <2>1, <2>2, <2>4 DEF Holders
<1>2. ASSUME pc'[q] # pc[q], pc'[q] \in {"assign", "dispose"}
      PROVE  /\ plane' = plane /\ line' = line /\ route' = route
             /\ pc'[q] = "assign" => Holders(plane[q]) \subseteq {line[q]}
             /\ pc'[q] = "dispose" => Holders(plane[q]) = {}
  <2>1. \E p \in Requests : Request(p)
    BY <1>2 DEF Next, vars, Acquire, Repair, Wear, Ground, Create, Delete,
               Unassign, ApplyBankruptcy, Reset
  <2>2. PICK p \in Requests : Request(p)
    BY <2>1
  <2> USE DEF IInv, TypeOK, Step, Idle, locals
  <2>3. CASE LockAircraft(p)
    BY <1>2, <2>3 DEF LockAircraft
  <2>4. CASE ReadRoute(p) \/ ReadAircraft(p) \/ ReadSchedule(p)
    BY <1>2, <2>4 DEF ReadRoute, ReadAircraft, ReadSchedule
  <2>5. CASE CheckAssignment(p) \/ RecheckAssignment(p)
    BY <1>2, <2>5 DEF CheckAssignment, RecheckAssignment
  <2>6. CASE AssignAircraft(p) \/ DisposeAircraft(p)
    BY <1>2, <2>6 DEF AssignAircraft, DisposeAircraft
  <2>7. CASE AdjustSchedule(p) \/ Refuse(p)
    BY <1>2, <2>7 DEF AdjustSchedule, Refuse
  <2> QED
    BY <2>2, <2>3, <2>4, <2>5, <2>6, <2>7 DEF Request
<1> QED
  BY <1>1, <1>2 DEF IInv, ChecksStand, Holders

\* Only rows that are there are assigned to, and they go without an aircraft.
LEMMA EmptyStep == IInv /\ [Next]_vars => UnknownEmpty'
<1> SUFFICES ASSUME IInv, [Next]_vars PROVE UnknownEmpty'
  OBVIOUS
<1>0. /\ \A r \in Routes : route[r] \in RouteRow
      /\ route \in [Routes -> RouteRow]
      /\ \A r \in Routes : route[r].state \notin {"active", "cancelled"} =>
           route[r].aircraft = NoAircraft
      /\ {"active", "cancelled", "deleted"} \subseteq RouteStates
  BY DEF IInv, TypeOK, UnknownEmpty, Known, RouteStates
<1> SUFFICES ASSUME NEW r \in Routes, route'[r].state \notin {"active", "cancelled"}
             PROVE  route'[r].aircraft = NoAircraft
  BY DEF UnknownEmpty, Known
<1>1. ASSUME NEW q \in Requests, AssignAircraft(q)
      PROVE  route'[r].aircraft = NoAircraft
  <2>1. plane[q] \in Aircraft \cup {NoAircraft}
    BY DEF IInv, TypeOK
  <2>2. \A s \in Routes : [route[s] EXCEPT !.aircraft = plane[q]].state = route[s].state
    BY <1>0, <2>1, RowAircraft
  <2> QED
    BY <1>0, <1>1, <2>2 DEF AssignAircraft, Known
<1>2. ASSUME NEW q \in Requests, DisposeAircraft(q)
      PROVE  route'[r].aircraft = NoAircraft
  <2>1. LET y == [route[r] EXCEPT !.aircraft = NoAircraft] IN
        y.state = route[r].state /\ y.aircraft = NoAircraft
    BY <1>0, RowAircraft
  <2> QED
    BY <1>0, <1>2, <2>1 DEF DisposeAircraft, Release
<1>3. ASSUME NEW q \in Requests, AdjustSchedule(q)
      PROVE  route'[r].aircraft = NoAircraft
  <2>1. freq[q] \in Nat
    BY DEF IInv, TypeOK
  <2>2. LET y == [route[r] EXCEPT !.freq = freq[q]] IN
        y.state = route[r].state /\ y.aircraft = route[r].aircraft
    BY <1>0, <2>1, RowFreq
  <2> QED
    BY <1>0, <1>3, <2>2 DEF AdjustSchedule
<1>4. ASSUME NEW s \in Routes, Create(s) \/ Delete(s) \/ Unassign(s)
      PROVE  route'[r].aircraft = NoAircraft
  <2>1. [route[r] EXCEPT !.state = "cancelled", !.aircraft = NoAircraft].aircraft
          = NoAircraft
    BY <1>0, RowEmptied
  <2>2. [route[r] EXCEPT !.aircraft = NoAircraft].aircraft = NoAircraft
    BY <1>0, RowAircraft
  <2>3. s = r => route'[r].aircraft = NoAircraft
    <3>1. CASE Create(s)
      BY <1>0, <3>1 DEF Create
    <3>2. CASE Delete(s)
      BY <1>0, <2>1, <3>2 DEF Delete
    <3>3. CASE Unassign(s)
      BY <1>0, <2>2, <3>3 DEF Unassign
    <3> QED
      BY <1>4, <3>1, <3>2, <3>3
  <2>4. s # r => route'[r] = route[r]
    BY <1>0, <1>4 DEF Create, Delete, Unassign
  <2> QED
    BY <1>0, <2>3, <2>4
<1>5. CASE ApplyBankruptcy
  <2>1. [route[r] EXCEPT !.state = "cancelled"].state = "cancelled"
    BY <1>0, RowState
  <2> QED
    BY <1>0, <1>5, <2>1 DEF ApplyBankruptcy
<1>6. CASE Reset
  <2>1. [route[r] EXCEPT !.state = "deleted", !.aircraft = NoAircraft].aircraft
          = NoAircraft
    BY <1>0, RowEmptied
  <2> QED
    BY <1>0, <1>6, <2>1 DEF Reset, Known
<1>7. CASE route' = route
  BY <1>0, <1>7
<1> QED
  BY <1>1, <1>2, <1>3, <1>4, <1>5, <1>6, <1>7
  DEF Next, vars, Request, locals, ReadRoute, LockAircraft, CheckAssignment,
      ReadAircraft, RecheckAssignment, ReadSchedule, Refuse,
      Acquire, Repair, Wear, Ground

\* An aircraft is assigned where it was alone, and leaves without a route.
LEMMA UniqueStep == IInv /\ [Next]_vars => OneRoutePerAircraft'
<1> SUFFICES ASSUME IInv, [Next]_vars PROVE OneRoutePerAircraft'
  OBVIOUS
<1>1. ASSUME NEW a \in Aircraft, NEW r \in Holders(a)', NEW s \in Holders(a)'
      PROVE  r = s
  <2>1. CASE \E q \in Requests : AssignAircraft(q) /\ plane[q] = a
    <3>1. PICK q \in Requests : AssignAircraft(q) /\ plane[q] = a
      BY <2>1
    <3>2. \A t \in Routes : t # line[q] => route'[t] = route[t]
      BY <3>1 DEF AssignAircraft, IInv, TypeOK
    <3>3. Holders(a) \subseteq {line[q]}
      BY <3>1 DEF IInv, ChecksStand, AssignAircraft
    <3> QED
      BY <1>1, <3>2, <3>3 DEF Holders
  <2>2. CASE \A q \in Requests : AssignAircraft(q) => plane[q] # a
    BY <1>1, <2>2, HoldersShrink DEF IInv, OneRoutePerAircraft
  <2> QED
    BY <2>1, <2>2
<1>2. ASSUME NEW a \in Aircraft, NEW r \in Holders(a)' PROVE a \in Present'
  <2>1. CASE \E q \in Requests : AssignAircraft(q) /\ plane[q] = a
    BY <2>1 DEF AssignAircraft, IInv, RowsLocked, Locking, Present
  <2>2. CASE \A q \in Requests : AssignAircraft(q) => plane[q] # a
    <3>1. r \in Holders(a) /\ a \in Present
      BY <1>2, <2>2, HoldersShrink, FleetAssumption
      DEF IInv, OneRoutePerAircraft, Holders
    <3>2. ~ Reset
      <4>1. \A t \in Routes : route[t] \in RouteRow
        BY DEF IInv, TypeOK
      <4>2. "deleted" \in RouteStates
        BY DEF RouteStates
      <4>3. SUFFICES ASSUME Reset PROVE route'[r].aircraft = NoAircraft
        BY <1>2, FleetAssumption DEF Holders
      <4>4. CASE r \in Known
        BY <3>1, <4>1, <4>2, <4>3, <4>4, RowEmptied DEF Reset, Holders
      <4>5. CASE r \notin Known
        BY <3>1, <4>3, <4>5 DEF Reset, Holders, IInv, UnknownEmpty
      <4> QED
        BY <4>4, <4>5
    <3>3. \A q \in Requests : DisposeAircraft(q) => plane[q] # a
      BY <3>1 DEF DisposeAircraft, IInv, ChecksStand
    <3> QED
      BY <3>1, <3>2, <3>3, PresentKept
  <2> QED
    BY <2>1, <2>2
<1>3. \A r \in Routes : route'[r].aircraft \in Aircraft \cup {NoAircraft}
  BY RoutesTyped DEF RouteRow
<1> QED
  BY <1>1, <1>2, <1>3 DEF OneRoutePerAircraft, Holders

\* The strengthened invariant: with the row locks and what each holder checked.
THEOREM Invariance == Spec => []IInv
<1>1. IInv /\ [Next]_vars => IInv'
  BY TypeStep, LocksStep, ChecksStep, EmptyStep, UniqueStep DEF IInv
<1> QED
  BY <1>1, InitIInv, PTL DEF Spec

\* Columns of the fleet and route tables keep their types, and a schedule in
\* force asks for between 1 and MaxFreq flights.
THEOREM TypeCorrect == Spec => []TypeOK
BY Invariance, PTL DEF IInv

\* Whatever requests race, no aircraft flies two routes, and none flies a route
\* after it was sold.
THEOREM NeverShared == Spec => []OneRoutePerAircraft
BY Invariance, PTL DEF IInv

----------------------------------------------------------------------------
(* Airworthiness *)

Airworthy(a) == fleet[a].status = "active" /\ fleet[a].condition # "worn"

\* What a request found fit to fly is so until it is assigned.
StillAirworthy == \A q \in Requests : pc[q] = "assign" => Airworthy(plane[q])

\* Wear, grounding, bankruptcy and reset wait for the row.
LEMMA AirworthyKept ==
  ASSUME IInv, [Next]_vars,
         NEW a \in Present, rowLock[a] # Nobody, Airworthy(a)
  PROVE  Airworthy(a)'
<1> USE DEF Airworthy, Present, IInv, TypeOK, locals
<1>1. ASSUME NEW q \in Requests, DisposeAircraft(q) PROVE Airworthy(a)'
  <2>1. plane[q] \in Aircraft
    BY <1>1 DEF DisposeAircraft, RowsLocked, Locking
  <2> DEFINE old == fleet[plane[q]]
             new == [old EXCEPT !.kind = "gone"]
  <2>2. old \in FleetRow
    BY <2>1
  <2>3. new.status = old.status /\ new.condition = old.condition
    BY <2>2 DEF FleetRow
  <2>4. fleet' = [fleet EXCEPT ![plane[q]] = new]
    BY <1>1 DEF DisposeAircraft
  <2> HIDE DEF old, new
  <2>5. CASE plane[q] = a
    BY <2>3, <2>4, <2>5 DEF old
  <2>6. CASE plane[q] # a
    BY <2>4, <2>6
  <2> QED
    BY <2>5, <2>6
<1>2. ASSUME NEW b \in Aircraft, Acquire(b) \/ Repair(b) \/ Wear(b) \/ Ground(b)
      PROVE  Airworthy(a)'
  <2>1. a # b
    BY <1>2 DEF Acquire, Repair, Wear, Ground
  <2> QED
    BY <1>2, <2>1 DEF Acquire, Repair, Wear, Ground
<1>3. ~ ApplyBankruptcy /\ ~ Reset
  BY DEF ApplyBankruptcy, Reset
<1>4. CASE fleet' = fleet
  BY <1>4
<1> QED
  BY <1>1, <1>2, <1>3, <1>4
  DEF Next, vars, Request, ReadRoute, LockAircraft, CheckAssignment,
      AssignAircraft, ReadAircraft, RecheckAssignment, ReadSchedule,
      AdjustSchedule, Refuse, Create, Delete, Unassign

\* The check establishes it and the row lock keeps it.
LEMMA AirworthyStep == IInv /\ StillAirworthy /\ [Next]_vars => StillAirworthy'
<1> SUFFICES ASSUME IInv, StillAirworthy, [Next]_vars,
                    NEW q \in Requests, pc'[q] = "assign"
             PROVE  Airworthy(plane[q])'
  BY DEF StillAirworthy, Airworthy
<1>1. CASE pc[q] = "assign"
  <2>1. plane'[q] = plane[q]
    BY <1>1, LockKept DEF Locking
  <2>2. plane[q] \in Present /\ rowLock[plane[q]] = q
    BY <1>1 DEF IInv, RowsLocked, Locking
  <2>3. \A a \in Present : a = plane[q] => Airworthy(a)'
    BY <1>1, <2>2, AirworthyKept, FleetAssumption DEF StillAirworthy
  <2> QED
    BY <2>1, <2>2, <2>3 DEF Airworthy
<1>2. CASE pc[q] # "assign"
  <2>1. \E p \in Requests : Request(p)
    BY <1>2 DEF Next, vars, Acquire, Repair, Wear, Ground, Create, Delete,
               Unassign, ApplyBankruptcy, Reset
  <2>2. PICK p \in Requests : Request(p)
    BY <2>1
  <2> USE DEF IInv, TypeOK, Step, Idle, locals
  <2>3. ~ LockAircraft(p) /\ ~ RecheckAssignment(p)
    BY <1>2 DEF LockAircraft, RecheckAssignment
  <2>4. ~ ReadRoute(p) /\ ~ ReadAircraft(p) /\ ~ ReadSchedule(p)
    BY <1>2 DEF ReadRoute, ReadAircraft, ReadSchedule
  <2>5. ~ AssignAircraft(p) /\ ~ DisposeAircraft(p)
    BY <1>2 DEF AssignAircraft, DisposeAircraft
  <2>6. ~ AdjustSchedule(p) /\ ~ Refuse(p)
    BY <1>2 DEF AdjustSchedule, Refuse
  <2>7. CheckAssignment(p)
    BY <2>2, <2>3, <2>4, <2>5, <2>6 DEF Request
  <2>8. p = q
    BY <1>2, <2>7 DEF CheckAssignment
  <2>9. plane[q] \in Aircraft
    BY <2>7, <2>8 DEF CheckAssignment, RowsLocked, Locking, Present
  <2>10. fleet[plane[q]].status = "active"
    BY <2>7, <2>8, <2>9 DEF CheckAssignment, FleetRow
  <2> QED
    BY <2>7, <2>8, <2>10 DEF CheckAssignment, Airworthy
<1> QED
  BY <1>1, <1>2

\* No aircraft is put on a route that was grounded, or worn below the threshold,
\* after the request had looked at it, for any requests, aircraft and routes.
THEOREM AssignsAirworthy == Spec => AssignedAirworthy
<1>1. Init => StillAirworthy
  BY DEF Init, StillAirworthy
<1>2. IInv /\ StillAirworthy /\ [Next]_vars =>
        \A r \in Routes :
          LET a == route'[r].aircraft IN
          a \notin {route[r].aircraft, NoAircraft} =>
            fleet[a].status = "active" /\ fleet[a].condition # "worn"
  <2> SUFFICES ASSUME IInv, StillAirworthy, [Next]_vars, NEW r \in Routes,
                      route'[r].aircraft \notin {route[r].aircraft, NoAircraft}
               PROVE  Airworthy(route'[r].aircraft)
    BY DEF Airworthy
  <2>1. route'[r].aircraft \in Aircraft
    BY RoutesTyped DEF RouteRow
  <2>2. PICK a \in Aircraft : a = route'[r].aircraft
    BY <2>1
  <2>3. r \in Holders(a)' /\ r \notin Holders(a)
    BY <2>2 DEF Holders
  <2>4. PICK q \in Requests : AssignAircraft(q) /\ plane[q] = a
    BY <2>3, HoldersShrink
  <2> QED
    BY <2>2, <2>4 DEF StillAirworthy, AssignAircraft
<1> QED
  BY Invariance, AirworthyStep, <1>1, <1>2, PTL DEF Spec, AssignedAirworthy

----------------------------------------------------------------------------
(* The refinement *)

holds == [r \in Routes |-> route[r].aircraft]

Stutter == UNCHANGED <<Present, holds, settled>>

\* Steps on the fleet table.
LEMMA FleetMaps ==
  ASSUME IInv, NEW a \in Aircraft, Acquire(a) \/ Repair(a) \/ Wear(a) \/ Ground(a)
  PROVE  Promise!Join(a) \/ Stutter
<1>0. fleet \in [Aircraft -> FleetRow] /\ fleet[a] \in FleetRow
  BY DEF IInv, TypeOK
<1>1. \A b \in Aircraft : b # a => fleet'[b] = fleet[b]
  BY <1>0 DEF Acquire, Repair, Wear, Ground
<1>2. UNCHANGED <<holds, settled>>
  BY DEF Acquire, Repair, Wear, Ground, holds
<1>3. CASE Acquire(a)
  <2>1. fleet'[a].kind \in {"purchase", "lease"}
    BY <1>0, <1>3 DEF Acquire
  <2>2. Present' = Present \cup {a}
    BY <1>1, <2>1 DEF Present
  <2> QED
    BY <1>2, <2>2 DEF Promise!Join, holds
<1>4. CASE Repair(a) \/ Wear(a) \/ Ground(a)
  <2>1. fleet'[a].kind = fleet[a].kind
    <3>1. CASE Repair(a)
      BY <1>0, <3>1 DEF Repair, FleetRow
    <3>2. CASE Wear(a)
      BY <1>0, <3>2 DEF Wear, FleetRow
    <3>3. CASE Ground(a)
      BY <1>0, <3>3 DEF Ground, FleetRow
    <3> QED
      BY <1>4, <3>1, <3>2, <3>3
  <2>2. Present' = Present
    BY <1>1, <2>1 DEF Present
  <2> QED
    BY <1>2, <2>2 DEF Stutter
<1> QED
  BY <1>3, <1>4

\* Steps on the route table.
LEMMA RouteMaps ==
  ASSUME IInv, NEW r \in Routes, Create(r) \/ Delete(r) \/ Unassign(r)
  PROVE  Promise!Release(r)
<1>0. route \in [Routes -> RouteRow] /\ route[r] \in RouteRow
      /\ "cancelled" \in RouteStates
  BY DEF IInv, TypeOK, RouteStates
<1>1. \A s \in Routes : s # r => route'[s] = route[s]
  BY <1>0 DEF Create, Delete, Unassign
<1>2. route'[r].aircraft = NoAircraft
  <2>1. CASE Create(r)
    BY <1>0, <2>1 DEF Create
  <2>2. CASE Delete(r)
    <3>1. [route[r] EXCEPT !.state = "cancelled", !.aircraft = NoAircraft].aircraft
            = NoAircraft
      BY <1>0, RowEmptied
    <3> QED
      BY <1>0, <2>2, <3>1 DEF Delete
  <2>3. CASE Unassign(r)
    BY <1>0, <2>3, RowAircraft DEF Unassign
  <2> QED
    BY <2>1, <2>2, <2>3
<1>3. UNCHANGED <<Present, settled>>
  BY DEF Create, Delete, Unassign, Present
<1>4. holds' = [holds EXCEPT ![r] = NoAircraft]
  BY <1>1, <1>2 DEF holds
<1> QED
  BY <1>3, <1>4 DEF Promise!Release, holds

\* Steps of a request: only its last one is seen from outside.
LEMMA RequestMaps ==
  ASSUME IInv, NEW q \in Requests, Request(q)
  PROVE  Promise!Next \/ Stutter
<1>1. CASE AssignAircraft(q)
  <2>0. /\ plane[q] \in Present /\ plane[q] \in Aircraft
        /\ Holders(plane[q]) \subseteq {line[q]}
        /\ route \in [Routes -> RouteRow]
    BY <1>1 DEF AssignAircraft, IInv, TypeOK, RowsLocked, ChecksStand, Locking, Present
  <2>1. UNCHANGED <<Present, settled>>
    BY <1>1 DEF AssignAircraft, Present
  <2>2. CASE line[q] \in Known
    <3>1. line[q] \in Routes
      BY <2>2 DEF Known
    <3>2. [route[line[q]] EXCEPT !.aircraft = plane[q]].aircraft = plane[q]
      BY <2>0, <3>1, RowAircraft
    <3>3. holds' = [holds EXCEPT ![line[q]] = plane[q]]
      BY <1>1, <2>0, <2>2, <3>1, <3>2 DEF AssignAircraft, holds
    <3>4. \A s \in Routes \ {line[q]} : holds[s] # plane[q]
      BY <2>0 DEF Holders, holds
    <3>5. ASSUME NEW r \in Routes, r = line[q], NEW a \in Aircraft, a = plane[q]
          PROVE  Promise!Assign(r, a)
      BY <2>0, <2>1, <3>3, <3>4, <3>5 DEF Promise!Assign, holds
    <3> QED
      BY <2>0, <3>1, <3>5 DEF Promise!Next
  <2>3. CASE line[q] \notin Known
    BY <1>1, <2>1, <2>3 DEF AssignAircraft, holds, Stutter
  <2> QED
    BY <2>2, <2>3
<1>2. CASE DisposeAircraft(q)
  <2>0. /\ plane[q] \in Present /\ plane[q] \in Aircraft
        /\ Holders(plane[q]) = {}
        /\ fleet \in [Aircraft -> FleetRow]
    BY <1>2 DEF DisposeAircraft, IInv, TypeOK, RowsLocked, ChecksStand, Locking, Present
  <2>1. fleet'[plane[q]].kind = "gone"
    BY <1>2, <2>0 DEF DisposeAircraft, FleetRow
  <2>2. \A b \in Aircraft : b # plane[q] => fleet'[b] = fleet[b]
    BY <1>2, <2>0 DEF DisposeAircraft
  <2>3. Present' = Present \ {plane[q]}
    BY <2>1, <2>2 DEF Present
  <2>4. route' = [r \in Routes |-> route[r]]
    BY <1>2, <2>0 DEF DisposeAircraft, Release, Holders
  <2>5. UNCHANGED holds
    BY <2>4 DEF holds
  <2>6. Promise!Dispose(plane[q])
    BY <1>2, <2>0, <2>3, <2>5
    DEF DisposeAircraft, Holders, holds, Promise!Dispose, Promise!Free
  <2> QED
    BY <2>0, <2>6 DEF Promise!Next
<1>3. CASE AdjustSchedule(q)
  <2>1. freq[q] \in Nat /\ \A r \in Routes : route[r] \in RouteRow
    BY DEF IInv, TypeOK
  <2>2. \A r \in Routes : [route[r] EXCEPT !.freq = freq[q]].aircraft = route[r].aircraft
    BY <2>1, RowFreq
  <2>3. \A r \in Routes : route'[r].aircraft = route[r].aircraft
    BY <1>3, <2>2 DEF AdjustSchedule, IInv, TypeOK
  <2> QED
    BY <1>3, <2>3 DEF AdjustSchedule, Stutter, Present, holds
<1> QED
  BY <1>1, <1>2, <1>3
  DEF Request, ReadRoute, LockAircraft, CheckAssignment, ReadAircraft,
      RecheckAssignment, ReadSchedule, Refuse, Stutter, Present, holds

\* Steps that touch both tables.
LEMMA WholesaleMaps ==
  ASSUME IInv, ApplyBankruptcy \/ Reset
  PROVE  Promise!Disband \/ Stutter
<1>0. /\ \A a \in Aircraft : fleet[a] \in FleetRow
      /\ \A r \in Routes : route[r] \in RouteRow
      /\ {"cancelled", "deleted"} \subseteq RouteStates
  BY DEF IInv, TypeOK, RouteStates
<1>1. CASE ApplyBankruptcy
  <2>1. \A a \in Aircraft : [fleet[a] EXCEPT !.status = "grounded"].kind = fleet[a].kind
    BY <1>0 DEF FleetRow
  <2>2. \A r \in Routes : [route[r] EXCEPT !.state = "cancelled"].aircraft = route[r].aircraft
    BY <1>0, RowState
  <2>3. \A a \in Aircraft : fleet'[a].kind = fleet[a].kind
    BY <1>1, <2>1 DEF ApplyBankruptcy
  <2>4. \A r \in Routes : route'[r].aircraft = route[r].aircraft
    BY <1>1, <2>2 DEF ApplyBankruptcy
  <2> QED
    BY <1>1, <2>3, <2>4 DEF ApplyBankruptcy, Stutter, Present, holds
<1>2. CASE Reset
  <2>1. \A a \in Aircraft : [fleet[a] EXCEPT !.kind = "gone"].kind = "gone"
    BY <1>0 DEF FleetRow
  <2>2. Present' = {}
    BY <1>2, <2>1 DEF Reset, Present
  <2>3. \A r \in Routes :
          [route[r] EXCEPT !.state = "deleted", !.aircraft = NoAircraft].aircraft
            = NoAircraft
    BY <1>0, RowEmptied
  <2>4. \A r \in Routes : route'[r].aircraft = NoAircraft
    BY <1>2, <2>3 DEF Reset, IInv, UnknownEmpty
  <2>5. holds' = [r \in Routes |-> NoAircraft]
    BY <2>4 DEF holds
  <2> QED
    BY <1>2, <2>2, <2>5 DEF Reset, Promise!Disband, holds
<1> QED
  BY <1>1, <1>2

\* Assignments, sales and terminated leases of racing requests are, one by one,
\* steps of the Hangar: none takes an aircraft off a route or is booked twice.
THEOREM ImplementsHangar == Spec => KeepsAssignments
<1>1. Init => Promise!Init
  BY DEF Init, Promise!Init, Present
<1>2. IInv /\ [Next]_vars => [Promise!Next]_(Promise!vars)
  <2> SUFFICES ASSUME IInv, [Next]_vars PROVE Promise!Next \/ Stutter
    BY DEF Promise!vars, Stutter, holds
  <2>1. ASSUME NEW q \in Requests, Request(q) PROVE Promise!Next \/ Stutter
    BY <2>1, RequestMaps
  <2>2. ASSUME NEW a \in Aircraft, Acquire(a) \/ Repair(a) \/ Wear(a) \/ Ground(a)
        PROVE  Promise!Next \/ Stutter
    BY <2>2, FleetMaps DEF Promise!Next
  <2>3. ASSUME NEW r \in Routes, Create(r) \/ Delete(r) \/ Unassign(r)
        PROVE  Promise!Next
    BY <2>3, RouteMaps DEF Promise!Next
  <2>4. CASE ApplyBankruptcy \/ Reset
    BY <2>4, WholesaleMaps DEF Promise!Next
  <2>5. CASE UNCHANGED vars
    BY <2>5 DEF vars, Stutter, Present, holds
  <2> QED
    BY <2>1, <2>2, <2>3, <2>4, <2>5 DEF Next
<1> QED
  BY <1>1, <1>2, Invariance, PTL DEF Spec, KeepsAssignments, Promise!Spec
=============================================================================
