------------------------- MODULE BotAirline_proofs -------------------------
(***************************************************************************)
(* Proofs about BotAirline, for any fleet, any destinations, every setting   *)
(* of the archetype and any number of failed statements and crashes: an      *)
(* aircraft flies one route, a route is opened only after the cooldown of    *)
(* route changes, and the recovery loan is taken once.  The last two are     *)
(* about what happened in earlier turns; what carries them from turn to turn *)
(* are the marks of the profile: the mark of a change is never older than    *)
(* the change, and the flag is down only where no loan was taken, but for    *)
(* the errors that were dropped.                                             *)
(***************************************************************************)
EXTENDS BotAirline, TLAPS

\* The mark of the last change of routes is as recent as the change.
ChangeMarked == profile /\ lost["change"] = 0 => since["change"] <= quiet

\* The flag of the recovery loan is down only where none was taken.
LoanFlagged == profile /\ ~ recoveryTaken => recoveries <= lost["recovery"]

IInv == TypeOK /\ OneRouteEach /\ ChangeMarked /\ LoanFlagged /\ RecoveryLoanOnce

----------------------------------------------------------------------------
(* The helpers *)

LEMMA Constants ==
  /\ TickHours \in Nat /\ MaxFaults \in Nat /\ MaxLoans \in Nat
  /\ LossDays \in Nat /\ LossDays > 0 /\ Reserve \in Nat
  /\ RepairCost \in Nat /\ LeaseCost \in Nat /\ Price \in Nat
  /\ Every["change"] \in Nat /\ \A k \in Kinds : Every[k] \in Nat
BY AirlineAssumption DEF Kinds

\* The budget of faults.
LEMMA Budget ==
  ASSUME TypeOK, Fault \/ NoFault
  PROVE  faults' \in 0 .. MaxFaults /\ faults' >= faults
BY Constants DEF TypeOK, Fault, NoFault

LEMMA OutcomeIsFault == ASSUME NEW ok \in BOOLEAN, Outcome(ok) PROVE Fault \/ NoFault
BY DEF Outcome

\* An error is dropped only where a statement failed.
LEMMA ForgetTyped ==
  ASSUME TypeOK, NEW kind \in Losses, NEW ok \in BOOLEAN,
         Fault \/ (NoFault /\ ok), lost' = Forget(kind, ok)
  PROVE  /\ lost' \in [Losses -> 0 .. faults']
         /\ lost'[kind] = IF ok THEN lost[kind] ELSE lost[kind] + 1
         /\ \A k \in Losses \ {kind} : lost'[k] = lost[k]
<1>1. faults \in Nat /\ faults' \in Nat /\ faults' >= faults /\ (~ ok => faults' = faults + 1)
  BY Constants DEF TypeOK, Fault, NoFault
<1>2. lost \in [Losses -> 0 .. faults]
  BY DEF TypeOK
<1>3. CASE ok
  BY <1>1, <1>2, <1>3 DEF Forget
<1>4. CASE ~ ok
  BY <1>1, <1>2, <1>4 DEF Forget
<1> QED
  BY <1>3, <1>4

LEMMA LostStays ==
  ASSUME TypeOK, Fault \/ NoFault, UNCHANGED lost
  PROVE  lost' \in [Losses -> 0 .. faults']
<1>1. faults' \in Nat /\ faults \in Nat /\ faults' >= faults
  BY Budget, Constants DEF TypeOK
<1> QED
  BY <1>1 DEF TypeOK

\* A mark only makes the times since shorter.
LEMMA MarkedTyped ==
  ASSUME TypeOK, NEW kinds, NEW ok \in BOOLEAN, Marked(kinds, ok)
  PROVE  /\ since' \in [Kinds -> Nat]
         /\ \A k \in Kinds : since'[k] <= Every[k] /\ since'[k] <= since[k]
         /\ profile /\ ok => \A k \in kinds \cap Kinds : since'[k] = 0
BY Constants DEF TypeOK, Marked

LEMMA StageTyped ==
  ASSUME NEW d, NEW b
  PROVE  Distress(d, b) \in {"stable", "cautious", "defensive", "desperate"}
BY DEF Distress

LEMMA ReserveTyped == ReserveTenths \in Nat
BY Constants DEF ReserveTenths

----------------------------------------------------------------------------
(* What several steps leave alone *)

LEMMA LossDaysStay ==
  ASSUME TypeOK, UNCHANGED lossDays, lost'["reset"] = lost["reset"]
  PROVE  lossDays' \in 0 .. LossDays - 1 + lost'["reset"]
BY DEF TypeOK

\* Conjuncts over state a step does not touch.
LEMMA RoutesStay ==
  ASSUME OneRouteEach, UNCHANGED route, fleet \subseteq fleet', TypeOK
  PROVE  OneRouteEach'
BY DEF OneRouteEach, FlownRoutes, TypeOK

LEMMA ChangeStays ==
  ASSUME TypeOK, ChangeMarked, UNCHANGED <<profile, quiet>>,
         since' \in [Kinds -> Nat], since'["change"] <= since["change"],
         lost'["change"] = 0 => lost["change"] = 0
  PROVE  ChangeMarked'
<1>1. quiet \in Nat /\ since["change"] \in Nat /\ since'["change"] \in Nat
  BY Constants DEF TypeOK, Kinds
<1> QED
  BY <1>1 DEF ChangeMarked

LEMMA LoansStay ==
  ASSUME LoanFlagged, RecoveryLoanOnce, UNCHANGED <<profile, recoveryTaken, recoveries>>,
         lost'["recovery"] = lost["recovery"]
  PROVE  LoanFlagged' /\ RecoveryLoanOnce'
BY DEF LoanFlagged, RecoveryLoanOnce

\* A handler without anything to do, and the end of the turn of a crash.
LEMMA SkipKeeps ==
  ASSUME IInv, NEW p \in {"repair", "audit", "trim", "growth", "creation", "repay", "borrow"},
         Skip(p) \/ SkipFailing(p)
  PROVE  IInv'
<1>1. phase' = p /\ UNCHANGED <<stage, losing, seen, cash, profile, marks, airline, loans, history>>
  BY DEF Skip, SkipFailing
<1>2. Fault \/ NoFault
  BY DEF Skip, SkipFailing
<1>3. faults' \in 0 .. MaxFaults /\ lost' \in [Losses -> 0 .. faults']
  BY <1>1, <1>2, Budget, LostStays DEF IInv, history
<1> QED
  BY <1>1, <1>3 DEF IInv, marks, airline, history, TypeOK, OneRouteEach, FlownRoutes, ChangeMarked,
     LoanFlagged, RecoveryLoanOnce

LEMMA Initially == Init => IInv
<1> SUFFICES ASSUME Init PROVE IInv
  OBVIOUS
<1>1. TypeOK
  <2>1. since \in [Kinds -> Nat] /\ \A k \in Kinds : since[k] <= Every[k]
    BY AirlineAssumption DEF Init
  <2>2. quiet \in 0 .. Every["change"] /\ recoveries \in 0 .. MaxFaults + 2
    BY Constants DEF Init
  <2>3. lost \in [Losses -> 0 .. faults] /\ lost["reset"] = 0
    BY DEF Init, Losses
  <2>4. /\ lossDays \in 0 .. LossDays - 1 + lost["reset"]
        /\ loans \in 0 .. MaxLoans /\ faults \in 0 .. MaxFaults
    BY <2>3, Constants DEF Init
  <2>5. route \in [Airports -> Aircraft \cup {Nothing, Closed, Unflown}]
    BY DEF Init
  <2> QED
    BY <2>1, <2>2, <2>3, <2>4, <2>5 DEF Init, TypeOK
<1>2. OneRouteEach
  BY AirlineAssumption DEF Init, OneRouteEach, FlownRoutes
<1>3. ChangeMarked
  BY Constants DEF Init, ChangeMarked, Losses
<1>4. LoanFlagged /\ RecoveryLoanOnce
  BY DEF Init, LoanFlagged, RecoveryLoanOnce, Losses
<1> QED
  BY <1>1, <1>2, <1>3, <1>4 DEF IInv
----------------------------------------------------------------------------
(* One lemma per handler *)

LEMMA BeginTurnKeeps == IInv /\ BeginTurn => IInv'
<1> SUFFICES ASSUME IInv, BeginTurn PROVE IInv'
  OBVIOUS
<1>1. faults' \in 0 .. MaxFaults /\ lost' \in [Losses -> 0 .. faults']
  <2>1. Fault \/ NoFault
    BY DEF BeginTurn, Outcome
  <2> QED
    BY <2>1, Budget, LostStays DEF IInv, BeginTurn
<1>2. since' \in [Kinds -> Nat] /\ \A k \in Kinds : since'[k] <= Every[k]
  <2>1. \A k \in Kinds : since[k] \in Nat /\ Every[k] \in Nat
    BY Constants DEF IInv, TypeOK
  <2> QED
    BY <2>1, Constants DEF BeginTurn, LesserOf
<1>3. quiet' \in 0 .. Every["change"]
  BY Constants DEF IInv, TypeOK, BeginTurn, LesserOf
<1>4. cash' \in Nat /\ seen' \in Nat
  BY AirlineAssumption DEF BeginTurn
<1>5. stage' \in {"stable", "cautious", "defensive", "desperate"} /\ losing' \in BOOLEAN
  BY StageTyped DEF BeginTurn
<1>6. worn' \subseteq fleet' /\ fleet' \subseteq Aircraft
  BY DEF IInv, TypeOK, BeginTurn
<1>7. loans' \in 0 .. MaxLoans
  BY Constants DEF IInv, TypeOK, BeginTurn
<1>8. TypeOK'
  <2>1. lossDays' \in 0 .. LossDays - 1 + lost'["reset"]
    BY LossDaysStay DEF IInv, BeginTurn
  <2> QED
    BY <2>1, <1>1, <1>2, <1>3, <1>4, <1>5, <1>6, <1>7 DEF IInv, TypeOK, BeginTurn
<1>9. ChangeMarked'
  <2>1. "change" \in Kinds /\ since["change"] \in Nat /\ quiet \in Nat
    BY DEF IInv, TypeOK, Kinds
  <2>2. since'["change"] = LesserOf(since["change"] + TickHours, Every["change"])
    BY <2>1 DEF BeginTurn
  <2> QED
    BY <2>1, <2>2, Constants DEF IInv, ChangeMarked, BeginTurn, LesserOf
<1>10. OneRouteEach'
  BY RoutesStay DEF IInv, BeginTurn
<1>11. LoanFlagged' /\ RecoveryLoanOnce'
  BY LoansStay DEF IInv, BeginTurn
<1> QED
  BY <1>8, <1>9, <1>10, <1>11 DEF IInv

LEMMA RepairKeeps == IInv /\ Repair => IInv'
<1> SUFFICES ASSUME IInv, Repair PROVE IInv'
  OBVIOUS
<1>1. CASE Skip("audit") \/ SkipFailing("audit")
  BY <1>1, SkipKeeps
<1>2. CASE ~ (Skip("audit") \/ SkipFailing("audit"))
  <2>1. PICK ok \in BOOLEAN : Outcome(ok) /\ Marked({"repair"}, ok)
    BY <1>2 DEF Repair
  <2>2. GoOn("audit") /\ UNCHANGED <<lossDays, recoveryTaken, fleet, route, loans, history>>
    BY <1>2 DEF Repair
  <2>3. cash' \in Nat /\ worn' \subseteq fleet
    <3>1. CASE UNCHANGED <<cash, worn>>
      BY <3>1 DEF IInv, TypeOK
    <3>2. CASE cash >= RepairCost /\ cash' = cash - RepairCost /\ worn' \subseteq worn
      BY <3>2, Constants DEF IInv, TypeOK
    <3> QED
      BY <1>2, <3>1, <3>2 DEF Repair
  <2>4. faults' \in 0 .. MaxFaults /\ lost' \in [Losses -> 0 .. faults']
    BY <2>1, <2>2, OutcomeIsFault, Budget, LostStays DEF IInv, history
  <2>5. /\ since' \in [Kinds -> Nat]
        /\ \A k \in Kinds : since'[k] <= Every[k] /\ since'[k] <= since[k]
    BY <2>1, MarkedTyped DEF IInv
  <2>6. TypeOK'
    <3>1. lossDays' \in 0 .. LossDays - 1 + lost'["reset"]
      BY <2>2, LossDaysStay DEF IInv, history
    <3> QED
      BY <2>2, <2>3, <2>4, <2>5, <3>1 DEF IInv, TypeOK, GoOn, history
  <2>7. ChangeMarked'
    BY <2>2, <2>5, ChangeStays DEF IInv, GoOn, history, Kinds
  <2>8. OneRouteEach'
    BY <2>2, RoutesStay DEF IInv
  <2>9. LoanFlagged' /\ RecoveryLoanOnce'
    BY <2>2, LoansStay DEF IInv, GoOn, history
  <2> QED
    BY <2>6, <2>7, <2>8, <2>9 DEF IInv
<1> QED
  BY <1>1, <1>2

\* A closed route leaves the others as they are.
LEMMA CloseTyped ==
  ASSUME IInv, NEW d \in Airports, NEW ok, Close(d, ok), UNCHANGED fleet
  PROVE  /\ route' \in [Airports -> Aircraft \cup {Nothing, Closed, Unflown}]
         /\ OneRouteEach'
<1>1. Closed \notin Aircraft
  BY AirlineAssumption
<1>2. CASE UNCHANGED route
  BY <1>2, RoutesStay DEF IInv, TypeOK
<1>3. CASE route' = [route EXCEPT ![d] = Closed]
  <2>1. route' \in [Airports -> Aircraft \cup {Nothing, Closed, Unflown}]
    BY <1>3 DEF IInv, TypeOK
  <2>2. FlownRoutes' \subseteq FlownRoutes /\ \A x \in FlownRoutes' : route'[x] = route[x]
    BY <1>1, <1>3 DEF IInv, TypeOK, FlownRoutes
  <2>3. OneRouteEach'
    BY <2>2 DEF IInv, OneRouteEach
  <2> QED
    BY <2>1, <2>3
<1> QED
  BY <1>2, <1>3 DEF Close
\* An audit at the threshold counts as a lost reset, or starts the count again.
LEMMA LossDaysTyped ==
  ASSUME IInv, NEW perf, NEW earning \in SUBSET perf, NEW counted,
         counted = lossDays \/ counted = CountedDays(perf, earning)
  PROVE  /\ counted \in 0 .. LossDays + lost["reset"]
         /\ ~ (BadEnough(counted) /\ earning # perf) =>
              counted \in 0 .. LossDays - 1 + lost["reset"]
<1>1. lossDays \in 0 .. LossDays - 1 + lost["reset"] /\ lost["reset"] \in Nat
  BY DEF IInv, TypeOK, Losses
<1>2. counted \in {0, lossDays, lossDays + 1}
  BY DEF CountedDays
<1>3. counted \in 0 .. LossDays + lost["reset"]
  BY <1>1, <1>2, Constants
<1>4. ASSUME ~ (BadEnough(counted) /\ earning # perf)
      PROVE  counted \in 0 .. LossDays - 1 + lost["reset"]
  <2>1. CASE ~ BadEnough(counted)
    BY <1>1, <1>3, <2>1, Constants DEF BadEnough
  <2>2. CASE earning = perf
    <3>1. counted \in {0, lossDays}
      BY <2>2 DEF CountedDays
    <3> QED
      BY <1>1, <3>1, Constants
  <2> QED
    BY <1>4, <2>1, <2>2
<1> QED
  BY <1>3, <1>4

LEMMA AuditKeeps == IInv /\ Audit => IInv'
<1> SUFFICES ASSUME IInv, Audit PROVE IInv'
  OBVIOUS
<1>1. CASE Skip("growth") \/ SkipFailing("growth") \/ Skip("trim") \/ SkipFailing("trim")
  BY <1>1, SkipKeeps
<1>2. CASE ~ (Skip("growth") \/ SkipFailing("growth") \/ Skip("trim") \/ SkipFailing("trim"))
  <2>1. PICK perf \in SUBSET FlownRoutes : \E earning \in SUBSET perf :
          \E cut \in SUBSET (perf \ earning) :
          \E failed \in Failing(Statements(perf \ earning, cut)) :
            /\ Outcome(failed = {} /\ perf = FlownRoutes)
            /\ AuditRoutes(perf, earning, cut, failed)
    BY <1>2 DEF Audit
  <2>2. PICK earning, cut, failed :
          /\ earning \in SUBSET perf
          /\ Outcome(failed = {} /\ perf = FlownRoutes)
          /\ AuditRoutes(perf, earning, cut, failed)
    BY <2>1
  <2>3. GoOn("trim") /\ UNCHANGED <<cash, recoveryTaken, fleet, worn, loans, recoveries>>
    BY <1>2 DEF Audit
  <2> DEFINE counted == IF "count" \in failed THEN lossDays ELSE CountedDays(perf, earning)
             due     == BadEnough(counted) /\ earning # perf
             closing == due /\ "read" \notin failed
             reset   == closing /\ "reset" \notin failed
             changed == \/ cut # {} /\ "cut" \notin failed
                        \/ closing /\ "close" \notin failed
             marked  == (cut # {} /\ "cut mark" \notin failed) \/ reset
             kinds   == {k \in {"audit", "change"} :
                           IF k = "audit" THEN "audit mark" \notin failed ELSE marked}
  <2>4. /\ IF closing THEN \E worst \in perf \ earning : Close(worst, "close" \notin failed)
           ELSE UNCHANGED route
        /\ lossDays' = IF reset THEN 0 ELSE counted
        /\ Marked(kinds, TRUE)
        /\ quiet' = IF changed THEN 0 ELSE quiet
        /\ lost' = [lost EXCEPT !["change"] = IF changed /\ ~ marked THEN @ + 1 ELSE @,
                               !["reset"] = IF due /\ ~ reset THEN @ + 1 ELSE @]
    BY <2>2 DEF AuditRoutes
  <2>5. (changed /\ ~ marked) \/ (due /\ ~ reset) => failed # {}
    OBVIOUS
  <2>6. marked => "change" \in kinds
    OBVIOUS
  <2>7. /\ counted \in 0 .. LossDays + lost["reset"]
        /\ ~ due => counted \in 0 .. LossDays - 1 + lost["reset"]
    <3>1. counted = lossDays \/ counted = CountedDays(perf, earning)
      OBVIOUS
    <3> HIDE DEF counted
    <3> QED
      BY <2>2, <3>1, LossDaysTyped
  <2>8. reset => due
    OBVIOUS
  <2> HIDE DEF counted, due, reset, changed, marked, kinds
  <2>9. faults' \in 0 .. MaxFaults /\ faults' >= faults /\ (failed # {} => faults' = faults + 1)
    BY <2>2, Budget DEF IInv, Outcome, Fault
  <2>10. lost \in [Losses -> 0 .. faults] /\ faults \in Nat /\ faults' \in Nat
    BY <2>9, Constants DEF IInv, TypeOK
  <2>11. /\ lost'["recovery"] = lost["recovery"]
         /\ lost'["change"] = IF changed /\ ~ marked THEN lost["change"] + 1 ELSE lost["change"]
         /\ lost'["reset"] = IF due /\ ~ reset THEN lost["reset"] + 1 ELSE lost["reset"]
    BY <2>4, <2>10 DEF Losses
  <2>12. lost' \in [Losses -> 0 .. faults']
    <3>1. \A k \in Losses : lost[k] \in 0 .. faults
      BY <2>10
    <3>2. \A k \in Losses : lost'[k] \in 0 .. faults'
      BY <2>5, <2>9, <2>10, <2>11, <3>1 DEF Losses
    <3>3. lost' = [k \in Losses |-> lost'[k]]
      BY <2>4, <2>10
    <3> QED
      BY <3>2, <3>3
  <2>13. lossDays' \in 0 .. LossDays - 1 + lost'["reset"]
    <3>1. lost["reset"] \in Nat /\ lost'["reset"] \in Nat
      BY <2>10, <2>12 DEF Losses
    <3> QED
      BY <2>4, <2>7, <2>8, <2>11, <3>1, Constants
  <2>14. /\ route' \in [Airports -> Aircraft \cup {Nothing, Closed, Unflown}]
         /\ OneRouteEach'
    <3>1. CASE closing
      <4>1. PICK worst \in perf \ earning : Close(worst, "close" \notin failed)
        BY <2>4, <3>1
      <4>2. worst \in Airports
        BY DEF FlownRoutes
      <4> QED
        BY <2>3, <4>1, <4>2, CloseTyped
    <3>2. CASE ~ closing
      <4>1. UNCHANGED route
        BY <2>4, <3>2
      <4> QED
        BY <2>3, <4>1, RoutesStay DEF IInv, TypeOK
    <3> QED
      BY <3>1, <3>2
  <2>15. /\ since' \in [Kinds -> Nat]
         /\ \A k \in Kinds : since'[k] <= Every[k] /\ since'[k] <= since[k]
         /\ profile /\ marked => since'["change"] = 0
    BY <2>4, <2>6, MarkedTyped DEF IInv, Kinds
  <2>16. quiet' \in 0 .. Every["change"]
    BY <2>4, Constants DEF IInv, TypeOK
  <2>17. TypeOK'
    BY <2>3, <2>9, <2>12, <2>13, <2>14, <2>15, <2>16 DEF IInv, TypeOK, GoOn
  <2>18. ChangeMarked'
    <3>1. lost["change"] \in Nat
      BY <2>10 DEF Losses
    <3>2. CASE marked
      <4>1. quiet' \in Nat
        BY <2>16, Constants
      <4> QED
        BY <2>3, <2>15, <3>2, <4>1 DEF ChangeMarked, GoOn
    <3>3. CASE changed /\ ~ marked
      BY <2>11, <3>1, <3>3 DEF ChangeMarked
    <3>4. CASE ~ changed
      BY <2>3, <2>4, <2>11, <2>15, <3>4, ChangeStays DEF IInv, GoOn, Kinds
    <3> QED
      BY <3>2, <3>3, <3>4
  <2>19. LoanFlagged' /\ RecoveryLoanOnce'
    BY <2>3, <2>11, LoansStay DEF IInv, GoOn
  <2> QED
    BY <2>14, <2>17, <2>18, <2>19 DEF IInv
<1> QED
  BY <1>1, <1>2

LEMMA TrimKeeps == IInv /\ Trim => IInv'
<1> SUFFICES ASSUME IInv, Trim PROVE IInv'
  OBVIOUS
<1>1. CASE Skip("growth")
  BY <1>1, SkipKeeps
<1>2. CASE ~ Skip("growth")
  <2>1. PICK worst \in FlownRoutes, done \in BOOLEAN, ok \in BOOLEAN :
          /\ Outcome(done /\ ok)
          /\ \/ stage = "desperate" /\ Close(worst, done) /\ Trimmed(ok, done)
             \/ UNCHANGED route /\ \E cut \in BOOLEAN : Trimmed(ok, done /\ cut)
    BY <1>2 DEF Trim
  <2>2. /\ GoOn("growth")
        /\ UNCHANGED <<cash, lossDays, recoveryTaken, fleet, worn, loans, recoveries>>
    BY <1>2 DEF Trim
  <2>3. PICK changed \in BOOLEAN : Trimmed(ok, changed)
    BY <2>1
  <2>4. route' \in [Airports -> Aircraft \cup {Nothing, Closed, Unflown}] /\ OneRouteEach'
    <3>1. worst \in Airports
      BY DEF FlownRoutes
    <3>2. CASE Close(worst, done)
      BY <2>2, <3>1, <3>2, CloseTyped
    <3>3. CASE UNCHANGED route
      BY <2>2, <3>3, RoutesStay DEF IInv, TypeOK
    <3> QED
      BY <2>1, <3>2, <3>3
  <2>5. faults' \in 0 .. MaxFaults
    BY <2>1, Budget DEF IInv, Outcome
  <2>6. /\ lost' \in [Losses -> 0 .. faults']
        /\ lost'["recovery"] = lost["recovery"] /\ lost'["reset"] = lost["reset"]
        /\ lost'["change"] = IF ok \/ ~ changed THEN lost["change"] ELSE lost["change"] + 1
    <3>1. (ok \/ ~ changed) \in BOOLEAN /\ (Fault \/ (NoFault /\ (ok \/ ~ changed)))
      BY <2>1 DEF Outcome
    <3>2. lost' = Forget("change", ok \/ ~ changed)
      BY <2>3 DEF Trimmed
    <3> QED
      BY <3>1, <3>2, ForgetTyped DEF IInv, Losses
  <2>7. /\ since' \in [Kinds -> Nat]
        /\ \A k \in Kinds : since'[k] <= Every[k] /\ since'[k] <= since[k]
        /\ profile /\ ok => since'["change"] = 0
    BY <2>3, MarkedTyped DEF IInv, Trimmed, Kinds
  <2>8. quiet' \in 0 .. Every["change"]
    BY <2>3, Constants DEF IInv, TypeOK, Trimmed
  <2>9. TypeOK'
    <3>1. lossDays' \in 0 .. LossDays - 1 + lost'["reset"]
      BY <2>2, <2>6, LossDaysStay DEF IInv
    <3> QED
      BY <2>2, <2>4, <2>5, <2>6, <2>7, <2>8, <3>1 DEF IInv, TypeOK, GoOn
  <2>10. ChangeMarked'
    <3>1. lost["change"] \in Nat
      BY DEF IInv, TypeOK, Losses
    <3>2. CASE ok
      BY <2>2, <2>7, <2>8, <3>2, Constants DEF ChangeMarked, GoOn
    <3>3. CASE changed /\ ~ ok
      BY <2>6, <3>1, <3>3 DEF ChangeMarked
    <3>4. CASE ~ changed
      <4>1. UNCHANGED quiet
        BY <2>3, <3>4 DEF Trimmed
      <4> QED
        BY <2>2, <2>6, <2>7, <3>4, <4>1, ChangeStays DEF IInv, GoOn, Kinds
    <3> QED
      BY <3>2, <3>3, <3>4
  <2>11. LoanFlagged' /\ RecoveryLoanOnce'
    BY <2>2, <2>6, LoansStay DEF IInv, GoOn
  <2> QED
    BY <2>4, <2>9, <2>10, <2>11 DEF IInv
<1> QED
  BY <1>1, <1>2

LEMMA GrowKeeps == IInv /\ Grow => IInv'
<1> SUFFICES ASSUME IInv, Grow PROVE IInv'
  OBVIOUS
<1>1. CASE Skip("creation")
  BY <1>1, SkipKeeps
<1>2. CASE ~ Skip("creation")
  <2>1. PICK failed, ok : /\ ok \in BOOLEAN
                          /\ Outcome(failed = {} /\ ok) /\ Marked({"growth"}, ok)
    BY <1>2 DEF Grow
  <2>2. GoOn("creation") /\ UNCHANGED <<lossDays, recoveryTaken, worn, route, loans, history>>
    BY <1>2 DEF Grow
  <2>3. cash' \in Nat /\ fleet \subseteq fleet' /\ fleet' \subseteq Aircraft
    <3>1. CASE UNCHANGED <<cash, fleet>>
      BY <3>1 DEF IInv, TypeOK
    <3>2. CASE \E a \in Aircraft \ fleet : Acquire(a)
      BY <3>2, Constants DEF IInv, TypeOK, Acquire
    <3> QED
      BY <1>2, <3>1, <3>2 DEF Grow
  <2>4. faults' \in 0 .. MaxFaults /\ lost' \in [Losses -> 0 .. faults']
    <3>1. Fault \/ NoFault
      BY <2>1 DEF Outcome
    <3> QED
      BY <2>2, <3>1, Budget, LostStays DEF IInv, history
  <2>5. /\ since' \in [Kinds -> Nat]
        /\ \A k \in Kinds : since'[k] <= Every[k] /\ since'[k] <= since[k]
    BY <2>1, MarkedTyped DEF IInv
  <2>6. worn' \subseteq fleet'
    BY <2>2, <2>3 DEF IInv, TypeOK
  <2>7. TypeOK'
    <3>1. lossDays' \in 0 .. LossDays - 1 + lost'["reset"]
      BY <2>2, LossDaysStay DEF IInv, history
    <3> QED
      BY <2>2, <2>3, <2>4, <2>5, <2>6, <3>1 DEF IInv, TypeOK, GoOn, history
  <2>8. ChangeMarked'
    BY <2>2, <2>5, ChangeStays DEF IInv, GoOn, history, Kinds
  <2>9. OneRouteEach'
    BY <2>2, <2>3, RoutesStay DEF IInv
  <2>10. LoanFlagged' /\ RecoveryLoanOnce'
    BY <2>2, LoansStay DEF IInv, GoOn, history
  <2> QED
    BY <2>7, <2>8, <2>9, <2>10 DEF IInv
<1> QED
  BY <1>1, <1>2
\* A new route takes an aircraft of the fleet that no other has, or none.
LEMMA OpenedTyped ==
  ASSUME IInv, NEW d \in Airports, NEW a \in Ready, UNCHANGED fleet,
         \/ route' = [route EXCEPT ![d] = a]
         \/ route' = [route EXCEPT ![d] = Unflown]
         \/ UNCHANGED route
  PROVE  /\ route' \in [Airports -> Aircraft \cup {Nothing, Closed, Unflown}]
         /\ OneRouteEach'
<1>1. a \in fleet /\ a \in Aircraft /\ \A x \in Airports : route[x] # a
  BY DEF Ready, Idle, IInv, TypeOK
<1>2. CASE UNCHANGED route
  BY <1>2, RoutesStay DEF IInv, TypeOK
<1>3. CASE route' = [route EXCEPT ![d] = Unflown]
  <2>1. Unflown \notin Aircraft
    BY AirlineAssumption
  <2>2. FlownRoutes' \subseteq FlownRoutes /\ \A x \in FlownRoutes' : route'[x] = route[x]
    BY <1>3, <2>1 DEF IInv, TypeOK, FlownRoutes
  <2> QED
    BY <1>3, <2>2 DEF IInv, TypeOK, OneRouteEach
<1>4. CASE route' = [route EXCEPT ![d] = a]
  <2>1. route' \in [Airports -> Aircraft \cup {Nothing, Closed, Unflown}]
    BY <1>1, <1>4 DEF IInv, TypeOK
  <2>2. route'[d] = a /\ \A x \in Airports \ {d} : route'[x] = route[x]
    BY <1>4 DEF IInv, TypeOK
  <2>3. \A x \in FlownRoutes' \ {d} : x \in FlownRoutes
    BY <2>2 DEF FlownRoutes
  <2>4. \A x \in FlownRoutes' : route'[x] \in fleet'
    BY <1>1, <2>2, <2>3 DEF IInv, OneRouteEach, FlownRoutes
  <2>5. ASSUME NEW x \in FlownRoutes', NEW y \in FlownRoutes', route'[x] = route'[y]
        PROVE  x = y
    <3>1. x \in Airports /\ y \in Airports
      BY DEF FlownRoutes
    <3>2. CASE x = d \/ y = d
      BY <1>1, <2>2, <2>5, <3>1, <3>2
    <3>3. CASE x # d /\ y # d
      BY <2>2, <2>3, <2>5, <3>1, <3>3 DEF IInv, OneRouteEach
    <3> QED
      BY <3>2, <3>3
  <2> QED
    BY <2>1, <2>4, <2>5 DEF OneRouteEach
<1> QED
  BY <1>2, <1>3, <1>4

LEMMA CreateKeeps == IInv /\ Create => IInv'
<1> SUFFICES ASSUME IInv, Create PROVE IInv'
  OBVIOUS
<1>1. CASE Skip("repay")
  BY <1>1, SkipKeeps
<1>2. CASE ~ Skip("repay")
  <2>1. PICK a \in Ready, d \in {x \in Airports : route[x] = Nothing} :
          \/ Open(d, a) /\ Marked({"change"}, TRUE) /\ UNCHANGED lost
          \/ /\ Fault
             /\ route' = [route EXCEPT ![d] = a] /\ quiet' = 0
             /\ Marked({"change"}, FALSE) /\ lost' = Forget("change", FALSE)
    BY <1>2 DEF Create
  <2>2. /\ GoOn("repay")
        /\ UNCHANGED <<cash, lossDays, recoveryTaken, fleet, worn, loans, recoveries>>
    BY <1>2 DEF Create
  <2>3. route' \in [Airports -> Aircraft \cup {Nothing, Closed, Unflown}] /\ OneRouteEach'
    BY <2>1, <2>2, OpenedTyped DEF Open
  <2>4. PICK ok \in BOOLEAN :
          /\ Marked({"change"}, ok) /\ lost' = Forget("change", ok)
          /\ Fault \/ (NoFault /\ ok)
    <3>1. CASE Open(d, a) /\ Marked({"change"}, TRUE) /\ UNCHANGED lost
      BY <3>1 DEF Open, Forget
    <3>2. CASE Fault /\ Marked({"change"}, FALSE) /\ lost' = Forget("change", FALSE)
      BY <3>2
    <3> QED
      BY <2>1, <3>1, <3>2
  <2>5. faults' \in 0 .. MaxFaults
    BY <2>4, Budget DEF IInv
  <2>6. /\ lost' \in [Losses -> 0 .. faults']
        /\ lost'["recovery"] = lost["recovery"] /\ lost'["reset"] = lost["reset"]
        /\ lost'["change"] = IF ok THEN lost["change"] ELSE lost["change"] + 1
    BY <2>4, ForgetTyped DEF IInv, Losses
  <2>7. /\ since' \in [Kinds -> Nat]
        /\ \A k \in Kinds : since'[k] <= Every[k] /\ since'[k] <= since[k]
        /\ profile /\ ok => since'["change"] = 0
    BY <2>4, MarkedTyped DEF IInv, Kinds
  <2>8. quiet' \in 0 .. Every["change"]
    <3>1. quiet' = 0 \/ quiet' = quiet
      BY <2>1 DEF Open
    <3> QED
      BY <3>1, Constants DEF IInv, TypeOK
  <2>9. TypeOK'
    <3>1. lossDays' \in 0 .. LossDays - 1 + lost'["reset"]
      BY <2>2, <2>6, LossDaysStay DEF IInv
    <3> QED
      BY <2>2, <2>3, <2>5, <2>6, <2>7, <2>8, <3>1 DEF IInv, TypeOK, GoOn
  <2>10. ChangeMarked'
    <3>1. lost["change"] \in Nat
      BY DEF IInv, TypeOK, Losses
    <3> QED
      BY <2>2, <2>6, <2>7, <2>8, <3>1, Constants DEF ChangeMarked, GoOn
  <2>11. LoanFlagged' /\ RecoveryLoanOnce'
    BY <2>2, <2>6, LoansStay DEF IInv, GoOn
  <2> QED
    BY <2>3, <2>9, <2>10, <2>11 DEF IInv
<1> QED
  BY <1>1, <1>2

LEMMA RepayKeeps == IInv /\ Repay => IInv'
<1> SUFFICES ASSUME IInv, Repay PROVE IInv'
  OBVIOUS
<1>1. CASE Skip("borrow") \/ SkipFailing("borrow")
  BY <1>1, SkipKeeps
<1>2. CASE ~ (Skip("borrow") \/ SkipFailing("borrow"))
  <2> DEFINE repay(share) == LesserOf(share, (10 * seen - ReserveTenths) \div 10)
  <2>1. PICK share \in Balances, ok \in BOOLEAN :
          /\ Outcome(ok)
          /\ cash' = IF cash >= repay(share) THEN cash - repay(share) ELSE cash
          /\ Marked({"financial"}, ok)
    BY <1>2 DEF Repay
  <2>2. GoOn("borrow") /\ UNCHANGED <<lossDays, recoveryTaken, airline, loans, history>>
    BY <1>2 DEF Repay
  <2>3. cash' \in Nat
    <3>1. share \in Nat /\ seen \in Nat /\ cash \in Nat
      BY AirlineAssumption DEF IInv, TypeOK
    <3>2. repay(share) \in Int
      BY <3>1, ReserveTyped DEF LesserOf
    <3> HIDE DEF repay
    <3> QED
      BY <2>1, <3>1, <3>2
  <2>4. faults' \in 0 .. MaxFaults /\ lost' \in [Losses -> 0 .. faults']
    BY <2>1, <2>2, OutcomeIsFault, Budget, LostStays DEF IInv, history
  <2>5. /\ since' \in [Kinds -> Nat]
        /\ \A k \in Kinds : since'[k] <= Every[k] /\ since'[k] <= since[k]
    BY <2>1, MarkedTyped DEF IInv
  <2>6. TypeOK'
    <3>1. lossDays' \in 0 .. LossDays - 1 + lost'["reset"]
      BY <2>2, LossDaysStay DEF IInv, history
    <3> QED
      BY <2>2, <2>3, <2>4, <2>5, <3>1 DEF IInv, TypeOK, GoOn, history, airline
  <2>7. ChangeMarked'
    BY <2>2, <2>5, ChangeStays DEF IInv, GoOn, history, Kinds
  <2>8. OneRouteEach'
    BY <2>2, RoutesStay DEF IInv, airline
  <2>9. LoanFlagged' /\ RecoveryLoanOnce'
    BY <2>2, LoansStay DEF IInv, GoOn, history
  <2> QED
    BY <2>6, <2>7, <2>8, <2>9 DEF IInv
<1> QED
  BY <1>1, <1>2

LEMMA CrashKeeps == IInv /\ Crash => IInv'
<1> SUFFICES ASSUME IInv, Crash PROVE IInv'
  OBVIOUS
<1>1. UNCHANGED <<profile, marks, airline, loans, history>> /\ Fault /\ EndTurn
  BY DEF Crash
<1>2. faults' \in 0 .. MaxFaults /\ lost' \in [Losses -> 0 .. faults']
  BY <1>1, Budget, LostStays DEF IInv, history
<1>3. TypeOK'
  <2>1. lossDays' \in 0 .. LossDays - 1 + lost'["reset"]
    BY <1>1, LossDaysStay DEF IInv, marks, history
  <2> QED
    BY <1>1, <1>2, <2>1 DEF IInv, TypeOK, EndTurn, marks, airline, history
<1>4. OneRouteEach'
  BY <1>1, RoutesStay DEF IInv, airline
<1>5. ChangeMarked' /\ LoanFlagged' /\ RecoveryLoanOnce'
  BY <1>1 DEF IInv, ChangeMarked, LoanFlagged, RecoveryLoanOnce, marks, history
<1> QED
  BY <1>3, <1>4, <1>5 DEF IInv
\* What a loan that is granted adds, and what becomes of the flag.
LEMMA BorrowKeeps == IInv /\ Borrow => IInv'
<1> SUFFICES ASSUME IInv, Borrow PROVE IInv'
  OBVIOUS
<1>1. EndTurn /\ UNCHANGED <<profile, since, lossDays, airline, quiet>>
  BY DEF Borrow
<1>2. PICK counted \in BOOLEAN, read \in BOOLEAN, ok \in BOOLEAN :
        LET activeLoans == IF counted THEN loans ELSE 0
            taken == read /\ profile /\ recoveryTaken
            recovery == activeLoans = 0 /\ RecoveryWanted(taken)
            asked == activeLoans = 0 /\ (recovery \/ OrdinaryWanted)
            stable == stage = "stable"
        IN  /\ Outcome(counted /\ read /\ ok)
            /\ \E granted \in BOOLEAN :
                 /\ granted => asked /\ loans < MaxLoans
                 /\ loans' = IF granted THEN loans + 1 ELSE loans
                 /\ recoveries' = IF stable THEN 0
                                  ELSE IF granted /\ recovery
                                    THEN LesserOf(recoveries + 1, MaxFaults + 2)
                                  ELSE recoveries
            /\ recoveryTaken' = IF profile /\ ok /\ (stable \/ recovery) THEN recovery
                                ELSE recoveryTaken
            /\ lost' = Forget("recovery", (read /\ ok) \/ ~ recovery)
  BY DEF Borrow
<1> DEFINE taken == read /\ profile /\ recoveryTaken
           recovery == (IF counted THEN loans ELSE 0) = 0 /\ RecoveryWanted(taken)
           stable == stage = "stable"
<1>3. PICK granted \in BOOLEAN :
        /\ granted => loans < MaxLoans
        /\ loans' = IF granted THEN loans + 1 ELSE loans
        /\ recoveries' = IF stable THEN 0
                         ELSE IF granted /\ recovery THEN LesserOf(recoveries + 1, MaxFaults + 2)
                         ELSE recoveries
  BY <1>2
<1>4. /\ Outcome(counted /\ read /\ ok)
      /\ recoveryTaken' = IF profile /\ ok /\ (stable \/ recovery) THEN recovery ELSE recoveryTaken
      /\ lost' = Forget("recovery", (read /\ ok) \/ ~ recovery)
  BY <1>2
<1>5. recovery \in BOOLEAN /\ stable \in BOOLEAN
  OBVIOUS
<1>6. recovery => ~ taken /\ ~ stable
  BY DEF RecoveryWanted
<1> HIDE DEF recovery, stable
<1>7. faults' \in 0 .. MaxFaults
  BY <1>4, Budget DEF IInv, Outcome
<1>8. /\ lost' \in [Losses -> 0 .. faults']
      /\ lost'["change"] = lost["change"] /\ lost'["reset"] = lost["reset"]
      /\ lost'["recovery"] = IF (read /\ ok) \/ ~ recovery THEN lost["recovery"]
                                                            ELSE lost["recovery"] + 1
  <2>1. ((read /\ ok) \/ ~ recovery) \in BOOLEAN
    OBVIOUS
  <2>2. Fault \/ (NoFault /\ ((read /\ ok) \/ ~ recovery))
    BY <1>4 DEF Outcome
  <2> QED
    BY <1>4, <2>1, <2>2, ForgetTyped DEF IInv, Losses
<1>9. recoveries \in Nat /\ lost["recovery"] \in Nat /\ lost'["recovery"] \in Nat
  BY <1>8, Constants DEF IInv, TypeOK, Losses
<1>10. recoveries' \in 0 .. MaxFaults + 2 /\ loans' \in 0 .. MaxLoans
  BY <1>3, Constants DEF IInv, TypeOK, LesserOf
<1>11. recoveryTaken' \in BOOLEAN
  BY <1>4, <1>5 DEF IInv, TypeOK
<1>12. TypeOK'
  <2>1. lossDays' \in 0 .. LossDays - 1 + lost'["reset"]
    BY <1>1, <1>8, LossDaysStay DEF IInv
  <2> QED
    BY <1>1, <1>7, <1>8, <1>10, <1>11, <2>1 DEF IInv, TypeOK, EndTurn, airline
<1>13. OneRouteEach'
  BY <1>1, RoutesStay DEF IInv, airline
<1>14. ChangeMarked'
  BY <1>1, <1>8 DEF IInv, ChangeMarked
<1>15. LoanFlagged' /\ RecoveryLoanOnce'
  <2>1. recoveries' <= recoveries + 1 /\ (~ recovery => recoveries' = 0 \/ recoveries' = recoveries)
    BY <1>3, <1>9, Constants DEF LesserOf
  <2>2. CASE ~ profile
    BY <1>1, <2>2 DEF LoanFlagged, RecoveryLoanOnce
  <2>3. CASE profile /\ ~ recovery
    <3>1. CASE stable
      BY <1>1, <1>3, <1>8, <1>9, <3>1 DEF LoanFlagged, RecoveryLoanOnce
    <3>2. CASE ~ stable
      BY <1>1, <1>3, <1>4, <1>8, <2>3, <3>2 DEF IInv, LoanFlagged, RecoveryLoanOnce
    <3> QED
      BY <3>1, <3>2
  <2>4. CASE profile /\ recovery
    <3>1. CASE read
      <4>1. ~ recoveryTaken /\ recoveries <= lost["recovery"]
        BY <1>6, <2>4, <3>1 DEF IInv, LoanFlagged
      <4> QED
        BY <1>1, <1>4, <1>8, <1>9, <1>10, <2>1, <2>4, <3>1, <4>1 DEF LoanFlagged, RecoveryLoanOnce
    <3>2. CASE ~ read
      <4>1. /\ recoveries <= 1 + lost["recovery"]
            /\ ~ recoveryTaken => recoveries <= lost["recovery"]
        BY <2>4 DEF IInv, LoanFlagged, RecoveryLoanOnce
      <4>2. lost'["recovery"] = lost["recovery"] + 1 /\ recoveries' \in Nat
        BY <1>8, <1>10, <2>4, <3>2, Constants
      <4> QED
        BY <1>1, <1>4, <1>9, <2>1, <2>4, <4>1, <4>2 DEF LoanFlagged, RecoveryLoanOnce
    <3> QED
      BY <3>1, <3>2
  <2> QED
    BY <2>2, <2>3, <2>4
<1> QED
  BY <1>12, <1>13, <1>14, <1>15 DEF IInv

----------------------------------------------------------------------------
(* The invariant, and what follows from it *)

LEMMA StepKeeps == IInv /\ [Next]_vars => IInv'
<1> SUFFICES ASSUME IInv, [Next]_vars PROVE IInv'
  OBVIOUS
<1>1. CASE Next
  BY <1>1, BeginTurnKeeps, RepairKeeps, AuditKeeps, TrimKeeps, GrowKeeps, CreateKeeps,
     RepayKeeps, BorrowKeeps, CrashKeeps DEF Next
<1>2. CASE UNCHANGED vars
  BY <1>2 DEF IInv, TypeOK, OneRouteEach, FlownRoutes, ChangeMarked, LoanFlagged,
     RecoveryLoanOnce, vars, turn, marks, airline, history
<1> QED
  BY <1>1, <1>2

LEMMA Invariant == Spec => []IInv
BY Initially, StepKeeps, PTL DEF Spec

\* Marks, counts, loans and routes stay well typed, and a bot's audits count up to the
\* loss days that close a route, and beyond them only by one for each closing whose
\* reset was lost.
THEOREM TypeCorrect == Spec => []TypeOK
<1>1. IInv => TypeOK
  BY DEF IInv
<1> QED
  BY <1>1, Invariant, PTL

\* The UPDATE of bots.go:566-569, past the checks of Assign, never gives one
\* aircraft two routes, nor a route an aircraft of another fleet.
THEOREM NeverTwoRoutes == Spec => []OneRouteEach
<1>1. IInv => OneRouteEach
  BY DEF IInv
<1> QED
  BY <1>1, Invariant, PTL

\* A bot takes the recovery loan once until it has been stable again, and once
\* more for each time the flag could not be read or written.
THEOREM LendsOnce == Spec => []RecoveryLoanOnce
<1>1. IInv => RecoveryLoanOnce
  BY DEF IInv
<1> QED
  BY <1>1, Invariant, PTL

\* A route is opened only after the cooldown of route changes, whatever audits,
\* trims, crashes and turns came between.
THEOREM NeverChurns == Spec => NoChurn
<1> DEFINE Calm == \A d \in Airports : route[d] = Nothing /\ route'[d] # Nothing =>
                     quiet >= Every["change"] \/ lost["change"] > 0
<1>1. IInv /\ [Next]_vars => [Calm]_vars
  <2> SUFFICES ASSUME IInv, [Next]_vars,
                      NEW d \in Airports, route[d] = Nothing, route'[d] # Nothing
               PROVE  quiet >= Every["change"] \/ lost["change"] > 0
    OBVIOUS
  <2>1. /\ lost["change"] \in Nat /\ quiet \in Nat
        /\ since["change"] \in Nat /\ Every["change"] \in Nat
    BY Constants DEF IInv, TypeOK, Kinds, Losses
  <2>2. CASE Create
    <3>1. profile /\ since["change"] >= Every["change"]
      BY <2>2 DEF Create, Skip, airline, Allowed
    <3> QED
      BY <2>1, <3>1 DEF IInv, ChangeMarked
  <2>3. CASE UNCHANGED route
    BY <2>3
  <2>4. ASSUME NEW x \in FlownRoutes, NEW ok, Close(x, ok) PROVE FALSE
    <3>1. x # d
      BY AirlineAssumption DEF FlownRoutes
    <3> QED
      BY <2>4, <3>1 DEF Close, IInv, TypeOK
  <2>5. CASE Audit
    <3>1. CASE \E p \in {"growth", "trim"} : Skip(p) \/ SkipFailing(p)
      BY <2>3, <3>1 DEF Skip, SkipFailing, airline
    <3>2. CASE ~ \E p \in {"growth", "trim"} : Skip(p) \/ SkipFailing(p)
      <4>1. PICK perf \in SUBSET FlownRoutes : \E earning, cut, failed :
              AuditRoutes(perf, earning, cut, failed)
        BY <2>5, <3>2 DEF Audit
      <4>2. PICK earning, cut, failed : AuditRoutes(perf, earning, cut, failed)
        BY <4>1
      <4>3. \/ UNCHANGED route
            \/ \E worst \in perf \ earning : Close(worst, "close" \notin failed)
        BY <4>2 DEF AuditRoutes
      <4> QED
        BY <2>3, <2>4, <4>3
    <3> QED
      BY <3>1, <3>2
  <2>6. CASE Trim
    BY <2>3, <2>4, <2>6 DEF Trim, Skip, airline
  <2>7. CASE BeginTurn \/ Repair \/ Grow \/ Repay \/ Borrow \/ Crash \/ UNCHANGED vars
    BY <2>3, <2>7 DEF BeginTurn, Repair, Grow, Repay, Borrow, Crash, Skip, SkipFailing, airline,
                   vars
  <2> QED
    BY <2>2, <2>5, <2>6, <2>7 DEF Next
<1> QED
  BY <1>1, Invariant, PTL DEF Spec, NoChurn
=============================================================================
