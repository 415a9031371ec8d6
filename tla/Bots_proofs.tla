----------------------------- MODULE Bots_proofs -----------------------------
(***************************************************************************)
(* Proofs about the bots, as a population (BotRoster) and on a city pair    *)
(* (Market), each for itself.                                               *)
(*                                                                          *)
(* The roster, for any wanted number of bots, any number of failed          *)
(* statements, crashes and ruined airlines, with all the tables or without  *)
(* some: it never holds more bots than wanted, but for one per failed count *)
(* and one per INSERT whose answer was lost.  The count and the spawn are   *)
(* two statements; what makes it inductive is that, but for a lost answer,  *)
(* nothing adds a bot in between.                                           *)
(*                                                                          *)
(* The market, for any bots, archetypes, aircraft, costs and distances: a   *)
(* fare is always a mean of fares that are above the floor; demand falls    *)
(* with the fare, and the flights an audit leaves fall with demand.         *)
(***************************************************************************)
EXTENDS BotRoster, Market, FiniteSetTheorems, TLAPS

----------------------------------------------------------------------------
(* The roster *)

\* The count that let a bot in still holds.
RoomKept == phase = "spawn" => Cardinality(Active) < MaxBots + miscounts + unanswered

\* What is simulated or given a profile has a row.
RowsVisited == phase \in {"simulate", "profile"} => \A b \in todo : status[b] # "none"

RosterInv == TypeOK /\ RosterCapped /\ RoomKept /\ RowsVisited

LEMMA ActiveFinite == IsFiniteSet(Active) /\ Cardinality(Active) \in Nat
<1>1. Active \subseteq Bots /\ IsFiniteSet(Bots)
  BY RosterAssumption DEF Active, Having
<1>2. IsFiniteSet(Active)
  BY <1>1, FS_Subset
<1> QED
  BY <1>2, FS_CardinalityType

\* A step that makes nobody active keeps the population within its bounds.
LEMMA FewerKeep ==
  ASSUME RosterCapped, RoomKept, TypeOK, TypeOK',
         \A b \in Bots : status'[b] = "Active" => status[b] = "Active",
         phase' = "spawn" => phase = "spawn",
         UNCHANGED <<miscounts, unanswered>>
  PROVE  RosterCapped' /\ RoomKept'
<1>1. Active' \subseteq Active
  BY DEF Active, Having
<1>2. IsFiniteSet(Active) /\ Cardinality(Active) \in Nat
  BY ActiveFinite
<1>3. Cardinality(Active') <= Cardinality(Active) /\ Cardinality(Active') \in Nat
  BY <1>1, <1>2, FS_Subset, FS_CardinalityType
<1>4. MaxBots \in Nat /\ miscounts \in Nat /\ unanswered \in Nat
  BY RosterAssumption DEF TypeOK
<1>5. RosterCapped'
  BY <1>2, <1>3, <1>4 DEF RosterCapped
<1>6. RoomKept'
  BY <1>2, <1>3, <1>4 DEF RoomKept
<1> QED
  BY <1>5, <1>6

\* The budget of faults.
LEMMA FaultTyped == TypeOK /\ (Fault \/ NoFault) => faults' \in 0 .. MaxFaults /\ faults' >= faults
BY RosterAssumption DEF TypeOK, Fault, NoFault

LEMMA MiscountsStay ==
  ASSUME TypeOK, Fault \/ NoFault
  PROVE  /\ UNCHANGED miscounts => miscounts' \in 0 .. faults'
         /\ UNCHANGED unanswered => unanswered' \in 0 .. faults'
<1>1. faults' \in 0 .. MaxFaults /\ faults' >= faults
  BY FaultTyped
<1> QED
  BY <1>1, RosterAssumption DEF TypeOK

LEMMA LoopTyped ==
  ASSUME NEW s \in SUBSET Bots, NEW p, NEW after, Loop(p, s, after)
  PROVE  phase' \in {p, after} /\ todo' \subseteq Bots
BY DEF Loop

LEMMA VisitedTyped ==
  ASSUME TypeOK, NEW b \in Bots, NEW s \in SUBSET Bots, NEW next, NEW after,
         Visited(b, next, s, after)
  PROVE  phase' \in {phase, next, after} /\ todo' \subseteq Bots
<1>1. CASE todo = {b}
  BY <1>1, LoopTyped DEF Visited
<1>2. CASE todo # {b}
  BY <1>2 DEF Visited, TypeOK
<1> QED
  BY <1>1, <1>2

LEMMA Initially == Init => RosterInv
<1> SUFFICES ASSUME Init PROVE RosterInv
  OBVIOUS
<1>1. Active = {}
  BY DEF Init, Active, Having
<1>2. Cardinality(Active) = 0
  BY <1>1, FS_EmptySet
<1>3. {MaxBots, MaxFaults, MaxFailures} \subseteq Nat
  BY RosterAssumption
<1>4. TypeOK
  BY <1>3 DEF Init, TypeOK, Having
<1>5. RosterCapped /\ RoomKept /\ RowsVisited
  BY <1>2, <1>3 DEF Init, RosterCapped, RoomKept, RowsVisited
<1> QED
  BY <1>4, <1>5 DEF RosterInv

----------------------------------------------------------------------------
LEMMA ListBotsKeeps == RosterInv /\ ListBots => RosterInv'
<1> SUFFICES ASSUME RosterInv, ListBots PROVE RosterInv'
  OBVIOUS
<1>1. /\ faults' \in 0 .. MaxFaults
      /\ miscounts' \in 0 .. faults' /\ unanswered' \in 0 .. faults'
  BY FaultTyped, MiscountsStay DEF RosterInv, ListBots
<1>2. list' \subseteq Bots /\ todo' \subseteq Bots
  BY DEF ListBots, Active, Having
<1>3. phase' \in {"simulate", "reaping"}
  BY DEF ListBots
<1>4. TypeOK'
  BY <1>1, <1>2, <1>3 DEF RosterInv, TypeOK, ListBots, rows, Having
<1>5. RosterCapped' /\ RoomKept'
  BY <1>3, <1>4, FewerKeep DEF RosterInv, ListBots, rows
<1>6. RowsVisited'
  BY DEF ListBots, rows, RowsVisited, Active, Having
<1> QED
  BY <1>4, <1>5, <1>6 DEF RosterInv

\* applyBankruptcy makes nobody active and takes no row away.
LEMMA BankruptcyTyped ==
  ASSUME TypeOK, NEW b \in Bots, applyBankruptcy(b)
  PROVE  /\ status' \in [Bots -> {"none", "Active", "Bankrupt"}]
         /\ \A c \in Bots : /\ status'[c] = "Active" => status[c] = "Active"
                            /\ status'[c] = "none" => status[c] = "none"
         /\ Fault \/ NoFault
BY DEF TypeOK, applyBankruptcy

LEMMA SimulateKeeps == ASSUME NEW b \in Bots, RosterInv, Simulate(b) PROVE RosterInv'
<1>1. phase = "simulate" /\ b \in todo /\ status[b] # "none"
  BY DEF RosterInv, RowsVisited, Simulate
<1>2. /\ status' \in [Bots -> {"none", "Active", "Bankrupt"}]
      /\ \A c \in Bots : /\ status'[c] = "Active" => status[c] = "Active"
                         /\ status'[c] = "none" => status[c] = "none"
      /\ Fault \/ NoFault
  BY BankruptcyTyped DEF RosterInv, TypeOK, Simulate
<1>3. insolvent' \in [Bots -> BOOLEAN] /\ \A c \in Bots \ {b} : insolvent'[c] = insolvent[c]
  BY DEF RosterInv, TypeOK, Simulate
<1>4. failures' \in 0 .. MaxFailures
  BY RosterAssumption DEF RosterInv, TypeOK, Simulate
<1>5. /\ faults' \in 0 .. MaxFaults
      /\ miscounts' \in 0 .. faults' /\ unanswered' \in 0 .. faults'
  BY <1>2, FaultTyped, MiscountsStay DEF RosterInv, Simulate
<1>6. phase' \in {"simulate", "decide", "reaping"} /\ todo' \subseteq Bots
  <2>1. list \in SUBSET Bots /\ TypeOK
    BY DEF RosterInv, TypeOK
  <2>2. Visited(b, "decide", list, "reaping")
    BY DEF Simulate
  <2> QED
    BY <1>1, <2>1, <2>2, VisitedTyped
<1>7. TypeOK'
  <2>1. \A c \in Bots : status'[c] = "none" => ~ profile'[c] /\ ~ insolvent'[c]
    BY <1>1, <1>2, <1>3 DEF RosterInv, TypeOK, Simulate, Having
  <2> QED
    BY <1>2, <1>3, <1>4, <1>5, <1>6, <2>1 DEF RosterInv, TypeOK, Simulate, Having
<1>8. RosterCapped' /\ RoomKept'
  BY <1>2, <1>6, <1>7, FewerKeep DEF RosterInv, Simulate
<1>9. RowsVisited'
  <2>1. phase' = "simulate" => todo' \subseteq todo
    BY <1>1 DEF Simulate, Visited, Loop
  <2> QED
    BY <1>2, <1>6, <2>1 DEF RosterInv, RowsVisited, TypeOK, Simulate
<1> QED
  BY <1>7, <1>8, <1>9 DEF RosterInv

LEMMA DecideKeeps == ASSUME NEW b \in Bots, RosterInv, Decide(b) PROVE RosterInv'
<1>1. /\ status' \in [Bots -> {"none", "Active", "Bankrupt"}]
      /\ \A c \in Bots : /\ status'[c] = "Active" => status[c] = "Active"
                         /\ status'[c] = "none" => status[c] = "none"
      /\ Fault \/ NoFault
  BY BankruptcyTyped DEF RosterInv, TypeOK, Decide
<1>2. /\ faults' \in 0 .. MaxFaults
      /\ miscounts' \in 0 .. faults' /\ unanswered' \in 0 .. faults'
  BY <1>1, FaultTyped, MiscountsStay DEF RosterInv, Decide
<1>3. phase' \in {"decide", "reaping"} /\ todo' \subseteq Bots
  <2>1. Visited(b, "reaping", {}, "reaping") /\ phase = "decide"
    BY DEF Decide
  <2> QED
    BY <2>1, VisitedTyped DEF RosterInv
<1>4. TypeOK'
  BY <1>1, <1>2, <1>3 DEF RosterInv, TypeOK, Decide, Having
<1>5. RosterCapped' /\ RoomKept' /\ RowsVisited'
  BY <1>1, <1>3, <1>4, FewerKeep DEF RosterInv, Decide, RowsVisited
<1> QED
  BY <1>4, <1>5 DEF RosterInv

LEMMA ListBankruptKeeps == RosterInv /\ ListBankrupt => RosterInv'
<1> SUFFICES ASSUME RosterInv, ListBankrupt PROVE RosterInv'
  OBVIOUS
<1>1. phase' \in {"reap", "count"} /\ todo' \subseteq Bots
  <2>1. PICK s \in SUBSET Bots : Loop("reap", s, "count")
    BY DEF ListBankrupt, ToReap, Bankrupt, Having
  <2> QED
    BY <2>1, LoopTyped
<1>2. /\ faults' \in 0 .. MaxFaults
      /\ miscounts' \in 0 .. faults' /\ unanswered' \in 0 .. faults'
  BY FaultTyped, MiscountsStay DEF RosterInv, ListBankrupt
<1>3. TypeOK'
  BY <1>1, <1>2 DEF RosterInv, TypeOK, ListBankrupt, rows, Having
<1>4. RosterCapped' /\ RoomKept' /\ RowsVisited'
  BY <1>1, <1>3, FewerKeep DEF RosterInv, ListBankrupt, rows, RowsVisited
<1> QED
  BY <1>3, <1>4 DEF RosterInv

LEMMA ReapKeeps == ASSUME NEW b \in Bots, RosterInv, Reap(b) PROVE RosterInv'
<1>1. /\ status' \in [Bots -> {"none", "Active", "Bankrupt"}]
      /\ insolvent' \in [Bots -> BOOLEAN] /\ profile' \in [Bots -> BOOLEAN]
      /\ \A c \in Bots : status'[c] = "Active" => status[c] = "Active"
      /\ \A c \in Bots : status'[c] = "none" => ~ profile'[c] /\ ~ insolvent'[c]
  BY DEF RosterInv, TypeOK, Reap, Removed, rows, Having
<1>2. /\ faults' \in 0 .. MaxFaults
      /\ miscounts' \in 0 .. faults' /\ unanswered' \in 0 .. faults'
  BY FaultTyped, MiscountsStay DEF RosterInv, Reap
<1>3. phase' \in {"reap", "count"} /\ todo' \subseteq Bots
  <2>1. Visited(b, "count", {}, "count") /\ phase = "reap"
    BY DEF Reap
  <2> QED
    BY <2>1, VisitedTyped DEF RosterInv
<1>4. TypeOK'
  BY <1>1, <1>2, <1>3 DEF RosterInv, TypeOK, Reap, Having
<1>5. RosterCapped' /\ RoomKept' /\ RowsVisited'
  BY <1>1, <1>3, <1>4, FewerKeep DEF RosterInv, Reap, RowsVisited
<1> QED
  BY <1>4, <1>5 DEF RosterInv

\* The count is what opens the way to a spawn: below the wanted number, or failed.
LEMMA CountKeeps == RosterInv /\ Count => RosterInv'
<1> SUFFICES ASSUME RosterInv, Count PROVE RosterInv'
  OBVIOUS
<1>1. /\ faults' \in 0 .. MaxFaults /\ miscounts' \in 0 .. faults'
      /\ miscounts' >= miscounts
      /\ unanswered' = unanswered /\ unanswered' \in 0 .. faults'
  BY RosterAssumption DEF RosterInv, TypeOK, Count, Fault, NoFault
<1>2. TypeOK'
  BY <1>1 DEF RosterInv, TypeOK, Count, rows, Having
<1>3. Active' = Active
  BY DEF Count, rows, Active, Having
<1>4. /\ Cardinality(Active) \in Nat /\ MaxBots \in Nat
      /\ miscounts \in Nat /\ miscounts' \in Nat /\ unanswered \in Nat
  BY <1>1, ActiveFinite, RosterAssumption DEF RosterInv, TypeOK
<1>5. RosterCapped'
  BY <1>1, <1>3, <1>4 DEF RosterInv, RosterCapped
<1>6. RoomKept'
  <2>1. SUFFICES ASSUME phase' = "spawn"
               PROVE  Cardinality(Active) < MaxBots + miscounts' + unanswered
    BY <1>1, <1>3 DEF RoomKept
  <2>2. \/ Cardinality(Active) < MaxBots
        \/ miscounts' = miscounts + 1
    BY <2>1 DEF Count, SpawnsOne
  <2> QED
    BY <1>1, <1>4, <2>2 DEF RosterInv, RosterCapped
<1>7. RowsVisited'
  BY DEF Count, RowsVisited
<1> QED
  BY <1>2, <1>5, <1>6, <1>7 DEF RosterInv

\* An identity that is free, where there is one.
LEMMA FreeIsFree ==
  ASSUME Inserted
  PROVE  Free \in Bots /\ status[Free] = "none" /\ status' = [status EXCEPT ![Free] = "Active"]
BY DEF Inserted, Free, Having

\* The INSERT makes one bot more.
LEMMA InsertedCounts ==
  ASSUME TypeOK, Inserted
  PROVE  /\ Active' = Active \cup {Free} /\ Free \notin Active
         /\ Cardinality(Active') = Cardinality(Active) + 1
<1>1. Active' = Active \cup {Free} /\ Free \notin Active
  BY FreeIsFree DEF TypeOK, Active, Having
<1> QED
  BY <1>1, ActiveFinite, FS_AddElement

\* One bot more needs the room the count has left, or the loss of an answer.
LEMMA SpawnUserKeeps == RosterInv /\ SpawnUser => RosterInv'
<1> SUFFICES ASSUME RosterInv, SpawnUser PROVE RosterInv'
  OBVIOUS
<1>1. TypeOK /\ (Fault \/ NoFault)
  BY DEF RosterInv, SpawnUser
<1>2. faults' \in 0 .. MaxFaults /\ miscounts' \in 0 .. faults' /\ miscounts' = miscounts
  BY <1>1, FaultTyped, MiscountsStay DEF SpawnUser
<1>3. unanswered' \in 0 .. faults'
  <2>1. CASE UNCHANGED unanswered
    BY <1>1, <2>1, MiscountsStay
  <2>2. CASE unanswered' = unanswered + 1 /\ Fault
    BY <1>1, <2>2, RosterAssumption DEF TypeOK, Fault
  <2> QED
    BY <2>1, <2>2 DEF SpawnUser
<1>4. /\ Cardinality(Active) \in Nat /\ MaxBots \in Nat /\ miscounts \in Nat
      /\ unanswered \in Nat /\ unanswered' \in Nat
  BY <1>1, <1>3, ActiveFinite, RosterAssumption DEF TypeOK
<1>5. Cardinality(Active) < MaxBots + miscounts + unanswered
  BY DEF RosterInv, RoomKept, SpawnUser
<1>6. CASE UNCHANGED status
  <2>1. phase' \in {"spawn", "idle"} /\ UNCHANGED <<todo, unanswered>>
    <3>1. ~ Inserted
      BY <1>1, <1>6, FreeIsFree DEF TypeOK
    <3> QED
      BY <3>1 DEF SpawnUser
  <2>2. TypeOK'
    BY <1>2, <1>3, <1>6, <2>1 DEF RosterInv, TypeOK, SpawnUser, Having
  <2>3. RosterCapped' /\ RoomKept'
    BY <1>2, <1>6, <2>1, <2>2, FewerKeep DEF RosterInv, SpawnUser
  <2> QED
    BY <2>1, <2>2, <2>3 DEF RosterInv, RowsVisited
<1>7. CASE Inserted
  <2>1. Free \in Bots /\ status[Free] = "none" /\ status' = [status EXCEPT ![Free] = "Active"]
    BY <1>7, FreeIsFree
  <2>2. /\ Cardinality(Active') = Cardinality(Active) + 1
        /\ \/ phase' = "profile" /\ todo' = {Free} /\ unanswered' = unanswered
           \/ phase' \in {"spawn", "idle"} /\ todo' = todo /\ unanswered' = unanswered + 1
    <3>1. ~ UNCHANGED status
      BY <1>1, <2>1 DEF TypeOK
    <3> QED
      BY <1>1, <1>7, <3>1, InsertedCounts DEF SpawnUser
  <2>3. TypeOK'
    BY <1>2, <1>3, <2>1, <2>2 DEF RosterInv, TypeOK, SpawnUser, Having
  <2>4. RosterCapped'
    BY <1>2, <1>4, <1>5, <2>2 DEF RosterCapped
  <2>5. RoomKept'
    BY <1>2, <1>4, <1>5, <2>2 DEF RoomKept
  <2>6. RowsVisited'
    BY <1>1, <2>1, <2>2 DEF TypeOK, RowsVisited
  <2> QED
    BY <2>3, <2>4, <2>5, <2>6 DEF RosterInv
<1> QED
  BY <1>6, <1>7 DEF SpawnUser

LEMMA SpawnProfileKeeps == RosterInv /\ SpawnProfile => RosterInv'
<1> SUFFICES ASSUME RosterInv, SpawnProfile PROVE RosterInv'
  OBVIOUS
<1>1. /\ faults' \in 0 .. MaxFaults
      /\ miscounts' \in 0 .. faults' /\ unanswered' \in 0 .. faults'
  BY FaultTyped, MiscountsStay DEF RosterInv, SpawnProfile
<1>2. profile' \in [Bots -> BOOLEAN] /\ \A b \in Bots : profile'[b] => profile[b] \/ b \in todo
  BY DEF RosterInv, TypeOK, SpawnProfile
<1>3. \A b \in todo : status[b] # "none"
  BY DEF RosterInv, RowsVisited, SpawnProfile
<1>4. TypeOK'
  BY <1>1, <1>2, <1>3 DEF RosterInv, TypeOK, SpawnProfile, Having
<1>5. RosterCapped' /\ RoomKept' /\ RowsVisited'
  BY <1>4, FewerKeep DEF RosterInv, SpawnProfile, RowsVisited
<1> QED
  BY <1>4, <1>5 DEF RosterInv

LEMMA CrashKeeps == RosterInv /\ Crash => RosterInv'
<1> SUFFICES ASSUME RosterInv, Crash PROVE RosterInv'
  OBVIOUS
<1>1. /\ faults' \in 0 .. MaxFaults
      /\ miscounts' \in 0 .. faults' /\ unanswered' \in 0 .. faults'
  BY FaultTyped, MiscountsStay DEF RosterInv, Crash
<1>2. TypeOK'
  BY <1>1 DEF RosterInv, TypeOK, Crash, rows, Having
<1>3. RosterCapped' /\ RoomKept' /\ RowsVisited'
  BY <1>2, FewerKeep DEF RosterInv, Crash, rows, RowsVisited
<1> QED
  BY <1>2, <1>3 DEF RosterInv

LEMMA StutterKeeps == RosterInv /\ UNCHANGED vars => RosterInv'
<1> SUFFICES ASSUME RosterInv, UNCHANGED vars PROVE RosterInv'
  OBVIOUS
<1>1. TypeOK' /\ RowsVisited'
  BY DEF RosterInv, TypeOK, RowsVisited, vars, rows, pass, Having
<1>2. RosterCapped' /\ RoomKept'
  BY <1>1, FewerKeep DEF RosterInv, vars, rows, pass
<1> QED
  BY <1>1, <1>2 DEF RosterInv

LEMMA NextKeeps == RosterInv /\ [Next]_vars => RosterInv'
<1> SUFFICES ASSUME RosterInv, [Next]_vars PROVE RosterInv'
  OBVIOUS
<1>1. CASE \E b \in Bots : Simulate(b) \/ Decide(b) \/ Reap(b)
  BY <1>1, SimulateKeeps, DecideKeeps, ReapKeeps
<1>2. CASE ListBots \/ ListBankrupt \/ Count \/ SpawnUser \/ SpawnProfile
  BY <1>2, ListBotsKeeps, ListBankruptKeeps, CountKeeps, SpawnUserKeeps, SpawnProfileKeeps
<1>3. CASE Crash \/ UNCHANGED vars
  BY <1>3, CrashKeeps, StutterKeeps
<1> QED
  BY <1>1, <1>2, <1>3 DEF Next, Pass

----------------------------------------------------------------------------
\* The type invariant of the roster: what ProcessBots and spawnBot keep of every
\* bot (bots.go:18-172).
THEOREM TypesHold == Spec => []TypeOK
<1>1. Spec => []RosterInv
  BY Initially, NextKeeps, PTL DEF Spec
<1>2. RosterInv => TypeOK
  BY DEF RosterInv
<1> QED
  BY <1>1, <1>2, PTL

\* "Ensure the active bot population is exactly max_bot_count" (bots.go:149):
\* however statements fail and processes end, no more bots than that, but for
\* one per count of the population that failed and one per INSERT of a bot whose
\* answer was lost (bots.go:689-699).
THEOREM PopulationCapped == Spec => []RosterCapped
<1>1. Spec => []RosterInv
  BY Initially, NextKeeps, PTL DEF Spec
<1>2. RosterInv => RosterCapped
  BY DEF RosterInv
<1> QED
  BY <1>1, <1>2, PTL

----------------------------------------------------------------------------
(* The roster: what a mute bot costs *)

\* Bots that fill a place without a profile, the one apart that is about to get its own.
Mute == {b \in Active : ~ profile[b] /\ ~ (phase = "profile" /\ b \in todo)}

\* NoMuteBots is violated; but every mute bot has cost a failed statement or a crash, and
\* not one of those that failed a count.
MutesPaid == Cardinality(Mute) + miscounts <= faults

\* The profile that is being written is that of one bot, which is active.
OneSpawned == phase = "profile" => \E b \in Active : todo = {b}

LEMMA MuteFinite == IsFiniteSet(Mute) /\ Cardinality(Mute) \in Nat
<1>1. Mute \subseteq Active
  BY DEF Mute
<1> QED
  BY <1>1, ActiveFinite, FS_Subset, FS_CardinalityType

\* No more mute bots, and no miscount that no fault paid for.
LEMMA MutesFewer ==
  ASSUME TypeOK, MutesPaid, Mute' \subseteq Mute, Fault \/ NoFault,
         miscounts' = miscounts \/ (miscounts' = miscounts + 1 /\ Fault)
  PROVE  MutesPaid'
<1>1. PICK m \in Nat : m = Cardinality(Mute)
  BY MuteFinite
<1>2. PICK n \in Nat : n = Cardinality(Mute') /\ n <= m
  BY <1>1, MuteFinite, FS_Subset, FS_CardinalityType
<1>3. PICK f \in Nat : f = faults
  BY RosterAssumption DEF TypeOK
<1>4. PICK c \in Nat : c = miscounts
  BY <1>3 DEF TypeOK
<1>5. m + c <= f
  BY <1>1, <1>3, <1>4 DEF MutesPaid
<1>6. CASE miscounts' = c
  <2>1. PICK g \in Nat : g = faults' /\ g >= f
    BY <1>3 DEF Fault, NoFault
  <2>2. n + c <= g
    BY <1>2, <1>5, <2>1
  <2> QED
    BY <1>2, <1>6, <2>1, <2>2 DEF MutesPaid
<1>7. CASE miscounts' = c + 1 /\ faults' = f + 1
  <2>1. n + (c + 1) <= f + 1
    BY <1>2, <1>5
  <2> QED
    BY <1>2, <1>7, <2>1 DEF MutesPaid
<1> QED
  BY <1>3, <1>4, <1>6, <1>7 DEF Fault

\* One more mute bot, for one more fault.
LEMMA OneMoreMute ==
  ASSUME TypeOK, MutesPaid, NEW b \in Bots, Mute' \subseteq Mute \cup {b}, Fault,
         miscounts' = miscounts
  PROVE  MutesPaid'
<1>1. PICK m \in Nat : m = Cardinality(Mute)
  BY MuteFinite
<1>2. IsFiniteSet(Mute \cup {b}) /\ Cardinality(Mute \cup {b}) \in {m, m + 1}
  BY <1>1, MuteFinite, FS_AddElement
<1>3. PICK n \in Nat : n = Cardinality(Mute') /\ n <= m + 1
  BY <1>2, FS_Subset, FS_CardinalityType
<1>4. PICK f \in Nat : f = faults
  BY RosterAssumption DEF TypeOK
<1>5. PICK c \in Nat : c = miscounts
  BY <1>4 DEF TypeOK
<1>6. m + c <= f
  BY <1>1, <1>4, <1>5 DEF MutesPaid
<1>7. n + c <= f + 1
  BY <1>3, <1>6
<1> QED
  BY <1>3, <1>4, <1>5, <1>7 DEF MutesPaid, Fault

\* The steps outside of a spawn make nobody active and take no profile of who is.
LEMMA OthersAddNoMute ==
  ASSUME TypeOK, phase # "profile", phase' # "profile",
         \A b \in Bots : status'[b] = "Active" => status[b] = "Active" /\ profile'[b] = profile[b]
  PROVE  Mute' \subseteq Mute /\ OneSpawned'
BY DEF Mute, Active, Having, OneSpawned

LEMMA MutesStep ==
  ASSUME RosterInv, MutesPaid, OneSpawned, [Next]_vars
  PROVE  MutesPaid' /\ OneSpawned'
<1>1. TypeOK
  BY DEF RosterInv
<1>2. ASSUME phase # "profile", phase' # "profile",
             \A b \in Bots : status'[b] = "Active" =>
               status[b] = "Active" /\ profile'[b] = profile[b],
             Fault \/ NoFault,
             miscounts' = miscounts \/ (miscounts' = miscounts + 1 /\ Fault)
      PROVE  MutesPaid' /\ OneSpawned'
  BY <1>1, <1>2, OthersAddNoMute, MutesFewer
<1>3. CASE ListBots
  BY <1>2, <1>3 DEF ListBots, rows
<1>4. ASSUME NEW b \in Bots, Simulate(b) PROVE MutesPaid' /\ OneSpawned'
  <2>1. phase = "simulate" /\ phase' # "profile" /\ UNCHANGED <<profile, miscounts>>
    BY <1>4 DEF Simulate, Visited, Loop
  <2>2. (Fault \/ NoFault) /\ (status' = status \/ status' = [status EXCEPT ![b] = "Bankrupt"])
    BY <1>4 DEF Simulate, applyBankruptcy
  <2> QED
    BY <1>1, <1>2, <2>1, <2>2 DEF TypeOK
<1>5. ASSUME NEW b \in Bots, Decide(b) PROVE MutesPaid' /\ OneSpawned'
  <2>1. phase = "decide" /\ phase' # "profile" /\ UNCHANGED <<profile, miscounts>>
    BY <1>5 DEF Decide, Visited, Loop
  <2>2. (Fault \/ NoFault) /\ (status' = status \/ status' = [status EXCEPT ![b] = "Bankrupt"])
    BY <1>5 DEF Decide, applyBankruptcy
  <2> QED
    BY <1>1, <1>2, <2>1, <2>2 DEF TypeOK
<1>6. CASE ListBankrupt
  BY <1>2, <1>6 DEF ListBankrupt, Loop, rows
<1>7. ASSUME NEW b \in Bots, Reap(b) PROVE MutesPaid' /\ OneSpawned'
  <2>1. phase = "reap" /\ phase' # "profile" /\ UNCHANGED miscounts
    BY <1>7 DEF Reap, Visited, Loop
  <2>2. Fault \/ NoFault
    BY <1>7 DEF Reap
  <2>3. \/ UNCHANGED <<status, profile>>
        \/ /\ status' = [status EXCEPT ![b] = "none"]
           /\ profile' = [profile EXCEPT ![b] = FALSE]
    BY <1>7 DEF Reap, Removed, rows
  <2> QED
    BY <1>1, <1>2, <2>1, <2>2, <2>3 DEF TypeOK
<1>8. CASE Count
  BY <1>2, <1>8 DEF Count, rows
<1>9. CASE SpawnUser
  <2>1. phase = "spawn" /\ UNCHANGED <<profile, miscounts>>
    BY <1>9 DEF SpawnUser
  <2>2. CASE Fault /\ phase' \in {"spawn", "idle"} /\ UNCHANGED <<status, todo>>
    BY <1>2, <2>1, <2>2
  <2>3. CASE Fault /\ phase' \in {"spawn", "idle"} /\ Inserted
    <3>1. Free \in Bots /\ Active' = Active \cup {Free}
      BY <1>1, <2>3, FreeIsFree, InsertedCounts
    <3>2. OneSpawned' /\ Mute' \subseteq Mute \cup {Free}
      BY <2>1, <2>3, <3>1 DEF OneSpawned, Mute
    <3> QED
      BY <1>1, <2>1, <2>3, <3>1, <3>2, OneMoreMute
  <2>4. CASE NoFault /\ phase' = "profile" /\ todo' = {Free} /\ Inserted
    <3>1. Active' = Active \cup {Free}
      BY <1>1, <2>4, InsertedCounts
    <3>2. OneSpawned' /\ Mute' \subseteq Mute
      BY <2>1, <2>4, <3>1 DEF OneSpawned, Mute
    <3> QED
      BY <1>1, <2>1, <2>4, <3>2, MutesFewer
  <2> QED
    BY <1>9, <2>2, <2>3, <2>4 DEF SpawnUser
<1>10. CASE SpawnProfile
  <2>1. PICK b \in Active : todo = {b} /\ b \in Bots
    BY <1>10 DEF SpawnProfile, OneSpawned, Active, Having
  <2>2. /\ phase = "profile" /\ phase' = "idle" /\ UNCHANGED <<status, miscounts>>
        /\ \/ NoFault /\ profile' = [c \in Bots |-> profile[c] \/ c \in todo]
           \/ Fault /\ UNCHANGED profile
    BY <1>10 DEF SpawnProfile
  <2>3. Active' = Active /\ Active \subseteq Bots /\ OneSpawned'
    BY <2>2 DEF Active, Having, OneSpawned
  <2>4. CASE NoFault /\ profile' = [c \in Bots |-> profile[c] \/ c \in todo]
    <3>1. Mute' \subseteq Mute
      BY <2>2, <2>3, <2>4 DEF Mute
    <3> QED
      BY <1>1, <2>2, <2>3, <2>4, <3>1, MutesFewer
  <2>5. CASE Fault /\ UNCHANGED profile
    <3>1. Mute' \subseteq Mute \cup {b}
      BY <2>1, <2>2, <2>3, <2>5 DEF Mute
    <3> QED
      BY <1>1, <2>1, <2>2, <2>3, <2>5, <3>1, OneMoreMute
  <2> QED
    BY <2>2, <2>4, <2>5
<1>11. CASE Crash
  <2>1. Fault /\ phase' = "idle" /\ UNCHANGED <<status, profile, miscounts>>
    BY <1>11 DEF Crash, rows
  <2>2. CASE phase # "profile"
    BY <1>2, <2>1, <2>2
  <2>3. CASE phase = "profile"
    <3>1. PICK b \in Active : todo = {b} /\ b \in Bots
      BY <2>3 DEF OneSpawned, Active, Having
    <3>2. Mute' \subseteq Mute \cup {b} /\ OneSpawned'
      BY <2>1, <3>1 DEF Mute, Active, Having, OneSpawned
    <3> QED
      BY <1>1, <2>1, <3>1, <3>2, OneMoreMute
  <2> QED
    BY <2>2, <2>3
<1>12. CASE UNCHANGED vars
  BY <1>12 DEF vars, rows, pass, MutesPaid, OneSpawned, Mute, Active, Having
<1> QED
  BY <1>3, <1>4, <1>5, <1>6, <1>7, <1>8, <1>9, <1>10, <1>11, <1>12 DEF Next, Pass

\* However many passes, failures and crashes: no more bots fill a place without ever
\* acting than there were faults that failed no count (bots.go:700-706).
THEOREM OneMutePerFault == Spec => []MutesPaid
<1>1. Spec => []RosterInv
  BY Initially, NextKeeps, PTL DEF Spec
<1>2. Init => MutesPaid /\ OneSpawned
  <2> SUFFICES ASSUME Init PROVE MutesPaid /\ OneSpawned
    OBVIOUS
  <2>1. Mute = {} /\ miscounts = 0 /\ faults = 0 /\ phase = "idle"
    BY DEF Init, Mute, Active, Having
  <2> QED
    BY <2>1, FS_EmptySet DEF MutesPaid, OneSpawned
<1>3. RosterInv /\ MutesPaid /\ OneSpawned /\ [Next]_vars => (MutesPaid /\ OneSpawned)'
  BY MutesStep
<1> QED
  BY <1>1, <1>2, <1>3, PTL DEF Spec

----------------------------------------------------------------------------
(* The market: arithmetic *)

\* The constants, one by one.
LEMMA MarketConstants ==
  /\ \A b \in Rivals : /\ PriceMult[b] \in Nat \ {0} /\ SchedRatio[b] \in Nat \ {0}
                       /\ Adjustment[b] \in Nat \ {0} /\ Adjustment[b] >= 90
                       /\ Capacity[b] \in Nat \ {0}
  /\ Distance \in Nat \ {0} /\ Speed \in Nat \ {0} /\ Turnaround \in Nat \ {0}
  /\ MaxWeekly \in Nat \ {0} /\ MinProfit \in Nat /\ Threshold \in Nat /\ MaxShocks \in Nat
  /\ PoolScale \in Nat /\ OriginDemand \in Nat /\ DestDemand \in Nat /\ FuelPerFlight \in Nat
  /\ CrewPerHour \in Nat /\ MaintPerHour \in Nat /\ LeasePerMonth \in Nat
BY MarketAssumption

\* Quotients and products of naturals are naturals, and grow with their first operand.
LEMMA DivTyped ==
  ASSUME NEW n \in Nat, NEW d \in Nat \ {0} PROVE n \div d \in Nat
OBVIOUS

LEMMA DivGrows ==
  ASSUME NEW m \in Int, NEW n \in Int, m <= n, NEW d \in Nat \ {0} PROVE m \div d <= n \div d
OBVIOUS

LEMMA TimesTyped ==
  ASSUME NEW m \in Nat, NEW n \in Nat PROVE m * n \in Nat
OBVIOUS

LEMMA TimesGrows ==
  ASSUME NEW m \in Nat, NEW n \in Nat, m <= n, NEW k \in Nat PROVE m * k <= n * k
OBVIOUS

\* The lesser and the greater of two.
LEMMA LeastTyped ==
  ASSUME NEW m \in Nat, NEW n \in Nat
  PROVE  /\ Least(m, n) \in Nat /\ Least(m, n) <= m /\ Least(m, n) <= n
         /\ Greatest(m, n) \in Nat /\ Greatest(m, n) >= m /\ Greatest(m, n) >= n
BY DEF Least, Greatest

----------------------------------------------------------------------------
(* The market: demand *)

\* The share of the pool that a distance leaves is not negative.
LEMMA FactorTyped == distanceDemandFactor(Distance) \in Nat
<1>1. Distance \in Nat
  BY MarketConstants
<1>2. CASE 500 < Distance /\ Distance < 12000
  <2>1. ((Distance - 500) * 650) \div 11500 \in 0 .. 650
    BY <1>1, <1>2
  <2> QED
    BY <1>1, <1>2, <2>1 DEF distanceDemandFactor
<1>3. CASE ~ (500 < Distance /\ Distance < 12000)
  BY <1>1, <1>3 DEF distanceDemandFactor
<1> QED
  BY <1>2, <1>3

\* A higher fare meets no more willingness to fly.
LEMMA ElasticityFalls ==
  ASSUME NEW p \in Nat, NEW q \in Nat, p <= q
  PROVE  /\ Elasticity(p) \in Nat /\ Elasticity(q) \in Nat
         /\ Elasticity(q) <= Elasticity(p)
<1>1. p * p \in Nat /\ q * q \in Nat /\ p * p <= q * q
  <2>1. p * p <= q * p /\ p * q <= q * q
    BY TimesGrows
  <2>2. p * p \in Nat /\ q * q \in Nat /\ p * q \in Nat /\ q * p = p * q
    OBVIOUS
  <2> QED
    BY <2>1, <2>2
<1>2. \A m, n \in Nat : m <= n => (m * 8) \div 100 \in Nat /\ (n * 8) \div 100 \in Nat
                                  /\ (m * 8) \div 100 <= (n * 8) \div 100
  OBVIOUS
<1>3. PICK m \in Nat : m = (p * p * 8) \div 100
  BY <1>1, <1>2
<1>4. PICK n \in Nat : n = (q * q * 8) \div 100
  BY <1>1, <1>2
<1>5. m <= n
  BY <1>1, <1>2, <1>3, <1>4
<1>6. Elasticity(p) = Greatest(0, 1500 - m) /\ Elasticity(q) = Greatest(0, 1500 - n)
  BY <1>3, <1>4 DEF Elasticity
<1> QED
  BY <1>5, <1>6 DEF Greatest

\* Nor more passengers.
LEMMA DemandFalls ==
  ASSUME NEW p \in Nat, NEW q \in Nat, p <= q
  PROVE  /\ routeDailyDemand(p) \in Nat /\ routeDailyDemand(q) \in Nat
         /\ routeDailyDemand(q) <= routeDailyDemand(p)
<1>1. (PoolScale * OriginDemand * DestDemand) \div 10000 \in Nat
  BY MarketConstants, TimesTyped, DivTyped
<1>2. PICK pool \in Nat :
        pool = ((PoolScale * OriginDemand * DestDemand) \div 10000) * distanceDemandFactor(Distance)
  BY <1>1, FactorTyped, TimesTyped
<1>3. PICK e \in Nat : e = Elasticity(p)
  BY ElasticityFalls
<1>4. PICK f \in Nat : f = Elasticity(q)
  BY ElasticityFalls
<1>5. routeDailyDemand(p) = (pool * e) \div 1000000 /\ routeDailyDemand(q) = (pool * f) \div 1000000
  BY <1>2, <1>3, <1>4 DEF routeDailyDemand
<1>6. f <= e
  BY <1>3, <1>4, ElasticityFalls
<1>7. pool * e \in Nat /\ pool * f \in Nat /\ pool * f <= pool * e
  BY <1>6, TimesTyped, TimesGrows
<1> QED
  BY <1>5, <1>7, DivTyped, DivGrows

\* A week holds a flight.
LEMMA WeekTyped == calcMaxWeeklyFlights \in Nat \ {0} /\ FlightTime \in Nat \ {0}
<1>1. (Distance * 10) \div Speed \in Nat
  BY MarketConstants, DivTyped
<1>2. FlightTime \in Nat \ {0} /\ FlightTime <= MaxWeekly * 10
  BY <1>1, MarketConstants, MarketAssumption DEF FlightTime
<1>3. \A n \in Nat, d \in Nat \ {0} : d <= n => n \div d \in Nat \ {0}
  OBVIOUS
<1> QED
  BY <1>2, <1>3, MarketConstants DEF calcMaxWeeklyFlights

\* A bot wants at least one flight, and more of them where there is more demand.
LEMMA TargetGrows ==
  ASSUME NEW capacity \in Nat \ {0}, NEW m \in Nat, NEW n \in Nat, m <= n, NEW ratio \in Nat
  PROVE  /\ botTargetFlights(capacity, m, ratio) \in 1 .. calcMaxWeeklyFlights
         /\ botTargetFlights(capacity, n, ratio) \in 1 .. calcMaxWeeklyFlights
         /\ botTargetFlights(capacity, m, ratio) <= botTargetFlights(capacity, n, ratio)
<1>1. m * 7 * ratio \in Nat /\ n * 7 * ratio \in Nat /\ m * 7 * ratio <= n * 7 * ratio
  <2>1. m * 7 \in Nat /\ n * 7 \in Nat /\ m * 7 <= n * 7
    OBVIOUS
  <2> QED
    BY <2>1, TimesTyped, TimesGrows
<1>2. capacity * 100 \in Nat \ {0}
  OBVIOUS
<1>3. PICK k \in Nat : k = Ceiling(m * 7 * ratio, capacity * 100)
  BY <1>1, <1>2, DivTyped DEF Ceiling
<1>4. PICK l \in Nat : l = Ceiling(n * 7 * ratio, capacity * 100)
  BY <1>1, <1>2, DivTyped DEF Ceiling
<1>5. k <= l
  BY <1>1, <1>2, <1>3, <1>4, DivGrows DEF Ceiling
<1>6. calcMaxWeeklyFlights \in Nat \ {0}
  BY WeekTyped
<1>7. /\ botTargetFlights(capacity, m, ratio) = Least(Greatest(k, 1), calcMaxWeeklyFlights)
      /\ botTargetFlights(capacity, n, ratio) = Least(Greatest(l, 1), calcMaxWeeklyFlights)
  BY <1>3, <1>4, <1>6 DEF botTargetFlights
<1> QED
  BY <1>5, <1>6, <1>7 DEF Least, Greatest

----------------------------------------------------------------------------
(* The market: fares *)

\* The competitors are finitely many, and their fares whole.
LEMMA CompetitorsTyped ==
  ASSUME MarketTypeOK, NEW b \in Rivals
  PROVE  IsFiniteSet(Competitors(b)) /\ \A other \in Competitors(b) : other[2] \in Nat
<1> DEFINE others == Serving \ {b}
           named == {<<c, fare[c]>> : c \in others}
           player == IF outsider > 0 THEN {<<"outsider", outsider>>} ELSE {}
<1>1. others \subseteq Rivals /\ IsFiniteSet(others)
  BY MarketAssumption, FS_Subset DEF Serving
<1>2. IsFiniteSet(named)
  <2>1. [c \in others |-> <<c, fare[c]>>] \in Surjection(others, named)
    BY DEF Surjection
  <2> QED
    BY <1>1, <2>1, FS_Surjection
<1>3. IsFiniteSet(player)
  BY FS_Singleton, FS_EmptySet
<1>4. outsider \in Nat
  BY MarketAssumption DEF MarketTypeOK
<1>5. \A other \in named \cup player : other[2] \in Nat
  BY <1>1, <1>4 DEF MarketTypeOK
<1> HIDE DEF named, player
<1>6. IsFiniteSet(named \cup player)
  BY <1>2, <1>3, FS_Union
<1> QED
  BY <1>5, <1>6 DEF Competitors, named, player

\* So is their average.
LEMMA AverageTyped ==
  ASSUME NEW others, IsFiniteSet(others), \A other \in others : other[2] \in Nat
  PROVE  AverageFare(others) \in Nat
<1> DEFINE units == {{other} \X (1 .. other[2]) : other \in others}
<1>1. IsFiniteSet(units)
  <2>1. [other \in others |-> {other} \X (1 .. other[2])] \in Surjection(others, units)
    BY DEF Surjection
  <2> QED
    BY <2>1, FS_Surjection
<1>2. \A unit \in units : IsFiniteSet(unit)
  <2>1. ASSUME NEW other \in others PROVE IsFiniteSet({other} \X (1 .. other[2]))
    <3>1. PICK n \in Nat : n = other[2]
      OBVIOUS
    <3>2. IsFiniteSet({other})
      BY FS_Singleton
    <3>3. IsFiniteSet(1 .. n)
      BY FS_Interval
    <3> QED
      BY <3>1, <3>2, <3>3, FS_Product
  <2> QED
    BY <2>1
<1> HIDE DEF units
<1>3. IsFiniteSet(UNION units)
  BY <1>1, <1>2, FS_UNION
<1>4. TotalFare(others) \in Nat
  BY <1>3, FS_CardinalityType DEF TotalFare, units
<1>5. CASE others = {}
  BY <1>5 DEF AverageFare
<1>6. CASE others # {}
  <2>1. Cardinality(others) \in Nat \ {0}
    BY <1>6, FS_CardinalityType, FS_EmptySet
  <2> QED
    BY <1>4, <1>6, <2>1, DivTyped DEF AverageFare
<1> QED
  BY <1>5, <1>6

\* What a fare does not fall below: nine tenths of the reference fare or of the
\* fare of the archetype, in whole hundredths.
Floor(b) == (9 * Least(Base, OpeningFare(b))) \div 10

\* The floor of a fare, and what NoRaceToBottom says of a fare with it.
LEMMA FloorTyped ==
  ASSUME NEW b \in Rivals
  PROVE  /\ OpeningFare(b) = PriceMult[b] /\ OpeningFare(b) \in Nat \ {0}
         /\ Floor(b) \in 0 .. 90 /\ OpeningFare(b) >= Floor(b)
         /\ \A price \in Nat :
              price >= Floor(b) <=> 10 * price >= 9 * Least(Base, OpeningFare(b)) - 9
<1>1. OpeningFare(b) = PriceMult[b] /\ PriceMult[b] \in Nat \ {0}
  BY MarketConstants DEF OpeningFare, Base
<1>2. PICK least \in Nat : least = Least(Base, OpeningFare(b)) /\ least <= 100
                           /\ least <= OpeningFare(b)
  BY <1>1, LeastTyped DEF Base
<1>3. (9 * least) \div 10 \in 0 .. 90 /\ (9 * least) \div 10 <= least
  BY <1>2
<1>4. \A price \in Nat : price >= (9 * least) \div 10 <=> 10 * price >= 9 * least - 9
  BY <1>2
<1>5. Floor(b) = (9 * least) \div 10
  BY <1>2 DEF Floor
<1> QED
  BY <1>1, <1>2, <1>3, <1>4, <1>5

\* The archetype's own fare is lowered by a tenth at most.
LEMMA OwnFareTyped ==
  ASSUME MarketTypeOK, NEW b \in Rivals
  PROVE  OwnFare(b) \in Nat /\ OwnFare(b) >= Floor(b)
<1>1. PICK adj \in Nat : adj >= 90 /\ OwnFare(b) = (Base * PriceMult[b] * adj) \div 10000
  BY MarketConstants DEF OwnFare
<1>2. PICK mult \in Nat \ {0} : mult = PriceMult[b]
  BY MarketConstants
<1>3. 90 * mult <= adj * mult /\ adj * mult \in Nat
  BY <1>1, TimesGrows, TimesTyped
<1>4. PICK scaled \in Nat : scaled = adj * mult
  BY <1>3
<1>5. OwnFare(b) = (100 * scaled) \div 10000
  <2>1. Base * PriceMult[b] * adj = 100 * (adj * mult)
    BY <1>1, <1>2 DEF Base
  <2> QED
    BY <1>1, <1>4, <2>1
<1>6. OwnFare(b) \in Nat /\ 10 * OwnFare(b) >= 9 * mult - 9
  BY <1>3, <1>4, <1>5
<1>7. OpeningFare(b) = mult
  BY <1>2, FloorTyped
<1>8. PICK least \in Nat : least = Least(Base, OpeningFare(b)) /\ least <= mult
  <2>1. Least(100, mult) \in Nat /\ Least(100, mult) <= mult
    BY LeastTyped
  <2> QED
    BY <1>7, <2>1 DEF Base
<1>9. 10 * OwnFare(b) >= 9 * least - 9
  BY <1>6, <1>8
<1> QED
  BY <1>6, <1>8, <1>9, FloorTyped

\* Nine tenths of the reference fare is as low as a bot goes after the others, and it
\* raises its fare toward them: it is always between its own and a fare above the floor.
LEMMA RespondKeeps ==
  ASSUME MarketTypeOK, NEW b \in Rivals, fare[b] >= 1, fare[b] >= Floor(b)
  PROVE  /\ botRespondPrice(b) \in Nat /\ botRespondPrice(b) >= 1
         /\ botRespondPrice(b) >= Floor(b)
<1>1. PICK average \in Nat : average = AverageFare(Competitors(b))
  BY CompetitorsTyped, AverageTyped
<1>2. PICK price \in Nat : price = fare[b]
  BY DEF MarketTypeOK
<1>3. PICK low \in Nat : low = Floor(b) /\ low <= 90
  BY FloorTyped
<1>4. PICK own \in Nat : own = OwnFare(b) /\ own >= low
  BY <1>3, OwnFareTyped
<1>5. price >= 1 /\ price >= low
  BY <1>2, <1>3
<1>6. CASE Undercut(b)
  <2>1. PICK target \in Nat : target = UndercutTarget(average) /\ target >= 90
    <3>1. PICK below \in Nat : below = (average * 98) \div 100
      BY DivTyped
    <3>2. (100 * 9) \div 10 = 90
      OBVIOUS
    <3>3. UndercutTarget(average) = Greatest(below, 90)
      BY <3>1, <3>2 DEF UndercutTarget, Base
    <3> QED
      BY <3>1, <3>3 DEF Greatest
  <2>2. botRespondPrice(b) = Nearest(price * 35 + target * 65, 100)
    BY <1>1, <1>2, <1>6, <2>1 DEF botRespondPrice
  <2>3. Nearest(price * 35 + target * 65, 100) >= 1
    BY <2>1 DEF Nearest
  <2>4. target >= low
    BY <1>3, <2>1
  <2>5. /\ Nearest(price * 35 + target * 65, 100) \in Nat
        /\ Nearest(price * 35 + target * 65, 100) >= low
    BY <1>5, <2>4 DEF Nearest
  <2> QED
    BY <1>3, <2>2, <2>3, <2>5
<1>7. CASE ~ Undercut(b) /\ average > 0 /\ 100 * price < average * (100 - Threshold)
  <2>1. price + 1 <= average
    <3>1. average * (100 - Threshold) <= average * 100
      BY MarketConstants
    <3>2. average * (100 - Threshold) \in Int
      BY MarketConstants
    <3> QED
      BY <1>7, <3>1, <3>2
  <2>2. PICK target \in Nat : target = (average * 99) \div 100
    BY DivTyped
  <2>3. target >= low
    BY <1>3, <1>5, <2>1, <2>2
  <2>4. botRespondPrice(b) = Nearest(price * 70 + target * 30, 100)
    BY <1>1, <1>2, <1>7, <2>2 DEF botRespondPrice
  <2>5. /\ Nearest(price * 70 + target * 30, 100) \in Nat
        /\ Nearest(price * 70 + target * 30, 100) >= low
        /\ Nearest(price * 70 + target * 30, 100) >= 1
    BY <1>5, <2>3 DEF Nearest
  <2> QED
    BY <1>3, <2>4, <2>5
<1>8. CASE ~ Undercut(b) /\ ~ (average > 0 /\ 100 * price < average * (100 - Threshold))
  <2>1. botRespondPrice(b) = Nearest(price * 55 + own * 45, 100)
    BY <1>1, <1>2, <1>4, <1>8 DEF botRespondPrice
  <2>2. /\ Nearest(price * 55 + own * 45, 100) \in Nat
        /\ Nearest(price * 55 + own * 45, 100) >= low
        /\ Nearest(price * 55 + own * 45, 100) >= 1
    BY <1>4, <1>5 DEF Nearest
  <2> QED
    BY <1>3, <2>1, <2>2
<1> QED
  BY <1>6, <1>7, <1>8

----------------------------------------------------------------------------
(* The market: the invariant *)

OpeningFlights(b) ==
  botTargetFlights(Capacity[b], routeDailyDemand(OpeningFare(b)), SchedRatio[b])

\* Since its last cut a bot flies no more than the demand of that day filled.
CutHolds == \A b \in Rivals : cutAt[b] > 0 => flights[b] <= Healthy(b, cutAt[b])

\* A bot that is not on the pair has cut nothing, and would open at its flights.
Unserved ==
  \A b \in Rivals : route[b] = "none" => cutAt[b] = 0 /\ flights[b] = OpeningFlights(b)

MarketInv == MarketTypeOK /\ NoRaceToBottom /\ CutHolds /\ Unserved

\* An audit leaves a flight, and fewer of them at a higher fare.
LEMMA HealthyTyped ==
  ASSUME NEW b \in Rivals, NEW p \in Nat, NEW q \in Nat, p <= q
  PROVE  /\ Healthy(b, p) \in 1 .. calcMaxWeeklyFlights
         /\ Healthy(b, q) \in 1 .. calcMaxWeeklyFlights
         /\ Healthy(b, q) <= Healthy(b, p)
<1>1. Capacity[b] \in Nat \ {0}
  BY MarketConstants
<1>2. PICK m \in Nat : m = routeDailyDemand(q)
  BY DemandFalls
<1>3. PICK n \in Nat : n = routeDailyDemand(p) /\ m <= n
  BY <1>2, DemandFalls
<1> QED
  BY <1>1, <1>2, <1>3, TargetGrows DEF Healthy

\* A bot opens with a flight.
LEMMA OpeningTyped ==
  ASSUME NEW b \in Rivals PROVE OpeningFlights(b) \in 1 .. calcMaxWeeklyFlights
<1>1. Capacity[b] \in Nat \ {0} /\ SchedRatio[b] \in Nat
  BY MarketConstants
<1>2. PICK m \in Nat : m = routeDailyDemand(OpeningFare(b))
  BY FloorTyped, DemandFalls
<1>3. m <= m
  BY <1>2
<1>4. botTargetFlights(Capacity[b], m, SchedRatio[b]) \in 1 .. calcMaxWeeklyFlights
  BY <1>1, <1>3, TargetGrows
<1> QED
  BY <1>2, <1>4 DEF OpeningFlights

\* The bound of NoRaceToBottom is the floor.
LEMMA AboveFloor ==
  ASSUME MarketTypeOK PROVE NoRaceToBottom <=> \A b \in Serving : fare[b] >= Floor(b)
BY FloorTyped DEF NoRaceToBottom, MarketTypeOK, Serving

\* The same of the next state.
LEMMA AboveFloorNext ==
  ASSUME MarketTypeOK' PROVE NoRaceToBottom' <=> \A b \in Serving' : fare'[b] >= Floor(b)
<1>1. \A b \in Serving' : b \in Rivals /\ fare'[b] \in Nat
  BY DEF MarketTypeOK, Serving
<1>2. ASSUME NEW b \in Serving'
      PROVE  fare'[b] >= Floor(b) <=> 10 * fare'[b] >= 9 * Least(Base, OpeningFare(b)) - 9
  <2>1. PICK price \in Nat : price = fare'[b]
    BY <1>1
  <2>2. price >= Floor(b) <=> 10 * price >= 9 * Least(Base, OpeningFare(b)) - 9
    BY <1>1, FloorTyped
  <2> QED
    BY <2>1, <2>2
<1> QED
  BY <1>2 DEF NoRaceToBottom

\* An audit leaves a flight and adds none; if it takes some, it leaves the healthy ones.
LEMMA AuditTyped ==
  ASSUME MarketTypeOK, NEW b \in Serving
  PROVE  /\ AuditedFlights(b) \in 1 .. calcMaxWeeklyFlights
         /\ AuditedFlights(b) <= flights[b]
         /\ AuditedFlights(b) < flights[b] => AuditedFlights(b) = Healthy(b, fare[b])
<1>1. /\ b \in Rivals /\ fare[b] \in Nat /\ calcMaxWeeklyFlights \in Nat
      /\ flights[b] \in 1 .. calcMaxWeeklyFlights
  BY WeekTyped DEF MarketTypeOK, Serving
<1>2. PICK healthy \in 1 .. calcMaxWeeklyFlights : healthy = Healthy(b, fare[b])
  BY <1>1, HealthyTyped
<1>3. AuditedFlights(b) = IF routePerformance(b) < 0 /\ healthy < flights[b]
                          THEN healthy ELSE flights[b]
  BY <1>2 DEF AuditedFlights
<1> QED
  BY <1>1, <1>2, <1>3

----------------------------------------------------------------------------
(* The market: the steps *)

\* The pair as it is found, with no route reviewed yet.
LEMMA OpeningInv == MarketInit => MarketInv
<1> SUFFICES ASSUME MarketInit PROVE MarketInv
  OBVIOUS
<1>1. \A b \in Rivals : /\ fare[b] = OpeningFare(b) /\ fare[b] \in Nat \ {0}
                        /\ flights[b] = OpeningFlights(b) /\ cutAt[b] = 0
  BY FloorTyped DEF MarketInit, OpeningFlights
<1>2. \A b \in Rivals : flights[b] \in 1 .. calcMaxWeeklyFlights
  BY <1>1, OpeningTyped
<1>3. calcMaxWeeklyFlights \in Nat
  BY WeekTyped
<1>4. MarketTypeOK
  BY <1>1, <1>2, <1>3, MarketConstants DEF MarketInit, MarketTypeOK, Stages, Serving
<1>5. NoRaceToBottom
  BY <1>1, <1>4, AboveFloor, FloorTyped DEF Serving
<1>6. CutHolds /\ Unserved
  BY <1>1 DEF CutHolds, Unserved
<1> QED
  BY <1>4, <1>5, <1>6 DEF MarketInv

\* What leaves the routes alone keeps what is said of them.
LEMMA RoutesStay ==
  ASSUME MarketInv, UNCHANGED <<route, fare, flights, cutAt>>,
         stage' \in [Rivals -> Stages], outsider' \in Outsiders \cup {0},
         event' \in Events \cup {Calm}, unfit' \subseteq Rivals,
         due' \subseteq Rivals, shocks' \in 0 .. MaxShocks
  PROVE  MarketInv'
<1>1. MarketTypeOK'
  BY DEF MarketInv, MarketTypeOK, Serving
<1>2. NoRaceToBottom' /\ CutHolds' /\ Unserved'
  BY DEF MarketInv, NoRaceToBottom, CutHolds, Unserved, Serving
<1> QED
  BY <1>1, <1>2 DEF MarketInv

\* The budget of shocks.
LEMMA ShockTyped == MarketTypeOK /\ Shock => shocks' \in 0 .. MaxShocks
BY MarketConstants DEF MarketTypeOK, Shock

\* An audit and a review.
LEMMA TurnKeeps ==
  ASSUME NEW b \in Rivals, MarketInv, Turn(b) PROVE MarketInv'
<1>1. CASE b \notin Serving
  <2>1. /\ UNCHANGED <<route, fare, flights, cutAt, stage, outsider, event, unfit, shocks>>
        /\ due' \subseteq Rivals
    BY <1>1 DEF Turn, outside, MarketInv, MarketTypeOK
  <2> QED
    BY <2>1, RoutesStay DEF MarketInv, MarketTypeOK
<1>2. CASE b \in Serving
  <2>1. /\ route' = route /\ stage' = stage /\ outsider' = outsider /\ shocks' = shocks
        /\ due' = due \ {b} /\ event' = event /\ unfit' = unfit
        /\ flights' = [flights EXCEPT ![b] = AuditedFlights(b)]
        /\ cutAt' = [cutAt EXCEPT ![b] = IF AuditedFlights(b) < flights[b] THEN fare[b] ELSE @]
        /\ fare' = [fare EXCEPT ![b] = botRespondPrice(b)] \/ fare' = fare
    BY <1>2 DEF Turn, outside
  <2>2. /\ fare[b] \in Nat /\ fare[b] >= 1 /\ cutAt[b] \in Nat
        /\ fare[b] >= Floor(b)
    BY <1>2, AboveFloor DEF MarketInv, MarketTypeOK
  <2>3. /\ botRespondPrice(b) \in Nat /\ botRespondPrice(b) >= 1
        /\ botRespondPrice(b) >= Floor(b)
    BY <2>2, RespondKeeps DEF MarketInv
  <2>4. /\ AuditedFlights(b) \in 1 .. calcMaxWeeklyFlights
        /\ AuditedFlights(b) <= flights[b]
        /\ AuditedFlights(b) < flights[b] => AuditedFlights(b) = Healthy(b, fare[b])
    BY <1>2, AuditTyped DEF MarketInv
  <2>5. /\ \A c \in Rivals \ {b} : /\ fare'[c] = fare[c] /\ flights'[c] = flights[c]
                                   /\ cutAt'[c] = cutAt[c]
        /\ fare'[b] \in Nat /\ fare'[b] >= 1 /\ fare'[b] >= Floor(b)
        /\ flights'[b] = AuditedFlights(b)
        /\ cutAt'[b] = IF AuditedFlights(b) < flights[b] THEN fare[b] ELSE cutAt[b]
        /\ fare' \in [Rivals -> Nat]
    BY <2>1, <2>2, <2>3 DEF MarketInv, MarketTypeOK
  <2>6. Serving' = Serving
    BY <2>1 DEF Serving
  <2>7. calcMaxWeeklyFlights \in Nat
    BY WeekTyped
  <2>8. MarketTypeOK'
    <3>1. flights' \in [Rivals -> 0 .. calcMaxWeeklyFlights]
      BY <2>1, <2>4, <2>7 DEF MarketInv, MarketTypeOK
    <3>2. cutAt' \in [Rivals -> Nat]
      BY <2>1, <2>2 DEF MarketInv, MarketTypeOK
    <3>3. \A c \in Serving' : fare'[c] > 0 /\ flights'[c] > 0
      BY <2>4, <2>5, <2>6, <2>7 DEF MarketInv, MarketTypeOK, Serving
    <3> QED
      BY <2>1, <2>5, <3>1, <3>2, <3>3 DEF MarketInv, MarketTypeOK
  <2>9. NoRaceToBottom'
    <3>1. \A c \in Serving : fare[c] >= Floor(c)
      BY AboveFloor DEF MarketInv
    <3>2. \A c \in Serving' : fare'[c] >= Floor(c)
      BY <2>5, <2>6, <3>1 DEF Serving
    <3> QED
      BY <2>8, <3>2, AboveFloorNext
  <2>10. CutHolds'
    <3>1. ASSUME NEW c \in Rivals, cutAt'[c] > 0 PROVE flights'[c] <= Healthy(c, cutAt'[c])
      <4>1. CASE c # b
        BY <2>5, <3>1, <4>1 DEF MarketInv, CutHolds
      <4>2. CASE c = b /\ AuditedFlights(b) < flights[b]
        BY <2>4, <2>5, <2>7, <4>2
      <4>3. CASE c = b /\ ~ (AuditedFlights(b) < flights[b])
        <5>1. flights[b] \in Nat
          BY <2>7 DEF MarketInv, MarketTypeOK
        <5>2. cutAt'[b] = cutAt[b] /\ flights'[b] = flights[b]
          BY <2>4, <2>5, <2>7, <4>3, <5>1
        <5> QED
          BY <3>1, <4>3, <5>2 DEF MarketInv, CutHolds
      <4> QED
        BY <4>1, <4>2, <4>3
    <3> QED
      BY <3>1 DEF CutHolds, Healthy
  <2>11. Unserved'
    BY <1>2, <2>1, <2>5 DEF MarketInv, Unserved, Serving
  <2> QED
    BY <2>8, <2>9, <2>10, <2>11 DEF MarketInv
<1> QED
  BY <1>1, <1>2

\* The cooldown of the reviews is over.
LEMMA NewRoundKeeps == MarketInv /\ NewRound => MarketInv'
BY RoutesStay DEF NewRound, outside, MarketInv, MarketTypeOK

\* The route opens at the flights a bot that is not on the pair has in the model.
LEMMA OpensKeeps ==
  ASSUME NEW b \in Rivals, MarketInv, Opens(b) PROVE MarketInv'
<1>1. /\ route[b] = "none" /\ route' = [route EXCEPT ![b] = "active"]
      /\ fare' = [fare EXCEPT ![b] = OpeningFare(b)]
      /\ flights' = [flights EXCEPT ![b] = OpeningFlights(b)]
      /\ cutAt' = cutAt /\ stage' = stage /\ outsider' = outsider /\ due' = due
      /\ event' = event /\ unfit' = unfit /\ shocks' \in 0 .. MaxShocks
  BY ShockTyped DEF Opens, outside, OpeningFlights, MarketInv
<1>2. /\ OpeningFare(b) \in Nat \ {0} /\ OpeningFare(b) >= Floor(b)
      /\ OpeningFlights(b) \in 1 .. calcMaxWeeklyFlights /\ calcMaxWeeklyFlights \in Nat
  BY FloorTyped, OpeningTyped, WeekTyped
<1>3. flights' = flights
  BY <1>1 DEF MarketInv, MarketTypeOK, Unserved
<1>4. /\ fare'[b] = OpeningFare(b) /\ flights'[b] = OpeningFlights(b)
      /\ \A c \in Rivals \ {b} : fare'[c] = fare[c] /\ route'[c] = route[c]
      /\ route'[b] = "active"
  BY <1>1 DEF MarketInv, MarketTypeOK
<1>5. Serving' = Serving \cup {b}
  BY <1>4 DEF Serving
<1>6. MarketTypeOK'
  <2>1. route' \in [Rivals -> {"none", "active", "cancelled"}]
    BY <1>1 DEF MarketInv, MarketTypeOK
  <2>2. fare' \in [Rivals -> Nat]
    BY <1>1, <1>2 DEF MarketInv, MarketTypeOK
  <2>3. \A c \in Serving' : fare'[c] > 0 /\ flights'[c] > 0
    BY <1>2, <1>3, <1>4, <1>5 DEF MarketInv, MarketTypeOK, Serving
  <2> QED
    BY <1>1, <1>3, <2>1, <2>2, <2>3 DEF MarketInv, MarketTypeOK
<1>7. NoRaceToBottom'
  <2>1. \A c \in Serving : fare[c] >= Floor(c)
    BY AboveFloor DEF MarketInv
  <2>2. \A c \in Serving' : fare'[c] >= Floor(c)
    BY <1>2, <1>4, <1>5, <2>1 DEF Serving
  <2> QED
    BY <1>6, <2>2, AboveFloorNext
<1>8. CutHolds'
  BY <1>1, <1>3 DEF MarketInv, CutHolds
<1>9. Unserved'
  BY <1>1, <1>3, <1>4 DEF MarketInv, Unserved
<1> QED
  BY <1>6, <1>7, <1>8, <1>9 DEF MarketInv

\* A route that is closed keeps its record.
LEMMA ClosesKeeps ==
  ASSUME NEW b \in Rivals, MarketInv, Closes(b) PROVE MarketInv'
<1>1. /\ route' = [route EXCEPT ![b] = "cancelled"] /\ shocks' \in 0 .. MaxShocks
      /\ UNCHANGED <<fare, flights, stage, outsider, event, unfit, due, cutAt>>
  BY ShockTyped DEF Closes, outside, MarketInv
<1>2. route'[b] = "cancelled" /\ \A c \in Rivals \ {b} : route'[c] = route[c]
  BY <1>1 DEF MarketInv, MarketTypeOK
<1>3. Serving' = Serving \ {b}
  BY <1>2 DEF Serving
<1>4. route' \in [Rivals -> {"none", "active", "cancelled"}]
  BY <1>1 DEF MarketInv, MarketTypeOK
<1>5. MarketTypeOK'
  BY <1>1, <1>3, <1>4 DEF MarketInv, MarketTypeOK
<1>6. NoRaceToBottom'
  BY <1>1, <1>3 DEF MarketInv, NoRaceToBottom
<1>7. CutHolds' /\ Unserved'
  BY <1>1, <1>2 DEF MarketInv, CutHolds, Unserved
<1> QED
  BY <1>5, <1>6, <1>7 DEF MarketInv

\* The stage of a bot and the fare of the player touch no route.
LEMMA DistressedKeeps ==
  ASSUME NEW b \in Rivals, MarketInv, Distressed(b) PROVE MarketInv'
<1>1. shocks' \in 0 .. MaxShocks
  BY ShockTyped DEF Distressed, MarketInv
<1>2. stage' \in [Rivals -> Stages]
  BY DEF Distressed, MarketInv, MarketTypeOK
<1> QED
  BY <1>1, <1>2, RoutesStay DEF Distressed, outside, MarketInv, MarketTypeOK

LEMMA PlayerKeeps == MarketInv /\ Player => MarketInv'
BY ShockTyped, RoutesStay DEF Player, outside, MarketInv, MarketTypeOK

\* Nor do an event or the wear and repair of an aircraft.
LEMMA EventsKeep == MarketInv /\ (EventBegins \/ EventEnds) => MarketInv'
BY ShockTyped, RoutesStay DEF EventBegins, EventEnds, MarketInv, MarketTypeOK

LEMMA WearKeeps ==
  ASSUME NEW b \in Rivals, MarketInv, Wears(b) \/ Repaired(b) PROVE MarketInv'
<1>1. unfit' \subseteq Rivals /\ shocks' \in 0 .. MaxShocks
  BY ShockTyped DEF Wears, Repaired, MarketInv, MarketTypeOK
<1> QED
  BY <1>1, RoutesStay DEF Wears, Repaired, MarketInv, MarketTypeOK

LEMMA MarketStays == MarketInv /\ UNCHANGED marketVars => MarketInv'
BY RoutesStay DEF marketVars, outside, MarketInv, MarketTypeOK

\* Every step.
LEMMA MarketKeeps == MarketInv /\ [MarketNext]_marketVars => MarketInv'
BY TurnKeeps, NewRoundKeeps, OpensKeeps, ClosesKeeps, DistressedKeeps, PlayerKeeps, EventsKeep,
   WearKeeps, MarketStays DEF MarketNext, Reviews

LEMMA MarketHolds == MarketSpec => []MarketInv
BY OpeningInv, MarketKeeps, PTL DEF MarketSpec

\* The records of the market keep their types, for any bots, archetypes and route: a bot
\* that serves the pair has a fare and at least one flight, and no more than its aircraft
\* can make (bots_decide.go botTargetFlights).
THEOREM MarketTypeCorrect == MarketSpec => []MarketTypeOK
<1>1. MarketInv => MarketTypeOK
  BY DEF MarketInv
<1> QED
  BY <1>1, MarketHolds, PTL

\* Undercutting, raising and drifting back, in any order of turns and with any fares of the
\* player, never take a fare below the floor (bots_decide.go:123).
THEOREM NeverToTheBottom == MarketSpec => []NoRaceToBottom
<1>1. MarketInv => NoRaceToBottom
  BY DEF MarketInv
<1> QED
  BY <1>1, MarketHolds, PTL

----------------------------------------------------------------------------
(* The market: one cut is enough *)

\* A cut at a fare no higher than that of the last one would find no more flights than
\* the demand there fills.
LEMMA CutsApart ==
  ASSUME MarketInv, [MarketNext]_marketVars, NEW b \in Rivals,
         flights'[b] \in 1 .. flights[b] - 1
  PROVE  fare[b] > cutAt[b]
<1>1. flights[b] \in Nat /\ fare[b] \in Nat /\ cutAt[b] \in Nat
  BY WeekTyped DEF MarketInv, MarketTypeOK
<1>2. flights'[b] < flights[b] /\ flights'[b] # flights[b]
  BY <1>1
<1>3. CASE Turn(b)
  <2>1. b \in Serving /\ flights'[b] = AuditedFlights(b)
    BY <1>2, <1>3 DEF Turn, MarketInv, MarketTypeOK
  <2>2. fare[b] > 0 /\ flights'[b] = Healthy(b, fare[b])
    BY <1>2, <2>1, AuditTyped DEF MarketInv, MarketTypeOK
  <2>3. SUFFICES ASSUME cutAt[b] > 0, fare[b] <= cutAt[b] PROVE FALSE
    BY <1>1, <2>2
  <2>4. flights[b] <= Healthy(b, cutAt[b])
    BY <2>3 DEF MarketInv, CutHolds
  <2>5. /\ Healthy(b, cutAt[b]) <= Healthy(b, fare[b])
        /\ Healthy(b, cutAt[b]) \in Nat /\ Healthy(b, fare[b]) \in Nat
    BY <1>1, <2>3, WeekTyped, HealthyTyped
  <2> QED
    BY <1>1, <1>2, <2>2, <2>4, <2>5
<1>4. CASE \E c \in Rivals \ {b} : Turn(c)
  BY <1>2, <1>4 DEF Turn, MarketInv, MarketTypeOK
<1>5. CASE \E c \in Rivals : Opens(c)
  <2>1. PICK c \in Rivals : Opens(c)
    BY <1>5
  <2>2. route[c] = "none" /\ flights' = [flights EXCEPT ![c] = OpeningFlights(c)]
    BY <2>1 DEF Opens, OpeningFlights
  <2> QED
    BY <1>2, <2>2 DEF MarketInv, MarketTypeOK, Unserved
<1>6. CASE \/ NewRound \/ Player \/ EventBegins \/ EventEnds \/ UNCHANGED marketVars
            \/ \E c \in Rivals : Closes(c) \/ Distressed(c) \/ Wears(c) \/ Repaired(c)
  BY <1>2, <1>6 DEF NewRound, Player, EventBegins, EventEnds, Closes, Distressed, Wears, Repaired,
                    marketVars
<1> QED
  BY <1>3, <1>4, <1>5, <1>6 DEF MarketNext, Reviews

\* An audit leaves nothing that a second one at the same or a lower fare would cut again
\* (bots.go:406-410).
THEOREM OneCutSuffices == MarketSpec => OneCutEnough
<1>1. MarketInv /\ [MarketNext]_marketVars =>
        [\A b \in Rivals : flights'[b] \in 1 .. flights[b] - 1 => fare[b] > cutAt[b]]_marketVars
  BY CutsApart
<1> QED
  BY <1>1, MarketHolds, PTL DEF MarketSpec, OneCutEnough

----------------------------------------------------------------------------
(* The market: the estimate and the bill *)

\* The multipliers are naturals.
LEMMA EventTyped ==
  /\ Calm.demand = 100 /\ Calm.capacity = 100 /\ Calm.fuel = 100 /\ Calm.maint = 100
  /\ MarketTypeOK => /\ event.demand \in Nat /\ event.capacity \in Nat
                     /\ event.fuel \in Nat /\ event.maint \in Nat
BY MarketAssumption DEF Calm, MarketTypeOK

\* A multiple of what is more is more.
LEMMA ShareGrows ==
  ASSUME NEW base \in Nat, NEW p \in Nat, NEW q \in Nat, p <= q
  PROVE  base * p \in Nat /\ base * q \in Nat /\ base * p <= base * q
<1>1. p * base <= q * base /\ p * base = base * p /\ q * base = base * q
  BY TimesGrows
<1> QED
  BY <1>1, TimesTyped

\* More seats and more demand sell no fewer tickets.
LEMMA SalesGrow ==
  ASSUME NEW capacity \in Nat, NEW flown \in Nat, NEW price \in Nat, NEW d, NEW e,
         {d.demand, d.capacity, e.demand, e.capacity} \subseteq Nat,
         d.demand <= e.demand, d.capacity <= e.capacity
  PROVE  /\ allocateCabins(capacity, flown, price, d) \in Nat
         /\ allocateCabins(capacity, flown, price, e) \in Nat
         /\ allocateCabins(capacity, flown, price, d) <= allocateCabins(capacity, flown, price, e)
<1>1. PICK seats \in Nat : seats = Nearest(capacity * flown, 70)
  <2>1. PICK offered \in Nat : offered = capacity * flown
    BY TimesTyped
  <2> QED
    BY <2>1 DEF Nearest
<1>2. PICK pool \in Nat : pool = routeDailyDemand(price)
  BY DemandFalls
<1>3. PICK s \in Nat, t \in Nat :
        s = (seats * d.capacity) \div 100 /\ t = (seats * e.capacity) \div 100 /\ s <= t
  <2>1. PICK p \in Nat, q \in Nat : p = d.capacity /\ q = e.capacity /\ p <= q
    OBVIOUS
  <2>2. /\ (seats * p) \div 100 \in Nat /\ (seats * q) \div 100 \in Nat
        /\ (seats * p) \div 100 <= (seats * q) \div 100
    <3>1. PICK x \in Nat, y \in Nat : x = seats * p /\ y = seats * q /\ x <= y
      BY <2>1, ShareGrows
    <3> QED
      BY <3>1
  <2> QED
    BY <2>1, <2>2
<1>4. PICK m \in Nat, n \in Nat :
        m = (pool * d.demand) \div 100 /\ n = (pool * e.demand) \div 100 /\ m <= n
  <2>1. PICK p \in Nat, q \in Nat : p = d.demand /\ q = e.demand /\ p <= q
    OBVIOUS
  <2>2. /\ (pool * p) \div 100 \in Nat /\ (pool * q) \div 100 \in Nat
        /\ (pool * p) \div 100 <= (pool * q) \div 100
    <3>1. PICK x \in Nat, y \in Nat : x = pool * p /\ y = pool * q /\ x <= y
      BY <2>1, ShareGrows
    <3> QED
      BY <3>1
  <2> QED
    BY <2>1, <2>2
<1>5. PICK k \in Nat, l \in Nat : k = Least(s, m) /\ l = Least(t, n) /\ k <= l
  BY <1>3, <1>4 DEF Least
<1>6. /\ allocateCabins(capacity, flown, price, d) = k * price
      /\ allocateCabins(capacity, flown, price, e) = l * price
  BY <1>1, <1>2, <1>3, <1>4, <1>5 DEF allocateCabins
<1>7. k * price \in Nat /\ l * price \in Nat /\ k * price <= l * price
  BY <1>5, TimesTyped, TimesGrows
<1> QED
  BY <1>6, <1>7

\* Dearer fuel and maintenance cost no less.
LEMMA FuelGrows ==
  ASSUME NEW flown \in Nat, NEW d, NEW e, d.fuel \in Nat, e.fuel \in Nat, d.fuel <= e.fuel
  PROVE  /\ FuelCost(flown, d) \in Nat /\ FuelCost(flown, e) \in Nat
         /\ FuelCost(flown, d) <= FuelCost(flown, e)
<1>1. PICK burnt \in Nat : burnt = flown * FuelPerFlight
  BY MarketConstants, TimesTyped
<1>2. PICK p \in Nat, q \in Nat : p = d.fuel /\ q = e.fuel /\ p <= q
  OBVIOUS
<1>3. FuelCost(flown, d) = (burnt * p) \div 1000 /\ FuelCost(flown, e) = (burnt * q) \div 1000
  BY <1>1, <1>2 DEF FuelCost
<1>4. /\ (burnt * p) \div 1000 \in Nat /\ (burnt * q) \div 1000 \in Nat
      /\ (burnt * p) \div 1000 <= (burnt * q) \div 1000
  <2>1. PICK x \in Nat, y \in Nat : x = burnt * p /\ y = burnt * q /\ x <= y
    BY <1>2, ShareGrows
  <2> QED
    BY <2>1
<1> QED
  BY <1>3, <1>4

LEMMA MaintGrows ==
  ASSUME NEW flown \in Nat, NEW d, NEW e, d.maint \in Nat, e.maint \in Nat, d.maint <= e.maint
  PROVE  /\ MaintCost(flown, d) \in Nat /\ MaintCost(flown, e) \in Nat
         /\ MaintCost(flown, d) <= MaintCost(flown, e)
<1>1. (Distance * 10) \div Speed \in Nat
  BY MarketConstants, DivTyped
<1>2. PICK worn \in Nat : worn = flown * ((Distance * 10) \div Speed) * MaintPerHour
  BY <1>1, MarketConstants, TimesTyped
<1>3. PICK p \in Nat, q \in Nat : p = d.maint /\ q = e.maint /\ p <= q
  OBVIOUS
<1>4. MaintCost(flown, d) = (worn * p) \div 10000 /\ MaintCost(flown, e) = (worn * q) \div 10000
  BY <1>2, <1>3 DEF MaintCost
<1>5. /\ (worn * p) \div 10000 \in Nat /\ (worn * q) \div 10000 \in Nat
      /\ (worn * p) \div 10000 <= (worn * q) \div 10000
  <2>1. PICK x \in Nat, y \in Nat : x = worn * p /\ y = worn * q /\ x <= y
    BY <1>3, ShareGrows
  <2> QED
    BY <2>1
<1> QED
  BY <1>4, <1>5

\* Crew and lease do not depend on events.
LEMMA CrewTyped ==
  ASSUME NEW b \in Rivals, NEW flown \in Nat PROVE CrewCost(b, flown) \in Nat
<1>1. FlightTime \in Nat /\ Capacity[b] \in Nat /\ CrewPerHour \in Nat
  BY WeekTyped, MarketConstants
<1>2. PICK size \in Nat : size = (Capacity[b] * 1000) \div 180
  BY <1>1, TimesTyped, DivTyped
<1>3. Least(Greatest((Capacity[b] * 1000) \div 180, 500), 2500) \in Nat
  BY <1>2 DEF Least, Greatest
<1>4. crewCostFor(Capacity[b]) \in Nat
  BY <1>1, <1>3, TimesTyped, DivTyped DEF crewCostFor
<1> QED
  BY <1>1, <1>4, TimesTyped, DivTyped DEF CrewCost

LEMMA LeaseTyped == \A b \in Rivals : LeaseCost(b, 7) \in Nat
BY MarketConstants, TimesTyped, DivTyped DEF LeaseCost

\* The estimate's part of a flight counts only where more flights are planned than the
\* week holds, which no bot does.
LEMMA FlightsAlike ==
  ASSUME NEW n \in Nat, n <= calcMaxWeeklyFlights
  PROVE  EstimatedFlights(n) = 10 * n /\ BilledFlights(n) = 10 * n
<1>1. PICK time \in Nat \ {0} : time = FlightTime
  BY WeekTyped
<1>2. PICK week \in Nat : week = MaxWeekly
  BY MarketConstants
<1>3. PICK most \in Nat : most = calcMaxWeeklyFlights /\ most = (week * 10) \div time
  BY <1>1, <1>2, WeekTyped DEF calcMaxWeeklyFlights
<1>4. most * time <= week * 10
  BY <1>3
<1>5. n * time <= most * time /\ n * time \in Nat
  BY <1>3, TimesGrows, TimesTyped
<1>6. (10 * n) * time <= week * 100
  <2>1. (10 * n) * time = 10 * (n * time)
    OBVIOUS
  <2> QED
    BY <1>4, <1>5, <2>1
<1>7. 10 * n <= (week * 100) \div time
  <2>1. ((10 * n) * time) \div time = 10 * n
    OBVIOUS
  <2>2. ((10 * n) * time) \div time <= (week * 100) \div time
    BY <1>6, DivGrows, TimesTyped
  <2> QED
    BY <2>1, <2>2
<1>8. PICK quotient \in Nat : quotient = (week * 100) \div time
  BY DivTyped
<1>9. EstimatedFlights(n) = Least(10 * n, quotient)
  BY <1>1, <1>2, <1>8 DEF EstimatedFlights
<1> QED
  BY <1>3, <1>7, <1>8, <1>9 DEF Least, BilledFlights

\* What is left of sales and costs is more where there is more of the one and less of the
\* other.
LEMMA ProfitGrows ==
  ASSUME NEW s \in Nat, NEW t \in Nat, NEW c \in Nat, NEW d \in Nat, NEW lease \in Nat,
         s <= t, d <= c
  PROVE  /\ 7 * s + (7 * s) \div 20 - c - lease <= 7 * t + (7 * t) \div 20 - d - lease
         /\ 7 * s + (7 * s) \div 20 - c - lease \in Int
<1>1. (7 * s) \div 20 <= (7 * t) \div 20
  OBVIOUS
<1> QED
  BY <1>1

\* An event that can only cost, and one that can only pay.
Adverse(e) ==
  /\ e.demand <= 100 /\ e.capacity <= 100
  /\ e.fuel >= 100 /\ e.maint >= 100

Favourable(e) ==
  /\ e.demand >= 100 /\ e.capacity >= 100
  /\ e.fuel <= 100 /\ e.maint <= 100

WeekBilled(b) == Billed(b, fare[b], flights[b], 7)

\* The estimate of a route that flies is off the bill of a week only to the side of the
\* event, and equal to it without one.
LEMMA EstimateErrs ==
  ASSUME MarketTypeOK, NEW b \in Serving, b \notin unfit
  PROVE  /\ WeekBilled(b) \in Int /\ routePerformance(b) \in Int
         /\ Adverse(event) => WeekBilled(b) <= routePerformance(b)
         /\ Favourable(event) => routePerformance(b) <= WeekBilled(b)
<1>1. b \in Rivals /\ Capacity[b] \in Nat
  BY MarketConstants DEF Serving
<1>2. PICK price \in Nat : price = fare[b]
  BY <1>1 DEF MarketTypeOK
<1>3. PICK n \in Nat : n = flights[b] /\ n <= calcMaxWeeklyFlights
  BY <1>1, WeekTyped DEF MarketTypeOK
<1>4. PICK flown \in Nat : flown = 10 * n
  OBVIOUS
<1>5. EstimatedFlights(n) = flown /\ BilledFlights(n) = flown
  BY <1>3, <1>4, FlightsAlike
<1>6. PICK lease \in Nat : lease = LeaseCost(b, 7)
  BY <1>1, LeaseTyped
<1>7. PICK crew \in Nat : crew = CrewCost(b, flown)
  BY <1>1, CrewTyped
<1>8. /\ {Calm.demand, Calm.capacity, event.demand, event.capacity} \subseteq Nat
      /\ {Calm.fuel, Calm.maint, event.fuel, event.maint} \subseteq Nat
  BY EventTyped
<1>9. PICK s \in Nat : s = allocateCabins(Capacity[b], flown, price, Calm)
  BY <1>1, <1>8, SalesGrow
<1>10. PICK t \in Nat : t = allocateCabins(Capacity[b], flown, price, event)
  BY <1>1, <1>8, SalesGrow
<1>11. PICK f \in Nat, m \in Nat : f = FuelCost(flown, Calm) /\ m = MaintCost(flown, Calm)
  BY <1>8, FuelGrows, MaintGrows
<1>12. PICK g \in Nat, o \in Nat : g = FuelCost(flown, event) /\ o = MaintCost(flown, event)
  BY <1>8, FuelGrows, MaintGrows
<1>13. routePerformance(b) = 7 * s + (7 * s) \div 20 - (f + crew + m) - lease
  <2>1. routePerformance(b) = 7 * s + (7 * s) \div 20 - f - crew - m - lease
    BY <1>2, <1>3, <1>5, <1>6, <1>7, <1>9, <1>11 DEF routePerformance, WeeklyProfit
  <2> QED
    BY <2>1
<1>14. WeekBilled(b) = 7 * t + (7 * t) \div 20 - (g + crew + o) - lease
  <2>1. Least(7, 7) = 7
    BY DEF Least
  <2>2. WeekBilled(b) = t * 7 + (t * 7) \div 20 - ((g + crew + o) * 7) \div 7 - lease
    BY <1>2, <1>3, <1>5, <1>6, <1>7, <1>10, <1>12, <2>1 DEF WeekBilled, Billed
  <2>3. t * 7 = 7 * t /\ ((g + crew + o) * 7) \div 7 = g + crew + o
    OBVIOUS
  <2> QED
    BY <2>2, <2>3
<1>15. ASSUME Adverse(event) PROVE t <= s /\ f + crew + m <= g + crew + o
  <2>1. /\ event.demand <= Calm.demand /\ event.capacity <= Calm.capacity
        /\ Calm.fuel <= event.fuel /\ Calm.maint <= event.maint
    BY <1>15, EventTyped DEF Adverse
  <2>2. t <= s
    BY <1>1, <1>8, <1>9, <1>10, <2>1, SalesGrow
  <2>3. f <= g /\ m <= o
    BY <1>8, <1>11, <1>12, <2>1, FuelGrows, MaintGrows
  <2> QED
    BY <2>2, <2>3
<1>16. ASSUME Favourable(event) PROVE s <= t /\ g + crew + o <= f + crew + m
  <2>1. /\ Calm.demand <= event.demand /\ Calm.capacity <= event.capacity
        /\ event.fuel <= Calm.fuel /\ event.maint <= Calm.maint
    BY <1>16, EventTyped DEF Favourable
  <2>2. s <= t
    BY <1>1, <1>8, <1>9, <1>10, <2>1, SalesGrow
  <2>3. g <= f /\ o <= m
    BY <1>8, <1>11, <1>12, <2>1, FuelGrows, MaintGrows
  <2> QED
    BY <2>2, <2>3
<1>17. PICK c \in Nat, d \in Nat : c = f + crew + m /\ d = g + crew + o
  OBVIOUS
<1> QED
  BY <1>13, <1>14, <1>15, <1>16, <1>17, ProfitGrows

\* An audit that goes by the estimate does not cut a route that is billed a profit, unless
\* an event makes it one; and where no event makes it one, it leaves no route that is
\* billed a loss more flights than it needs (bots_decide.go:209-212, "so the sign matches").
HeedsBill ==
  [][\A b \in Serving \ unfit :
       /\ flights'[b] # flights[b] /\ Adverse(event) => WeekBilled(b) < 0
       /\ Turn(b) /\ WeekBilled(b) < 0 /\ Favourable(event)
            => flights'[b] <= Healthy(b, fare[b])]_marketVars

\* The bots audit by an estimate without events, capped by a quotient that is not rounded;
\* the simulation bills with them, by whole flights.  Audits and bills agree, for any
\* events, but where the event itself is what makes the loss or the profit.
THEOREM AuditsHeedBill == MarketSpec => HeedsBill
<1> DEFINE Heeded ==
      \A b \in Serving \ unfit :
        /\ flights'[b] # flights[b] /\ Adverse(event) => WeekBilled(b) < 0
        /\ Turn(b) /\ WeekBilled(b) < 0 /\ Favourable(event)
             => flights'[b] <= Healthy(b, fare[b])
<1>1. MarketInv /\ [MarketNext]_marketVars => [Heeded]_marketVars
  <2> SUFFICES ASSUME MarketInv, MarketNext, NEW b \in Serving \ unfit
               PROVE  /\ flights'[b] # flights[b] /\ Adverse(event) => WeekBilled(b) < 0
                      /\ Turn(b) /\ WeekBilled(b) < 0 /\ Favourable(event)
                           => flights'[b] <= Healthy(b, fare[b])
    OBVIOUS
  <2>1. /\ MarketTypeOK /\ b \in Rivals /\ b \in Serving
        /\ WeekBilled(b) \in Int /\ routePerformance(b) \in Int
        /\ Adverse(event) => WeekBilled(b) <= routePerformance(b)
        /\ Favourable(event) => routePerformance(b) <= WeekBilled(b)
    BY EstimateErrs DEF MarketInv, Serving
  <2>2. PICK healthy \in Nat : healthy = Healthy(b, fare[b])
    BY <2>1, HealthyTyped, WeekTyped DEF MarketTypeOK
  <2>3. flights[b] \in Nat
    BY <2>1, WeekTyped DEF MarketTypeOK
  <2>4. AuditedFlights(b) = IF routePerformance(b) < 0 /\ healthy < flights[b]
                            THEN healthy ELSE flights[b]
    BY <2>2 DEF AuditedFlights
  <2>5. CASE Turn(b)
    <3>1. flights'[b] = AuditedFlights(b)
      BY <2>1, <2>5 DEF Turn, MarketTypeOK
    <3>2. PICK audited : audited = AuditedFlights(b)
      OBVIOUS
    <3> QED
      BY <2>1, <2>2, <2>3, <2>4, <3>1, <3>2
  <2>6. CASE flights'[b] = flights[b] /\ ~ Turn(b)
    BY <2>6
  <2>7. CASE \E c \in Rivals \ {b} : Turn(c)
    <3>1. flights'[b] = flights[b]
      BY <2>1, <2>7 DEF Turn, MarketTypeOK
    <3> QED
      BY <2>5, <2>6, <3>1
  <2>8. CASE \E c \in Rivals : Opens(c)
    <3>1. flights' = flights
      BY <2>8 DEF Opens, OpeningFlights, MarketInv, MarketTypeOK, Unserved
    <3> QED
      BY <2>5, <2>6, <3>1
  <2>9. CASE \/ NewRound \/ Player \/ EventBegins \/ EventEnds
             \/ \E c \in Rivals : Closes(c) \/ Distressed(c) \/ Wears(c) \/ Repaired(c)
    <3>1. flights' = flights
      BY <2>9 DEF NewRound, Player, EventBegins, EventEnds, Closes, Distressed, Wears, Repaired
    <3> QED
      BY <2>5, <2>6, <3>1
  <2> QED
    BY <2>5, <2>7, <2>8, <2>9 DEF MarketNext, Reviews
<1> QED
  BY <1>1, MarketHolds, PTL DEF MarketSpec, HeedsBill

----------------------------------------------------------------------------
(* The market: no fare beyond the dearest *)

\* No archetype's own fare, nor any of the player's, is above cap, which is at least
\* the least fare that a bot answers with.
Ceils(cap) ==
  /\ cap >= 90
  /\ \A b \in Rivals : PriceMult[b] <= cap /\ (PriceMult[b] * Adjustment[b]) \div 100 <= cap
  /\ \A price \in Outsiders : price <= cap

FaresBelow(cap) == \A b \in Rivals : fare[b] <= cap

\* The number of the units of fares up to cap is no more than cap for each.
LEMMA AverageBelow ==
  ASSUME NEW cap \in Nat, NEW others, IsFiniteSet(others),
         \A other \in others : other[2] \in Nat /\ other[2] <= cap
  PROVE  AverageFare(others) <= cap
<1> DEFINE units == UNION {{other} \X (1 .. other[2]) : other \in others}
<1>1. units \subseteq others \X (1 .. cap)
  <2>1. ASSUME NEW other \in others, NEW n \in 1 .. other[2] PROVE n \in 1 .. cap
    <3>1. PICK m \in Nat : m = other[2] /\ m <= cap
      OBVIOUS
    <3> QED
      BY <3>1
  <2> QED
    BY <2>1
<1> HIDE DEF units
<1>2. IsFiniteSet(1 .. cap) /\ Cardinality(1 .. cap) = cap
  <2>1. IsFiniteSet(1 .. cap) /\ Cardinality(1 .. cap) = IF 1 > cap THEN 0 ELSE cap - 1 + 1
    BY FS_Interval
  <2> QED
    BY <2>1
<1>3. PICK size \in Nat : size = Cardinality(others)
  BY FS_CardinalityType
<1>4. /\ IsFiniteSet(others \X (1 .. cap))
      /\ Cardinality(others \X (1 .. cap)) = size * cap
  BY <1>2, <1>3, FS_Product
<1>5. PICK total \in Nat : total = TotalFare(others) /\ total <= size * cap
  <2>1. IsFiniteSet(units) /\ Cardinality(units) <= size * cap /\ Cardinality(units) \in Nat
    BY <1>1, <1>4, FS_Subset, FS_CardinalityType
  <2> QED
    BY <2>1 DEF TotalFare, units
<1>6. CASE others = {}
  BY <1>6 DEF AverageFare
<1>7. CASE others # {}
  <2>1. size \in Nat \ {0}
    BY <1>3, <1>7, FS_EmptySet
  <2>2. (size * cap) \div size = cap
    BY <2>1
  <2>3. total \div size <= (size * cap) \div size
    BY <1>5, <2>1, TimesTyped, DivGrows
  <2> QED
    BY <1>3, <1>5, <1>7, <2>2, <2>3 DEF AverageFare
<1> QED
  BY <1>6, <1>7

LEMMA OwnFareBelow ==
  ASSUME MarketTypeOK, NEW b \in Rivals, NEW cap \in Nat, Ceils(cap)
  PROVE  OwnFare(b) <= cap
<1>1. PICK mult \in Nat : mult = PriceMult[b] /\ mult <= cap
  BY MarketConstants DEF Ceils
<1>2. PICK adj \in Nat : /\ adj <= 98 \/ adj = Adjustment[b]
                         /\ OwnFare(b) = (Base * PriceMult[b] * adj) \div 10000
  BY MarketConstants DEF OwnFare
<1>3. PICK scaled \in Nat : scaled = mult * adj
  BY TimesTyped
<1>4. OwnFare(b) = scaled \div 100
  <2>1. Base * PriceMult[b] * adj = 100 * (mult * adj)
    BY <1>1, <1>2 DEF Base
  <2>2. (100 * scaled) \div 10000 = scaled \div 100
    OBVIOUS
  <2> QED
    BY <1>2, <1>3, <2>1, <2>2
<1>5. CASE adj <= 98
  <2>1. adj * mult <= 98 * mult /\ adj * mult = mult * adj
    BY <1>5, TimesGrows
  <2> QED
    BY <1>1, <1>3, <1>4, <2>1
<1>6. CASE adj = Adjustment[b]
  BY <1>1, <1>3, <1>4, <1>6 DEF Ceils
<1> QED
  BY <1>2, <1>5, <1>6

LEMMA RespondBelow ==
  ASSUME MarketTypeOK, NEW b \in Rivals, NEW cap \in Nat, Ceils(cap), FaresBelow(cap)
  PROVE  botRespondPrice(b) <= cap
<1>1. \A other \in Competitors(b) : other[2] \in Nat /\ other[2] <= cap
  <2>1. \A c \in Rivals : fare[c] <= cap
    BY DEF FaresBelow
  <2>2. outsider <= cap
    BY DEF MarketTypeOK, Ceils
  <2>3. \A other \in Competitors(b) :
          other[2] = outsider \/ \E c \in Rivals : other[2] = fare[c]
    BY DEF Competitors, Serving
  <2> QED
    BY <2>1, <2>2, <2>3, CompetitorsTyped
<1>2. PICK average \in Nat : average = AverageFare(Competitors(b)) /\ average <= cap
  BY <1>1, CompetitorsTyped, AverageTyped, AverageBelow
<1>3. PICK price \in Nat : price = fare[b] /\ price <= cap
  BY DEF MarketTypeOK, FaresBelow
<1>4. PICK own \in Nat : own = OwnFare(b) /\ own <= cap
  BY OwnFareTyped, OwnFareBelow
<1>5. CASE Undercut(b)
  <2>1. PICK target \in Nat : target = UndercutTarget(average) /\ target <= cap
    <3>1. PICK below \in Nat : below = (average * 98) \div 100 /\ below <= cap
      BY <1>2
    <3>2. (100 * 9) \div 10 = 90
      OBVIOUS
    <3>3. UndercutTarget(average) = Greatest(below, 90)
      BY <3>1, <3>2 DEF UndercutTarget, Base
    <3> QED
      BY <3>1, <3>3 DEF Greatest, Ceils
  <2>2. botRespondPrice(b) = Nearest(price * 35 + target * 65, 100)
    BY <1>2, <1>3, <1>5, <2>1 DEF botRespondPrice
  <2>3. Nearest(price * 35 + target * 65, 100) <= cap
    BY <1>3, <2>1 DEF Nearest
  <2> QED
    BY <2>2, <2>3
<1>6. CASE ~ Undercut(b) /\ average > 0 /\ 100 * price < average * (100 - Threshold)
  <2>1. PICK target \in Nat : target = (average * 99) \div 100 /\ target <= cap
    BY <1>2
  <2>2. botRespondPrice(b) = Nearest(price * 70 + target * 30, 100)
    BY <1>2, <1>3, <1>6, <2>1 DEF botRespondPrice
  <2>3. Nearest(price * 70 + target * 30, 100) <= cap
    BY <1>3, <2>1 DEF Nearest
  <2> QED
    BY <2>2, <2>3
<1>7. CASE ~ Undercut(b) /\ ~ (average > 0 /\ 100 * price < average * (100 - Threshold))
  <2>1. botRespondPrice(b) = Nearest(price * 55 + own * 45, 100)
    BY <1>2, <1>3, <1>4, <1>7 DEF botRespondPrice
  <2>2. Nearest(price * 55 + own * 45, 100) <= cap
    BY <1>3, <1>4 DEF Nearest
  <2> QED
    BY <2>1, <2>2
<1> QED
  BY <1>5, <1>6, <1>7

LEMMA BelowKept ==
  ASSUME MarketTypeOK, [MarketNext]_marketVars, NEW cap \in Nat, Ceils(cap), FaresBelow(cap)
  PROVE  FaresBelow(cap)'
<1>1. ASSUME NEW b \in Rivals, Turn(b) PROVE FaresBelow(cap)'
  <2>1. fare' = [fare EXCEPT ![b] = botRespondPrice(b)] \/ fare' = fare
    BY <1>1 DEF Turn
  <2> QED
    BY <2>1, RespondBelow DEF FaresBelow, MarketTypeOK
<1>2. ASSUME NEW b \in Rivals, Opens(b) PROVE FaresBelow(cap)'
  <2>1. fare' = [fare EXCEPT ![b] = OpeningFare(b)] /\ OpeningFare(b) <= cap
    BY <1>2, FloorTyped DEF Opens, Ceils
  <2> QED
    BY <2>1 DEF FaresBelow, MarketTypeOK
<1>3. CASE fare' = fare
  BY <1>3 DEF FaresBelow
<1> QED
  BY <1>1, <1>2, <1>3
  DEF MarketNext, Reviews, NewRound, Closes, Distressed, Player, EventBegins, EventEnds, Wears,
      Repaired, marketVars

\* Nor do bots that follow each other's fares ever ask more than the dearest of the
\* archetypes' own fares and of the player's (bots_decide.go:104-136).
THEOREM NeverBeyondTheDearest ==
  ASSUME NEW cap \in Nat, Ceils(cap)
  PROVE  MarketSpec => []FaresBelow(cap)
<1>1. MarketInit => FaresBelow(cap)
  BY FloorTyped DEF MarketInit, FaresBelow, Ceils
<1>2. MarketTypeOK /\ FaresBelow(cap) /\ [MarketNext]_marketVars => FaresBelow(cap)'
  BY BelowKept
<1> QED
  BY <1>1, <1>2, MarketTypeCorrect, PTL DEF MarketSpec
=============================================================================
