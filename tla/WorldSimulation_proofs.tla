---------------------- MODULE WorldSimulation_proofs ----------------------
(***************************************************************************)
(* Proofs about WorldSimulation, for every set of players and callers and   *)
(* every bound.  The argument is one inductive invariant, IInv: a running   *)
(* tick holds tickMu (TicksExclude), clocks never pass the season           *)
(* (ClocksBounded), and an open window still starts at its player's clock,  *)
(* unless a reset has moved that clock to or past its end (WindowsFit).     *)
(* DInv adds the day boundaries that are due, and who they are due for.     *)
(***************************************************************************)
EXTENDS WorldSimulation, TLAPS

InTick == {"advance", "snapshot", "next"}
InPlayer == {"lock", "bill", "check", "bankrupt", "boundary", "readCash",
             "count", "recount", "expire"}

\* tickMu keeps two runs of WorldTick apart.
TicksExclude ==
  /\ \A c \in Ticks : pc[c] # "idle" => tickMu = c
  /\ \A c \in Callers : pc[c] \in InTick => c \in Ticks
  /\ \A c \in Callers : pc[c] = "advance" => season < MaxTime

CallersBusy == \A c \in Callers : pc[c] \in InPlayer => player[c] \in Players

ClocksBounded ==
  /\ \A p \in Players : start[p] <= clock[p] /\ clock[p] <= season
  /\ \A c \in Callers : target[c] <= season

WindowFits(c, p) ==
  /\ userLock[p] = c
  /\ from[c] < target[c]
  /\ seen[c] <= epoch[p]
  /\ IF seen[c] = epoch[p] THEN from[c] = clock[p] ELSE target[c] <= clock[p]

WindowsFit == \A c \in Callers : pc[c] = "bill" => WindowFits(c, player[c])

IInv ==
  /\ TypeOK
  /\ TicksExclude
  /\ CallersBusy
  /\ ClocksBounded
  /\ WindowsFit
  /\ BilledOnce

----------------------------------------------------------------------------
\* A registered player starts at the season's clock, with nothing billed.
LEMMA InitIInv == Init => IInv
BY SimulationAssumption
DEF Init, IInv, TypeOK, TicksExclude, CallersBusy, ClocksBounded, WindowsFit,
    BilledOnce, Callers, Places, InTick, InPlayer, Times, Spans

\* Every variable keeps its type.
LEMMA TypeStep == IInv /\ [Next]_vars => TypeOK'
<1> SUFFICES ASSUME IInv, [Next]_vars PROVE TypeOK'
  OBVIOUS
<1> USE SimulationAssumption
    DEF IInv, TypeOK, Callers, Places, InTick, InPlayer, Step, db, locks,
        locals, life
<1>1. ASSUME NEW c \in Callers, StartTick(c) PROVE TypeOK'
  BY <1>1 DEF StartTick
<1>2. ASSUME NEW c \in Callers, StartSync(c) PROVE TypeOK'
  BY <1>2 DEF StartSync
<1>3. ASSUME NEW c \in Callers, AdvanceSeason(c) PROVE TypeOK'
  BY <1>3 DEF AdvanceSeason, TicksExclude, Times
<1>4. ASSUME NEW c \in Callers, SelectPlayers(c) PROVE TypeOK'
  BY <1>4 DEF SelectPlayers
<1>5. ASSUME NEW c \in Callers, NextPlayer(c) PROVE TypeOK'
  BY <1>5 DEF NextPlayer
<1>6. ASSUME NEW c \in Callers, FinishTick(c) PROVE TypeOK'
  BY <1>6 DEF FinishTick
<1>7. ASSUME NEW c \in Callers, AlreadyThere(c) PROVE TypeOK'
  BY <1>7 DEF AlreadyThere, Return
<1>8. ASSUME NEW c \in Callers, OpenWindow(c) PROVE TypeOK'
  BY <1>8 DEF OpenWindow, CallersBusy
<1>9. ASSUME NEW c \in Callers, CommitWindow(c) PROVE TypeOK'
  <2>1. player[c] \in Players
    BY <1>9 DEF CommitWindow, CallersBusy
  <2>2. balance' \in [Players -> Int]
    BY <1>9, <2>1 DEF CommitWindow
  <2>3. clock' \in [Players -> Times]
    BY <1>9, <2>1 DEF CommitWindow, AdvancedClock
  <2>4. billed' \in [Players -> [Spans -> Nat]]
    BY <1>9, <2>1 DEF CommitWindow
  <2> QED
    BY <1>9, <2>1, <2>2, <2>3, <2>4 DEF CommitWindow, Fault, Return
<1>10. ASSUME NEW c \in Callers, CheckCash(c) PROVE TypeOK'
  BY <1>10 DEF CheckCash, CallersBusy, AfterCheck, Return
<1>11. ASSUME NEW c \in Callers, BankruptOnCash(c) PROVE TypeOK'
  BY <1>11 DEF BankruptOnCash, Bankrupt, CallersBusy, AfterCheck, Return
<1>12. ASSUME NEW c \in Callers, ServeDay(c) PROVE TypeOK'
  <2>1. player[c] \in Players
    BY <1>12 DEF ServeDay, CallersBusy
  <2>2. Day(target[c]) \in Days
    BY DEF Days
  <2>3. served' \in [Players -> [Days -> Nat]]
    BY <1>12, <2>1, <2>2 DEF ServeDay
  <2>4. balance' \in [Players -> Int]
    BY <1>12, <2>1 DEF ServeDay
  <2> QED
    BY <1>12, <2>3, <2>4 DEF ServeDay
<1>13. ASSUME NEW c \in Callers, ReadDayCash(c) PROVE TypeOK'
  BY <1>13 DEF ReadDayCash, CallersBusy
<1>14. ASSUME NEW c \in Callers, CountDay(c) PROVE TypeOK'
  BY <1>14 DEF CountDay, CallersBusy, Return
<1>22. ASSUME NEW c \in Callers, RecountDays(c) PROVE TypeOK'
  BY <1>22 DEF RecountDays, Return
<1>15. ASSUME NEW c \in Callers, BankruptOnDays(c) PROVE TypeOK'
  BY <1>15 DEF BankruptOnDays, Bankrupt, Return
<1>16. ASSUME NEW c \in Callers, AbortTick(c) PROVE TypeOK'
  BY <1>16 DEF AbortTick, Fault
<1>23. ASSUME NEW c \in Callers, LosePlayers(c) PROVE TypeOK'
  BY <1>23 DEF LosePlayers, Fault
<1>24. ASSUME NEW c \in Callers, Panic(c) PROVE TypeOK'
  BY <1>24 DEF Panic, Fault
<1>17. ASSUME NEW c \in Callers, RollBack(c) PROVE TypeOK'
  <2>1. player[c] \in Players
    BY <1>17 DEF RollBack, CallersBusy
  <2>2. userLock' \in [Players -> Callers \cup {Nobody}]
    BY <1>17, <2>1 DEF RollBack
  <2>3. pc' \in [Callers -> Places]
    BY <1>17 DEF RollBack, Return
  <2> QED
    BY <1>17, <2>2, <2>3 DEF RollBack, Fault
<1>18. ASSUME NEW c \in Callers, SkipAfterCommit(c) PROVE TypeOK'
  BY <1>18 DEF SkipAfterCommit, Fault, AfterCheck, Return
<1>19. ASSUME NEW p \in Players, Reset(p) PROVE TypeOK'
  BY <1>19 DEF Reset
<1>20. CASE Crash
  BY <1>20 DEF Crash, Fault
<1>21. CASE UNCHANGED vars
  BY <1>21 DEF vars
<1> QED
  BY <1>1, <1>2, <1>3, <1>4, <1>5, <1>6, <1>7, <1>8, <1>9, <1>10, <1>11, <1>12,
     <1>13, <1>14, <1>15, <1>16, <1>17, <1>18, <1>19, <1>20, <1>21, <1>22,
     <1>23, <1>24
  DEF Next, Tick, ProcessPlayer, Failure

\* The mutex, the players being processed and the order of the clocks.
LEMMA ControlStep ==
  IInv /\ [Next]_vars => TicksExclude' /\ CallersBusy' /\ ClocksBounded'
<1> SUFFICES ASSUME IInv, [Next]_vars
             PROVE  TicksExclude' /\ CallersBusy' /\ ClocksBounded'
  OBVIOUS
<1> DEFINE Goal == TicksExclude' /\ CallersBusy' /\ ClocksBounded'
<1> USE SimulationAssumption
    DEF IInv, TypeOK, TicksExclude, CallersBusy, ClocksBounded, Callers, Places,
        InTick, InPlayer, Times, Step, db, locks, locals, life
<1>1. ASSUME NEW c \in Callers, StartTick(c) PROVE Goal
  BY <1>1 DEF StartTick
<1>2. ASSUME NEW c \in Callers, StartSync(c) PROVE Goal
  BY <1>2 DEF StartSync
<1>3. ASSUME NEW c \in Callers, AdvanceSeason(c) PROVE Goal
  <2>1. c \in Ticks /\ \A d \in Callers : pc[d] = "advance" => d = c
    BY <1>3 DEF AdvanceSeason
  <2>2. season' = season + 1 /\ season \in Nat
    BY <1>3 DEF AdvanceSeason
  <2>3. TicksExclude'
    BY <1>3, <2>1 DEF AdvanceSeason
  <2>4. CallersBusy'
    BY <1>3 DEF AdvanceSeason
  <2>5. ClocksBounded'
    BY <1>3, <2>2 DEF AdvanceSeason
  <2> QED
    BY <2>3, <2>4, <2>5
<1>4. ASSUME NEW c \in Callers, SelectPlayers(c) PROVE Goal
  BY <1>4 DEF SelectPlayers
<1>5. ASSUME NEW c \in Callers, NextPlayer(c) PROVE Goal
  BY <1>5 DEF NextPlayer
<1>6. ASSUME NEW c \in Callers, FinishTick(c) PROVE Goal
  BY <1>6 DEF FinishTick
<1>7. ASSUME NEW c \in Callers, AlreadyThere(c) PROVE Goal
  BY <1>7 DEF AlreadyThere, Return
<1>8. ASSUME NEW c \in Callers, OpenWindow(c) PROVE Goal
  BY <1>8 DEF OpenWindow
<1>9. ASSUME NEW c \in Callers, CommitWindow(c) PROVE Goal
  <2>1. /\ pc' = [pc EXCEPT ![c] = pc'[c]]
        /\ pc'[c] \in {"check", "next", "idle"}
        /\ pc'[c] = "next" => c \in Ticks
        /\ pc[c] = "bill"
        /\ UNCHANGED <<season, tickMu, player, target, start>>
    BY <1>9 DEF CommitWindow, Return
  <2>2. TicksExclude' /\ CallersBusy'
    BY <2>1
  <2>3. ClocksBounded'
    BY <1>9, <2>1 DEF CommitWindow, AdvancedClock
  <2> QED
    BY <2>2, <2>3
<1>10. ASSUME NEW c \in Callers, CheckCash(c) PROVE Goal
  BY <1>10 DEF CheckCash, AfterCheck, Return
<1>11. ASSUME NEW c \in Callers, BankruptOnCash(c) PROVE Goal
  BY <1>11 DEF BankruptOnCash, Bankrupt, AfterCheck, Return
<1>12. ASSUME NEW c \in Callers, ServeDay(c) PROVE Goal
  BY <1>12 DEF ServeDay
<1>13. ASSUME NEW c \in Callers, ReadDayCash(c) PROVE Goal
  BY <1>13 DEF ReadDayCash
<1>14. ASSUME NEW c \in Callers, CountDay(c) PROVE Goal
  BY <1>14 DEF CountDay, Return
<1>22. ASSUME NEW c \in Callers, RecountDays(c) PROVE Goal
  BY <1>22 DEF RecountDays, Return
<1>15. ASSUME NEW c \in Callers, BankruptOnDays(c) PROVE Goal
  BY <1>15 DEF BankruptOnDays, Bankrupt, Return
<1>16. ASSUME NEW c \in Callers, AbortTick(c) PROVE Goal
  BY <1>16 DEF AbortTick, Fault
<1>23. ASSUME NEW c \in Callers, LosePlayers(c) PROVE Goal
  BY <1>23 DEF LosePlayers, Fault
<1>24. ASSUME NEW c \in Callers, Panic(c) PROVE Goal
  BY <1>24 DEF Panic, Fault
<1>17. ASSUME NEW c \in Callers, RollBack(c) PROVE Goal
  BY <1>17 DEF RollBack, Fault, Return
<1>18. ASSUME NEW c \in Callers, SkipAfterCommit(c) PROVE Goal
  BY <1>18 DEF SkipAfterCommit, Fault, AfterCheck, Return
<1>19. ASSUME NEW p \in Players, Reset(p) PROVE Goal
  BY <1>19 DEF Reset
<1>20. CASE Crash
  BY <1>20 DEF Crash, Fault
<1>21. CASE UNCHANGED vars
  BY <1>21 DEF vars
<1> QED
  BY <1>1, <1>2, <1>3, <1>4, <1>5, <1>6, <1>7, <1>8, <1>9, <1>10, <1>11, <1>12,
     <1>13, <1>14, <1>15, <1>16, <1>17, <1>18, <1>19, <1>20, <1>21, <1>22,
     <1>23, <1>24
  DEF Next, Tick, ProcessPlayer, Failure

\* Steps that touch neither an open window nor what it was opened on.
LEMMA WindowsKept ==
  ASSUME IInv,
         UNCHANGED <<clock, epoch, start, billed>>,
         \A c \in Callers : pc'[c] = "bill" =>
           /\ pc[c] = "bill"
           /\ userLock'[player[c]] = c
           /\ UNCHANGED <<player[c], target[c], from[c], seen[c]>>
  PROVE  WindowsFit' /\ BilledOnce'
BY DEF IInv, WindowsFit, WindowFits, BilledOnce

\* An open window still starts at the player's clock, so its commit bills no
\* hour a second time.
LEMMA BillingStep == IInv /\ [Next]_vars => WindowsFit' /\ BilledOnce'
<1> SUFFICES ASSUME IInv, [Next]_vars PROVE WindowsFit' /\ BilledOnce'
  OBVIOUS
<1> USE SimulationAssumption DEF Callers, Step, db, locks, locals, life
<1>t. TypeOK
  BY DEF IInv
<1>w. \A c \in Callers : pc[c] = "bill" =>
        userLock[player[c]] = c /\ player[c] \in Players
  BY DEF IInv, WindowsFit, WindowFits, CallersBusy, InPlayer
<1>1. ASSUME NEW c \in Callers, StartTick(c) PROVE WindowsFit' /\ BilledOnce'
  BY <1>1, <1>t, <1>w, WindowsKept DEF StartTick, TypeOK
<1>2. ASSUME NEW c \in Callers, StartSync(c) PROVE WindowsFit' /\ BilledOnce'
  BY <1>2, <1>t, <1>w, WindowsKept DEF StartSync, TypeOK
<1>3. ASSUME NEW c \in Callers, AdvanceSeason(c)
      PROVE  WindowsFit' /\ BilledOnce'
  BY <1>3, <1>t, <1>w, WindowsKept DEF AdvanceSeason, TypeOK
<1>4. ASSUME NEW c \in Callers, SelectPlayers(c)
      PROVE  WindowsFit' /\ BilledOnce'
  BY <1>4, <1>t, <1>w, WindowsKept DEF SelectPlayers, TypeOK
<1>5. ASSUME NEW c \in Callers, NextPlayer(c) PROVE WindowsFit' /\ BilledOnce'
  BY <1>5, <1>t, <1>w, WindowsKept DEF NextPlayer, TypeOK
<1>6. ASSUME NEW c \in Callers, FinishTick(c) PROVE WindowsFit' /\ BilledOnce'
  BY <1>6, <1>t, <1>w, WindowsKept DEF FinishTick, TypeOK
<1>7. ASSUME NEW c \in Callers, AlreadyThere(c)
      PROVE  WindowsFit' /\ BilledOnce'
  BY <1>7, <1>t, <1>w, WindowsKept DEF AlreadyThere, Return, TypeOK
<1>8. ASSUME NEW c \in Callers, OpenWindow(c) PROVE WindowsFit' /\ BilledOnce'
  <2>1. player[c] \in Players
    BY <1>8 DEF OpenWindow, IInv, CallersBusy, InPlayer
  <2>2. ASSUME NEW d \in Callers, pc'[d] = "bill"
        PROVE  WindowFits(d, player[d])'
    <3>1. CASE d = c
      BY <1>8, <1>t, <2>1, <3>1 DEF OpenWindow, WindowFits, TypeOK, Times
    <3>2. CASE d # c
      BY <1>8, <1>t, <1>w, <2>1, <2>2, <3>2
      DEF OpenWindow, WindowFits, IInv, WindowsFit, TypeOK
    <3> QED
      BY <3>1, <3>2
  <2>3. BilledOnce'
    BY <1>8 DEF OpenWindow, IInv, BilledOnce
  <2> QED
    BY <2>2, <2>3 DEF WindowsFit
<1>9. ASSUME NEW c \in Callers, CommitWindow(c)
      PROVE  WindowsFit' /\ BilledOnce'
  <2> DEFINE p == player[c]
  <2>1. p \in Players /\ pc[c] = "bill" /\ WindowFits(c, p)
    BY <1>9, <1>w DEF CommitWindow, IInv, WindowsFit
  <2>2. ASSUME NEW d \in Callers, pc'[d] = "bill"
        PROVE  WindowFits(d, player[d])'
    <3>1. d # c /\ pc[d] = "bill"
      BY <1>9, <1>t, <2>2 DEF CommitWindow, Return, TypeOK
    <3>2. player[d] # p
      BY <1>w, <2>1, <3>1
    <3> QED
      BY <1>9, <1>t, <1>w, <2>1, <3>1, <3>2
      DEF CommitWindow, WindowFits, IInv, WindowsFit, TypeOK
  <2>3. ASSUME NEW q \in Players, NEW t \in Spans
        PROVE  billed'[q][t] =
                 IF start'[q] <= t /\ t < clock'[q] THEN 1 ELSE 0
    <3>1. billed[q][t] = IF start[q] <= t /\ t < clock[q] THEN 1 ELSE 0
      BY DEF IInv, BilledOnce
    <3>2. CASE q # p
      BY <1>9, <1>t, <2>1, <3>1, <3>2 DEF CommitWindow, TypeOK
    <3>3. CASE q = p /\ seen[c] # epoch[p]
      BY <1>9, <1>t, <2>1, <3>1, <3>3
      DEF CommitWindow, AdvancedClock, WindowFits, TypeOK, Times
    <3>4. CASE q = p /\ seen[c] = epoch[p]
      <4>1. clock'[p] = target[c] /\ from[c] = clock[p] /\ from[c] < target[c]
        BY <1>9, <1>t, <2>1, <3>4
        DEF CommitWindow, AdvancedClock, WindowFits, TypeOK, Times
      <4>2. billed'[p][t] = billed[p][t] + IF t \in Window(c) THEN 1 ELSE 0
        BY <1>9, <1>t, <2>1, <3>4 DEF CommitWindow, TypeOK
      <4>3. start'[p] = start[p] /\ start[p] <= clock[p]
        BY <1>9, <2>1 DEF CommitWindow, IInv, ClocksBounded
      <4>4. t \in Int /\ start[p] \in Int /\ clock[p] \in Int /\ target[c] \in Int
        BY <1>t, <2>1 DEF TypeOK, Times, Spans
      <4>5. t \in Window(c) <=> clock[p] <= t /\ t < target[c]
        BY <4>1 DEF Window
      <4>6. billed[p][t] = IF start[p] <= t /\ t < clock[p] THEN 1 ELSE 0
        BY <3>1, <3>4
      <4>7. billed'[p][t] = IF start'[p] <= t /\ t < clock'[p] THEN 1 ELSE 0
        BY <4>1, <4>2, <4>3, <4>4, <4>5, <4>6
      <4> QED
        BY <3>4, <4>7
    <3> QED
      BY <3>2, <3>3, <3>4
  <2> QED
    BY <2>2, <2>3 DEF WindowsFit, BilledOnce
<1>10. ASSUME NEW c \in Callers, CheckCash(c) PROVE WindowsFit' /\ BilledOnce'
  BY <1>10, <1>t, <1>w, WindowsKept DEF CheckCash, AfterCheck, Return, TypeOK
<1>11. ASSUME NEW c \in Callers, BankruptOnCash(c)
       PROVE  WindowsFit' /\ BilledOnce'
  BY <1>11, <1>t, <1>w, WindowsKept
  DEF BankruptOnCash, Bankrupt, AfterCheck, Return, TypeOK
<1>12. ASSUME NEW c \in Callers, ServeDay(c) PROVE WindowsFit' /\ BilledOnce'
  BY <1>12, <1>t, <1>w, WindowsKept DEF ServeDay, TypeOK
<1>13. ASSUME NEW c \in Callers, ReadDayCash(c)
       PROVE  WindowsFit' /\ BilledOnce'
  BY <1>13, <1>t, <1>w, WindowsKept DEF ReadDayCash, TypeOK
<1>14. ASSUME NEW c \in Callers, CountDay(c) PROVE WindowsFit' /\ BilledOnce'
  BY <1>14, <1>t, <1>w, WindowsKept DEF CountDay, Return, TypeOK
<1>22. ASSUME NEW c \in Callers, RecountDays(c)
       PROVE  WindowsFit' /\ BilledOnce'
  BY <1>22, <1>t, <1>w, WindowsKept DEF RecountDays, Return, TypeOK
<1>15. ASSUME NEW c \in Callers, BankruptOnDays(c)
       PROVE  WindowsFit' /\ BilledOnce'
  BY <1>15, <1>t, <1>w, WindowsKept DEF BankruptOnDays, Bankrupt, Return, TypeOK
<1>16. ASSUME NEW c \in Callers, AbortTick(c) PROVE WindowsFit' /\ BilledOnce'
  BY <1>16, <1>t, <1>w, WindowsKept DEF AbortTick, TypeOK
<1>23. ASSUME NEW c \in Callers, LosePlayers(c)
       PROVE  WindowsFit' /\ BilledOnce'
  BY <1>23, <1>t, <1>w, WindowsKept DEF LosePlayers, TypeOK
<1>24. ASSUME NEW c \in Callers, Panic(c) PROVE WindowsFit' /\ BilledOnce'
  BY <1>24, <1>t, <1>w, WindowsKept DEF Panic, TypeOK
<1>17. ASSUME NEW c \in Callers, RollBack(c) PROVE WindowsFit' /\ BilledOnce'
  BY <1>17, <1>t, <1>w, WindowsKept DEF RollBack, Return, TypeOK
<1>18. ASSUME NEW c \in Callers, SkipAfterCommit(c)
       PROVE  WindowsFit' /\ BilledOnce'
  BY <1>18, <1>t, <1>w, WindowsKept DEF SkipAfterCommit, AfterCheck, Return, TypeOK
<1>19. ASSUME NEW p \in Players, Reset(p) PROVE WindowsFit' /\ BilledOnce'
  <2>1. ASSUME NEW d \in Callers, pc'[d] = "bill"
        PROVE  WindowFits(d, player[d])'
    <3>1. pc[d] = "bill" /\ WindowFits(d, player[d]) /\ target[d] <= season
      BY <1>19, <2>1 DEF Reset, IInv, WindowsFit, ClocksBounded
    <3> QED
      BY <1>19, <1>t, <1>w, <3>1 DEF Reset, WindowFits, TypeOK, Times
  <2>2. ASSUME NEW q \in Players, NEW t \in Spans
        PROVE  billed'[q][t] =
                 IF start'[q] <= t /\ t < clock'[q] THEN 1 ELSE 0
    <3>1. CASE q = p
      <4>1. billed'[q][t] = 0 /\ start'[q] = season /\ clock'[q] = season
        BY <1>19, <1>t, <3>1 DEF Reset, TypeOK
      <4> QED
        BY <4>1, <1>t DEF TypeOK, Times, Spans
    <3>2. CASE q # p
      <4>1. UNCHANGED <<billed[q], start[q], clock[q]>>
        BY <1>19, <1>t, <3>2 DEF Reset, TypeOK
      <4> QED
        BY <4>1 DEF IInv, BilledOnce
    <3> QED
      BY <3>1, <3>2
  <2> QED
    BY <2>1, <2>2 DEF WindowsFit, BilledOnce
<1>20. CASE Crash
  BY <1>20, <1>t, <1>w, WindowsKept DEF Crash, TypeOK
<1>21. CASE UNCHANGED vars
  BY <1>21, <1>t, <1>w, WindowsKept DEF vars, TypeOK
<1> QED
  BY <1>1, <1>2, <1>3, <1>4, <1>5, <1>6, <1>7, <1>8, <1>9, <1>10, <1>11, <1>12,
     <1>13, <1>14, <1>15, <1>16, <1>17, <1>18, <1>19, <1>20, <1>21, <1>22,
     <1>23, <1>24
  DEF Next, Tick, ProcessPlayer, Failure

\* The inductive invariant, from which the theorems below follow.
LEMMA Invariance == Spec => []IInv
<1>1. IInv /\ [Next]_vars => IInv'
  BY TypeStep, ControlStep, BillingStep DEF IInv
<1> QED
  BY InitIInv, <1>1, PTL DEF Spec

\* Every reachable state is well typed.
THEOREM TypeCorrect == Spec => []TypeOK
<1>1. IInv => TypeOK
  BY DEF IInv
<1> QED
  BY Invariance, <1>1, PTL

\* Whatever ticks, syncs, resets, failures and crashes do, each span of game time
\* between a player's start and its clock is billed once and no other span is.
THEOREM BillsOnce == Spec => []BilledOnce
<1>1. IInv => BilledOnce
  BY DEF IInv
<1> QED
  BY Invariance, <1>1, PTL

----------------------------------------------------------------------------
(* The engine implements BillingPromise. *)

\* A commit bills the player up to the target in one step, or, when a reset came
\* in between, changes nothing the promise is about.
LEMMA CommitPromise ==
  ASSUME IInv, NEW c \in Callers, CommitWindow(c)
  PROVE  Promise!Next \/ UNCHANGED <<season, clock, start, billed>>
<1> DEFINE p == player[c]
<1>t. TypeOK
  BY DEF IInv
<1>1. p \in Players /\ pc[c] = "bill" /\ WindowFits(c, p) /\ target[c] <= season
  BY DEF CommitWindow, Step, IInv, CallersBusy, InPlayer, WindowsFit, ClocksBounded
<1>2. CASE seen[c] # epoch[p]
  <2>1. clock' = clock
    BY <1>t, <1>1, <1>2 DEF CommitWindow, AdvancedClock, WindowFits, TypeOK, Times
  <2> QED
    BY <1>2, <2>1 DEF CommitWindow
<1>3. CASE seen[c] = epoch[p]
  <2>1. from[c] = clock[p] /\ clock[p] < target[c]
    BY <1>1, <1>3 DEF WindowFits
  <2>2. clock' = [clock EXCEPT ![p] = target[c]]
    BY <1>t, <1>1, <2>1 DEF CommitWindow, AdvancedClock
  <2>3. billed' = [billed EXCEPT ![p] = [t \in Promise!Spans |->
                     @[t] + IF clock[p] <= t /\ t < target[c] THEN 1 ELSE 0]]
    BY <1>3, <2>1 DEF CommitWindow, Window, Spans, Promise!Spans
  <2>4. Promise!Bill(p, target[c])
    BY <1>1, <2>1, <2>2, <2>3 DEF CommitWindow, Promise!Bill
  <2>5. target[c] \in 1 .. season
    BY SimulationAssumption, <1>t, <1>1, <2>1 DEF TypeOK, Times
  <2> QED
    BY <1>1, <2>4, <2>5 DEF Promise!Next
<1> QED
  BY <1>2, <1>3

\* Every step of the engine is a step of the promise or leaves it alone.
LEMMA PromiseStep == IInv /\ [Next]_vars => [Promise!Next]_(Promise!vars)
<1> SUFFICES ASSUME IInv, [Next]_vars PROVE [Promise!Next]_(Promise!vars)
  OBVIOUS
<1> USE DEF db, locks, locals, life, Promise!vars
<1>1. ASSUME NEW c \in Callers, AdvanceSeason(c)
      PROVE  [Promise!Next]_(Promise!vars)
  <2>1. season < MaxTime
    BY <1>1 DEF AdvanceSeason, Step, IInv, TicksExclude
  <2> QED
    BY <1>1, <2>1 DEF AdvanceSeason, Promise!Next, Promise!Advance
<1>2. ASSUME NEW c \in Callers, CommitWindow(c)
      PROVE  [Promise!Next]_(Promise!vars)
  BY <1>2, CommitPromise
<1>3. ASSUME NEW p \in Players, Reset(p) PROVE [Promise!Next]_(Promise!vars)
  BY <1>3 DEF Reset, Spans, Promise!Spans, Promise!Next, Promise!Restart
<1>4. ASSUME NEW c \in Callers,
             \/ StartTick(c) \/ StartSync(c) \/ SelectPlayers(c) \/ NextPlayer(c)
             \/ FinishTick(c) \/ AlreadyThere(c) \/ OpenWindow(c) \/ CheckCash(c)
             \/ BankruptOnCash(c) \/ ServeDay(c) \/ ReadDayCash(c) \/ CountDay(c)
             \/ RecountDays(c) \/ BankruptOnDays(c) \/ Failure(c)
      PROVE  UNCHANGED Promise!vars
  BY <1>4 DEF StartTick, StartSync, SelectPlayers, NextPlayer, FinishTick,
       AlreadyThere, OpenWindow, CheckCash, BankruptOnCash, ServeDay, ReadDayCash,
       CountDay, RecountDays, BankruptOnDays, Bankrupt, Failure, AbortTick,
       LosePlayers, RollBack, SkipAfterCommit, Panic
<1>5. CASE Crash \/ UNCHANGED vars
  BY <1>5 DEF Crash, vars
<1> QED
  BY <1>1, <1>2, <1>3, <1>4, <1>5 DEF Next, Tick, ProcessPlayer

\* The simulation of the code, interleaved, failing and restarting, implements
\* the promise: windows are contiguous, atomic and never ahead of the season.
THEOREM ImplementsPromise == Spec => KeepsPromise
<1>1. Init => Promise!Init
  BY DEF Init, Promise!Init, Spans, Promise!Spans
<1> QED
  BY Invariance, PromiseStep, <1>1, PTL DEF Spec, KeepsPromise, Promise!Spec

----------------------------------------------------------------------------
(* Day boundaries *)

\* A caller that has a day boundary before it, if its statements succeed.
Due(c) ==
  \/ pc[c] = "boundary"
  \/ pc[c] \in {"check", "bankrupt"} /\ advanced[c] /\ Day(from[c]) # Day(target[c])

\* A boundary that is due is of a day the player has entered and nobody has served,
\* and no two callers have the same one; a day served is one entered.
DInv ==
  /\ DayServedAtMostOnce
  /\ \A p \in Players, d \in Days : served[p][d] > 0 => d <= Day(clock[p])
  /\ \A c \in Callers : Due(c) =>
       /\ Day(target[c]) <= Day(clock[player[c]])
       /\ served[player[c]][Day(target[c])] = 0
  /\ \A c, e \in Callers :
       (Due(c) /\ Due(e) /\ c # e /\ player[c] = player[e]) => Day(target[c]) # Day(target[e])

\* The truncation to a day keeps the order of times.
LEMMA DayMonotone ==
  ASSUME NEW t \in Times, NEW u \in Times, t <= u
  PROVE  Day(t) <= Day(u)
BY SimulationAssumption DEF Times, Day

\* The day of a time is one of Days.
LEMMA DayType ==
  ASSUME NEW t \in Times
  PROVE  Day(t) \in Int /\ Day(t) \in Days
BY SimulationAssumption DEF Times, Day, Days

\* Days are integers.
LEMMA DaysInt == Days \subseteq Int
BY DayType DEF Days

\* Steps that serve no day and make no boundary due, whatever they do to clocks
\* that only move forward.
LEMMA DueKept ==
  ASSUME TypeOK, CallersBusy, DInv,
         clock' \in [Players -> Times],
         \A p \in Players : clock[p] <= clock'[p],
         \A p \in Players : served'[p] = served[p] \/ \A d \in Days : served'[p][d] = 0,
         \A c \in Callers : Due(c)' => Due(c) /\ UNCHANGED <<player[c], target[c]>>
  PROVE  DInv'
<1>1. \A p \in Players : /\ Day(clock[p]) <= Day(clock'[p])
                         /\ Day(clock[p]) \in Int /\ Day(clock'[p]) \in Int
  BY DayMonotone, DayType DEF TypeOK
<1>2. \A c \in Callers : Due(c) => player[c] \in Players
  BY DEF Due, CallersBusy, InPlayer
<1>3. \A c \in Callers : Day(target[c]) \in Int /\ Day(target[c]) \in Days
  BY DayType DEF TypeOK
<1>4. DayServedAtMostOnce'
  BY DEF DInv, DayServedAtMostOnce
<1>5. ASSUME NEW p \in Players, NEW d \in Days, served'[p][d] > 0
      PROVE  d <= Day(clock'[p])
  <2>1. d \in Int
    BY DaysInt
  <2>2. served[p][d] > 0
    BY <1>5
  <2> QED
    BY <1>1, <2>1, <2>2 DEF DInv
<1>6. ASSUME NEW c \in Callers, Due(c)'
      PROVE  /\ Day(target'[c]) <= Day(clock'[player'[c]])
             /\ served'[player'[c]][Day(target'[c])] = 0
  <2>1. Due(c) /\ player'[c] = player[c] /\ target'[c] = target[c] /\ player[c] \in Players
    BY <1>2, <1>6
  <2>2. Day(target[c]) <= Day(clock[player[c]]) /\ served[player[c]][Day(target[c])] = 0
    BY <2>1 DEF DInv
  <2>3. Day(target[c]) <= Day(clock'[player[c]])
    BY <1>1, <1>3, <2>1, <2>2
  <2>4. served'[player[c]][Day(target[c])] = 0
    BY <1>3, <2>1, <2>2
  <2> QED
    BY <2>1, <2>3, <2>4
<1>7. ASSUME NEW c \in Callers, NEW e \in Callers,
             Due(c)', Due(e)', c # e, player'[c] = player'[e]
      PROVE  Day(target'[c]) # Day(target'[e])
  <2>1. Due(c) /\ Due(e) /\ player[c] = player[e]
    BY <1>7
  <2>2. Day(target[c]) # Day(target[e])
    BY <1>7, <2>1 DEF DInv
  <2>3. target'[c] = target[c] /\ target'[e] = target[e]
    BY <1>7
  <2> QED
    BY <2>2, <2>3
<1>8. (\A p \in Players, d \in Days : served[p][d] > 0 => d <= Day(clock[p]))'
  BY <1>5 DEF Days, Times, Day
<1> QED
  BY <1>4, <1>6, <1>7, <1>8 DEF DInv, Day

\* Only the commit of a window makes a boundary due, and it is one of a day after
\* the player's clock, so after every day served or due before it.
LEMMA DueCommit ==
  ASSUME IInv, DInv, NEW c \in Callers, CommitWindow(c)
  PROVE  DInv'
<1> DEFINE p == player[c]
<1>t. TypeOK /\ CallersBusy
  BY DEF IInv
<1>1. p \in Players /\ pc[c] = "bill" /\ WindowFits(c, p)
  BY DEF CommitWindow, Step, IInv, CallersBusy, InPlayer, WindowsFit
<1>2. /\ UNCHANGED <<player, target, from, served>>
      /\ \A e \in Callers \ {c} : pc'[e] = pc[e] /\ advanced'[e] = advanced[e]
      /\ advanced'[c] = (clock[p] < target[c])
      /\ pc'[c] # "boundary"
      /\ \A q \in Players \ {p} : clock'[q] = clock[q]
      /\ clock'[p] = AdvancedClock(c)
  BY <1>t, <1>1 DEF CommitWindow, Step, Return, TypeOK
<1>3. \A e \in Callers \ {c} : Due(e)' => Due(e)
  BY <1>2 DEF Due
<1>4. clock' \in [Players -> Times] /\ \A q \in Players : clock[q] <= clock'[q]
  BY <1>t, <1>1, <1>2 DEF CommitWindow, AdvancedClock, TypeOK, Times
<1>5. CASE ~ Due(c)'
  BY <1>2, <1>3, <1>4, <1>5, <1>t, DueKept
<1>6. CASE Due(c)'
  <2>1. clock[p] < target[c] /\ Day(from[c]) # Day(target[c])
    BY <1>2, <1>6 DEF Due, Day
  <2>2. from[c] = clock[p] /\ clock'[p] = target[c]
    BY <1>t, <1>1, <1>2, <2>1 DEF WindowFits, AdvancedClock, TypeOK, Times
  <2>3. Day(clock[p]) < Day(target[c])
    <3>1. clock[p] \in Times /\ target[c] \in Times
      BY <1>t, <1>1 DEF TypeOK
    <3>2. clock[p] <= target[c]
      BY <2>1, <3>1 DEF Times
    <3>3. Day(clock[p]) <= Day(target[c]) /\ Day(clock[p]) \in Int /\ Day(target[c]) \in Int
      BY <3>1, <3>2, DayMonotone, DayType
    <3> QED
      BY <2>1, <2>2, <3>3
  <2>4. \A q \in Players : /\ Day(clock[q]) <= Day(clock'[q])
                           /\ Day(clock[q]) \in Int /\ Day(clock'[q]) \in Int
    BY <1>t, <1>4, DayMonotone, DayType DEF TypeOK
  <2>5. \A e \in Callers : Day(target[e]) \in Int /\ Day(target[e]) \in Days
    BY <1>t, DayType DEF TypeOK
  <2>6. \A d \in Days : Day(clock[p]) < d => served[p][d] = 0
    <3> TAKE d \in Days
    <3> HAVE Day(clock[p]) < d
    <3>1. d \in Int /\ Day(clock[p]) \in Int
      BY DaysInt, <2>4, <1>1
    <3>2. served[p][d] \in Nat
      BY <1>t, <1>1 DEF TypeOK
    <3>3. ~ (served[p][d] > 0)
      BY <1>1, <3>1 DEF DInv
    <3> QED
      BY <3>2, <3>3
  <2>7. \A e \in Callers : Due(e) => player[e] \in Players
    BY <1>t DEF Due, CallersBusy, InPlayer
  <2>8. \A e \in Callers \ {c} : Due(e)' => Due(e) /\ Day(target[e]) <= Day(clock[player[e]])
    BY <1>3 DEF DInv
  <2>9. \A e \in Callers \ {c} : Due(e)' /\ player[e] = p => Day(target[e]) < Day(target[c])
    BY <1>1, <2>3, <2>4, <2>5, <2>8
  <2>10. DayServedAtMostOnce'
    BY <1>2 DEF DInv, DayServedAtMostOnce
  <2>11. \A q \in Players, d \in Days : served[q][d] > 0 => d <= Day(clock'[q])
    <3> TAKE q \in Players, d \in Days
    <3> HAVE served[q][d] > 0
    <3>1. d \in Int
      BY DaysInt
    <3>2. d <= Day(clock[q])
      BY DEF DInv
    <3> QED
      BY <2>4, <3>1, <3>2
  <2>12. ASSUME NEW e \in Callers, Due(e)'
         PROVE  Day(target[e]) <= Day(clock'[player[e]]) /\ served[player[e]][Day(target[e])] = 0
    <3>1. CASE e = c
      BY <1>1, <2>2, <2>3, <2>5, <2>6, <3>1
    <3>2. CASE e # c
      <4>1. /\ Due(e) /\ player[e] \in Players
            /\ Day(target[e]) <= Day(clock[player[e]])
        BY <2>7, <2>8, <2>12, <3>2
      <4>2. served[player[e]][Day(target[e])] = 0
        BY <4>1 DEF DInv
      <4> QED
        BY <2>4, <2>5, <4>1, <4>2
    <3> QED
      BY <3>1, <3>2
  <2>13. ASSUME NEW e \in Callers, NEW f \in Callers,
                Due(e)', Due(f)', e # f, player[e] = player[f]
         PROVE  Day(target[e]) # Day(target[f])
    <3>1. CASE e = c
      BY <2>5, <2>9, <2>13, <3>1
    <3>2. CASE f = c
      BY <2>5, <2>9, <2>13, <3>2
    <3>3. CASE e # c /\ f # c
      BY <1>3, <2>13, <3>3 DEF DInv
    <3> QED
      BY <3>1, <3>2, <3>3
  <2>14. (\A q \in Players, d \in Days : served[q][d] > 0 => d <= Day(clock[q]))'
    BY <1>2, <2>11 DEF Days, Times, Day
  <2>15. (\A e \in Callers : Due(e) =>
            /\ Day(target[e]) <= Day(clock[player[e]])
            /\ served[player[e]][Day(target[e])] = 0)'
    BY <1>2, <2>12 DEF Day
  <2>16. (\A e, f \in Callers :
            (Due(e) /\ Due(f) /\ e # f /\ player[e] = player[f])
              => Day(target[e]) # Day(target[f]))'
    BY <1>2, <2>13 DEF Day
  <2> QED
    BY <2>10, <2>14, <2>15, <2>16 DEF DInv
<1> QED
  BY <1>5, <1>6

\* Serving the day takes the boundary of the one caller it is due for.
LEMMA DueServe ==
  ASSUME IInv, DInv, NEW c \in Callers, ServeDay(c)
  PROVE  DInv'
<1> DEFINE p == player[c]
           day == Day(target[c])
<1>t. TypeOK /\ CallersBusy
  BY DEF IInv
<1>1. p \in Players /\ Due(c)
  BY DEF ServeDay, Step, IInv, CallersBusy, InPlayer, Due
<1>2. day \in Days /\ \A e \in Callers : Day(target[e]) \in Days
  BY <1>t, DayType DEF TypeOK
<1>3. day <= Day(clock[p]) /\ served[p][day] = 0
  BY <1>1 DEF DInv
<1>4. /\ UNCHANGED <<clock, player, target, from, advanced>>
      /\ pc' = [pc EXCEPT ![c] = "readCash"]
  BY DEF ServeDay, Step, locks, locals
<1>5. \A e \in Callers : Due(e)' => Due(e) /\ e # c
  BY <1>t, <1>4 DEF Due, TypeOK
<1>6. /\ served'[p][day] = 1
      /\ \A q \in Players, d \in Days : (q # p \/ d # day) => served'[q][d] = served[q][d]
  BY <1>t, <1>1, <1>2, <1>3 DEF ServeDay, TypeOK
<1>7. DayServedAtMostOnce'
  BY <1>6 DEF DInv, DayServedAtMostOnce
<1>8. (\A q \in Players, d \in Days : served[q][d] > 0 => d <= Day(clock[q]))'
  BY <1>3, <1>4, <1>6 DEF DInv
<1>9. ASSUME NEW e \in Callers, Due(e)'
      PROVE  /\ Day(target[e]) <= Day(clock[player[e]])
             /\ served'[player[e]][Day(target[e])] = 0
  <2>1. Due(e) /\ e # c /\ player[e] \in Players
    BY <1>5, <1>9, <1>t DEF Due, CallersBusy, InPlayer
  <2>2. /\ Day(target[e]) <= Day(clock[player[e]])
        /\ served[player[e]][Day(target[e])] = 0
        /\ player[e] = p => Day(target[e]) # day
    BY <1>1, <2>1 DEF DInv
  <2> QED
    BY <1>2, <1>6, <2>1, <2>2
<1>10. (\A e \in Callers : Due(e) =>
          /\ Day(target[e]) <= Day(clock[player[e]])
          /\ served[player[e]][Day(target[e])] = 0)'
  BY <1>4, <1>9
<1>11. (\A e, f \in Callers :
          (Due(e) /\ Due(f) /\ e # f /\ player[e] = player[f]) => Day(target[e]) # Day(target[f]))'
  BY <1>4, <1>5 DEF DInv
<1> QED
  BY <1>7, <1>8, <1>10, <1>11 DEF DInv

\* Of all the steps, those two are the ones that matter to the boundaries.
LEMMA DueStep == IInv /\ DInv /\ [Next]_vars => DInv'
<1> SUFFICES ASSUME IInv, DInv, [Next]_vars PROVE DInv'
  OBVIOUS
<1> USE DEF Step, db, locks, locals, life
<1>t. TypeOK /\ CallersBusy
  BY DEF IInv
<1>c. \A p \in Players : clock[p] <= clock[p]
  BY <1>t DEF TypeOK, Times
<1>1. ASSUME NEW c \in Callers, StartTick(c) PROVE DInv'
  BY <1>1, <1>t, <1>c, DueKept DEF StartTick, Due, TypeOK
<1>2. ASSUME NEW c \in Callers, StartSync(c) PROVE DInv'
  BY <1>2, <1>t, <1>c, DueKept DEF StartSync, Due, TypeOK
<1>3. ASSUME NEW c \in Callers, AdvanceSeason(c) PROVE DInv'
  BY <1>3, <1>t, <1>c, DueKept DEF AdvanceSeason, Due, TypeOK
<1>4. ASSUME NEW c \in Callers, SelectPlayers(c) PROVE DInv'
  BY <1>4, <1>t, <1>c, DueKept DEF SelectPlayers, Due, TypeOK
<1>5. ASSUME NEW c \in Callers, NextPlayer(c) PROVE DInv'
  BY <1>5, <1>t, <1>c, DueKept DEF NextPlayer, Due, TypeOK
<1>6. ASSUME NEW c \in Callers, FinishTick(c) PROVE DInv'
  BY <1>6, <1>t, <1>c, DueKept DEF FinishTick, Due, TypeOK
<1>7. ASSUME NEW c \in Callers, AlreadyThere(c) PROVE DInv'
  BY <1>7, <1>t, <1>c, DueKept DEF AlreadyThere, Return, Due, TypeOK
<1>8. ASSUME NEW c \in Callers, OpenWindow(c) PROVE DInv'
  BY <1>8, <1>t, <1>c, DueKept DEF OpenWindow, Due, TypeOK
<1>10. ASSUME NEW c \in Callers, CheckCash(c) PROVE DInv'
  BY <1>10, <1>t, <1>c, DueKept DEF CheckCash, AfterCheck, Return, Due, TypeOK
<1>11. ASSUME NEW c \in Callers, BankruptOnCash(c) PROVE DInv'
  BY <1>11, <1>t, <1>c, DueKept DEF BankruptOnCash, Bankrupt, AfterCheck, Return, Due, TypeOK
<1>13. ASSUME NEW c \in Callers, ReadDayCash(c) PROVE DInv'
  BY <1>13, <1>t, <1>c, DueKept DEF ReadDayCash, Due, TypeOK
<1>14. ASSUME NEW c \in Callers, CountDay(c) PROVE DInv'
  BY <1>14, <1>t, <1>c, DueKept DEF CountDay, Return, Due, TypeOK
<1>22. ASSUME NEW c \in Callers, RecountDays(c) PROVE DInv'
  BY <1>22, <1>t, <1>c, DueKept DEF RecountDays, Return, Due, TypeOK
<1>15. ASSUME NEW c \in Callers, BankruptOnDays(c) PROVE DInv'
  BY <1>15, <1>t, <1>c, DueKept DEF BankruptOnDays, Bankrupt, Return, Due, TypeOK
<1>16. ASSUME NEW c \in Callers, AbortTick(c) PROVE DInv'
  BY <1>16, <1>t, <1>c, DueKept DEF AbortTick, Due, TypeOK
<1>23. ASSUME NEW c \in Callers, LosePlayers(c) PROVE DInv'
  BY <1>23, <1>t, <1>c, DueKept DEF LosePlayers, Due, TypeOK
<1>24. ASSUME NEW c \in Callers, Panic(c) PROVE DInv'
  BY <1>24, <1>t, <1>c, DueKept DEF Panic, Due, TypeOK
<1>17. ASSUME NEW c \in Callers, RollBack(c) PROVE DInv'
  BY <1>17, <1>t, <1>c, DueKept DEF RollBack, Return, Due, TypeOK
<1>18. ASSUME NEW c \in Callers, SkipAfterCommit(c) PROVE DInv'
  BY <1>18, <1>t, <1>c, DueKept DEF SkipAfterCommit, AfterCheck, Return, Due, TypeOK
<1>9. ASSUME NEW c \in Callers, CommitWindow(c) PROVE DInv'
  BY <1>9, DueCommit
<1>12. ASSUME NEW c \in Callers, ServeDay(c) PROVE DInv'
  BY <1>12, DueServe
<1>19. ASSUME NEW p \in Players, Reset(p) PROVE DInv'
  <2>1. clock' \in [Players -> Times] /\ \A q \in Players : clock[q] <= clock'[q]
    BY <1>19, <1>t DEF Reset, IInv, ClocksBounded, TypeOK, Times
  <2>2. \A q \in Players : served'[q] = served[q] \/ \A d \in Days : served'[q][d] = 0
    BY <1>19, <1>t DEF Reset, TypeOK
  <2> QED
    BY <1>19, <1>t, <2>1, <2>2, DueKept DEF Reset, Due
<1>20. CASE Crash
  BY <1>20, <1>t, <1>c, DueKept DEF Crash, Due, TypeOK
<1>21. CASE UNCHANGED vars
  BY <1>21, <1>t, <1>c, DueKept DEF vars, Due, TypeOK
<1> QED
  BY <1>1, <1>2, <1>3, <1>4, <1>5, <1>6, <1>7, <1>8, <1>9, <1>10, <1>11, <1>12,
     <1>13, <1>14, <1>15, <1>16, <1>17, <1>18, <1>19, <1>20, <1>21, <1>22,
     <1>23, <1>24
  DEF Next, Tick, ProcessPlayer, Failure

\* Whatever ticks, syncs, resets, failures and crashes do, no day boundary of a
\* player's life is served twice: no two installments, no two counts of one day.
THEOREM ServesDaysOnce == Spec => []DayServedAtMostOnce
<1>1. Init => DInv
  BY SimulationAssumption, DayType
  DEF Init, DInv, Due, DayServedAtMostOnce, Times
<1>2. DInv => DayServedAtMostOnce
  BY DEF DInv
<1> QED
  BY Invariance, DueStep, <1>1, <1>2, PTL DEF Spec

----------------------------------------------------------------------------
(* Insolvency *)

\* The caller that has to check p's balance.
Checks(c, p) == player[c] = p /\ pc[c] \in {"check", "bankrupt"}

Noticed(p) == status[p] = "Bankrupt" \/ \E c \in Callers : Checks(c, p)

\* Steps that leave balances, statuses and pending checks alone.
LEMMA NoticeKept ==
  ASSUME InsolventIsBankrupt,
         UNCHANGED <<balance, status, faults>>,
         \A c \in Callers, p \in Players : Checks(c, p) => Checks(c, p)'
  PROVE  InsolventIsBankrupt'
BY DEF InsolventIsBankrupt, Checks

\* With a floor below zero that the starting cash is above, only a commit takes a
\* balance to the floor, and it goes on to the check.
LEMMA NoticeStep ==
  ASSUME CashFloor < 0, CashFloor < StartingCash
  PROVE  IInv /\ InsolventIsBankrupt /\ [Next]_vars => InsolventIsBankrupt'
<1> SUFFICES ASSUME IInv, InsolventIsBankrupt, [Next]_vars PROVE InsolventIsBankrupt'
  OBVIOUS
<1> USE DEF Step, db, locks, locals, life
<1>t. TypeOK /\ CallersBusy
  BY DEF IInv
<1>f. faults \in Nat /\ (Fault => faults' # 0)
  BY <1>t DEF TypeOK, Fault
<1>1. ASSUME NEW c \in Callers, StartTick(c) PROVE InsolventIsBankrupt'
  BY <1>1, <1>t, NoticeKept DEF StartTick, Checks, TypeOK
<1>2. ASSUME NEW c \in Callers, StartSync(c) PROVE InsolventIsBankrupt'
  BY <1>2, <1>t, NoticeKept DEF StartSync, Checks, TypeOK
<1>3. ASSUME NEW c \in Callers, AdvanceSeason(c) PROVE InsolventIsBankrupt'
  BY <1>3, <1>t, NoticeKept DEF AdvanceSeason, Checks, TypeOK
<1>4. ASSUME NEW c \in Callers, SelectPlayers(c) PROVE InsolventIsBankrupt'
  BY <1>4, <1>t, NoticeKept DEF SelectPlayers, Checks, TypeOK
<1>5. ASSUME NEW c \in Callers, NextPlayer(c) PROVE InsolventIsBankrupt'
  BY <1>5, <1>t, NoticeKept DEF NextPlayer, Checks, TypeOK
<1>6. ASSUME NEW c \in Callers, FinishTick(c) PROVE InsolventIsBankrupt'
  BY <1>6, <1>t, NoticeKept DEF FinishTick, Checks, TypeOK
<1>7. ASSUME NEW c \in Callers, AlreadyThere(c) PROVE InsolventIsBankrupt'
  BY <1>7, <1>t, NoticeKept DEF AlreadyThere, Return, Checks, TypeOK
<1>8. ASSUME NEW c \in Callers, OpenWindow(c) PROVE InsolventIsBankrupt'
  BY <1>8, <1>t, NoticeKept DEF OpenWindow, Checks, TypeOK
<1>13. ASSUME NEW c \in Callers, ReadDayCash(c) PROVE InsolventIsBankrupt'
  BY <1>13, <1>t, NoticeKept DEF ReadDayCash, Checks, TypeOK
<1>14. ASSUME NEW c \in Callers, CountDay(c) PROVE InsolventIsBankrupt'
  BY <1>14, <1>t, NoticeKept DEF CountDay, Return, Checks, TypeOK
<1>22. ASSUME NEW c \in Callers, RecountDays(c) PROVE InsolventIsBankrupt'
  BY <1>22, <1>t, NoticeKept DEF RecountDays, Return, Checks, TypeOK
<1>9. ASSUME NEW c \in Callers, CommitWindow(c) PROVE InsolventIsBankrupt'
  <2>1. player[c] \in Players /\ pc[c] = "bill"
    BY <1>9, <1>t DEF CommitWindow, CallersBusy, InPlayer
  <2>2. SUFFICES ASSUME NEW p \in Players, balance'[p] <= CashFloor, faults' = 0
                 PROVE  Noticed(p)'
    BY DEF InsolventIsBankrupt, Noticed, Checks
  <2>3. pc' = [pc EXCEPT ![c] = "check"] /\ faults = 0
    BY <1>9, <1>f, <2>2 DEF CommitWindow
  <2>4. CASE p = player[c]
    BY <1>9, <1>t, <2>3, <2>4 DEF CommitWindow, Noticed, Checks, TypeOK
  <2>5. CASE p # player[c]
    <3>1. balance'[p] = balance[p] /\ UNCHANGED <<status, player>>
      BY <1>9, <1>t, <2>1, <2>5 DEF CommitWindow, TypeOK
    <3>2. Noticed(p)
      BY <2>2, <2>3, <3>1 DEF InsolventIsBankrupt, Noticed, Checks
    <3> QED
      BY <1>t, <2>1, <2>3, <3>1, <3>2 DEF Noticed, Checks, TypeOK
  <2> QED
    BY <2>4, <2>5
<1>10. ASSUME NEW c \in Callers, CheckCash(c) PROVE InsolventIsBankrupt'
  <2>1. SUFFICES ASSUME NEW p \in Players, balance[p] <= CashFloor, faults = 0
                 PROVE  Noticed(p)'
    BY <1>10 DEF CheckCash, InsolventIsBankrupt, Noticed, Checks
  <2>2. Noticed(p)
    BY <2>1 DEF InsolventIsBankrupt, Noticed, Checks
  <2> QED
    BY <1>10, <1>t, <2>1, <2>2 DEF CheckCash, Noticed, Checks, TypeOK
<1>11. ASSUME NEW c \in Callers, BankruptOnCash(c) PROVE InsolventIsBankrupt'
  <2>1. SUFFICES ASSUME NEW p \in Players, balance[p] <= CashFloor, faults = 0
                 PROVE  Noticed(p)'
    BY <1>11 DEF BankruptOnCash, Bankrupt, InsolventIsBankrupt, Noticed, Checks
  <2>2. Noticed(p)
    BY <2>1 DEF InsolventIsBankrupt, Noticed, Checks
  <2> QED
    BY <1>11, <1>t, <2>1, <2>2 DEF BankruptOnCash, Bankrupt, Noticed, Checks, TypeOK
<1>12. ASSUME NEW c \in Callers, ServeDay(c) PROVE InsolventIsBankrupt'
  <2>1. player[c] \in Players
    BY <1>12, <1>t DEF ServeDay, CallersBusy, InPlayer
  <2>2. \A p \in Players : balance'[p] <= CashFloor => balance[p] <= CashFloor
    BY <1>12, <1>t, <2>1, SimulationAssumption DEF ServeDay, TypeOK
  <2> QED
    BY <1>12, <1>t, <2>2 DEF ServeDay, InsolventIsBankrupt, TypeOK
<1>15. ASSUME NEW c \in Callers, BankruptOnDays(c) PROVE InsolventIsBankrupt'
  BY <1>15, <1>t DEF BankruptOnDays, Bankrupt, Return, InsolventIsBankrupt, TypeOK
<1>16. ASSUME NEW c \in Callers, Failure(c) PROVE InsolventIsBankrupt'
  BY <1>16, <1>f DEF Failure, AbortTick, LosePlayers, RollBack, SkipAfterCommit, Panic,
                       InsolventIsBankrupt
<1>19. ASSUME NEW p \in Players, Reset(p) PROVE InsolventIsBankrupt'
  <2>1. /\ ~ (balance'[p] <= CashFloor)
        /\ \A q \in Players \ {p} : balance'[q] = balance[q] /\ status'[q] = status[q]
    BY <1>19, <1>t, SimulationAssumption DEF Reset, TypeOK
  <2> QED
    BY <1>19, <2>1 DEF Reset, InsolventIsBankrupt
<1>20. CASE Crash
  BY <1>20, <1>f DEF Crash, InsolventIsBankrupt
<1>21. CASE UNCHANGED vars
  BY <1>21, <1>t, NoticeKept DEF vars, Checks
<1> QED
  BY <1>1, <1>2, <1>3, <1>4, <1>5, <1>6, <1>7, <1>8, <1>9, <1>10, <1>11, <1>12,
     <1>13, <1>14, <1>15, <1>16, <1>19, <1>20, <1>21, <1>22
  DEF Next, Tick, ProcessPlayer

\* Where the floor is below zero and the starting cash above the floor, no account
\* stays at or below the floor unnoticed while no statement fails, resets included.
THEOREM NoticesInsolvency ==
  ASSUME CashFloor < 0, CashFloor < StartingCash
  PROVE  Spec => []InsolventIsBankrupt
<1>1. Init => InsolventIsBankrupt
  BY SimulationAssumption DEF Init, InsolventIsBankrupt
<1>2. IInv /\ InsolventIsBankrupt /\ [Next]_vars => InsolventIsBankrupt'
  BY NoticeStep
<1> QED
  BY Invariance, <1>1, <1>2, PTL DEF Spec
=============================================================================
