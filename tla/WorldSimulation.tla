-------------------------- MODULE WorldSimulation --------------------------
(***************************************************************************)
(* The game-time engine: WorldTick advances the season clock and brings    *)
(* every player up to it; POST /simulation/sync brings one player up to it. *)
(* Both call ProcessPlayer, whose ledger writes run in one transaction      *)
(* under a per-user advisory lock and whose day-boundary work runs after    *)
(* that transaction has committed and the lock is gone.                     *)
(*                                                                          *)
(* Time is counted in ticks.  The content of a window (routes, fares, wear) *)
(* is abstracted to its net effect on the balance, a member of NetFlows.    *)
(* A caller is a goroutine: a tick (the worker or an admin request) or a    *)
(* sync request.  One action is one transaction or one autocommit           *)
(* statement; a caller may be interrupted between any two of them.          *)
(***************************************************************************)
EXTENDS Integers, FiniteSets

CONSTANTS
  Players,      \* REAL users of the active season
  Ticks,        \* goroutines that run WorldTick: the worker, admin requests
  Syncs,        \* goroutines that serve POST /simulation/sync
  Nobody,       \* "no caller" (lock free) and "no player"
  NetFlows,     \* net effects one billed window can have on a balance
  Installments, \* what loan servicing can debit at a day boundary
  StartingCash, \* game_config starting_cash
  CashFloor,    \* game_config bankruptcy_cash_threshold
  NegativeDays, \* game_config bankruptcy_negative_days_threshold
  DayLength,    \* ticks in a game day
  MaxTime,      \* bound: the season clock stops here
  MaxResets,    \* bound: airline resets per player
  MaxFaults     \* bound: failed statements, expired contexts and crashes

Callers == Ticks \cup Syncs

ASSUME SimulationAssumption ==
  /\ Ticks \cap Syncs = {}
  /\ Nobody \notin Callers \cup Players
  /\ NetFlows \subseteq Int
  /\ Installments \subseteq Nat
  /\ StartingCash \in Int
  /\ CashFloor \in Int
  /\ NegativeDays \in Nat
  /\ DayLength \in Nat \ {0}
  /\ MaxTime \in Nat
  /\ MaxResets \in Nat
  /\ MaxFaults \in Nat

VARIABLES
  season,   \* season_clock.current_game_time
  clock,    \* users.game_current_time
  balance,  \* bank_accounts.balance
  status,   \* users.operational_status
  negDays,  \* users.consecutive_negative_days
  tickMu,   \* who holds Engine.tickMu
  userLock, \* who holds pg_advisory_xact_lock(hashtext(user))
  pc,       \* where each caller is
  player,   \* the user it processes
  target,   \* targetTime
  from,     \* userGameTime, read under the lock
  seen,     \* the epoch that read belongs to
  advanced, \* advancedDay: did its clock UPDATE change the row
  cash,     \* the balance it last read
  todo,     \* users its processRealPlayers cursor has not returned yet
  \* history
  epoch,    \* resets of the airline so far
  start,    \* the game time its current life began at
  billed,   \* how often each tick of game time was billed in that life
  served,   \* how often each day boundary was served in that life
  faults

db == <<season, clock, balance, status, negDays>>
locks == <<tickMu, userLock>>
locals == <<player, target, from, seen, advanced, cash, todo>>
life == <<epoch, start, billed, served>>
vars == <<db, locks, pc, locals, life, faults>>

----------------------------------------------------------------------------
Times == 0 .. MaxTime
Spans == 0 .. MaxTime - 1       \* span t is the game time from t to t+1
Day(t) == t \div DayLength      \* targetTime.Truncate(24h)
Days == {Day(t) : t \in Times}

Step(c, here, there) ==
  /\ pc[c] = here
  /\ pc' = [pc EXCEPT ![c] = there]

\* Where a caller goes when ProcessPlayer returns.
Return(c) == IF c \in Ticks THEN "next" ELSE "idle"

\* Mutant of AfterCheck: a boundary for every window, not for every new day.
AfterCheckEveryWindow(c) == IF advanced[c] THEN "boundary" ELSE Return(c)

\* Where it goes once the bankruptcy check is behind it.
AfterCheck(c) ==
  IF advanced[c] /\ Day(from[c]) # Day(target[c]) THEN "boundary" ELSE Return(c)

Fault == /\ faults < MaxFaults
         /\ season < MaxTime
         /\ faults' = faults + 1

----------------------------------------------------------------------------
(* WorldTick *)

\* TryLock: a tick that finds the mutex taken returns an error, no step here.
StartTick(c) ==
  /\ c \in Ticks
  /\ tickMu = Nobody
  /\ season < MaxTime
  /\ Step(c, "idle", "advance")
  /\ tickMu' = c
  /\ UNCHANGED <<db, userLock, locals, life, faults>>

\* Autocommitted before anything else is known to work.
AdvanceSeason(c) ==
  /\ Step(c, "advance", "snapshot")
  /\ season' = season + 1
  /\ target' = [target EXCEPT ![c] = season + 1]
  /\ UNCHANGED <<clock, balance, status, negDays, locks, player, from, seen,
                 advanced, cash, todo, life, faults>>

\* Mutant of SelectPlayers: only players exactly one tick behind are selected.
SelectPlayersOnTime(c) ==
  /\ Step(c, "snapshot", "next")
  /\ todo' = [todo EXCEPT ![c] = {p \in Players : /\ status[p] # "Bankrupt"
                                                 /\ clock[p] = target[c] - 1}]
  /\ UNCHANGED <<db, locks, player, target, from, seen, advanced, cash, life,
                 faults>>

\* Events, the snapshot and the query for the players' rows.
SelectPlayers(c) ==
  /\ Step(c, "snapshot", "next")
  /\ todo' = [todo EXCEPT ![c] = {p \in Players : status[p] # "Bankrupt"}]
  /\ UNCHANGED <<db, locks, player, target, from, seen, advanced, cash, life,
                 faults>>

\* The season UPDATE, the snapshot or the players query fails: WorldTick returns.
AbortTick(c) ==
  /\ pc[c] \in {"advance", "snapshot"}
  /\ Fault
  /\ pc' = [pc EXCEPT ![c] = "idle"]
  /\ tickMu' = Nobody
  /\ UNCHANGED <<db, userLock, locals, life>>

NextPlayer(c) ==
  /\ Step(c, "next", "lock")
  /\ \E p \in todo[c] :
       /\ player' = [player EXCEPT ![c] = p]
       /\ todo' = [todo EXCEPT ![c] = @ \ {p}]
  /\ UNCHANGED <<db, locks, target, from, seen, advanced, cash, life, faults>>

\* A row that cannot be scanned, or the connection of the cursor, ends the loop;
\* the tick goes on without the players it has not returned.
LosePlayers(c) ==
  /\ pc[c] = "next"
  /\ todo[c] # {}
  /\ Fault
  /\ todo' = [todo EXCEPT ![c] = {}]
  /\ UNCHANGED <<db, locks, pc, player, target, from, seen, advanced, cash, life>>

\* The loop ends and the deferred Unlock runs.
FinishTick(c) ==
  /\ todo[c] = {}
  /\ Step(c, "next", "idle")
  /\ tickMu' = Nobody
  /\ UNCHANGED <<db, userLock, locals, life, faults>>

(* SimulationSync: the target is read from the season clock, unlocked. *)
StartSync(c) ==
  /\ c \in Syncs
  /\ Step(c, "idle", "lock")
  /\ \E p \in Players : player' = [player EXCEPT ![c] = p]
  /\ target' = [target EXCEPT ![c] = season]
  /\ UNCHANGED <<db, locks, from, seen, advanced, cash, todo, life, faults>>

----------------------------------------------------------------------------
(* ProcessPlayer: the transaction *)

\* Not ahead of the player's clock: the no-op guard rolls back, lock and all.
AlreadyThere(c) ==
  /\ Step(c, "lock", Return(c))
  /\ userLock[player[c]] = Nobody
  /\ target[c] <= clock[player[c]]
  /\ UNCHANGED <<db, locks, locals, life, faults>>

\* Mutant of OpenWindow: no advisory lock.
OpenWindowUnlocked(c) ==
  LET p == player[c] IN
  /\ Step(c, "lock", "bill")
  /\ clock[p] < target[c]
  /\ userLock' = [userLock EXCEPT ![p] = c]
  /\ from' = [from EXCEPT ![c] = clock[p]]
  /\ seen' = [seen EXCEPT ![c] = epoch[p]]
  /\ UNCHANGED <<db, tickMu, player, target, advanced, cash, todo, life, faults>>

OpenWindow(c) ==
  LET p == player[c] IN
  /\ Step(c, "lock", "bill")
  /\ userLock[p] = Nobody
  /\ clock[p] < target[c]
  /\ userLock' = [userLock EXCEPT ![p] = c]
  /\ from' = [from EXCEPT ![c] = clock[p]]
  /\ seen' = [seen EXCEPT ![c] = epoch[p]]
  /\ UNCHANGED <<db, tickMu, player, target, advanced, cash, todo, life, faults>>

\* The spans a transaction bills: the window it opened with.
Window(c) == {t \in Spans : from[c] <= t /\ t < target[c]}

\* Mutant of AdvancedClock: the UPDATE without its guard.
UnguardedClock(c) == target[c]

\* What the clock guard lets the UPDATE write.
AdvancedClock(c) == IF clock[player[c]] < target[c] THEN target[c]
                                                    ELSE clock[player[c]]

\* Every ledger row of the window, the guarded clock UPDATE and the COMMIT that
\* drops the lock.  A window opened before a reset still lands on the account.
\* When the answer to the COMMIT is lost, ProcessPlayer returns with an error.
CommitWindow(c) ==
  LET p == player[c] IN
  /\ \/ Step(c, "bill", "check") /\ UNCHANGED faults
     \/ Step(c, "bill", Return(c)) /\ Fault
  /\ \E d \in NetFlows : balance' = [balance EXCEPT ![p] = @ + d]
  /\ clock' = [clock EXCEPT ![p] = AdvancedClock(c)]
  /\ advanced' = [advanced EXCEPT ![c] = clock[p] < target[c]]
  /\ userLock' = [userLock EXCEPT ![p] = Nobody]
  /\ billed' = IF seen[c] = epoch[p]
                 THEN [billed EXCEPT ![p] =
                        [t \in Spans |-> @[t] + IF t \in Window(c) THEN 1 ELSE 0]]
                 ELSE billed
  /\ UNCHANGED <<season, status, negDays, tickMu, player, target, from, seen,
                 cash, todo, epoch, start, served>>

\* An error anywhere in the transaction, the load of the snapshot included.
RollBack(c) ==
  /\ pc[c] \in {"lock", "bill"}
  /\ Fault
  /\ pc' = [pc EXCEPT ![c] = Return(c)]
  /\ userLock' = IF pc[c] = "bill" THEN [userLock EXCEPT ![player[c]] = Nobody]
                                   ELSE userLock
  /\ UNCHANGED <<db, tickMu, locals, life>>

----------------------------------------------------------------------------
(* ProcessPlayer: after the commit, no lock held *)

\* Mutant of CheckCash: an account exactly at the floor is let off.
CheckCashBelowFloor(c) ==
  LET b == balance[player[c]] IN
  /\ Step(c, "check", IF b < CashFloor THEN "bankrupt" ELSE AfterCheck(c))
  /\ cash' = [cash EXCEPT ![c] = b]
  /\ UNCHANGED <<db, locks, player, target, from, seen, advanced, todo, life,
                 faults>>

CheckCash(c) ==
  LET b == balance[player[c]] IN
  /\ Step(c, "check", IF b <= CashFloor THEN "bankrupt" ELSE AfterCheck(c))
  /\ cash' = [cash EXCEPT ![c] = b]
  /\ UNCHANGED <<db, locks, player, target, from, seen, advanced, todo, life,
                 faults>>

Bankrupt(c) ==
  /\ status' = [status EXCEPT ![player[c]] = "Bankrupt"]
  /\ UNCHANGED <<season, clock, balance>>

BankruptOnCash(c) ==
  /\ Step(c, "bankrupt", AfterCheck(c))
  /\ Bankrupt(c)
  /\ UNCHANGED <<negDays, locks, locals, life, faults>>

\* Credit score and loan servicing; a guarded debit never goes below zero.
ServeDay(c) ==
  LET p == player[c] IN
  /\ Step(c, "boundary", "readCash")
  /\ \E d \in Installments : balance' = [balance EXCEPT ![p] =
                                         IF d <= @ THEN @ - d ELSE @]
  /\ served' = [served EXCEPT ![p][Day(target[c])] = @ + 1]
  /\ UNCHANGED <<season, clock, status, negDays, locks, locals, epoch, start,
                 billed, faults>>

ReadDayCash(c) ==
  /\ Step(c, "readCash", "count")
  /\ cash' = [cash EXCEPT ![c] = balance[player[c]]]
  /\ UNCHANGED <<db, locks, player, target, from, seen, advanced, todo, life,
                 faults>>

\* shouldBankruptOnNegativeDays
NegativeTooLong(n) == NegativeDays > 0 /\ n >= NegativeDays

\* Mutant of CountDay: a good day takes one bad day back instead of all.
CountDayBack(c) ==
  LET p == player[c]
      n == IF cash[c] < 0 THEN negDays[p] + 1 ELSE negDays[p] - 1 IN
  /\ Step(c, "count", IF cash[c] < 0 THEN "recount" ELSE Return(c))
  /\ negDays' = [negDays EXCEPT ![p] = n]
  /\ UNCHANGED <<season, clock, balance, status, locks, locals, life, faults>>

CountDay(c) ==
  LET p == player[c]
      n == IF cash[c] < 0 THEN negDays[p] + 1 ELSE 0 IN
  /\ Step(c, "count", IF cash[c] < 0 THEN "recount" ELSE Return(c))
  /\ negDays' = [negDays EXCEPT ![p] = n]
  /\ UNCHANGED <<season, clock, balance, status, locks, locals, life, faults>>

\* The count is read back in a statement of its own.
RecountDays(c) ==
  /\ Step(c, "recount", IF NegativeTooLong(negDays[player[c]]) THEN "expire"
                                                             ELSE Return(c))
  /\ UNCHANGED <<db, locks, locals, life, faults>>

BankruptOnDays(c) ==
  /\ Step(c, "expire", Return(c))
  /\ Bankrupt(c)
  /\ UNCHANGED <<negDays, locks, locals, life, faults>>

\* A post-commit statement fails: it is logged and that part is skipped.
SkipAfterCommit(c) ==
  /\ pc[c] \in {"check", "bankrupt", "boundary", "readCash", "count", "recount",
               "expire"}
  /\ Fault
  /\ pc' = [pc EXCEPT ![c] = IF pc[c] \in {"check", "bankrupt"} THEN AfterCheck(c)
                             ELSE IF pc[c] = "boundary" THEN "readCash"
                             ELSE Return(c)]
  /\ UNCHANGED <<db, locks, locals, life>>

----------------------------------------------------------------------------
(* A panic, a reset of the airline, the death of the process *)

\* A panic is recovered by the worker or by the HTTP middleware; on the way there
\* the deferred calls roll an open transaction back and unlock the mutex.
Panic(c) ==
  /\ pc[c] # "idle"
  /\ Fault
  /\ pc' = [pc EXCEPT ![c] = "idle"]
  /\ tickMu' = IF tickMu = c THEN Nobody ELSE tickMu
  /\ userLock' = [p \in Players |-> IF userLock[p] = c THEN Nobody
                                                      ELSE userLock[p]]
  /\ UNCHANGED <<db, locals, life>>

\* One transaction; it takes no advisory lock.
Reset(p) ==
  /\ epoch[p] < MaxResets
  /\ clock' = [clock EXCEPT ![p] = season]
  /\ balance' = [balance EXCEPT ![p] = StartingCash]
  /\ status' = [status EXCEPT ![p] = "Active"]
  /\ negDays' = [negDays EXCEPT ![p] = 0]
  /\ epoch' = [epoch EXCEPT ![p] = @ + 1]
  /\ start' = [start EXCEPT ![p] = season]
  /\ billed' = [billed EXCEPT ![p] = [t \in Spans |-> 0]]
  /\ served' = [served EXCEPT ![p] = [d \in Days |-> 0]]
  /\ UNCHANGED <<season, locks, pc, locals, faults>>

\* The process dies: every goroutine is gone, open transactions roll back, the tables stay.
Crash ==
  /\ Fault
  /\ pc' = [c \in Callers |-> "idle"]
  /\ tickMu' = Nobody
  /\ userLock' = [p \in Players |-> Nobody]
  /\ UNCHANGED <<db, locals, life>>

----------------------------------------------------------------------------
Init ==
  /\ season = 0
  /\ clock = [p \in Players |-> 0]
  /\ balance = [p \in Players |-> StartingCash]
  /\ status = [p \in Players |-> "Active"]
  /\ negDays = [p \in Players |-> 0]
  /\ tickMu = Nobody
  /\ userLock = [p \in Players |-> Nobody]
  /\ pc = [c \in Callers |-> "idle"]
  /\ player = [c \in Callers |-> Nobody]
  /\ target = [c \in Callers |-> 0]
  /\ from = [c \in Callers |-> 0]
  /\ seen = [c \in Callers |-> 0]
  /\ advanced = [c \in Callers |-> FALSE]
  /\ cash = [c \in Callers |-> 0]
  /\ todo = [c \in Callers |-> {}]
  /\ epoch = [p \in Players |-> 0]
  /\ start = [p \in Players |-> 0]
  /\ billed = [p \in Players |-> [t \in Spans |-> 0]]
  /\ served = [p \in Players |-> [d \in Days |-> 0]]
  /\ faults = 0

Tick(c) ==
  \/ AdvanceSeason(c) \/ SelectPlayers(c) \/ NextPlayer(c) \/ FinishTick(c)

ProcessPlayer(c) ==
  \/ AlreadyThere(c) \/ OpenWindow(c) \/ CommitWindow(c)
  \/ CheckCash(c) \/ BankruptOnCash(c) \/ ServeDay(c) \/ ReadDayCash(c)
  \/ CountDay(c) \/ RecountDays(c) \/ BankruptOnDays(c)

Failure(c) ==
  \/ AbortTick(c) \/ LosePlayers(c) \/ RollBack(c) \/ SkipAfterCommit(c)
  \/ Panic(c)

Next ==
  \/ \E c \in Callers : StartTick(c) \/ StartSync(c) \/ Tick(c)
                          \/ ProcessPlayer(c) \/ Failure(c)
  \/ \E p \in Players : Reset(p)
  \/ Crash

Spec == Init /\ [][Next]_vars

\* The worker's ticker keeps firing, so while the mutex is free some tick starts;
\* a running goroutine keeps running; and PostgreSQL grants advisory locks in the
\* order they were asked for.
Fairness ==
  /\ WF_vars(\E c \in Ticks : StartTick(c))
  /\ \A c \in Callers : WF_vars(Tick(c)) /\ SF_vars(ProcessPlayer(c))

FairSpec == Spec /\ Fairness

----------------------------------------------------------------------------
(* Properties *)

Places == {"idle", "advance", "snapshot", "next", "lock", "bill", "check",
           "bankrupt", "boundary", "readCash", "count", "recount", "expire"}

TypeOK ==
  /\ season \in Times
  /\ clock \in [Players -> Times]
  /\ balance \in [Players -> Int]
  /\ status \in [Players -> {"Active", "Bankrupt"}]
  /\ negDays \in [Players -> Nat]
  /\ tickMu \in Ticks \cup {Nobody}
  /\ userLock \in [Players -> Callers \cup {Nobody}]
  /\ pc \in [Callers -> Places]
  /\ player \in [Callers -> Players \cup {Nobody}]
  /\ target \in [Callers -> Times]
  /\ from \in [Callers -> Times]
  /\ seen \in [Callers -> Nat]
  /\ advanced \in [Callers -> BOOLEAN]
  /\ cash \in [Callers -> Int]
  /\ todo \in [Callers -> SUBSET Players]
  /\ epoch \in [Players -> Nat]
  /\ start \in [Players -> Times]
  /\ billed \in [Players -> [Spans -> Nat]]
  /\ served \in [Players -> [Days -> Nat]]
  /\ faults \in Nat

\* Ticks, syncs, retries, resets and crashes in any order: every span of game
\* time the airline has lived through was billed once, and no other was.  Billed
\* counts the windows opened in the airline's current life; one opened before a
\* reset and committed after it is what ResetStartsClean is about.
BilledOnce ==
  \A p \in Players, t \in Spans :
    billed[p][t] = IF start[p] <= t /\ t < clock[p] THEN 1 ELSE 0

\* Two callers never serve the same day boundary of a player, so a day charges
\* one installment and counts once towards bankruptcy.
DayServedAtMostOnce ==
  \A p \in Players, d \in Days : served[p][d] <= 1

\* An account at or below the floor never outlives the caller that put it there:
\* some caller still has the check before it, also when a window opened before a
\* reset lands on the new account.  Only of runs in which no statement fails: a
\* check whose read or UPDATE fails is skipped.
InsolventIsBankrupt ==
  \A p \in Players :
    (balance[p] <= CashFloor /\ faults = 0)
      => \/ status[p] = "Bankrupt"
         \/ \E c \in Callers : player[c] = p /\ pc[c] \in {"check", "bankrupt"}

\* A player that falls behind the season, because its window failed or the
\* process died, is brought up to it by a later tick or ends bankrupt.
CatchesUp ==
  \A p \in Players :
    (clock[p] < season) ~> (clock[p] = season \/ status[p] = "Bankrupt")

\* The promise the engine makes about game time, see BillingPromise.  It is about
\* the spans of an airline's life, not its balance: the window of a former life
\* is no step of it.
Promise == INSTANCE BillingPromise
KeepsPromise == Promise!Spec

\* "Payments are auto-deducted at each game-day boundary" (00_baseline.sql:5822):
\* once no caller is about to serve it, each day entered has been served.  The
\* code serves one boundary per window, and only if the caller gets that far.
EveryDayServed ==
  \A p \in Players, d \in Days :
    (Day(start[p]) < d /\ d <= Day(clock[p]))
      => \/ served[p][d] = 1
         \/ \E c \in Callers : /\ player[c] = p
                              /\ pc[c] \in {"check", "bankrupt", "boundary"}

\* "restore starting cash" (settings.go:47): an airline just reset that has not
\* flown holds the starting cash and nothing of its former life.
ResetStartsClean ==
  \A p \in Players :
    (epoch[p] > 0 /\ clock[p] = start[p]) =>
      balance[p] = StartingCash /\ status[p] = "Active"
=============================================================================
