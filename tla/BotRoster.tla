------------------------------ MODULE BotRoster ------------------------------
(***************************************************************************)
(* The population of computer-run airlines.  A world tick ends in           *)
(* ProcessBots: it lists the bots, simulates every one of them, lets every  *)
(* one decide, removes the bankrupt and, below the wanted number, spawns    *)
(* one.  Ticks hold tickMu, so there is one pass at a time; what can go     *)
(* wrong is a statement whose error nobody looks at, or the end of the      *)
(* process between two autocommitted statements.                            *)
(*                                                                          *)
(* What a bot decides is BotAirline's; here a decision only matters where   *)
(* it finds the bot insolvent.                                              *)
(***************************************************************************)
EXTENDS Integers, FiniteSets

CONSTANTS
  Bots,          \* bound: identities of user rows, used again after a removal
  MaxBots,       \* game_config max_bot_count
  TablesPresent, \* do all the tables named by the removal exist
  MaxFaults,     \* bound: failed statements and crashes
  MaxFailures    \* bound: airlines that go under

ASSUME RosterAssumption ==
  /\ IsFiniteSet(Bots)
  /\ {MaxBots, MaxFaults, MaxFailures} \subseteq Nat
  /\ Cardinality(Bots) >= MaxBots + MaxFaults + MaxFailures
  /\ TablesPresent \in BOOLEAN

VARIABLES
  status,     \* users.operational_status, "none" for no row
  insolvent,  \* balance under bankruptcy_cash_threshold
  profile,    \* is there a bot_profiles row
  phase,      \* of the pass: "idle", "simulate", "decide", "reap", "count", ...
  list,       \* the slice bots
  todo,       \* members of the loop's slice not yet visited
  faults,
  failures,
  miscounts,  \* history: counts of the population that failed
  unanswered  \* history: INSERTs of a bot whose answer was lost

rows == <<status, insolvent, profile>>
pass == <<phase, list, todo>>
vars == <<rows, pass, faults, failures, miscounts, unanswered>>

----------------------------------------------------------------------------
Having(s) == {b \in Bots : status[b] = s}

Active == Having("Active")

Bankrupt == Having("Bankrupt")

\* An error or a crash, while the budget lasts.
Fault ==
  /\ faults < MaxFaults
  /\ faults' = faults + 1

NoFault == UNCHANGED faults

\* The next loop starts over the members of s, or ends before it began.
Loop(p, s, after) ==
  /\ phase' = IF s = {} THEN after ELSE p
  /\ todo' = s

\* One member of the running loop is done with.
Visited(b, next, s, after) ==
  IF todo = {b} THEN Loop(next, s, after)
  ELSE UNCHANGED phase /\ todo' = todo \ {b}

----------------------------------------------------------------------------
\* The query reads the whole roster, or its cursor stops early with a logged error.
ListBots ==
  /\ phase = "idle"
  /\ \/ NoFault /\ list' = Active
     \/ Fault /\ list' \in SUBSET Active
  /\ IF list' = {} THEN phase' = "reaping" /\ todo' = {}
     ELSE phase' = "simulate" /\ todo' = list'
  /\ UNCHANGED <<rows, failures, miscounts, unanswered>>

\* applyBankruptcy is one transaction; a failure leaves the bot as it was.
applyBankruptcy(b) ==
  \/ NoFault /\ status' = [status EXCEPT ![b] = "Bankrupt"]
  \/ Fault /\ UNCHANGED status

\* Pass 1: a window leaves the bot solvent, ruins it by its balance or by its
\* days in the red, or fails as a whole; WorldSimulation has the detail.
Simulate(b) ==
  /\ phase = "simulate"
  /\ b \in todo
  /\ \/ /\ insolvent' = [insolvent EXCEPT ![b] = FALSE]
        /\ UNCHANGED <<status, failures>> /\ NoFault
     \/ /\ IF insolvent[b] THEN UNCHANGED failures
           ELSE failures < MaxFailures /\ failures' = failures + 1
        /\ \E under \in BOOLEAN : insolvent' = [insolvent EXCEPT ![b] = under]
        /\ applyBankruptcy(b)
     \/ Fault /\ UNCHANGED <<status, insolvent, failures>>
  /\ Visited(b, "decide", list, "reaping")
  /\ UNCHANGED <<profile, list, miscounts, unanswered>>

\* Pass 2 reads the bot again and ruins the one whose ruin pass 1 failed to record.
Decide(b) ==
  /\ phase = "decide"
  /\ b \in todo
  /\ IF status[b] = "Bankrupt" \/ insolvent[b] THEN applyBankruptcy(b)
     ELSE NoFault /\ UNCHANGED status
  /\ Visited(b, "reaping", {}, "reaping")
  /\ UNCHANGED <<insolvent, profile, list, failures, miscounts, unanswered>>

\* Mutant of ToReap: only what went bankrupt in this tick.
ToReapOfList == Bankrupt \cap list

\* Bankrupt in this tick or in an earlier one.
ToReap == Bankrupt

\* A failed query reaps nobody.
ListBankrupt ==
  /\ phase = "reaping"
  /\ \/ NoFault /\ Loop("reap", ToReap, "count")
     \/ Fault /\ Loop("reap", {}, "count")
  /\ UNCHANGED <<rows, list, failures, miscounts, unanswered>>

\* Mutant of Removed: the profile is forgotten.
RemovedButProfile(b) ==
  /\ status' = [status EXCEPT ![b] = "none"]
  /\ insolvent' = [insolvent EXCEPT ![b] = FALSE]
  /\ UNCHANGED profile

\* Everything that refers to the user goes with it.
Removed(b) ==
  /\ status' = [status EXCEPT ![b] = "none"]
  /\ insolvent' = [insolvent EXCEPT ![b] = FALSE]
  /\ profile' = [profile EXCEPT ![b] = FALSE]

\* One transaction per bot.  The errors of the nine tables are ignored, but the
\* first of them aborts the transaction: the delete from bot_profiles then fails
\* too and everything is rolled back.
Reap(b) ==
  /\ phase = "reap"
  /\ b \in todo
  /\ \/ TablesPresent /\ NoFault /\ Removed(b)
     \/ ~ TablesPresent /\ NoFault /\ UNCHANGED rows
     \/ Fault /\ UNCHANGED rows
  /\ Visited(b, "count", {}, "count")
  /\ UNCHANGED <<list, failures, miscounts, unanswered>>

\* Mutant of SpawnsOne: one bot too many.
SpawnsOneInclusive(botCount) == botCount <= MaxBots

SpawnsOne(botCount) == botCount < MaxBots

\* The error of the count is dropped, and botCount stays zero.
Count ==
  /\ phase = "count"
  /\ \E botCount \in {Cardinality(Active), 0} :
       /\ phase' = IF SpawnsOne(botCount) THEN "spawn" ELSE "idle"
       /\ \/ botCount = Cardinality(Active) /\ NoFault /\ UNCHANGED miscounts
          \/ botCount = 0 /\ Fault /\ miscounts' = miscounts + 1
  /\ list' = {}
  /\ UNCHANGED <<rows, todo, failures, unanswered>>

\* Any identity without a row: none has anything left of an earlier bot.
Free == CHOOSE b \in Having("none") : TRUE

Inserted ==
  /\ Having("none") # {}
  /\ status' = [status EXCEPT ![Free] = "Active"]

\* The row of the user, by itself.  An error, whatever it is, makes the loop try
\* again, until the ten attempts are spent: also the one of an INSERT that was
\* carried out and whose answer was lost.
SpawnUser ==
  /\ phase = "spawn"
  /\ \/ /\ NoFault
        /\ Inserted
        /\ todo' = {Free}
        /\ phase' = "profile"
        /\ UNCHANGED unanswered
     \/ /\ Fault
        /\ \/ UNCHANGED <<status, unanswered>>
           \/ Inserted /\ unanswered' = unanswered + 1
        /\ phase' \in {"spawn", "idle"}
        /\ UNCHANGED todo
  /\ UNCHANGED <<insolvent, profile, list, failures, miscounts>>

\* Then the row of the profile, whose error nobody looks at.
SpawnProfile ==
  /\ phase = "profile"
  /\ \/ /\ NoFault
        /\ profile' = [b \in Bots |-> profile[b] \/ b \in todo]
     \/ Fault /\ UNCHANGED profile
  /\ phase' = "idle"
  /\ todo' = {}
  /\ UNCHANGED <<status, insolvent, list, failures, miscounts, unanswered>>

\* The process ends, or the tick's deadline passes: no statement after it is
\* carried out.
Crash ==
  /\ phase # "idle"
  /\ Fault
  /\ phase' = "idle"
  /\ list' = {}
  /\ todo' = {}
  /\ UNCHANGED <<rows, failures, miscounts, unanswered>>

----------------------------------------------------------------------------
Init ==
  /\ status = [b \in Bots |-> "none"]
  /\ insolvent = [b \in Bots |-> FALSE]
  /\ profile = [b \in Bots |-> FALSE]
  /\ phase = "idle"
  /\ list = {}
  /\ todo = {}
  /\ faults = 0
  /\ failures = 0
  /\ miscounts = 0
  /\ unanswered = 0

\* What the pass does next.
Pass ==
  \/ ListBots \/ ListBankrupt \/ Count \/ SpawnUser \/ SpawnProfile
  \/ \E b \in Bots : Simulate(b) \/ Decide(b) \/ Reap(b)

Next == Pass \/ Crash

Spec == Init /\ [][Next]_vars

\* The worker keeps ticking (Worker.KeepsTicking) and a pass runs to its end.
FairSpec == Spec /\ WF_vars(Pass)

----------------------------------------------------------------------------
\* The type invariant.  What is said of a bot is said of one that has a row.
TypeOK ==
  /\ status \in [Bots -> {"none", "Active", "Bankrupt"}]
  /\ insolvent \in [Bots -> BOOLEAN]
  /\ profile \in [Bots -> BOOLEAN]
  /\ phase \in {"idle", "simulate", "decide", "reaping", "reap", "count", "spawn", "profile"}
  /\ list \subseteq Bots
  /\ todo \subseteq Bots
  /\ faults \in 0 .. MaxFaults
  /\ failures \in 0 .. MaxFailures
  /\ miscounts \in 0 .. faults
  /\ unanswered \in 0 .. faults
  /\ \A b \in Having("none") : ~ profile[b] /\ ~ insolvent[b]

\* "Ensure the active bot population is exactly max_bot_count" (bots.go:149):
\* never above it, but for one bot per count that failed, and zero is what the
\* code then takes the population to be, and one per INSERT whose answer was lost,
\* and the loop then inserts another.
RosterCapped == Cardinality(Active) <= MaxBots + miscounts + unanswered

\* Violated: "mirror spawn_bot" (bots.go:674), which inserts the user and the
\* profile in one transaction (00_baseline.sql:5096-5118).  Here the second
\* insert may be lost, or never be reached since the answer to the first was, and
\* the bot fills its place without ever acting: every cooldown is read from the
\* row that is missing.
NoMuteBots == \A b \in Active : profile[b] \/ phase = "profile"

\* Once statements stop failing and airlines stop failing, the bankrupt and the
\* insolvent are gone and the roster is full (bots.go:144-157): what one pass
\* left behind, a later pass finishes.
RosterSettles ==
  <>[](Cardinality(Active) >= MaxBots /\ \A b \in Bots : status[b] # "none" =>
         status[b] = "Active" /\ ~ insolvent[b])
=============================================================================
