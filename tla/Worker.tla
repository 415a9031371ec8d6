------------------------------- MODULE Worker -------------------------------
(***************************************************************************)
(* The background worker that ticks the world, from its start to the        *)
(* shutdown of the process.  Its ticker is slowed or hurried by backoff, it *)
(* follows season_clock.tick_interval_seconds, and main stops it before it  *)
(* closes the pool.                                                         *)
(*                                                                          *)
(* Time passes in seconds, one action Second.  A Go ticker keeps one tick   *)
(* for a loop that is late, and Reset drops it.                             *)
(***************************************************************************)
EXTENDS Integers, Sequences

CONSTANTS
  Base,          \* WORKER_TICK_INTERVAL_SECONDS
  Intervals,     \* values of season_clock.tick_interval_seconds
  MaxBackoff,    \* 60 in the code
  ShortInterval, \* 30: an interval below it ...
  ShortTimeout,  \* ... leaves a tick 45 seconds
  MaxErrors,     \* bound: failures in a row told apart
  MaxAhead       \* bound: seconds of the world's lead told apart

ASSUME WorkerAssumption ==
  /\ Base \in Nat \ {0}
  /\ Intervals \subseteq Nat \ {0}
  /\ {MaxBackoff, ShortInterval, ShortTimeout, MaxErrors, MaxAhead} \subseteq Nat \ {0}

VARIABLES
  phase,     \* of the loop: "starting", "waiting", "ticking", "stopped"
  interval,  \* Worker.interval
  period,    \* of the ticker
  left,      \* seconds until the ticker fires, 0 for a tick in its channel
  errors,
  running,   \* seconds the tick has run, up to its deadline
  advanced,  \* has this tick committed the season clock
  season,    \* tick_interval_seconds
  main,      \* "serving", "draining", "stopping", "exited"
  pool,      \* is the connection pool open
  since,     \* history: seconds since the last tick succeeded, up to interval
  ahead      \* history: game time granted and not yet lived through, in seconds

loop == <<phase, interval, period, left, errors, running, advanced>>
history == <<since, ahead>>
vars == <<loop, season, main, pool, history>>

----------------------------------------------------------------------------
Least(a, b) == IF a < b THEN a ELSE b

\* A second less, or none left.
Less(n) == IF n = 0 THEN 0 ELSE n - 1

\* Mutant of backoff: the doubling starts from nothing.
backoffFromZero(n) == IF n > 5 THEN MaxBackoff ELSE 0

\* Doubled n times and cut off: six doublings pass any cap up to a minute.
backoff(n) == IF n > 5 THEN MaxBackoff
              ELSE Least(<<1, 2, 4, 8, 16, 32>>[n + 1], MaxBackoff)

\* The shutdown has cancelled the worker's context.
Cancelled == main # "serving"

tickTimeout == IF interval < ShortInterval THEN ShortTimeout ELSE interval

LoopStarts ==
  /\ phase = "starting"
  /\ phase' = "waiting"
  /\ period' = interval
  /\ left' = interval
  /\ UNCHANGED <<interval, errors, running, advanced, season, main, pool, history>>

\* Where more than one case of the select is ready, any may be taken.
Fire ==
  /\ phase = "waiting"
  /\ left = 0
  /\ phase' = "ticking"
  /\ left' = period
  /\ running' = 0
  /\ advanced' = FALSE
  /\ UNCHANGED <<interval, period, errors, season, main, pool, history>>

\* Mutant of SeeStop: a stop is only seen while ticks succeed.
SeeStopWhenHealthy ==
  /\ phase = "waiting"
  /\ Cancelled
  /\ errors = 0
  /\ phase' = "stopped"
  /\ UNCHANGED <<interval, period, left, errors, running, advanced, season, main, pool,
                 history>>

SeeStop ==
  /\ phase = "waiting"
  /\ Cancelled
  /\ phase' = "stopped"
  /\ UNCHANGED <<interval, period, left, errors, running, advanced, season, main, pool,
                 history>>

----------------------------------------------------------------------------
(* A tick *)

\* advanceSeasonClock is committed before the rest of the tick.
AdvanceClock ==
  /\ phase = "ticking"
  /\ ~ advanced
  /\ advanced' = TRUE
  /\ ahead' = Least(ahead + season, MaxAhead)
  /\ UNCHANGED <<phase, interval, period, left, errors, running, season, main, pool, since>>

\* ticker.Reset
ResetTicker(p) ==
  /\ period' = p
  /\ left' = p

\* Mutant of Succeeded: the ticker is only reset after an error.
SucceededWithoutReset(new) ==
  /\ phase' = "waiting"
  /\ errors' = 0
  /\ interval' = new
  /\ since' = 0
  /\ UNCHANGED <<period, left>>

Succeeded(new) ==
  /\ phase' = "waiting"
  /\ errors' = 0
  /\ interval' = new
  /\ since' = 0
  /\ ResetTicker(new)

\* The interval is read again, and stays as it was where that fails.
TickSucceeds ==
  /\ phase = "ticking"
  /\ advanced
  /\ \E new \in {season, interval} : Succeeded(new)
  /\ UNCHANGED <<running, advanced, season, main, pool, ahead>>

Failed ==
  /\ phase' = "waiting"
  /\ errors' = Least(errors + 1, MaxErrors)
  /\ ResetTicker(backoff(errors'))
  /\ UNCHANGED <<interval, running, advanced, season, main, pool, history>>

\* An error or a recovered panic, before the clock is advanced (another tick is
\* running, no active season) or after it (snapshot, players).
TickFails == phase = "ticking" /\ Failed

\* Mutant of Expired: a tick runs under the worker's own context.
ExpiredAtShutdown == Cancelled

\* The tick's context is done, by its deadline or with the process.
Expired == Cancelled \/ running >= tickTimeout

\* Everything in a tick takes its context.
TickExpires == phase = "ticking" /\ Expired /\ Failed

----------------------------------------------------------------------------
(* The rest of the process *)

Signal ==
  /\ main = "serving"
  /\ main' = "draining"
  /\ UNCHANGED <<loop, season, pool, history>>

\* srv.Shutdown returns, at the latest after its five seconds.
Drained ==
  /\ main = "draining"
  /\ main' = "stopping"
  /\ UNCHANGED <<loop, season, pool, history>>

\* Mutant of StopReturns: Stop signals and does not wait.
StopReturnsAtOnce ==
  /\ main = "stopping"
  /\ main' = "exited"
  /\ pool' = FALSE
  /\ UNCHANGED <<loop, season, history>>

\* Worker.Stop has waited for the loop; the next deferred call closes the pool.
StopReturns ==
  /\ main = "stopping"
  /\ phase = "stopped"
  /\ main' = "exited"
  /\ pool' = FALSE
  /\ UNCHANGED <<loop, season, history>>

SetTickInterval(secs) ==
  /\ secs # season
  /\ season' = secs
  /\ UNCHANGED <<loop, main, pool, history>>

Second ==
  /\ \/ phase = "waiting" /\ left > 0 /\ ~ Cancelled
     \/ phase = "ticking" /\ ~ Expired
  /\ left' = Less(left)
  /\ running' = IF phase = "ticking" THEN Least(running + 1, tickTimeout) ELSE running
  /\ since' = Least(since + 1, interval)
  /\ ahead' = Less(ahead)
  /\ UNCHANGED <<phase, interval, period, errors, advanced, season, main, pool>>

----------------------------------------------------------------------------
Init ==
  /\ phase = "starting"
  /\ interval = Base
  /\ period = Base
  /\ left = Base
  /\ errors = 0
  /\ running = 0
  /\ advanced = FALSE
  /\ season \in Intervals
  /\ main = "serving"
  /\ pool = TRUE
  /\ since = 0
  /\ ahead = 0

Loop == LoopStarts \/ Fire \/ SeeStop
Tick == AdvanceClock \/ TickSucceeds \/ TickFails \/ TickExpires

Next ==
  \/ Loop
  \/ Tick
  \/ Second
  \/ Signal \/ Drained \/ StopReturns
  \/ \E secs \in Intervals : SetTickInterval(secs)

Spec == Init /\ [][Next]_vars

\* The loop runs, clocks go on and contexts expire.  Nothing makes a tick succeed,
\* fail, or get anywhere before its deadline.
Fairness ==
  /\ WF_vars(LoopStarts)
  /\ WF_vars(Fire)
  /\ WF_vars(SeeStop)
  /\ WF_vars(TickExpires)
  /\ WF_vars(Second)
  /\ WF_vars(Drained)
  /\ WF_vars(StopReturns)

FairSpec == Spec /\ Fairness

----------------------------------------------------------------------------
(* Properties *)

TypeOK ==
  /\ phase \in {"starting", "waiting", "ticking", "stopped"}
  /\ {interval, period} \subseteq Nat \ {0}
  /\ left \in 0 .. period
  /\ errors \in 0 .. MaxErrors
  /\ running \in Nat
  /\ advanced \in BOOLEAN
  /\ pool \in BOOLEAN
  /\ season \in Intervals
  /\ main \in {"serving", "draining", "stopping", "exited"}
  /\ since \in 0 .. interval
  /\ ahead \in 0 .. MaxAhead

\* The backoff does not stick (worker.go:117): after a tick that succeeded, or the
\* start, the next one comes a whole interval later, however many failed before.
HealthyPace ==
  [][phase = "waiting" /\ phase' = "ticking" /\ errors = 0 => since >= interval]_vars

\* No tick runs on a closed pool: main closes it after the worker has stopped.
PoolOutlivesTicks == phase = "ticking" => pool

\* A tick that hangs ends at its deadline, and a worker that waits ticks again.
KeepsTicking ==
  /\ phase = "ticking" ~> phase # "ticking"
  /\ phase = "waiting" ~> phase \in {"ticking", "stopped"}

\* A signal ends the process, whatever the tick of the moment does.
Stops == Cancelled ~> main = "exited"

\* "the world tick ran much faster than tick_interval_seconds and world time raced
\* on" (worker.go:119), which the backoff was mended to prevent: the worker grants
\* no more than one tick of game time that has not passed.
HonestCadence == ahead <= Base
=============================================================================
