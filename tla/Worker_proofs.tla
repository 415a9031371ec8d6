---------------------------- MODULE Worker_proofs ----------------------------
(***************************************************************************)
(* Proofs about Worker, for any intervals, deadlines and cap of the backoff. *)
(* A healthy worker that waits has a whole interval before it in the ticker  *)
(* and behind it since its last success, taken together; and the pool is     *)
(* open until the loop has stopped.                                          *)
(***************************************************************************)
EXTENDS Worker, TLAPS

\* What is left to wait and what has been waited make up an interval.
Paced == phase = "waiting" /\ errors = 0 => left + since >= interval

\* Whoever closes the pool has waited for the loop.
StoppedFirst == pool \/ phase = "stopped"

IInv == TypeOK /\ Paced /\ StoppedFirst

\* A backoff is a period a ticker accepts.
LEMMA BackoffPositive ==
  ASSUME NEW n \in Nat
  PROVE  backoff(n) \in Nat \ {0}
<1>1. MaxBackoff \in Nat \ {0}
  BY WorkerAssumption
<1>2. CASE n > 5
  BY <1>1, <1>2 DEF backoff
<1>3. CASE ~ n > 5
  <2>1. <<1, 2, 4, 8, 16, 32>>[n + 1] \in Nat \ {0}
    <3>1. n + 1 \in 1 .. 6
      BY <1>3
    <3> QED
      BY <3>1
  <2> QED
    BY <1>1, <1>3, <2>1 DEF backoff, Least
<1> QED
  BY <1>2, <1>3

LEMMA Initially == Init => IInv
<1> SUFFICES ASSUME Init PROVE IInv
  OBVIOUS
<1>1. Base \in Nat \ {0} /\ MaxErrors \in Nat /\ MaxAhead \in Nat
  BY WorkerAssumption
<1>2. 0 \in 0 .. interval /\ left \in 0 .. period /\ 0 \in 0 .. MaxErrors /\ 0 \in 0 .. MaxAhead
  BY <1>1 DEF Init
<1>3. TypeOK
  BY <1>1, <1>2 DEF Init, TypeOK
<1>4. Paced /\ StoppedFirst
  BY DEF Init, Paced, StoppedFirst
<1> QED
  BY <1>3, <1>4 DEF IInv

----------------------------------------------------------------------------
LEMMA LoopStartsKeeps == IInv /\ LoopStarts => IInv'
BY DEF IInv, TypeOK, Paced, StoppedFirst, LoopStarts, history

LEMMA FireKeeps == IInv /\ Fire => IInv'
<1> SUFFICES ASSUME IInv, Fire PROVE IInv'
  OBVIOUS
<1>1. period' \in Nat \ {0} /\ left' \in 0 .. period'
  BY DEF IInv, TypeOK, Fire
<1>2. TypeOK'
  BY <1>1 DEF IInv, TypeOK, Fire, history
<1>3. Paced' /\ StoppedFirst'
  BY DEF IInv, Paced, StoppedFirst, Fire
<1> QED
  BY <1>2, <1>3 DEF IInv

LEMMA SeeStopKeeps == IInv /\ SeeStop => IInv'
BY DEF IInv, TypeOK, Paced, StoppedFirst, SeeStop, history

LEMMA AdvanceClockKeeps == IInv /\ AdvanceClock => IInv'
<1> SUFFICES ASSUME IInv, AdvanceClock PROVE IInv'
  OBVIOUS
<1>1. ahead' \in 0 .. MaxAhead
  <2>1. ahead \in Nat /\ season \in Nat /\ MaxAhead \in Nat
    BY WorkerAssumption DEF IInv, TypeOK
  <2> QED
    BY <2>1 DEF AdvanceClock, Least
<1> QED
  BY <1>1 DEF IInv, TypeOK, Paced, StoppedFirst, AdvanceClock

\* The new period is the interval to wait, and the waiting begins.
LEMMA TickSucceedsKeeps == IInv /\ TickSucceeds => IInv'
<1> SUFFICES ASSUME IInv, TickSucceeds PROVE IInv'
  OBVIOUS
<1>1. PICK new \in {season, interval} : Succeeded(new)
  BY DEF TickSucceeds
<1>2. new \in Nat \ {0}
  BY WorkerAssumption DEF IInv, TypeOK
<1> QED
  BY <1>1, <1>2, WorkerAssumption
  DEF IInv, TypeOK, Paced, StoppedFirst, TickSucceeds, Succeeded, ResetTicker

\* After a failure there are errors, so nothing is asked of the pace.
LEMMA FailedKeeps == IInv /\ phase = "ticking" /\ Failed => IInv'
<1> SUFFICES ASSUME IInv, phase = "ticking", Failed PROVE IInv'
  OBVIOUS
<1>1. errors' \in 0 .. MaxErrors /\ errors' > 0
  BY WorkerAssumption DEF IInv, TypeOK, Failed, Least
<1>2. backoff(errors') \in Nat \ {0}
  BY <1>1, BackoffPositive
<1>3. period' \in Nat \ {0} /\ left' \in 0 .. period'
  BY <1>2 DEF Failed, ResetTicker
<1> QED
  BY <1>1, <1>3 DEF IInv, TypeOK, Paced, StoppedFirst, Failed, history

LEMMA SecondKeeps == IInv /\ Second => IInv'
<1> SUFFICES ASSUME IInv, Second PROVE IInv'
  OBVIOUS
<1>1. /\ left \in 0 .. period /\ period \in Nat /\ interval \in Nat \ {0}
      /\ since \in 0 .. interval /\ ahead \in 0 .. MaxAhead /\ running \in Nat
      /\ MaxAhead \in Nat
  BY WorkerAssumption DEF IInv, TypeOK
<1>2. left' \in 0 .. period' /\ since' \in 0 .. interval' /\ ahead' \in 0 .. MaxAhead
  BY <1>1 DEF Second, Less, Least
<1>3. running' \in Nat
  BY <1>1, WorkerAssumption DEF Second, Least, tickTimeout
<1>4. Paced'
  <2> SUFFICES ASSUME phase' = "waiting", errors' = 0
               PROVE  left' + since' >= interval'
    BY DEF Paced
  <2>1. left > 0 /\ left + since >= interval
    BY DEF IInv, Paced, Second
  <2>2. left' = left - 1 /\ interval' = interval
    BY <1>1, <2>1 DEF Second, Less
  <2>3. left \in Nat /\ since \in Nat /\ interval \in Nat
    BY <1>1
  <2>4. CASE since' = since + 1
    BY <2>1, <2>2, <2>3, <2>4
  <2>5. CASE since' = interval
    BY <2>1, <2>2, <2>3, <2>5
  <2> QED
    BY <1>1, <2>4, <2>5 DEF Second, Least
<1> QED
  BY <1>2, <1>3, <1>4 DEF IInv, TypeOK, StoppedFirst, Second

LEMMA ShutdownKeeps == IInv /\ (Signal \/ Drained \/ StopReturns) => IInv'
BY DEF IInv, TypeOK, Paced, StoppedFirst, Signal, Drained, StopReturns, loop, history

LEMMA SetTickIntervalKeeps ==
  IInv /\ (\E secs \in Intervals : SetTickInterval(secs)) => IInv'
BY DEF IInv, TypeOK, Paced, StoppedFirst, SetTickInterval, loop, history

LEMMA Inductive == IInv /\ [Next]_vars => IInv'
<1> SUFFICES ASSUME IInv, [Next]_vars PROVE IInv'
  OBVIOUS
<1>1. CASE Loop
  BY <1>1, LoopStartsKeeps, FireKeeps, SeeStopKeeps DEF Loop
<1>2. CASE Tick
  BY <1>2, AdvanceClockKeeps, TickSucceedsKeeps, FailedKeeps DEF Tick, TickFails, TickExpires
<1>3. CASE Second
  BY <1>3, SecondKeeps
<1>4. CASE Signal \/ Drained \/ StopReturns
  BY <1>4, ShutdownKeeps
<1>5. CASE \E secs \in Intervals : SetTickInterval(secs)
  BY <1>5, SetTickIntervalKeeps
<1>6. CASE UNCHANGED vars
  BY <1>6 DEF vars, loop, history, IInv, TypeOK, Paced, StoppedFirst
<1> QED
  BY <1>1, <1>2, <1>3, <1>4, <1>5, <1>6 DEF Next

----------------------------------------------------------------------------
\* The invariant holds in every state of every behaviour.
THEOREM Invariance == Spec => []IInv
<1>1. Init => IInv
  BY Initially
<1>2. IInv /\ [Next]_vars => IInv'
  BY Inductive
<1> QED
  BY <1>1, <1>2, PTL DEF Spec

\* The worker's places, periods and counters stay well typed; no ticker is ever
\* given a period that is not positive.
THEOREM TypeCorrect == Spec => []TypeOK
<1>1. IInv => TypeOK
  BY DEF IInv
<1> QED
  BY <1>1, Invariance, PTL

\* No tick runs on a closed pool (main.go:81, 94).
THEOREM PoolStaysOpen == Spec => []PoolOutlivesTicks
<1>1. IInv => PoolOutlivesTicks
  BY DEF IInv, StoppedFirst, PoolOutlivesTicks
<1> QED
  BY <1>1, Invariance, PTL

\* A healthy worker waits a whole interval between ticks (worker.go:117), whatever
\* failed before and however the interval was changed.
THEOREM KeepsHealthyPace == Spec => HealthyPace
<1> DEFINE Pace == phase = "waiting" /\ phase' = "ticking" /\ errors = 0 => since >= interval
<1>1. IInv /\ [Next]_vars => [Pace]_vars
  <2> SUFFICES ASSUME IInv, [Next]_vars, phase = "waiting", phase' = "ticking", errors = 0
               PROVE  since >= interval
    BY DEF vars, loop
  <2>1. Fire
    BY DEF Next, Loop, Tick, LoopStarts, SeeStop, AdvanceClock, TickSucceeds, TickFails,
           TickExpires, Second, Signal, Drained, StopReturns, SetTickInterval, vars, loop
  <2>2. left = 0
    BY <2>1 DEF Fire
  <2> QED
    BY <2>2 DEF IInv, TypeOK, Paced
<1> QED
  BY <1>1, Invariance, PTL DEF Spec, HealthyPace
=============================================================================
