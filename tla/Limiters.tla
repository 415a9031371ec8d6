------------------------------ MODULE Limiters ------------------------------
(***************************************************************************)
(* The two kinds of limiter of the API over passing time: RateLimit, which   *)
(* every request passes, keyed by address, and WindowLimiter, which the      *)
(* handlers of accounts ask about keys of their own (Accounts).  Both count  *)
(* attempts in a window that begins with the first; each call is one          *)
(* critical section.                                                         *)
(***************************************************************************)
EXTENDS Integers, FiniteSets

CONSTANTS
  Addresses,
  PerMinute,  \* perMin of RateLimit
  Minute,     \* 60 seconds
  Keys,       \* of all the WindowLimiters
  Limiter,    \* the one a key belongs to
  Allowed,    \* the max its callers pass for a key
  Window,
  MaxKeys,
  MaxTime,    \* bound: time
  MaxCalls,   \* bound: attempts
  MaxRefused  \* bound: requests refused in a window

ASSUME LimiterAssumption ==
  /\ IsFiniteSet(Addresses) /\ IsFiniteSet(Keys)
  /\ {PerMinute, Minute, Window, MaxKeys} \subseteq Nat \ {0}
  /\ Allowed \in [Keys -> Nat \ {0}] /\ DOMAIN Limiter = Keys
  /\ {MaxTime, MaxCalls, MaxRefused} \subseteq Nat

VARIABLES
  now,
  slots,   \* states of RateLimit
  hits,    \* of the WindowLimiters
  calls,
  served,  \* history: the requests RateLimit let pass in each span up to now
  granted  \* history: the attempts granted to a key since it was cleared, likewise

limiters == <<now, slots, hits, calls, served, granted>>

----------------------------------------------------------------------------
\* An entry counts its attempts, so one that counts none is no entry.
NoEntry == [count |-> 0, reset |-> 0]
Entry == [count : Nat, reset : Nat]

Expired(e) == now > e.reset

\* A log has, for each span of time that ends now, how many fell into it: of none,
\* of one more, and of the same a unit of time later.
Empty(longest) == [span \in 0 .. longest |-> 0]
OneMore(log) == [span \in DOMAIN log |-> log[span] + 1]
Later(log) == [span \in DOMAIN log |-> IF span = 0 THEN 0 ELSE log[span - 1]]

\* Mutant of Counted: what is left is counted down, past nothing.
CountedDown(e, length) ==
  IF e = NoEntry \/ Expired(e) THEN [count |-> 1, reset |-> now + length]
                               ELSE [e EXCEPT !.count = @ - 1]

\* One more attempt, in a new window if there is none or it is over.
Counted(e, length) ==
  IF e = NoEntry \/ Expired(e) THEN [count |-> 1, reset |-> now + length]
                               ELSE [e EXCEPT !.count = @ + 1]

----------------------------------------------------------------------------
(* RateLimit *)

Passes(a) == Counted(slots[a], Minute).count <= PerMinute

Request(a) ==
  /\ Expired(slots[a]) \/ slots[a].count < PerMinute + MaxRefused
  /\ slots' = [slots EXCEPT ![a] = Counted(@, Minute)]
  /\ served' = IF Passes(a) THEN [served EXCEPT ![a] = OneMore(@)] ELSE served
  /\ UNCHANGED <<now, hits, calls, granted>>

\* Mutant of Old: the comparison the other way round.
OldTooSoon(s) == s.reset > now - Minute

Old(s) == s.reset < now - Minute

\* The janitor, every half minute.
DropOld ==
  /\ \E a \in Addresses : slots[a] # NoEntry /\ Old(slots[a])
  /\ slots' = [a \in Addresses |-> IF Old(slots[a]) THEN NoEntry ELSE slots[a]]
  /\ UNCHANGED <<now, hits, calls, served, granted>>

----------------------------------------------------------------------------
(* WindowLimiter *)

\* The keys of k's limiter that it has an entry for.
Held(k) == {j \in Keys : Limiter[j] = Limiter[k] /\ hits[j] # NoEntry}

Full(k) == Cardinality(Held(k)) >= MaxKeys

\* Mutant of Swept: the sweep makes room, whoever is still being counted.
SweptBlindly(k) == [j \in Keys |-> IF Limiter[j] = Limiter[k] THEN NoEntry ELSE hits[j]]

\* sweepLocked
Swept(k) ==
  [j \in Keys |-> IF Limiter[j] = Limiter[k] /\ Expired(hits[j]) THEN NoEntry ELSE hits[j]]

Granted(k) == Counted(hits[k], Window).count <= Allowed[k]

Allow(k) ==
  LET known == IF hits[k] = NoEntry /\ Full(k) THEN Swept(k) ELSE hits IN
  /\ calls < MaxCalls
  /\ calls' = calls + 1
  /\ hits' = [known EXCEPT ![k] = Counted(hits[k], Window)]
  /\ granted' = IF Granted(k) THEN [granted EXCEPT ![k] = OneMore(@)] ELSE granted
  /\ UNCHANGED <<now, slots, served>>

\* The attempt succeeded.
Clear(k) ==
  /\ hits' = [hits EXCEPT ![k] = NoEntry]
  /\ granted' = [granted EXCEPT ![k] = Empty(Window)]
  /\ UNCHANGED <<now, slots, calls, served>>

\* What a refused caller is told to wait.
RetryAfter(k) ==
  IF hits[k] = NoEntry \/ Expired(hits[k]) THEN 0 ELSE hits[k].reset - now

Pass ==
  /\ now < MaxTime
  /\ now' = now + 1
  /\ served' = [a \in Addresses |-> Later(served[a])]
  /\ granted' = [k \in Keys |-> Later(granted[k])]
  /\ UNCHANGED <<slots, hits, calls>>

----------------------------------------------------------------------------
LimitersInit ==
  /\ now = 0
  /\ slots = [a \in Addresses |-> NoEntry]
  /\ hits = [k \in Keys |-> NoEntry]
  /\ calls = 0
  /\ served = [a \in Addresses |-> Empty(Minute)]
  /\ granted = [k \in Keys |-> Empty(Window)]

----------------------------------------------------------------------------
(* Properties *)

LimitersTypeOK ==
  /\ now \in 0 .. MaxTime
  /\ slots \in [Addresses -> Entry]
  /\ hits \in [Keys -> Entry]
  /\ calls \in 0 .. MaxCalls
  /\ served \in [Addresses -> [0 .. Minute -> Nat]]
  /\ granted \in [Keys -> [0 .. Window -> Nat]]

\* No window that counts is forgotten, by the janitor (middleware.go:186-204) or
\* by the sweep at the cap (limiter.go:51): no span of a minute, wherever it begins,
\* sees more than two windows' worth of one address, nor one of the longer window
\* more than that of a key that is not cleared.
WindowsKept ==
  /\ \A a \in Addresses : served[a][Minute] <= 2 * PerMinute
  /\ \A k \in Keys : granted[k][Window] <= 2 * Allowed[k]

\* A key whose quota is spent waits for exactly the window it was told: what
\* RetryAfter said a step ago still stands, less the time that passed, unless the
\* key was cleared.
RetryAfterStands ==
  [][\A k \in Keys :
       hits[k].count > Allowed[k] /\ ~ Expired(hits[k]) =>
         \/ hits'[k] = NoEntry /\ granted'[k] = Empty(Window)
         \/ RetryAfter(k)' = RetryAfter(k) - (now' - now)
         \/ now' > hits[k].reset]_limiters

\* "sliding window in-memory per IP" (middleware.go:178): no span of a minute sees
\* more than perMin requests of an address.
SlidingWindow ==
  \A a \in Addresses : served[a][Minute - 1] <= PerMinute
=============================================================================
