--------------------------- MODULE RealtimeClient ---------------------------
(***************************************************************************)
(* The browser's end of the WebSocket: one RealtimeClient, shared by the    *)
(* stores through a RealtimeSubscription each.  connect() awaits a ticket,  *)
(* so calls overlap; events of a socket arrive after the client gave it up; *)
(* a timer reconnects.  Every connect() and disconnect() takes a new        *)
(* generation, and whatever belongs to an older one is to be ignored.       *)
(*                                                                          *)
(* JavaScript runs one callback at a time: one action is one callback, or   *)
(* one part of connect() up to or after its await.  A socket is named by    *)
(* the generation it was made in.                                           *)
(***************************************************************************)
EXTENDS Integers, FiniteSets

CONSTANTS
  Stores,    \* owners of a RealtimeSubscription
  Channels,
  MaxDelay,  \* maxReconnectDelayMs, in seconds (30)
  MaxCalls,  \* bound: calls of the application
  MaxFaults  \* bound: lost tickets and sockets

ASSUME ClientAssumption ==
  /\ IsFiniteSet(Stores)
  /\ MaxDelay \in Nat \ {0, 1}
  /\ {MaxCalls, MaxFaults} \subseteq Nat

VARIABLES
  generation,
  socket,      \* the generation of RealtimeClient.socket, 0 for null
  socketOpen,
  healthy,     \* connectionHealthy
  intentional, \* intentionalDisconnect
  timer,       \* is reconnectTimer armed
  scheduled,   \* reconnectScheduledForGeneration, 0 for -1
  attempts,    \* reconnectAttempts
  delay,       \* seconds the last reconnect waited
  refs,        \* channelRefs, 0 for no entry
  pings,       \* generations whose ping interval runs
  held,        \* RealtimeSubscription.channels
  fetching,    \* generations awaiting their ticket
  net,         \* the browser's state of each socket
  served,      \* channels the server holds for each socket
  refused,     \* history: the last connect() got no ticket
  calls, faults

retry == <<timer, scheduled, attempts, delay>>
interest == <<refs, held>>
clientVars == <<generation, socket, socketOpen, healthy, intentional, retry, interest,
                pings, fetching, net, served, refused, calls, faults>>

----------------------------------------------------------------------------
Generations == 1 .. 2 * (MaxCalls + MaxFaults) + 1
Wanted == {ch \in Channels : refs[ch] > 0}

Call == calls < MaxCalls /\ calls' = calls + 1 /\ UNCHANGED faults
Fault == faults < MaxFaults /\ faults' = faults + 1 /\ UNCHANGED calls

\* 2 << n in 32 bits, for the n that occur: the last shift reaches the sign.
Shift(n) == IF n < 30 THEN 2 * 2^n ELSE -(2^30) - 2^30

\* Mutant of Seconds: the longest wait is forgotten.
SecondsUnbounded(n) == IF Shift(n) < 2 THEN 2 ELSE Shift(n)

\* Math.max(Math.min(2 << attempts, max), 2)
Seconds(n) ==
  LET s == IF Shift(n) < MaxDelay THEN Shift(n) ELSE MaxDelay IN
  IF s < 2 THEN 2 ELSE s

\* scheduleReconnect
Arm ==
  /\ timer' = TRUE
  /\ delay' = Seconds(attempts)
  /\ attempts' = IF attempts < 30 THEN attempts + 1 ELSE attempts

\* Mutant of Teardown: the ping interval is left running.
TeardownPinging ==
  /\ socket' = 0
  /\ socketOpen' = FALSE
  /\ UNCHANGED pings

\* teardown, the closing of the socket aside
Teardown ==
  /\ socket' = 0
  /\ socketOpen' = FALSE
  /\ pings' = {}

Close(g) == net' = [net EXCEPT ![g] = "closing"]

----------------------------------------------------------------------------
(* connect(), up to its await and after *)

\* A socket that is there, open or not, is kept.
Connect ==
  IF socket # 0 THEN UNCHANGED <<generation, intentional, timer, fetching, refused>>
  ELSE /\ generation' = generation + 1
       /\ intentional' = FALSE
       /\ timer' = FALSE
       /\ fetching' = fetching \cup {generation + 1}
       /\ refused' = FALSE

Current(g) == g = generation /\ ~ intentional

\* Mutant of TicketArrives: a superseded connect() makes its socket all the same.
TicketArrivesLate(g) ==
  /\ g \in fetching
  /\ fetching' = fetching \ {g}
  /\ socket' = g
  /\ socketOpen' = FALSE
  /\ healthy' = FALSE
  /\ scheduled' = 0
  /\ pings' = pings \cup {g}
  /\ net' = [net EXCEPT ![g] = "connecting"]
  /\ UNCHANGED <<generation, intentional, timer, attempts, delay, interest, served,
                 refused, calls, faults>>

TicketArrives(g) ==
  /\ g \in fetching
  /\ fetching' = fetching \ {g}
  /\ IF Current(g)
       THEN /\ socket' = g
            /\ socketOpen' = FALSE
            /\ healthy' = FALSE
            /\ scheduled' = 0
            /\ pings' = pings \cup {g}
            /\ net' = [net EXCEPT ![g] = "connecting"]
       ELSE UNCHANGED <<socket, socketOpen, healthy, scheduled, pings, net>>
  /\ UNCHANGED <<generation, intentional, timer, attempts, delay, interest, served,
                 refused, calls, faults>>

\* No session: not an error, and no reconnect.
TicketRefused(g) ==
  /\ g \in fetching
  /\ fetching' = fetching \ {g}
  /\ refused' = (refused \/ Current(g))
  /\ UNCHANGED <<generation, socket, socketOpen, healthy, intentional, retry,
                 interest, pings, net, served, calls, faults>>

\* Mutant of TicketFails: the failed connect() just ends.
TicketFailsSilently(g) ==
  /\ g \in fetching
  /\ Fault
  /\ fetching' = fetching \ {g}
  /\ UNCHANGED <<generation, socket, socketOpen, healthy, intentional, retry,
                 interest, pings, net, served, refused>>

\* The request failed, or the socket could not be made.
TicketFails(g) ==
  /\ g \in fetching
  /\ Fault
  /\ fetching' = fetching \ {g}
  /\ IF Current(g) THEN Arm ELSE UNCHANGED <<timer, attempts, delay>>
  /\ UNCHANGED <<generation, socket, socketOpen, healthy, intentional, scheduled,
                 interest, pings, net, served, refused>>

TimerFires ==
  /\ timer
  /\ timer' = FALSE
  /\ IF intentional \/ socket # 0
       THEN UNCHANGED <<generation, intentional, fetching, refused>>
       ELSE Connect
  /\ UNCHANGED <<socket, socketOpen, healthy, scheduled, attempts, delay, interest,
                 pings, net, served, calls, faults>>

----------------------------------------------------------------------------
(* What stores and the application call *)

\* What a subscribe followed by an unsubscribe makes of the counts.
Counted(add, drop) ==
  [ch \in Channels |->
     IF ch \in add THEN refs[ch] + 1
     ELSE IF ch \in drop /\ refs[ch] > 0 THEN refs[ch] - 1 ELSE refs[ch]]

\* Messages go out on an open socket, about channels whose count left or reached 0.
Tell(new) ==
  served' = IF ~ socketOpen THEN served
            ELSE [served EXCEPT ![socket] =
                   (@ \cup {ch \in Channels : new[ch] > 0 /\ refs[ch] = 0})
                     \ {ch \in Channels : new[ch] = 0 /\ refs[ch] > 0}]

\* RealtimeSubscription.subscribe: only the difference is told.
StoreSubscribes(s, desired) ==
  LET new == Counted(desired \ held[s], held[s] \ desired) IN
  /\ Call
  /\ held' = [held EXCEPT ![s] = desired]
  /\ Connect
  /\ refs' = new
  /\ Tell(new)
  /\ UNCHANGED <<socket, socketOpen, healthy, scheduled, attempts, delay, pings, net>>

\* dispose of a store's subscription; a new store may take its place.
Dispose(s) ==
  LET new == Counted({}, held[s]) IN
  /\ held[s] # {}
  /\ held' = [held EXCEPT ![s] = {}]
  /\ refs' = new
  /\ Tell(new)
  /\ UNCHANGED <<generation, socket, socketOpen, healthy, intentional, retry, pings,
                 fetching, net, refused, calls, faults>>

\* The player logs out.
Disconnect ==
  /\ Call
  /\ intentional' = TRUE
  /\ generation' = generation + 1
  /\ timer' = FALSE
  /\ Teardown
  /\ IF socket # 0 THEN Close(socket) ELSE UNCHANGED net
  /\ healthy' = FALSE
  /\ UNCHANGED <<scheduled, attempts, delay, interest, fetching, served, refused>>

----------------------------------------------------------------------------
(* Events of a socket *)

\* Mutant of SocketOpens: the channels asked for so far are not sent.
SocketOpensSilently(g) ==
  /\ net[g] = "connecting"
  /\ net' = [net EXCEPT ![g] = "open"]
  /\ socketOpen' = (socketOpen \/ g = generation)
  /\ UNCHANGED <<generation, socket, healthy, intentional, retry, interest, pings,
                 fetching, served, refused, calls, faults>>

SocketOpens(g) ==
  /\ net[g] = "connecting"
  /\ net' = [net EXCEPT ![g] = "open"]
  /\ IF g = generation
       THEN /\ socketOpen' = TRUE
            /\ served' = [served EXCEPT ![g] = Wanted]
       ELSE UNCHANGED <<socketOpen, served>>
  /\ UNCHANGED <<generation, socket, healthy, intentional, retry, interest, pings,
                 fetching, refused, calls, faults>>

\* The first message proves the connection and ends the backoff.
MessageArrives(g) ==
  /\ net[g] = "open"
  /\ g = generation /\ ~ healthy
  /\ healthy' = TRUE
  /\ attempts' = 0
  /\ UNCHANGED <<generation, socket, socketOpen, intentional, timer, scheduled, delay,
                 interest, pings, fetching, net, served, refused, calls, faults>>

\* onError and onDone: the second of the two finds the reconnect scheduled.
Lost(g) ==
  IF g # generation THEN UNCHANGED <<socket, socketOpen, pings, retry>>
  ELSE /\ Teardown
       /\ IF intentional \/ scheduled = g THEN UNCHANGED retry
                                          ELSE scheduled' = g /\ Arm

\* onerror; the browser closes the socket.
SocketFails(g) ==
  /\ net[g] \in {"connecting", "open"}
  /\ Fault
  /\ Close(g)
  /\ Lost(g)
  /\ UNCHANGED <<generation, healthy, intentional, interest, fetching, served, refused>>

\* onclose, of a socket that failed or that we closed ...
CloseCompletes(g) ==
  /\ net[g] = "closing"
  /\ net' = [net EXCEPT ![g] = "closed"]
  /\ Lost(g)
  /\ UNCHANGED <<generation, healthy, intentional, interest, fetching, served, refused,
                 calls, faults>>

\* ... or that the server closed.
ServerCloses(g) ==
  /\ net[g] = "open"
  /\ Fault
  /\ net' = [net EXCEPT ![g] = "closed"]
  /\ Lost(g)
  /\ UNCHANGED <<generation, healthy, intentional, interest, fetching, served, refused>>

----------------------------------------------------------------------------
ClientInit ==
  /\ generation = 0
  /\ socket = 0
  /\ socketOpen = FALSE
  /\ healthy = FALSE
  /\ intentional = FALSE
  /\ timer = FALSE
  /\ scheduled = 0
  /\ attempts = 0
  /\ delay = 0
  /\ refs = [ch \in Channels |-> 0]
  /\ pings = {}
  /\ held = [s \in Stores |-> {}]
  /\ fetching = {}
  /\ net = [g \in Generations |-> "none"]
  /\ served = [g \in Generations |-> {}]
  /\ refused = FALSE
  /\ calls = 0
  /\ faults = 0

Answer(g) == TicketArrives(g) \/ TicketRefused(g) \/ TicketFails(g)
Settle(g) == SocketOpens(g) \/ SocketFails(g)

ClientNext ==
  \/ \E g \in Generations :
       \/ Answer(g) \/ Settle(g)
       \/ MessageArrives(g) \/ CloseCompletes(g) \/ ServerCloses(g)
  \/ TimerFires
  \/ \E s \in Stores : Dispose(s) \/ \E desired \in SUBSET Channels : StoreSubscribes(s, desired)
  \/ Disconnect

ClientSpec == ClientInit /\ [][ClientNext]_clientVars

\* Timers fire, requests are answered or aborted at their timeout, and a socket
\* opens or fails.
ClientFairness ==
  /\ WF_clientVars(TimerFires)
  /\ \A g \in Generations : WF_clientVars(Answer(g)) /\ WF_clientVars(Settle(g))

ClientFairSpec == ClientSpec /\ ClientFairness

----------------------------------------------------------------------------
(* Properties *)

ClientTypeOK ==
  /\ generation \in Generations \cup {0}
  /\ socket \in Generations \cup {0}
  /\ {socketOpen, healthy, intentional, timer, refused} \subseteq BOOLEAN
  /\ scheduled \in Generations \cup {0}
  /\ attempts \in 0 .. 30
  /\ delay \in 0 .. MaxDelay
  /\ refs \in [Channels -> Nat]
  /\ pings \subseteq Generations
  /\ held \in [Stores -> SUBSET Channels]
  /\ fetching \subseteq Generations
  /\ net \in [Generations -> {"none", "connecting", "open", "closing", "closed"}]
  /\ served \in [Generations -> SUBSET Channels]

\* "One connection is shared by all stores" (realtime-client.ts:39): overlapping
\* connects and late events leave no second socket, nor its ping, and after a
\* logout none at all.
OneConnection ==
  /\ \A g \in Generations : net[g] \in {"connecting", "open"} => g = socket
  /\ pings = IF socket = 0 THEN {} ELSE {socket}
  /\ intentional => socket = 0 /\ ~ timer

\* While the socket is open, the server holds exactly the channels some store
\* wants, in whatever order stores came, went and the connection broke.
ServerKnows == socketOpen => socket # 0 /\ served[socket] = Wanted

\* Once the network has stopped failing, a client left to itself is connected.
Reconnects ==
  (generation > 0) ~> (socketOpen \/ intentional \/ refused)

\* "exponential reconnect backoff 2s -> 30s, only reset once the connection is
\* proved alive" (realtime-client.ts:42): while failures follow each other with no
\* message between them, no wait is shorter than the one before.  2 << 30 is negative.
BackoffGrows ==
  [][attempts > 0 /\ attempts' >= attempts => delay' >= delay]_clientVars
=============================================================================
