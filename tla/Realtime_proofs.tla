-------------------------- MODULE Realtime_proofs --------------------------
(***************************************************************************)
(* Proofs about the two ends of the WebSocket, RealtimeHub and              *)
(* RealtimeClient, each for itself.                                         *)
(*                                                                          *)
(* The hub, for any connections, channel names and buffer: the two indexes  *)
(* of the subscriptions agree because the hub's mutex makes every change of *)
(* both one step; the type invariant says which rows exist.                 *)
(*                                                                          *)
(* The client, for any stores, channels, calls and failures: a connect()    *)
(* takes a generation while there is no socket, so the socket is always the *)
(* latest generation's and whatever older ones still answer is ignored.     *)
(***************************************************************************)
EXTENDS RealtimeHub, RealtimeClient, TLAPS

----------------------------------------------------------------------------
(* The hub *)

\* A send changes neither the shape of a Send channel nor one that is closed.
LEMMA SendTyped ==
  ASSUME NEW s \in [closed : BOOLEAN, waiting : 0 .. Buffer]
  PROVE  /\ TrySend(s) \in [closed : BOOLEAN, waiting : 0 .. Buffer]
         /\ TrySend(s).closed = s.closed
         /\ s.closed => TrySend(s) = s
<1>1. s.waiting \in Nat /\ s.waiting <= Buffer /\ s.closed \in BOOLEAN
  BY HubAssumption
<1>2. CASE ~ s.closed /\ s.waiting < Buffer
  <2>1. s.waiting + 1 \in 0 .. Buffer
    BY <1>1, <1>2, HubAssumption
  <2>2. TrySend(s) = [s EXCEPT !.waiting = s.waiting + 1]
    BY <1>2 DEF TrySend
  <2>3. [s EXCEPT !.waiting = s.waiting + 1] \in [closed : BOOLEAN, waiting : 0 .. Buffer]
    BY <2>1
  <2> QED
    BY <1>2, <2>2, <2>3
<1>3. CASE ~ (~ s.closed /\ s.waiting < Buffer)
  <2>1. TrySend(s) = s
    BY <1>3 DEF TrySend
  <2> QED
    BY <2>1
<1> QED
  BY <1>2, <1>3

\* Taking a message, or closing, keeps a Send channel a Send channel.
LEMMA SendUpdates ==
  ASSUME NEW s \in [closed : BOOLEAN, waiting : 0 .. Buffer]
  PROVE  /\ LET t == [s EXCEPT !.closed = TRUE] IN
            /\ t \in [closed : BOOLEAN, waiting : 0 .. Buffer]
            /\ t.closed = TRUE /\ t.waiting = s.waiting
         /\ s.waiting > 0 =>
              LET t == [s EXCEPT !.waiting = s.waiting - 1] IN
              /\ t \in [closed : BOOLEAN, waiting : 0 .. Buffer]
              /\ t.closed = s.closed /\ t.waiting <= s.waiting
<1>1. s.waiting \in Nat /\ s.waiting <= Buffer
  BY HubAssumption
<1>2. s.waiting > 0 => s.waiting - 1 \in 0 .. Buffer /\ s.waiting - 1 <= s.waiting
  BY <1>1, HubAssumption
<1> QED
  BY <1>1, <1>2

----------------------------------------------------------------------------
\* What a step does to the Send channels: each keeps its type, and a closed one
\* stays closed and takes no message.
LEMMA SendStep ==
  TypeOK /\ [Next]_vars =>
    /\ send' \in [Clients -> [closed : BOOLEAN, waiting : 0 .. Buffer]]
    /\ \A c \in Clients : send[c].closed =>
         send'[c].closed /\ send'[c].waiting <= send[c].waiting
<1> DEFINE Row == [closed : BOOLEAN, waiting : 0 .. Buffer]
           Kept(s, t) == t \in Row /\ (s.closed => t.closed /\ t.waiting <= s.waiting)
           Good == send' \in [Clients -> Row] /\ \A c \in Clients : Kept(send[c], send'[c])
<1> SUFFICES ASSUME TypeOK, [Next]_vars PROVE Good
  OBVIOUS
<1>0. /\ send \in [Clients -> Row]
      /\ \A c \in Clients : /\ send[c] \in Row
                            /\ send[c].waiting \in Nat
                            /\ Kept(send[c], send[c])
  <2>1. send \in [Clients -> Row] /\ \A c \in Clients : send[c] \in Row
    BY DEF TypeOK
  <2>2. \A c \in Clients : send[c].waiting \in Nat
    BY <2>1, HubAssumption
  <2> QED
    BY <2>1, <2>2
<1>1. \A c \in Clients : Kept(send[c], TrySend(send[c]))
  BY <1>0, SendTyped
<1>2. ASSUME NEW c \in Clients, send' = [send EXCEPT ![c] = TrySend(send[c])]
      PROVE  Good
  BY <1>0, <1>1, <1>2
<1>3. ASSUME NEW c \in Clients, send' = [send EXCEPT ![c].closed = TRUE]
      PROVE  Good
  <2>1. Kept(send[c], [send[c] EXCEPT !.closed = TRUE])
    BY <1>0, SendUpdates
  <2> QED
    BY <1>0, <1>3, <2>1
<1>4. ASSUME NEW c \in Clients, send[c].waiting > 0,
             send' = [send EXCEPT ![c].waiting = send[c].waiting - 1]
      PROVE  Good
  <2>1. Kept(send[c], [send[c] EXCEPT !.waiting = send[c].waiting - 1])
    BY <1>0, <1>4, SendUpdates
  <2> QED
    BY <1>0, <1>4, <2>1
<1>5. ASSUME NEW S \in SUBSET Clients,
             send' = [c \in Clients |-> IF c \in S THEN TrySend(send[c]) ELSE send[c]]
      PROVE  Good
  BY <1>0, <1>1, <1>5
<1>6. ASSUME NEW ch \in Allowed, Broadcast(ch) PROVE Good
  <2>1. channels[ch] \in SUBSET Clients
    BY HubAssumption DEF TypeOK
  <2> QED
    BY <1>5, <1>6, <2>1 DEF Broadcast
<1>7. CASE BroadcastAll
  BY <1>5, <1>7 DEF BroadcastAll, TypeOK
<1>8. CASE send' = send
  BY <1>0, <1>8
<1>9. ASSUME NEW c \in Clients, Peer(c) PROVE Good
  BY <1>2, <1>8, <1>9
  DEF Peer, ServeWS, Leave, ReadMessage, AnswerPing, ReadTimesOut, PingFails
<1>10. ASSUME NEW c \in Clients, Read(c) PROVE Good
  BY <1>3, <1>8, <1>10
  DEF Read, Subscribe, Unsubscribe, ReadFails, CloseSend, ReaderHangUp
<1>11. ASSUME NEW c \in Clients, Write(c) PROVE Good
  BY <1>3, <1>4, <1>8, <1>11
  DEF Write, WriteMessage, WriteFails, SeeClosed, WriterHangUp, Unregister
<1> QED
  BY <1>6, <1>7, <1>8, <1>9, <1>10, <1>11 DEF Next, vars

\* Every step of the hub and of both pumps keeps the types.
LEMMA TypeStep == TypeOK /\ [Next]_vars => TypeOK'
<1> SUFFICES ASSUME TypeOK, [Next]_vars PROVE TypeOK'
  OBVIOUS
<1> DEFINE Good ==
      /\ clients' \subseteq Clients
      /\ channels' \in [Names -> SUBSET Clients]
      /\ own' \in [Clients -> SUBSET Names]
      /\ conn' \in [Clients -> {"none", "open", "gone", "shut"}]
      /\ reader' \in [Clients -> {"none", "read", "subscribe", "unsubscribe",
                                  "close", "hangup", "done"}]
      /\ todo' \in [Clients -> SUBSET Names]
      /\ writer' \in [Clients -> {"none", "wait", "hangup", "unregister", "done"}]
<1> SUFFICES Good
  BY SendStep DEF TypeOK
<1>0. /\ clients \subseteq Clients
      /\ channels \in [Names -> SUBSET Clients]
      /\ own \in [Clients -> SUBSET Names]
      /\ conn \in [Clients -> {"none", "open", "gone", "shut"}]
      /\ reader \in [Clients -> {"none", "read", "subscribe", "unsubscribe",
                                 "close", "hangup", "done"}]
      /\ todo \in [Clients -> SUBSET Names]
      /\ writer \in [Clients -> {"none", "wait", "hangup", "unregister", "done"}]
  BY DEF TypeOK
<1> USE <1>0 DEF hub, ReaderStep, WriterStep
<1>1. ASSUME NEW c \in Clients, Peer(c) PROVE Good
  <2>1. CASE ServeWS(c)
    BY <2>1 DEF ServeWS
  <2>2. CASE ReadMessage(c)
    <3>1. PICK asked \in SUBSET Names :
            /\ \/ /\ ReaderStep(c, "read", "subscribe")
                  /\ todo' = [todo EXCEPT ![c] = asked \cap Allowed]
               \/ /\ ReaderStep(c, "read", "unsubscribe")
                  /\ todo' = [todo EXCEPT ![c] = asked]
            /\ UNCHANGED <<hub, send, conn, writer>>
      BY <2>2 DEF ReadMessage
    <3>2. asked \cap Allowed \in SUBSET Names
      OBVIOUS
    <3> QED
      BY <3>1, <3>2
  <2>3. CASE Leave(c) \/ AnswerPing(c) \/ ReadTimesOut(c) \/ PingFails(c)
    BY <2>3 DEF Leave, AnswerPing, ReadTimesOut, PingFails
  <2> QED
    BY <1>1, <2>1, <2>2, <2>3 DEF Peer
<1>2. ASSUME NEW c \in Clients, NEW ch \in Names, Subscribe(c, ch) \/ Unsubscribe(c, ch)
      PROVE  Good
  <2>1. todo' \in [Clients -> SUBSET Names] /\ reader' \in
          [Clients -> {"none", "read", "subscribe", "unsubscribe", "close",
                       "hangup", "done"}]
    BY <1>2 DEF Subscribe, Unsubscribe, NextChannel
  <2>2. CASE Subscribe(c, ch)
    BY <2>1, <2>2 DEF Subscribe
  <2>3. CASE Unsubscribe(c, ch)
    BY <2>1, <2>3 DEF Unsubscribe
  <2> QED
    BY <1>2, <2>2, <2>3
<1>3. ASSUME NEW c \in Clients, ReadFails(c) \/ CloseSend(c) \/ ReaderHangUp(c)
      PROVE  Good
  BY <1>3 DEF ReadFails, CloseSend, ReaderHangUp
<1>4. ASSUME NEW c \in Clients, Write(c) PROVE Good
  <2>1. CASE Unregister(c)
    BY <2>1 DEF Unregister
  <2>2. CASE WriteMessage(c) \/ WriteFails(c) \/ SeeClosed(c) \/ WriterHangUp(c)
    BY <2>2 DEF WriteMessage, WriteFails, SeeClosed, WriterHangUp
  <2> QED
    BY <1>4, <2>1, <2>2 DEF Write
<1>5. CASE UNCHANGED <<hub, conn, reader, todo, writer>>
  BY <1>5
<1> QED
  BY <1>1, <1>2, <1>3, <1>4, <1>5 DEF Next, vars, Read, Broadcast, BroadcastAll

\* Each method that changes one index changes the other in the same step.
LEMMA AgreeStep == TypeOK /\ IndexesAgree /\ [Next]_vars => IndexesAgree'
<1> SUFFICES ASSUME TypeOK, IndexesAgree, [Next]_vars PROVE IndexesAgree'
  OBVIOUS
<1>0. channels \in [Names -> SUBSET Clients] /\ own \in [Clients -> SUBSET Names]
  BY DEF TypeOK
<1> USE DEF IndexesAgree, hub
<1>1. ASSUME NEW c \in Clients, NEW ch \in Names, Subscribe(c, ch) \/ Unsubscribe(c, ch)
      PROVE  IndexesAgree'
  <2>1. CASE Subscribe(c, ch)
    BY <1>0, <2>1 DEF Subscribe
  <2>2. CASE Unsubscribe(c, ch)
    BY <1>0, <2>2 DEF Unsubscribe
  <2> QED
    BY <1>1, <2>1, <2>2
<1>2. ASSUME NEW c \in Clients, Unregister(c) PROVE IndexesAgree'
  BY <1>0, <1>2 DEF Unregister
<1>3. CASE UNCHANGED <<channels, own>>
  BY <1>3
<1> QED
  BY <1>1, <1>2, <1>3
  DEF Next, vars, Peer, Read, Write, ServeWS, Leave, ReadMessage, AnswerPing,
      ReadTimesOut, PingFails, ReadFails, CloseSend, ReaderHangUp, WriteMessage,
      WriteFails, SeeClosed, WriterHangUp, Broadcast, BroadcastAll

----------------------------------------------------------------------------
\* Clients, subscriptions and pumps keep their types, and no Send channel ever
\* holds more than Buffer messages (hub.go:45).
THEOREM TypeCorrect == Spec => []TypeOK
<1>1. Init => TypeOK
  BY HubAssumption DEF Init, TypeOK
<1> QED
  BY <1>1, TypeStep, PTL DEF Spec

\* Whatever pumps, handlers and ticks race, Hub.channels and the sets of the
\* clients record the same subscriptions.
THEOREM IndexesAlwaysAgree == Spec => []IndexesAgree
<1>1. Init => IndexesAgree
  BY DEF Init, IndexesAgree
<1> QED
  BY <1>1, AgreeStep, TypeCorrect, PTL DEF Spec

\* No step sends on a closed channel, or opens it again.
THEOREM NoSendAfterClose == Spec => ClosedForGood
<1>1. TypeOK /\ [Next]_vars =>
        [\A c \in Clients : send[c].closed =>
           send'[c].closed /\ send'[c].waiting <= send[c].waiting]_vars
  BY SendStep
<1> QED
  BY <1>1, TypeCorrect, PTL DEF Spec, ClosedForGood

----------------------------------------------------------------------------
(* The hub: the pumps of a connection *)

\* The pump that ends leaves the other a reason to end: a closed Send, or a socket that
\* is shut; and a client is in the hub exactly as long as its write pump has not done.
\* What Released needs fairness only to carry on from.
LastWord ==
  \A c \in Clients :
    /\ conn[c] = "none" <=> reader[c] = "none"
    /\ reader[c] = "none" <=> writer[c] = "none"
    /\ c \in clients <=> writer[c] \notin {"none", "done"}
    /\ send[c].closed <=> reader[c] \in {"hangup", "done"} \/ writer[c] = "done"
    /\ conn[c] = "shut" <=> reader[c] = "done" \/ writer[c] \in {"unregister", "done"}

\* The steps that send, or take a message, close nothing.
LEMMA SendsCloseNothing ==
  ASSUME TypeOK,
         \/ \E c \in Clients : AnswerPing(c) \/ WriteMessage(c) \/ WriteFails(c)
         \/ \E ch \in Allowed : Broadcast(ch)
         \/ BroadcastAll
  PROVE  \A c \in Clients : send'[c].closed = send[c].closed
<1>1. send \in [Clients -> [closed : BOOLEAN, waiting : 0 .. Buffer]]
  BY DEF TypeOK
<1>2. \A c \in Clients : TrySend(send[c]).closed = send[c].closed
  BY <1>1, SendTyped
<1>3. ASSUME NEW c \in Clients, send' = [send EXCEPT ![c] = TrySend(send[c])]
      PROVE  \A d \in Clients : send'[d].closed = send[d].closed
  BY <1>1, <1>2, <1>3
<1>4. ASSUME NEW c \in Clients, send' = [send EXCEPT ![c].waiting = send[c].waiting - 1]
      PROVE  \A d \in Clients : send'[d].closed = send[d].closed
  BY <1>1, <1>4
<1>5. ASSUME NEW s, send' = [c \in Clients |-> IF c \in s THEN TrySend(send[c]) ELSE send[c]]
      PROVE  \A d \in Clients : send'[d].closed = send[d].closed
  BY <1>2, <1>5
<1> QED
  BY <1>3, <1>4, <1>5 DEF AnswerPing, WriteMessage, WriteFails, Broadcast, BroadcastAll

LEMMA LastWordStep == TypeOK /\ LastWord /\ [Next]_vars => LastWord'
<1> SUFFICES ASSUME TypeOK, LastWord, [Next]_vars PROVE LastWord'
  OBVIOUS
<1>0. /\ conn \in [Clients -> {"none", "open", "gone", "shut"}]
      /\ reader \in [Clients -> {"none", "read", "subscribe", "unsubscribe", "close",
                                 "hangup", "done"}]
      /\ writer \in [Clients -> {"none", "wait", "hangup", "unregister", "done"}]
      /\ send \in [Clients -> [closed : BOOLEAN, waiting : 0 .. Buffer]]
  BY DEF TypeOK
<1> USE <1>0 DEF LastWord, hub, ReaderStep, WriterStep
<1>1. ASSUME NEW c \in Clients, ServeWS(c) PROVE LastWord'
  BY <1>1 DEF ServeWS
<1>2. ASSUME NEW c \in Clients, Leave(c) \/ ReadTimesOut(c) \/ PingFails(c) PROVE LastWord'
  BY <1>2 DEF Leave, ReadTimesOut, PingFails
<1>3. ASSUME NEW c \in Clients, ReadMessage(c) PROVE LastWord'
  BY <1>3 DEF ReadMessage
<1>4. ASSUME NEW c \in Clients, NEW ch \in Names, Subscribe(c, ch) \/ Unsubscribe(c, ch)
      PROVE  LastWord'
  BY <1>4 DEF Subscribe, Unsubscribe, NextChannel
<1>5. ASSUME NEW c \in Clients, ReadFails(c) \/ ReaderHangUp(c) PROVE LastWord'
  BY <1>5 DEF ReadFails, ReaderHangUp
<1>6. ASSUME NEW c \in Clients, CloseSend(c) PROVE LastWord'
  BY <1>6 DEF CloseSend
<1>7. ASSUME NEW c \in Clients, SeeClosed(c) \/ WriterHangUp(c) PROVE LastWord'
  <2>1. CASE SeeClosed(c)
    BY <2>1 DEF SeeClosed
  <2>2. CASE WriterHangUp(c)
    <3>1. /\ writer[c] = "hangup" /\ writer' = [writer EXCEPT ![c] = "unregister"]
          /\ conn' = [conn EXCEPT ![c] = "shut"]
          /\ UNCHANGED <<clients, send, reader>>
      BY <2>2 DEF WriterHangUp
    <3>2. conn[c] # "none" /\ reader[c] # "none"
      BY <3>1
    <3> QED
      BY <3>1, <3>2
  <2> QED
    BY <1>7, <2>1, <2>2
<1>8. ASSUME NEW c \in Clients, Unregister(c) PROVE LastWord'
  BY <1>8 DEF Unregister
<1>9. ASSUME NEW c \in Clients, AnswerPing(c) \/ WriteMessage(c) PROVE LastWord'
  <2>1. \A d \in Clients : send'[d].closed = send[d].closed
    BY <1>9, SendsCloseNothing
  <2>2. UNCHANGED <<clients, conn, reader>> /\ writer' = writer
    BY <1>9 DEF AnswerPing, WriteMessage
  <2> QED
    BY <2>1, <2>2
<1>10. ASSUME NEW c \in Clients, WriteFails(c) PROVE LastWord'
  <2>1. \A d \in Clients : send'[d].closed = send[d].closed
    BY <1>10, SendsCloseNothing
  <2>2. /\ UNCHANGED <<clients, conn, reader>>
        /\ writer[c] = "wait" /\ writer' = [writer EXCEPT ![c] = "hangup"]
    BY <1>10 DEF WriteFails
  <2> QED
    BY <2>1, <2>2
<1>11. CASE BroadcastAll \/ \E ch \in Allowed : Broadcast(ch)
  <2>1. \A d \in Clients : send'[d].closed = send[d].closed
    BY <1>11, SendsCloseNothing
  <2>2. UNCHANGED <<clients, conn, reader, writer>>
    BY <1>11 DEF Broadcast, BroadcastAll
  <2> QED
    BY <2>1, <2>2
<1>12. CASE UNCHANGED vars
  BY <1>12 DEF vars
<1> QED
  BY <1>1, <1>2, <1>3, <1>4, <1>5, <1>6, <1>7, <1>8, <1>9, <1>10, <1>11, <1>12
  DEF Next, Peer, Read, Write

\* No pump of a connection is left waiting for one that has ended, and no client stays
\* in the hub after both (handler/ws.go:170-228, hub.go:83-101).
THEOREM PumpsEndTogether == Spec => []LastWord
<1>1. Init => LastWord
  <2> SUFFICES ASSUME Init, NEW c \in Clients
      PROVE  /\ conn[c] = "none" /\ reader[c] = "none" /\ writer[c] = "none"
             /\ send[c].closed = FALSE /\ c \notin clients
    BY DEF LastWord
  <2> QED
    BY DEF Init
<1> QED
  BY <1>1, LastWordStep, TypeCorrect, PTL DEF Spec

----------------------------------------------------------------------------
(* The client *)

States == {"none", "connecting", "open", "closing", "closed"}

Live == {"connecting", "open"}

\* A timer that is armed will take one more generation.
Due == IF timer THEN 1 ELSE 0

\* Every generation was taken by a call of the application or, through the timer,
\* by a failure.
Budget ==
  /\ calls \in 0 .. MaxCalls /\ faults \in 0 .. MaxFaults
  /\ generation + Due <= calls + faults

\* Tickets and sockets are of generations taken; a socket comes after its ticket.
Taken ==
  /\ \A g \in fetching : g <= generation
  /\ \A g \in Generations : net[g] # "none" => g <= generation /\ g \notin fetching

\* The socket is the latest generation's, ...
Latest == socket # 0 => socket = generation /\ net[socket] # "none"

\* ... and if that one is closing, its reconnect has been scheduled.
Scheduled == \A g \in Generations : net[g] = "closing" /\ g = generation => scheduled = g

ClientInv ==
  /\ ClientTypeOK /\ OneConnection /\ ServerKnows
  /\ Budget /\ Taken /\ Latest /\ Scheduled

LEMMA ClientConstants ==
  /\ MaxCalls \in Nat /\ MaxFaults \in Nat /\ MaxDelay \in Nat /\ MaxDelay >= 2
  /\ Generations \subseteq Nat \ {0}
  /\ \A g \in Nat : 0 < g /\ g <= MaxCalls + MaxFaults => g \in Generations
BY ClientAssumption DEF Generations

LEMMA DueTyped == Due \in 0 .. 1 /\ (timer => Due = 1) /\ (~ timer => Due = 0)
BY DEF Due

\* No wait is longer than the longest.
LEMMA SecondsTyped == ASSUME NEW n \in 0 .. 30 PROVE Seconds(n) \in 0 .. MaxDelay
<1>1. Shift(n) \in Int
  BY DEF Shift
<1> HIDE DEF Shift
<1>2. Shift(n) < MaxDelay \/ ~ (Shift(n) < MaxDelay)
  OBVIOUS
<1> QED
  BY <1>1, ClientConstants DEF Seconds

LEMMA ArmTyped ==
  ASSUME ClientTypeOK, Arm
  PROVE  timer' = TRUE /\ attempts' \in 0 .. 30 /\ delay' \in 0 .. MaxDelay
<1>1. attempts \in 0 .. 30
  BY DEF ClientTypeOK
<1>2. attempts' \in 0 .. 30
  BY <1>1 DEF Arm
<1> QED
  BY <1>1, <1>2, SecondsTyped DEF Arm

\* The generation is always one there is room for.
LEMMA GenerationTyped ==
  ASSUME generation' \in Nat, Budget' PROVE generation' \in Generations \cup {0}
<1>1. PICK g \in Nat : g = generation'
  OBVIOUS
<1>2. PICK due \in 0 .. 1 : due = Due'
  BY DEF Due
<1>3. PICK c \in 0 .. MaxCalls : c = calls'
  BY DEF Budget
<1>4. PICK f \in 0 .. MaxFaults : f = faults'
  BY DEF Budget
<1>5. g + due <= c + f
  BY <1>1, <1>2, <1>3, <1>4 DEF Budget
<1>6. g <= MaxCalls + MaxFaults
  BY <1>5, ClientConstants
<1> QED
  BY <1>1, <1>6, ClientConstants

LEMMA OneMoreCounts ==
  ASSUME NEW g \in Nat, NEW due \in 0 .. 1, NEW h \in Nat, NEW d \in 0 .. 1,
         NEW c \in Nat, NEW f \in Nat, h + d <= c + f, g + due <= h + d + 1
  PROVE  g + due <= (c + 1) + f /\ g + due <= c + (f + 1)
OBVIOUS

\* A call or a failure pays for one generation or for one timer.
LEMMA Paid ==
  ASSUME ClientInv, Call \/ Fault,
         NEW g \in Nat, g = generation', NEW due \in 0 .. 1, due = Due',
         g + due <= generation + Due + 1
  PROVE  Budget'
<1>1. PICK c \in 0 .. MaxCalls : c = calls
  BY DEF ClientInv, Budget
<1>2. PICK f \in 0 .. MaxFaults : f = faults
  BY DEF ClientInv, Budget
<1>3. PICK h \in Nat : h = generation
  BY ClientConstants DEF ClientInv, ClientTypeOK
<1>4. PICK d \in 0 .. 1 : d = Due
  BY DEF Due
<1>5. h + d <= c + f /\ g + due <= h + d + 1 /\ c \in Nat /\ f \in Nat
  <2>1. h + d <= c + f
    BY <1>1, <1>2, <1>3, <1>4 DEF ClientInv, Budget
  <2>2. g + due <= h + d + 1
    BY <1>3, <1>4
  <2>3. c \in Nat /\ f \in Nat
    BY ClientConstants
  <2> QED
    BY <2>1, <2>2, <2>3
<1>6. CASE Call
  <2>1. c < MaxCalls /\ calls' = c + 1 /\ faults' = f
    BY <1>1, <1>2, <1>6 DEF Call
  <2>2. c + 1 \in 0 .. MaxCalls
    BY <2>1, <1>5, ClientConstants
  <2>3. g + due <= (c + 1) + f
    BY <1>5, OneMoreCounts
  <2> QED
    BY <2>1, <2>2, <2>3 DEF Budget
<1>7. CASE Fault
  <2>1. f < MaxFaults /\ calls' = c /\ faults' = f + 1
    BY <1>1, <1>2, <1>7 DEF Fault
  <2>2. f + 1 \in 0 .. MaxFaults
    BY <2>1, <1>5, ClientConstants
  <2>3. g + due <= c + (f + 1)
    BY <1>5, OneMoreCounts
  <2> QED
    BY <2>1, <2>2, <2>3 DEF Budget
<1> QED
  BY <1>6, <1>7

\* A failure, whatever it makes of the timer.
LEMMA FaultPays ==
  ASSUME ClientInv, Fault, UNCHANGED generation PROVE Budget'
<1>1. PICK g \in Nat : g = generation
  BY ClientConstants DEF ClientInv, ClientTypeOK
<1>2. PICK due \in 0 .. 1 : due = Due'
  BY DEF Due
<1>3. g + due <= generation + Due + 1
  BY <1>1 DEF Due
<1> QED
  BY <1>1, <1>2, <1>3, Paid

\* A call that takes a generation.
LEMMA NewPaid ==
  ASSUME ClientInv, Call, generation' = generation + 1, timer' = FALSE PROVE Budget'
<1>1. PICK g \in Nat : g = generation
  BY ClientConstants DEF ClientInv, ClientTypeOK
<1>2. 0 = Due' /\ g + 1 = generation'
  BY <1>1 DEF Due
<1>3. g + 1 \in Nat /\ 0 \in 0 .. 1 /\ (g + 1) + 0 <= generation + Due + 1
  BY <1>1 DEF Due
<1> QED
  BY <1>2, <1>3, Paid

\* A socket of the latest generation that is live is the client's.
LEMMA LiveIsCurrent ==
  ASSUME ClientInv, NEW g \in Generations, net[g] \in Live
  PROVE  g = socket /\ g = generation /\ ~ intentional /\ pings = {g}
<1>1. g = socket /\ g # 0
  BY ClientConstants DEF ClientInv, OneConnection, Live
<1> QED
  BY <1>1 DEF ClientInv, OneConnection, Latest

----------------------------------------------------------------------------
\* A ticket is only used by the connect() that is still wanted.
LEMMA ArrivesKeeps ==
  ASSUME ClientInv, NEW g \in Generations, TicketArrives(g)
  PROVE  ClientInv'
<1>1. CASE ~ Current(g)
  <2>1. fetching' \subseteq fetching /\ UNCHANGED <<generation, socket, socketOpen, healthy,
          intentional, timer, scheduled, attempts, delay, refs, held, pings, net, served,
          refused, calls, faults>>
    BY <1>1 DEF TicketArrives, interest
  <2> QED
    BY <2>1 DEF ClientInv, ClientTypeOK, OneConnection, ServerKnows, Budget, Due, Taken, Latest,
                Scheduled, Wanted
<1>2. CASE Current(g)
  <2>1. g = generation /\ ~ intentional /\ g \in fetching /\ g # 0
    BY <1>2, ClientConstants DEF Current, TicketArrives
  <2>2. /\ fetching' = fetching \ {g} /\ socket' = g /\ socketOpen' = FALSE
        /\ healthy' = FALSE /\ scheduled' = 0 /\ pings' = pings \cup {g}
        /\ net' = [net EXCEPT ![g] = "connecting"]
        /\ UNCHANGED <<generation, intentional, timer, attempts, delay, refs, held, served,
                       refused, calls, faults>>
    BY <1>2 DEF TicketArrives, interest
  <2>3. net[g] = "none" /\ socket = 0 /\ pings = {}
    BY <2>1 DEF ClientInv, Taken, Latest, OneConnection
  <2>4. ClientTypeOK'
    BY <2>2 DEF ClientInv, ClientTypeOK
  <2>5. OneConnection'
    BY <2>1, <2>2, <2>3, ClientConstants DEF ClientInv, ClientTypeOK, OneConnection
  <2>6. Budget' /\ ServerKnows'
    BY <2>2 DEF ClientInv, Budget, Due, ServerKnows
  <2>7. generation \in Nat
    BY ClientConstants DEF ClientInv, ClientTypeOK
  <2>8. Taken'
    BY <2>1, <2>2, <2>7 DEF ClientInv, ClientTypeOK, Taken
  <2>9. Latest' /\ Scheduled'
    BY <2>1, <2>2 DEF ClientInv, ClientTypeOK, Latest, Scheduled
  <2> QED
    BY <2>4, <2>5, <2>6, <2>8, <2>9 DEF ClientInv
<1> QED
  BY <1>1, <1>2

LEMMA DiesKeeps ==
  ASSUME ClientInv, NEW g \in Generations, TicketRefused(g) \/ TicketFails(g)
  PROVE  ClientInv'
<1>1. /\ fetching' = fetching \ {g}
      /\ UNCHANGED <<generation, socket, socketOpen, healthy, intentional, scheduled, refs, held,
                     pings, net, served>>
  BY DEF TicketRefused, TicketFails, interest, retry
<1>2. /\ ServerKnows' /\ Taken' /\ Latest' /\ Scheduled'
  BY <1>1 DEF ClientInv, ServerKnows, Taken, Latest, Scheduled, Wanted
<1>3. CASE TicketRefused(g)
  <2>1. /\ UNCHANGED <<timer, attempts, delay, calls, faults>>
        /\ refused' \in BOOLEAN
    BY <1>3 DEF TicketRefused, retry, Current, ClientInv, ClientTypeOK
  <2>2. ClientTypeOK' /\ OneConnection' /\ Budget'
    BY <1>1, <2>1 DEF ClientInv, ClientTypeOK, OneConnection, Budget, Due
  <2> QED
    BY <1>2, <2>2 DEF ClientInv
<1>4. CASE TicketFails(g) /\ ~ Current(g)
  <2>1. /\ UNCHANGED <<timer, attempts, delay, calls, refused>>
        /\ faults' = faults + 1 /\ faults < MaxFaults
    BY <1>4 DEF TicketFails, Fault
  <2>2. ClientTypeOK' /\ OneConnection'
    BY <1>1, <2>1 DEF ClientInv, ClientTypeOK, OneConnection
  <2>3. Budget'
    BY <1>1, <1>4, FaultPays DEF TicketFails
  <2> QED
    BY <1>2, <2>2, <2>3 DEF ClientInv
<1>5. CASE TicketFails(g) /\ Current(g)
  <2>1. /\ Arm /\ ~ intentional /\ UNCHANGED <<calls, refused>>
        /\ faults' = faults + 1 /\ faults < MaxFaults
    BY <1>5 DEF TicketFails, Fault, Current
  <2>2. timer' = TRUE /\ attempts' \in 0 .. 30 /\ delay' \in 0 .. MaxDelay
    BY <2>1, ArmTyped DEF ClientInv
  <2>3. ClientTypeOK' /\ OneConnection'
    BY <1>1, <2>1, <2>2 DEF ClientInv, ClientTypeOK, OneConnection
  <2>4. Budget'
    BY <1>1, <1>5, FaultPays DEF TicketFails
  <2> QED
    BY <1>2, <2>3, <2>4 DEF ClientInv
<1> QED
  BY <1>3, <1>4, <1>5

\* connect() takes a new generation, of which nothing is there yet.
LEMMA ConnectKeeps ==
  ASSUME ClientInv, socket = 0, generation' = generation + 1, intentional' = FALSE,
         timer' = FALSE, fetching' = fetching \cup {generation + 1}, refused' = FALSE, Budget',
         UNCHANGED <<socket, socketOpen, healthy, scheduled, attempts, delay, pings, net>>,
         refs' \in [Channels -> Nat], held' \in [Stores -> SUBSET Channels], served' = served
  PROVE  ClientInv'
<1>1. generation \in Nat /\ generation' \in Nat /\ socketOpen = FALSE
  BY ClientConstants DEF ClientInv, ClientTypeOK, ServerKnows
<1>2. generation' \in Generations \cup {0} /\ generation + 1 \in Generations
  BY <1>1, GenerationTyped
<1>3. ClientTypeOK'
  BY <1>2 DEF ClientInv, ClientTypeOK
<1>4. OneConnection' /\ ServerKnows' /\ Latest'
  BY <1>1 DEF ClientInv, OneConnection, ServerKnows, Latest
<1>5. \A g \in Generations : g \in Nat
  BY ClientConstants
<1>6. Taken'
  <2>1. \A g \in Generations : net[g] # "none" => g <= generation /\ g \notin fetching
    BY DEF ClientInv, Taken
  <2>2. ASSUME NEW g \in Generations, net[g] # "none"
        PROVE  g <= generation + 1 /\ g \notin fetching \cup {generation + 1}
    BY <1>1, <1>5, <2>1, <2>2
  <2>3. \A g \in fetching : g <= generation /\ g \in Nat
    BY <1>5 DEF ClientInv, ClientTypeOK, Taken
  <2>4. \A g \in fetching \cup {generation + 1} : g <= generation + 1
    BY <1>1, <2>3
  <2> QED
    BY <2>2, <2>4 DEF Taken
<1>7. Scheduled'
  <2>1. ASSUME NEW g \in Generations, net[g] = "closing" PROVE g # generation + 1
    BY <1>1, <1>5, <2>1 DEF ClientInv, Taken
  <2> QED
    BY <2>1 DEF Scheduled
<1> QED
  BY <1>3, <1>4, <1>6, <1>7 DEF ClientInv

LEMMA TimerKeeps ==
  ASSUME ClientInv, TimerFires PROVE ClientInv'
<1>1. /\ timer /\ timer' = FALSE
      /\ UNCHANGED <<socket, socketOpen, healthy, scheduled, attempts, delay, refs, held, pings,
                     net, served, calls, faults>>
  BY DEF TimerFires, interest
<1>2. generation \in Nat /\ Due = 1 /\ Due' = 0
  BY <1>1, ClientConstants DEF Due, ClientInv, ClientTypeOK
<1>3. calls \in Nat /\ faults \in Nat /\ generation + Due <= calls + faults
  BY ClientConstants DEF ClientInv, Budget
<1>4. CASE intentional \/ socket # 0
  <2>1. UNCHANGED <<generation, intentional, fetching, refused>>
    BY <1>4 DEF TimerFires
  <2>2. generation' + Due' <= calls' + faults'
    BY <1>1, <1>2, <1>3, <2>1
  <2>3. Budget'
    BY <1>1, <2>2 DEF ClientInv, Budget
  <2> QED
    BY <1>1, <2>1, <2>3
    DEF ClientInv, ClientTypeOK, OneConnection, ServerKnows, Taken, Latest, Scheduled, Wanted
<1>5. CASE ~ intentional /\ socket = 0
  <2>1. /\ generation' = generation + 1 /\ intentional' = FALSE
        /\ fetching' = fetching \cup {generation + 1} /\ refused' = FALSE
    BY <1>5 DEF TimerFires, Connect
  <2>2. generation' + Due' <= calls' + faults'
    BY <1>1, <1>2, <1>3, <2>1
  <2>3. Budget'
    BY <1>1, <2>2 DEF ClientInv, Budget
  <2>4. refs' \in [Channels -> Nat] /\ held' \in [Stores -> SUBSET Channels]
    BY <1>1 DEF ClientInv, ClientTypeOK
  <2> QED
    BY <1>1, <1>5, <2>1, <2>3, <2>4, ConnectKeeps
<1> QED
  BY <1>4, <1>5

----------------------------------------------------------------------------
LEMMA CountedTyped ==
  ASSUME ClientTypeOK, NEW add, NEW drop PROVE Counted(add, drop) \in [Channels -> Nat]
<1>1. ASSUME NEW ch \in Channels
      PROVE  (IF ch \in add THEN refs[ch] + 1
              ELSE IF ch \in drop /\ refs[ch] > 0 THEN refs[ch] - 1 ELSE refs[ch]) \in Nat
  BY DEF ClientTypeOK
<1> QED
  BY <1>1 DEF Counted

\* The server is told of every channel whose count leaves or reaches zero.
LEMMA TellKeeps ==
  ASSUME ClientInv, NEW new \in [Channels -> Nat], refs' = new, Tell(new),
         UNCHANGED <<socket, socketOpen>>
  PROVE  ServerKnows' /\ served' \in [Generations -> SUBSET Channels]
<1>1. CASE ~ socketOpen
  BY <1>1 DEF Tell, ServerKnows, ClientInv, ClientTypeOK
<1>2. CASE socketOpen
  <2>1. socket # 0 /\ served[socket] = Wanted /\ socket \in Generations
    BY <1>2 DEF ClientInv, ServerKnows, ClientTypeOK
  <2> DEFINE told == (served[socket] \cup {ch \in Channels : new[ch] > 0 /\ refs[ch] = 0})
                       \ {ch \in Channels : new[ch] = 0 /\ refs[ch] > 0}
  <2>2. served' = [served EXCEPT ![socket] = told]
    BY <1>2 DEF Tell
  <2>3. refs \in [Channels -> Nat] /\ served \in [Generations -> SUBSET Channels]
    BY DEF ClientInv, ClientTypeOK
  <2>4. told = {ch \in Channels : new[ch] > 0}
    <3>1. ASSUME NEW ch \in Channels PROVE ch \in told <=> new[ch] > 0
      <4>1. refs[ch] \in Nat /\ new[ch] \in Nat
        BY <2>3
      <4>2. ch \in served[socket] <=> refs[ch] > 0
        BY <2>1 DEF Wanted
      <4> QED
        BY <4>1, <4>2
    <3>2. told \subseteq Channels
      BY <2>1 DEF Wanted
    <3> QED
      BY <3>1, <3>2
  <2>5. Wanted' = told
    BY <2>4 DEF Wanted
  <2> HIDE DEF told
  <2>6. told \subseteq Channels
    BY <2>4
  <2> QED
    BY <1>2, <2>1, <2>2, <2>3, <2>5, <2>6 DEF ServerKnows
<1> QED
  BY <1>1, <1>2

LEMMA StoreKeeps ==
  ASSUME ClientInv, NEW s \in Stores, NEW desired \in SUBSET Channels, StoreSubscribes(s, desired)
  PROVE  ClientInv'
<1> DEFINE new == Counted(desired \ held[s], held[s] \ desired)
<1>1. /\ new \in [Channels -> Nat] /\ refs' = new /\ Tell(new)
      /\ held' = [held EXCEPT ![s] = desired] /\ Call /\ Connect
      /\ UNCHANGED <<socket, socketOpen, healthy, scheduled, attempts, delay, pings, net>>
  BY CountedTyped DEF StoreSubscribes, ClientInv
<1> HIDE DEF new
<1>2. held' \in [Stores -> SUBSET Channels]
  BY <1>1 DEF ClientInv, ClientTypeOK
<1>3. ServerKnows' /\ served' \in [Generations -> SUBSET Channels]
  BY <1>1, TellKeeps
<1>4. generation \in Nat /\ Due \in 0 .. 1 /\ Due' \in 0 .. 1
  BY ClientConstants DEF Due, ClientInv, ClientTypeOK
<1>5. CASE socket # 0
  <2>1. UNCHANGED <<generation, intentional, timer, fetching, refused>>
    BY <1>1, <1>5 DEF Connect
  <2>2. Budget'
    <3>1. PICK g \in Nat : g = generation
      BY <1>4
    <3>2. PICK due \in 0 .. 1 : due = Due
      BY <1>4
    <3>3. Due' = due /\ generation' = g
      BY <2>1, <3>1, <3>2 DEF Due
    <3> QED
      BY <1>1, <3>1, <3>2, <3>3, Paid
  <2>3. ClientTypeOK'
    BY <1>1, <1>2, <1>3, <2>1 DEF ClientInv, ClientTypeOK
  <2> QED
    BY <1>1, <1>3, <2>1, <2>2, <2>3
    DEF ClientInv, OneConnection, Taken, Latest, Scheduled
<1>6. CASE socket = 0
  <2>1. /\ generation' = generation + 1 /\ intentional' = FALSE /\ timer' = FALSE
        /\ fetching' = fetching \cup {generation + 1} /\ refused' = FALSE
    BY <1>1, <1>6 DEF Connect
  <2>2. Due' = 0
    BY <2>1 DEF Due
  <2>3. Budget'
    BY <1>1, <1>4, <2>1, <2>2, NewPaid
  <2>4. served' = served
    BY <1>1, <1>6 DEF Tell, ClientInv, ServerKnows
  <2> QED
    BY <1>1, <1>2, <1>6, <2>1, <2>3, <2>4, ConnectKeeps
<1> QED
  BY <1>5, <1>6

LEMMA DisposeKeeps ==
  ASSUME ClientInv, NEW s \in Stores, Dispose(s) PROVE ClientInv'
<1> DEFINE new == Counted({}, held[s])
<1>1. /\ new \in [Channels -> Nat] /\ refs' = new /\ Tell(new)
      /\ held' = [held EXCEPT ![s] = {}]
      /\ UNCHANGED <<generation, socket, socketOpen, healthy, intentional, timer, scheduled,
                     attempts, delay, pings, fetching, net, refused, calls, faults>>
  BY CountedTyped DEF Dispose, ClientInv, retry
<1> HIDE DEF new
<1>2. ServerKnows' /\ served' \in [Generations -> SUBSET Channels]
  BY <1>1, TellKeeps
<1>3. ClientTypeOK'
  BY <1>1, <1>2 DEF ClientInv, ClientTypeOK
<1> QED
  BY <1>1, <1>2, <1>3
  DEF ClientInv, OneConnection, Budget, Due, Taken, Latest, Scheduled

LEMMA DisconnectKeeps ==
  ASSUME ClientInv, Disconnect PROVE ClientInv'
<1>1. /\ intentional' = TRUE /\ generation' = generation + 1 /\ timer' = FALSE
      /\ socket' = 0 /\ socketOpen' = FALSE /\ pings' = {} /\ healthy' = FALSE
      /\ Call
      /\ UNCHANGED <<scheduled, attempts, delay, refs, held, fetching, served, refused>>
  BY DEF Disconnect, Teardown, interest
<1>2. generation \in Nat /\ Due \in 0 .. 1 /\ Due' = 0
  BY <1>1, ClientConstants DEF Due, ClientInv, ClientTypeOK
<1>3. Budget'
  BY <1>1, <1>2, NewPaid
<1>4. generation' \in Generations \cup {0}
  BY <1>1, <1>2, <1>3, GenerationTyped
<1>5. /\ net' \in [Generations -> States]
      /\ \A g \in Generations : /\ net'[g] # "none" => net[g] # "none"
                                /\ net'[g] \notin Live
  <2>1. CASE socket # 0
    <3>1. net' = [net EXCEPT ![socket] = "closing"] /\ socket \in Generations
      BY <2>1 DEF Disconnect, Close, ClientInv, ClientTypeOK
    <3>2. \A g \in Generations : net[g] \in Live => g = socket
      BY DEF ClientInv, OneConnection, Live
    <3> QED
      BY <2>1, <3>1, <3>2 DEF ClientInv, ClientTypeOK, Latest, Live, States
  <2>2. CASE socket = 0
    <3>1. net' = net
      BY <2>2 DEF Disconnect
    <3>2. \A g \in Generations : net[g] \notin Live
      BY <2>2, ClientConstants DEF ClientInv, OneConnection, Live
    <3> QED
      BY <3>1, <3>2 DEF ClientInv, ClientTypeOK, States
  <2> QED
    BY <2>1, <2>2
<1>6. ClientTypeOK'
  BY <1>1, <1>4, <1>5 DEF ClientInv, ClientTypeOK, States
<1>7. OneConnection' /\ ServerKnows' /\ Latest'
  BY <1>1, <1>5 DEF OneConnection, ServerKnows, Latest, Live
<1>8. \A g \in Generations : g \in Nat
  BY ClientConstants
<1>9. Taken'
  <2>1. \A g \in fetching : g <= generation /\ g \in Nat
    BY <1>8 DEF ClientInv, ClientTypeOK, Taken
  <2>2. \A g \in fetching : g <= generation + 1
    BY <1>2, <2>1
  <2>3. ASSUME NEW g \in Generations, net[g] # "none"
        PROVE  g <= generation + 1 /\ g \notin fetching
    <3>1. g <= generation /\ g \notin fetching /\ g \in Nat
      BY <1>8, <2>3 DEF ClientInv, Taken
    <3> QED
      BY <1>2, <3>1
  <2> QED
    BY <1>1, <1>5, <2>2, <2>3 DEF Taken
<1>10. Scheduled'
  <2>1. ASSUME NEW g \in Generations, net[g] # "none" PROVE g # generation + 1
    <3>1. g <= generation /\ g \in Nat
      BY <1>8, <2>1 DEF ClientInv, Taken
    <3> QED
      BY <1>2, <3>1
  <2> QED
    BY <1>1, <1>5, <2>1 DEF Scheduled
<1> QED
  BY <1>3, <1>6, <1>7, <1>9, <1>10 DEF ClientInv

----------------------------------------------------------------------------
\* A socket that opens is the client's, whatever was asked for while it connected.
LEMMA OpensKeeps ==
  ASSUME ClientInv, NEW g \in Generations, SocketOpens(g) PROVE ClientInv'
<1>1. net[g] = "connecting" /\ g = socket /\ g = generation /\ g # 0
  BY LiveIsCurrent, ClientConstants DEF SocketOpens, Live
<1>2. /\ net' = [net EXCEPT ![g] = "open"] /\ socketOpen' = TRUE
      /\ served' = [served EXCEPT ![g] = Wanted]
      /\ UNCHANGED <<generation, socket, healthy, intentional, timer, scheduled, attempts, delay,
                     refs, held, pings, fetching, refused, calls, faults>>
  BY <1>1 DEF SocketOpens, retry, interest
<1>3. ClientTypeOK'
  BY <1>2 DEF ClientInv, ClientTypeOK, Wanted
<1>4. OneConnection' /\ Latest' /\ Scheduled'
  BY <1>1, <1>2 DEF ClientInv, ClientTypeOK, OneConnection, Latest, Scheduled
<1>5. ServerKnows'
  <2>1. Wanted' = Wanted
    BY <1>2 DEF Wanted
  <2> QED
    BY <1>1, <1>2, <2>1 DEF ClientInv, ClientTypeOK, ServerKnows
<1>6. Budget' /\ Taken'
  BY <1>1, <1>2 DEF ClientInv, ClientTypeOK, Budget, Due, Taken
<1> QED
  BY <1>3, <1>4, <1>5, <1>6 DEF ClientInv

LEMMA MessageKeeps ==
  ASSUME ClientInv, NEW g \in Generations, MessageArrives(g) PROVE ClientInv'
<1>1. /\ healthy' = TRUE /\ attempts' = 0
      /\ UNCHANGED <<generation, socket, socketOpen, intentional, timer, scheduled, delay, refs,
                     held, pings, fetching, net, served, refused, calls, faults>>
  BY DEF MessageArrives, interest
<1> QED
  BY <1>1
  DEF ClientInv, ClientTypeOK, OneConnection, ServerKnows, Budget, Due, Taken, Latest, Scheduled,
      Wanted

\* The socket is lost by a failure; the first event of its end schedules a reconnect.
LEMMA LostKeeps ==
  ASSUME ClientInv, NEW g \in Generations, SocketFails(g) \/ ServerCloses(g) PROVE ClientInv'
<1>1. net[g] \in Live
  BY DEF SocketFails, ServerCloses, Live
<1>2. g = socket /\ g = generation /\ ~ intentional /\ net[g] # "none" /\ net[g] # "closing"
  BY <1>1, LiveIsCurrent DEF Live
<1>3. /\ Fault /\ Lost(g)
      /\ UNCHANGED <<generation, healthy, intentional, refs, held, fetching, served, refused>>
  BY DEF SocketFails, ServerCloses, interest
<1>4. /\ socket' = 0 /\ socketOpen' = FALSE /\ pings' = {}
      /\ \/ UNCHANGED retry /\ scheduled = g
         \/ scheduled' = g /\ Arm
  BY <1>2, <1>3 DEF Lost, Teardown
<1>5. PICK state \in {"closing", "closed"} : net' = [net EXCEPT ![g] = state]
  BY DEF SocketFails, ServerCloses, Close
<1>6. /\ timer' \in BOOLEAN /\ attempts' \in 0 .. 30 /\ delay' \in 0 .. MaxDelay
      /\ scheduled' = g
  BY <1>4, ArmTyped DEF retry, ClientInv, ClientTypeOK
<1>7. ClientTypeOK'
  BY <1>3, <1>4, <1>5, <1>6 DEF ClientInv, ClientTypeOK
<1>8. Budget'
  BY <1>3, FaultPays
<1>9. OneConnection'
  <2>1. \A h \in Generations : net'[h] \notin Live
    BY <1>2, <1>5 DEF ClientInv, ClientTypeOK, OneConnection, Live
  <2> QED
    BY <1>2, <1>3, <1>4, <2>1 DEF OneConnection, Live
<1>10. Taken'
  <2>1. \A h \in Generations : net'[h] # "none" => net[h] # "none"
    BY <1>2, <1>5 DEF ClientInv, ClientTypeOK
  <2> QED
    BY <1>3, <2>1 DEF ClientInv, Taken
<1>11. ServerKnows' /\ Latest' /\ Scheduled'
  BY <1>2, <1>3, <1>4, <1>6 DEF ServerKnows, Latest, Scheduled
<1> QED
  BY <1>7, <1>8, <1>9, <1>10, <1>11 DEF ClientInv

\* The second event finds it scheduled, and one of an older socket is ignored.
LEMMA ClosesKeeps ==
  ASSUME ClientInv, NEW g \in Generations, CloseCompletes(g) PROVE ClientInv'
<1>1. /\ net[g] = "closing" /\ net' = [net EXCEPT ![g] = "closed"] /\ Lost(g)
      /\ UNCHANGED <<generation, healthy, intentional, refs, held, fetching, served, refused,
                     calls, faults>>
  BY DEF CloseCompletes, interest
<1>2. UNCHANGED <<timer, scheduled, attempts, delay>>
  BY <1>1 DEF Lost, retry, ClientInv, Scheduled
<1>3. \/ UNCHANGED <<socket, socketOpen, pings>> /\ g # generation
      \/ socket' = 0 /\ socketOpen' = FALSE /\ pings' = {} /\ g = generation
  BY <1>1 DEF Lost, Teardown
<1>4. net \in [Generations -> States]
  BY DEF ClientInv, ClientTypeOK, States
<1>5. \A h \in Generations :
        /\ net'[h] \in Live => net[h] \in Live /\ h # g
        /\ net'[h] # "none" <=> net[h] # "none"
        /\ net'[h] = "closing" => net[h] = "closing"
  BY <1>1, <1>4 DEF Live, States
<1>6. ClientTypeOK'
  BY <1>1, <1>2, <1>3 DEF ClientInv, ClientTypeOK
<1>7. Budget' /\ Taken' /\ Scheduled'
  BY <1>1, <1>2, <1>5 DEF ClientInv, Budget, Due, Taken, Scheduled
<1>8. ServerKnows'
  BY <1>1, <1>3 DEF ClientInv, ServerKnows, Wanted
<1>9. Latest'
  BY <1>1, <1>3, <1>5 DEF ClientInv, ClientTypeOK, Latest
<1>10. OneConnection'
  <2>1. \A h \in Generations : net[h] \in Live => h = socket /\ h = generation
    BY LiveIsCurrent
  <2>2. \A h \in Generations : net'[h] \in Live => h = socket'
    BY <1>3, <1>5, <2>1
  <2> QED
    BY <1>1, <1>2, <1>3, <2>2 DEF ClientInv, OneConnection, Live
<1> QED
  BY <1>6, <1>7, <1>8, <1>9, <1>10 DEF ClientInv

----------------------------------------------------------------------------
LEMMA ClientInitially == ClientInit => ClientInv
<1> SUFFICES ASSUME ClientInit PROVE ClientInv
  OBVIOUS
<1>1. ClientTypeOK
  <2>1. attempts \in 0 .. 30 /\ delay \in 0 .. MaxDelay /\ refs \in [Channels -> Nat]
    BY ClientConstants DEF ClientInit
  <2>2. /\ {socketOpen, healthy, intentional, timer, refused} \subseteq BOOLEAN
        /\ held \in [Stores -> SUBSET Channels] /\ served \in [Generations -> SUBSET Channels]
        /\ net \in [Generations -> States]
    BY DEF ClientInit, States
  <2> QED
    BY <2>1, <2>2 DEF ClientInit, ClientTypeOK, States
<1>2. OneConnection /\ ServerKnows /\ Latest /\ Scheduled /\ Taken
  BY DEF ClientInit, OneConnection, ServerKnows, Latest, Scheduled, Taken
<1>3. Budget
  BY ClientConstants DEF ClientInit, Budget, Due
<1> QED
  BY <1>1, <1>2, <1>3 DEF ClientInv

LEMMA ClientInductive == ClientInv /\ [ClientNext]_clientVars => ClientInv'
<1> SUFFICES ASSUME ClientInv, [ClientNext]_clientVars PROVE ClientInv'
  OBVIOUS
<1>1. ASSUME NEW g \in Generations, Answer(g) \/ Settle(g) PROVE ClientInv'
  BY <1>1, ArrivesKeeps, DiesKeeps, OpensKeeps, LostKeeps DEF Answer, Settle
<1>2. ASSUME NEW g \in Generations, MessageArrives(g) \/ CloseCompletes(g) \/ ServerCloses(g)
      PROVE  ClientInv'
  BY <1>2, MessageKeeps, ClosesKeeps, LostKeeps
<1>3. CASE TimerFires
  BY <1>3, TimerKeeps
<1>4. ASSUME NEW s \in Stores,
             Dispose(s) \/ \E desired \in SUBSET Channels : StoreSubscribes(s, desired)
      PROVE  ClientInv'
  BY <1>4, DisposeKeeps, StoreKeeps
<1>5. CASE Disconnect
  BY <1>5, DisconnectKeeps
<1>6. CASE UNCHANGED clientVars
  BY <1>6
  DEF clientVars, retry, interest, ClientInv, ClientTypeOK, OneConnection, ServerKnows, Budget,
      Due, Taken, Latest, Scheduled, Wanted
<1> QED
  BY <1>1, <1>2, <1>3, <1>4, <1>5, <1>6 DEF ClientNext

LEMMA ClientInvariant == ClientSpec => []ClientInv
BY ClientInitially, ClientInductive, PTL DEF ClientSpec

\* The variables of the client keep their types, for any stores, channels and number
\* of calls and failures: in particular a generation is only taken by a call of the
\* application or through the one timer a failure arms.
THEOREM ClientTypeCorrect == ClientSpec => []ClientTypeOK
<1>1. ClientInv => ClientTypeOK
  BY DEF ClientInv
<1> QED
  BY <1>1, ClientInvariant, PTL

\* Calls of connect() that overlap, tickets that come late and events of sockets
\* given up never leave a second socket or ping, nor any after a logout.
THEOREM OnlyOneConnection == ClientSpec => []OneConnection
<1>1. ClientInv => OneConnection
  BY DEF ClientInv
<1> QED
  BY <1>1, ClientInvariant, PTL

\* What the server holds for an open socket is what some store wants.
THEOREM ServerAlwaysKnows == ClientSpec => []ServerKnows
<1>1. ClientInv => ServerKnows
  BY DEF ClientInv
<1> QED
  BY <1>1, ClientInvariant, PTL
----------------------------------------------------------------------------
(* The client: never stranded *)

\* Who wants a connection, and was not refused one, has a socket, a timer, or a
\* ticket under way: what Reconnects needs fairness only to carry on from.
NeverStranded ==
  generation > 0 /\ ~ intentional /\ ~ refused =>
    socket # 0 \/ timer \/ generation \in fetching

\* A reconnect that was scheduled for the latest generation is still to come.
Rescheduled ==
  /\ scheduled <= generation
  /\ scheduled = generation /\ scheduled # 0 => socket = 0 /\ (timer \/ intentional)

\* A socket is lost to a reconnect, if it was the latest one.
LEMMA LostResumes ==
  ASSUME NEW g \in Generations, ClientInv, NeverStranded, Rescheduled, Lost(g),
         UNCHANGED <<generation, intentional, fetching, refused>>
  PROVE  NeverStranded' /\ Rescheduled'
<1>1. g \in Nat \ {0} /\ generation \in Nat /\ scheduled \in Nat
  BY ClientConstants DEF ClientInv, ClientTypeOK
<1>2. CASE g # generation
  BY <1>2 DEF Lost, retry, NeverStranded, Rescheduled
<1>3. CASE g = generation /\ (intentional \/ scheduled = g)
  <2>1. socket' = 0 /\ UNCHANGED <<timer, scheduled>>
    BY <1>3 DEF Lost, Teardown, retry
  <2> QED
    BY <1>1, <1>3, <2>1 DEF NeverStranded, Rescheduled
<1>4. CASE g = generation /\ ~ (intentional \/ scheduled = g)
  <2>1. socket' = 0 /\ scheduled' = g /\ timer' = TRUE
    BY <1>4 DEF Lost, Teardown, Arm
  <2> QED
    BY <1>1, <1>4, <2>1 DEF NeverStranded, Rescheduled
<1> QED
  BY <1>2, <1>3, <1>4

\* A connect() that goes ahead has its ticket under way.
LEMMA ConnectResumes ==
  ASSUME ClientInv, NeverStranded, Rescheduled, Connect, UNCHANGED <<socket, scheduled>>
  PROVE  NeverStranded' /\ Rescheduled'
<1>1. generation \in Nat /\ scheduled \in Nat
  BY ClientConstants DEF ClientInv, ClientTypeOK
<1>2. CASE socket # 0
  BY <1>2 DEF Connect, NeverStranded, Rescheduled
<1>3. CASE socket = 0
  <2>1. generation' = generation + 1 /\ generation' \in fetching'
    BY <1>3 DEF Connect
  <2> QED
    BY <1>1, <2>1 DEF NeverStranded, Rescheduled
<1> QED
  BY <1>2, <1>3

LEMMA ResumesStep ==
  ASSUME ClientInv, NeverStranded, Rescheduled, [ClientNext]_clientVars
  PROVE  NeverStranded' /\ Rescheduled'
<1>1. /\ generation \in Nat /\ scheduled \in Nat /\ Generations \subseteq Nat \ {0}
  <2>1. Generations \subseteq Nat \ {0}
    BY ClientConstants
  <2>2. generation \in Generations \cup {0} /\ scheduled \in Generations \cup {0}
    BY DEF ClientInv, ClientTypeOK
  <2> QED
    BY <2>1, <2>2
<1>2. ASSUME NEW g \in Generations, TicketArrives(g) PROVE NeverStranded' /\ Rescheduled'
  <2>1. CASE Current(g)
    <3>1. g = generation /\ socket' = g /\ scheduled' = 0
          /\ UNCHANGED <<generation, intentional, timer, refused>>
      BY <1>2, <2>1 DEF TicketArrives, Current
    <3> QED
      BY <1>1, <3>1 DEF NeverStranded, Rescheduled
  <2>2. CASE ~ Current(g)
    <3>1. /\ fetching' = fetching \ {g} /\ (g # generation \/ intentional)
          /\ UNCHANGED <<generation, intentional, timer, refused, socket, scheduled>>
      BY <1>2, <2>2 DEF TicketArrives, Current
    <3> QED
      BY <3>1 DEF NeverStranded, Rescheduled
  <2> QED
    BY <2>1, <2>2
<1>3. ASSUME NEW g \in Generations, TicketRefused(g) PROVE NeverStranded' /\ Rescheduled'
  <2>1. /\ fetching' = fetching \ {g} /\ refused' = (refused \/ Current(g))
        /\ UNCHANGED <<generation, intentional, timer, socket, scheduled>>
    BY <1>3 DEF TicketRefused, retry
  <2> QED
    BY <2>1 DEF NeverStranded, Rescheduled, Current
<1>4. ASSUME NEW g \in Generations, TicketFails(g) PROVE NeverStranded' /\ Rescheduled'
  <2>1. /\ fetching' = fetching \ {g}
        /\ timer' = TRUE \/ (~ Current(g) /\ timer' = timer)
        /\ UNCHANGED <<generation, intentional, refused, socket, scheduled>>
    BY <1>4 DEF TicketFails, Arm
  <2> QED
    BY <2>1 DEF NeverStranded, Rescheduled, Current
<1>5. ASSUME NEW g \in Generations, SocketOpens(g) \/ MessageArrives(g)
      PROVE  NeverStranded' /\ Rescheduled'
  BY <1>5 DEF SocketOpens, MessageArrives, retry, NeverStranded, Rescheduled
<1>6. ASSUME NEW g \in Generations, SocketFails(g) \/ CloseCompletes(g) \/ ServerCloses(g)
      PROVE  NeverStranded' /\ Rescheduled'
  <2>1. Lost(g) /\ UNCHANGED <<generation, intentional, fetching, refused>>
    BY <1>6 DEF SocketFails, CloseCompletes, ServerCloses
  <2> QED
    BY <2>1, LostResumes
<1>7. CASE TimerFires
  <2>1. CASE intentional \/ socket # 0
    <3>1. UNCHANGED <<generation, intentional, fetching, refused, socket, scheduled>>
      BY <1>7, <2>1 DEF TimerFires
    <3> QED
      BY <2>1, <3>1 DEF NeverStranded, Rescheduled
  <2>2. CASE ~ (intentional \/ socket # 0)
    <3>1. generation' = generation + 1 /\ generation' \in fetching'
          /\ UNCHANGED <<socket, scheduled>>
      BY <1>7, <2>2 DEF TimerFires, Connect
    <3> QED
      BY <1>1, <3>1 DEF NeverStranded, Rescheduled
  <2> QED
    BY <2>1, <2>2
<1>8. ASSUME NEW s \in Stores, Dispose(s) PROVE NeverStranded' /\ Rescheduled'
  BY <1>8 DEF Dispose, retry, NeverStranded, Rescheduled
<1>9. ASSUME NEW s \in Stores, NEW desired \in SUBSET Channels, StoreSubscribes(s, desired)
      PROVE  NeverStranded' /\ Rescheduled'
  BY <1>9, ConnectResumes DEF StoreSubscribes
<1>10. CASE Disconnect
  <2>1. generation' = generation + 1 /\ intentional' = TRUE /\ scheduled' = scheduled
    BY <1>10 DEF Disconnect
  <2> QED
    BY <1>1, <2>1 DEF NeverStranded, Rescheduled
<1>11. CASE UNCHANGED clientVars
  BY <1>11 DEF clientVars, retry, NeverStranded, Rescheduled
<1> QED
  BY <1>2, <1>3, <1>4, <1>5, <1>6, <1>7, <1>8, <1>9, <1>10, <1>11 DEF ClientNext, Answer, Settle

\* However tickets, sockets and timers are lost and overtake each other, a client that
\* wants a connection is never left without anything that would bring it.
THEOREM ClientNeverStranded == ClientSpec => []NeverStranded
<1>1. ClientInit => NeverStranded /\ Rescheduled
  BY DEF ClientInit, NeverStranded, Rescheduled
<1>2. ClientInv /\ NeverStranded /\ Rescheduled /\ [ClientNext]_clientVars
        => (NeverStranded /\ Rescheduled)'
  BY ResumesStep
<1> QED
  BY <1>1, <1>2, ClientInvariant, PTL DEF ClientSpec
=============================================================================
