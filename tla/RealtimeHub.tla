----------------------------- MODULE RealtimeHub -----------------------------
(***************************************************************************)
(* The WebSocket hub and the two pumps of each connection.  ServeWS starts  *)
(* a read pump, which obeys the peer's subscribe and unsubscribe, and a     *)
(* write pump, which empties the client's Send channel.  Either may end     *)
(* first; the one closes Send, the other takes the client out of the hub.   *)
(* Broadcasts of mutation handlers and of WorldTick run in between.         *)
(*                                                                          *)
(* One action is one critical section of Hub.mu (the client's mutex is only *)
(* taken inside it, or for one check and one send) or one socket operation. *)
(***************************************************************************)
EXTENDS Naturals

CONSTANTS
  Clients,  \* connections, each used once
  Names,    \* channel names a peer may ask for
  Allowed,  \* wsAllowedChannels
  Buffer    \* capacity of Send (16)

ASSUME HubAssumption ==
  /\ Allowed \subseteq Names
  /\ Buffer \in Nat \ {0}

VARIABLES
  clients,  \* Hub.clients
  channels, \* Hub.channels
  own,      \* Client.channels
  send,     \* Client.closed, and how many messages wait in Client.Send
  conn,     \* the socket: "gone" once the peer left, "shut" once we closed it
  reader,   \* where the read pump is
  todo,     \* channels of the message it obeys
  writer    \* where the write pump is

hub == <<clients, channels, own>>
vars == <<hub, send, conn, reader, todo, writer>>

----------------------------------------------------------------------------
\* Mutant of TrySend: a send that does not look at closed.
TrySendUnchecked(s) ==
  IF s.waiting < Buffer THEN [s EXCEPT !.waiting = @ + 1] ELSE s

\* A closed channel takes nothing, a full one drops the message.
TrySend(s) ==
  IF ~ s.closed /\ s.waiting < Buffer THEN [s EXCEPT !.waiting = @ + 1] ELSE s

ReaderStep(c, here, there) ==
  /\ reader[c] = here
  /\ reader' = [reader EXCEPT ![c] = there]

WriterStep(c, here, there) ==
  /\ writer[c] = here
  /\ writer' = [writer EXCEPT ![c] = there]

----------------------------------------------------------------------------
\* After the upgrade: NewClient, Register, both pumps.
ServeWS(c) ==
  /\ conn[c] = "none"
  /\ conn' = [conn EXCEPT ![c] = "open"]
  /\ clients' = clients \cup {c}
  /\ ReaderStep(c, "none", "read")
  /\ WriterStep(c, "none", "wait")
  /\ UNCHANGED <<channels, own, send, todo>>

\* The peer closes or dies; what it sent before has been read.
Leave(c) ==
  /\ conn[c] = "open"
  /\ conn' = [conn EXCEPT ![c] = "gone"]
  /\ UNCHANGED <<hub, send, reader, todo, writer>>

----------------------------------------------------------------------------
(* Read pump *)

\* A message with a list of channels; subscribing keeps the known names only.
ReadMessage(c) ==
  /\ conn[c] = "open"
  /\ \E asked \in SUBSET Names :
       \/ /\ asked \cap Allowed # {}
          /\ ReaderStep(c, "read", "subscribe")
          /\ todo' = [todo EXCEPT ![c] = asked \cap Allowed]
       \/ /\ asked # {}
          /\ ReaderStep(c, "read", "unsubscribe")
          /\ todo' = [todo EXCEPT ![c] = asked]
  /\ UNCHANGED <<hub, send, conn, writer>>

\* The next channel of the list; the list done, the pump reads on.
NextChannel(c, ch) ==
  /\ ch \in todo[c]
  /\ todo' = [todo EXCEPT ![c] = @ \ {ch}]
  /\ reader' = [reader EXCEPT ![c] = IF todo[c] = {ch} THEN "read" ELSE @]

\* The hub does not ask whether the client is still registered.
Subscribe(c, ch) ==
  /\ reader[c] = "subscribe"
  /\ NextChannel(c, ch)
  /\ channels' = [channels EXCEPT ![ch] = @ \cup {c}]
  /\ own' = [own EXCEPT ![c] = @ \cup {ch}]
  /\ UNCHANGED <<clients, send, conn, writer>>

Unsubscribe(c, ch) ==
  /\ reader[c] = "unsubscribe"
  /\ NextChannel(c, ch)
  /\ channels' = [channels EXCEPT ![ch] = @ \ {c}]
  /\ own' = [own EXCEPT ![c] = @ \ {ch}]
  /\ UNCHANGED <<clients, send, conn, writer>>

AnswerPing(c) ==
  /\ reader[c] = "read"
  /\ conn[c] = "open"
  /\ send' = [send EXCEPT ![c] = TrySend(@)]
  /\ UNCHANGED <<hub, conn, reader, todo, writer>>

\* The peer left, or the write pump closed the socket.
ReadFails(c) ==
  /\ conn[c] # "open"
  /\ ReaderStep(c, "read", "close")
  /\ UNCHANGED <<hub, send, conn, todo, writer>>

\* Silence past the deadline, or a message over the limit.
ReadTimesOut(c) ==
  /\ conn[c] = "open"
  /\ ReaderStep(c, "read", "close")
  /\ UNCHANGED <<hub, send, conn, todo, writer>>

\* Deferred: Client.Close ...
CloseSend(c) ==
  /\ ReaderStep(c, "close", "hangup")
  /\ send' = [send EXCEPT ![c].closed = TRUE]
  /\ UNCHANGED <<hub, conn, todo, writer>>

\* ... and conn.Close.
ReaderHangUp(c) ==
  /\ ReaderStep(c, "hangup", "done")
  /\ conn' = [conn EXCEPT ![c] = "shut"]
  /\ UNCHANGED <<hub, send, todo, writer>>

----------------------------------------------------------------------------
(* Write pump *)

\* Mutant of WriteMessage: what a closed channel yields is taken for a message.
WriteMessageNotOk(c) ==
  /\ send[c].closed \/ send[c].waiting > 0
  /\ conn[c] # "shut"
  /\ WriterStep(c, "wait", "wait")
  /\ send' = [send EXCEPT ![c].waiting = @ - 1]
  /\ UNCHANGED <<hub, conn, reader, todo>>

\* A message is taken from Send and written to the socket.
WriteMessage(c) ==
  /\ send[c].waiting > 0
  /\ conn[c] # "shut"
  /\ WriterStep(c, "wait", "wait")
  /\ send' = [send EXCEPT ![c].waiting = @ - 1]
  /\ UNCHANGED <<hub, conn, reader, todo>>

\* The message is lost; a peer that is too slow counts as gone.
WriteFails(c) ==
  /\ send[c].waiting > 0
  /\ WriterStep(c, "wait", "hangup")
  /\ send' = [send EXCEPT ![c].waiting = @ - 1]
  /\ UNCHANGED <<hub, conn, reader, todo>>

\* The protocol ping; one that succeeds changes nothing.
PingFails(c) ==
  /\ WriterStep(c, "wait", "hangup")
  /\ UNCHANGED <<hub, send, conn, reader, todo>>

\* Send is closed and drained.
SeeClosed(c) ==
  /\ send[c].closed /\ send[c].waiting = 0
  /\ WriterStep(c, "wait", "hangup")
  /\ UNCHANGED <<hub, send, conn, reader, todo>>

\* Mutant of WriterHangUp: the client is not taken out of the hub.
WriterHangUpOnly(c) ==
  /\ WriterStep(c, "hangup", "done")
  /\ conn' = [conn EXCEPT ![c] = "shut"]
  /\ UNCHANGED <<hub, send, reader, todo>>

\* Deferred: conn.Close ...
WriterHangUp(c) ==
  /\ WriterStep(c, "hangup", "unregister")
  /\ conn' = [conn EXCEPT ![c] = "shut"]
  /\ UNCHANGED <<hub, send, reader, todo>>

\* ... and Hub.Unregister, which closes Send unless the reader has.
Unregister(c) ==
  /\ WriterStep(c, "unregister", "done")
  /\ clients' = clients \ {c}
  /\ channels' = [ch \in Names |-> IF ch \in own[c] THEN channels[ch] \ {c}
                                                  ELSE channels[ch]]
  /\ own' = [own EXCEPT ![c] = {}]
  /\ send' = [send EXCEPT ![c].closed = TRUE]
  /\ UNCHANGED <<conn, reader, todo>>

----------------------------------------------------------------------------
(* Mutation handlers and WorldTick *)

\* To the subscribers of one channel.
Broadcast(ch) ==
  /\ send' = [c \in Clients |-> IF c \in channels[ch] THEN TrySend(send[c])
                                                      ELSE send[c]]
  /\ UNCHANGED <<hub, conn, reader, todo, writer>>

BroadcastAll ==
  /\ send' = [c \in Clients |-> IF c \in clients THEN TrySend(send[c])
                                                 ELSE send[c]]
  /\ UNCHANGED <<hub, conn, reader, todo, writer>>

----------------------------------------------------------------------------
Init ==
  /\ clients = {}
  /\ channels = [ch \in Names |-> {}]
  /\ own = [c \in Clients |-> {}]
  /\ send = [c \in Clients |-> [closed |-> FALSE, waiting |-> 0]]
  /\ conn = [c \in Clients |-> "none"]
  /\ reader = [c \in Clients |-> "none"]
  /\ todo = [c \in Clients |-> {}]
  /\ writer = [c \in Clients |-> "none"]

\* What the read pump does once a message or an error is there.
Read(c) ==
  \/ \E ch \in Names : Subscribe(c, ch) \/ Unsubscribe(c, ch)
  \/ ReadFails(c) \/ CloseSend(c) \/ ReaderHangUp(c)

Write(c) ==
  \/ WriteMessage(c) \/ WriteFails(c) \/ SeeClosed(c)
  \/ WriterHangUp(c) \/ Unregister(c)

\* What the peer or the network decides.
Peer(c) ==
  \/ ServeWS(c) \/ Leave(c) \/ ReadMessage(c) \/ AnswerPing(c) \/ ReadTimesOut(c)
  \/ PingFails(c)

Next ==
  \/ \E c \in Clients : Peer(c) \/ Read(c) \/ Write(c)
  \/ \E ch \in Allowed : Broadcast(ch)
  \/ BroadcastAll

Spec == Init /\ [][Next]_vars

\* A pump with something to do goes on: a read ends at its deadline at the
\* latest, a write likewise.
Fairness == \A c \in Clients : WF_vars(Read(c)) /\ WF_vars(Write(c))

FairSpec == Spec /\ Fairness

----------------------------------------------------------------------------
(* Properties *)

TypeOK ==
  /\ clients \subseteq Clients
  /\ channels \in [Names -> SUBSET Clients]
  /\ own \in [Clients -> SUBSET Names]
  /\ send \in [Clients -> [closed : BOOLEAN, waiting : 0 .. Buffer]]
  /\ conn \in [Clients -> {"none", "open", "gone", "shut"}]
  /\ reader \in [Clients -> {"none", "read", "subscribe", "unsubscribe", "close",
                             "hangup", "done"}]
  /\ todo \in [Clients -> SUBSET Names]
  /\ writer \in [Clients -> {"none", "wait", "hangup", "unregister", "done"}]

\* The hub's map and each client's own set tell the same story whatever pumps
\* race, or Unregister would leave, and Broadcast reach, the wrong clients.
IndexesAgree ==
  \A c \in Clients, ch \in Names : c \in channels[ch] <=> ch \in own[c]

\* Nothing is sent on a closed channel, which would panic, and a channel is
\* closed once: the pumps and a broadcast may all be at it (TrySend, closeLocked).
ClosedForGood ==
  [][\A c \in Clients : send[c].closed =>
       send'[c].closed /\ send'[c].waiting <= send[c].waiting]_vars

\* When a peer leaves or the socket is closed, by whichever pump, both pumps end
\* and the client leaves the hub.
Released ==
  \A c \in Clients :
    (conn[c] \in {"gone", "shut"}) ~>
      (c \notin clients /\ reader[c] = "done" /\ writer[c] = "done")

\* Unregister: "remove the client and leave all channels" (hub.go:83).  A
\* subscribe message the read pump was obeying brings it back for good.
UnregisteredIsGone ==
  \A c \in Clients :
    (reader[c] = "done" /\ writer[c] = "done") =>
      \A ch \in Names : c \notin channels[ch]
=============================================================================
