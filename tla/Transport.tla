------------------------------- MODULE Transport ------------------------------
(***************************************************************************)
(* How the messages of one node reach the others: Broadcast and the sender  *)
(* goroutines (network/node.go, proxy_server.go), the node's hub (hub.go)   *)
(* with one client and one writePump per listening node (client.go), and    *)
(* the receiveLoop of every listening node (proxy_server.go).               *)
(*                                                                          *)
(* Every sender goroutine dials the node's own hub and is a client of it    *)
(* while it writes its one message; nobody reads what the hub sends it, so  *)
(* these clients are left out.  The websocket library is external: frames   *)
(* arrive in order until the connection is closed or fails.                 *)
(***************************************************************************)
EXTENDS Integers, Sequences, FiniteSets, SequencesExt

CONSTANTS Msgs,         \* the messages the node broadcasts, each once
          Receivers,    \* the nodes that listen to it
          SendCap,      \* capacity of a client's send channel (512)
          MaxFails      \* bound on the failures of connections

ASSUME TransportAssumption == SendCap \in Nat \ {0} /\ MaxFails \in Nat

VARIABLES outbound,     \* messages on their way to the hub
          hubLog,       \* history: the messages the hub has handled, in order
          clients,      \* hub.clients: the receivers whose client is registered
          closed,       \* closed[r]: how often its send channel was closed
          pump,         \* pump[r]: its readPump has not ended
          send,         \* send[r]: what waits in it
          writing,      \* writing[r]: what writePump has taken from it to write
          wire,         \* wire[r]: the frames on r's connection
          reader,       \* reader[r]: where the receiveLoop of r is
          entrance,     \* entrance[r]: what r put into MsgEntrance
          fails

vars == <<outbound, hubLog, clients, closed, pump, send, writing, wire, reader,
          entrance, fails>>
client == <<clients, closed, pump, send, writing>>

\* A frame is the sequence of the messages written into it; the end of the
\* connection is the empty one.
Closed == <<>>

\* The connection of r's client is over, whether r and the readPump know it or not.
Ended(r) == reader[r] = "dial" \/ Closed \in ToSet(wire[r])

Init ==
  /\ outbound = {} /\ hubLog = <<>>
  /\ clients  = Receivers
  /\ closed   = [r \in Receivers |-> 0]
  /\ pump     = [r \in Receivers |-> TRUE]
  /\ send     = [r \in Receivers |-> <<>>]
  /\ writing  = [r \in Receivers |-> <<>>]
  /\ wire     = [r \in Receivers |-> <<>>]
  /\ reader   = [r \in Receivers |-> "read"]
  /\ entrance = [r \in Receivers |-> <<>>]
  /\ fails = 0

\* node.Broadcast, and the goroutine sendMsg makes for every message: the hub
\* gets them in any order.
Broadcast(m) ==
  /\ m \notin outbound \cup ToSet(hubLog)
  /\ outbound' = outbound \cup {m}
  /\ UNCHANGED <<hubLog, client, wire, reader, entrance, fails>>

\* Mutant of Overflowing: one message more than the channel holds.
OverflowingLate == {r \in clients : Len(send[r]) > SendCap}

\* select { case client.send <- message: default: }: the clients whose channel is full.
Overflowing == {r \in clients : Len(send[r]) >= SendCap}

\* case message := <-h.broadcast: a client that is behind is closed and forgotten.
HubBroadcast(m) ==
  /\ m \in outbound
  /\ outbound' = outbound \ {m}
  /\ hubLog'   = Append(hubLog, m)
  /\ clients'  = clients \ Overflowing
  /\ closed'   = [r \in Receivers |-> closed[r] + (IF r \in Overflowing THEN 1 ELSE 0)]
  /\ send'     = [r \in Receivers |-> IF r \in clients' THEN Append(send[r], m) ELSE send[r]]
  /\ UNCHANGED <<pump, writing, wire, reader, entrance, fails>>

\* writePump: message, ok := <-c.send
TakeFirst(r) ==
  /\ writing[r] = <<>> /\ send[r] # <<>>
  /\ writing' = [writing EXCEPT ![r] = <<Head(send[r])>>]
  /\ send'    = [send EXCEPT ![r] = Tail(@)]
  /\ UNCHANGED <<outbound, hubLog, clients, closed, pump, wire, reader, entrance, fails>>

\* Mutant of WriteFrame: what is queued goes first.
WriteFrameQueueFirst(r) ==
  /\ writing[r] # <<>>
  /\ wire'    = [wire EXCEPT ![r] = IF Ended(r) THEN @ ELSE
                                    IF send[r] = <<>> THEN Append(@, writing[r])
                                    ELSE Append(Append(@, <<Head(send[r])>>), writing[r])]
  /\ send'    = [send EXCEPT ![r] = IF @ = <<>> THEN @ ELSE Tail(@)]
  /\ writing' = [writing EXCEPT ![r] = <<>>]
  /\ UNCHANGED <<outbound, hubLog, clients, closed, pump, reader, entrance, fails>>

\* The message and everything queued behind it go into one frame, which is lost if
\* the connection has ended.
WriteFrame(r) ==
  /\ writing[r] # <<>>
  /\ wire'    = [wire EXCEPT ![r] = IF Ended(r) THEN @ ELSE Append(@, writing[r] \o send[r])]
  /\ send'    = [send EXCEPT ![r] = <<>>]
  /\ writing' = [writing EXCEPT ![r] = <<>>]
  /\ UNCHANGED <<outbound, hubLog, clients, closed, pump, reader, entrance, fails>>

\* Mutant of WriteClose: writePump ends and leaves the connection as it is.
WriteNoClose(r) ==
  /\ closed[r] > 0 /\ writing[r] = <<>> /\ send[r] = <<>> /\ ~Ended(r)
  /\ UNCHANGED vars

\* The hub closed the channel and it is drained: writePump ends the connection.
WriteClose(r) ==
  /\ closed[r] > 0 /\ writing[r] = <<>> /\ send[r] = <<>> /\ ~Ended(r)
  /\ wire' = [wire EXCEPT ![r] = Append(@, Closed)]
  /\ UNCHANGED <<outbound, hubLog, client, reader, entrance, fails>>

\* receiveLoop: two messages in one frame are no JSON value, and both are lost.
Receive(r) ==
  /\ reader[r] = "read" /\ wire[r] # <<>> /\ Head(wire[r]) # Closed
  /\ wire' = [wire EXCEPT ![r] = Tail(@)]
  /\ entrance' = [entrance EXCEPT ![r] = IF Len(Head(wire[r])) = 1 THEN @ \o Head(wire[r])
                                         ELSE @]
  /\ UNCHANGED <<outbound, hubLog, client, reader, fails>>

\* ReadMessage fails: the receiver dials again ...
LoseConnection(r) ==
  /\ reader[r] = "read" /\ wire[r] # <<>> /\ Head(wire[r]) = Closed
  /\ reader' = [reader EXCEPT ![r] = "dial"]
  /\ wire'   = [wire EXCEPT ![r] = <<>>]
  /\ UNCHANGED <<outbound, hubLog, client, entrance, fails>>

\* ... gets a new client, which the variables stand for from now on ...
\* (The old one may still be registered, until its readPump is through; it writes
\* to nobody, and all that the hub and its pumps do with it can be done before the
\* receiver dials.)
Redial(r) ==
  /\ reader[r] = "dial"
  /\ reader'  = [reader EXCEPT ![r] = "discard"]
  /\ clients' = clients \ {r}
  /\ closed'  = [closed EXCEPT ![r] = 0]
  /\ pump'    = [pump EXCEPT ![r] = FALSE]
  /\ send'    = [send EXCEPT ![r] = <<>>]
  /\ writing' = [writing EXCEPT ![r] = <<>>]
  /\ wire'    = [wire EXCEPT ![r] = <<>>]
  /\ UNCHANGED <<outbound, hubLog, entrance, fails>>

\* ... and reads a first message only to log its size; an error is met again by
\* the next read.
Discard(r) ==
  /\ reader[r] = "discard" /\ wire[r] # <<>>
  /\ reader' = [reader EXCEPT ![r] = "read"]
  /\ wire'   = [wire EXCEPT ![r] = IF Head(@) = Closed THEN @ ELSE Tail(@)]
  /\ UNCHANGED <<outbound, hubLog, client, entrance, fails>>

\* ServeWs: the handshake is over before the hub has registered the client; only
\* then its pumps start.
Register(r) ==
  /\ r \notin clients /\ closed[r] = 0
  /\ clients' = clients \cup {r}
  /\ pump'    = [pump EXCEPT ![r] = TRUE]
  /\ UNCHANGED <<outbound, hubLog, closed, send, writing, wire, reader, entrance, fails>>

\* The connection fails (a receiver blocked on a full MsgEntrance answers no ping
\* for pongWait), with all that is on it.
Fail(r) ==
  /\ fails < MaxFails /\ ~Ended(r)
  /\ fails' = fails + 1
  /\ wire'  = [wire EXCEPT ![r] = <<Closed>>]
  /\ UNCHANGED <<outbound, hubLog, client, reader, entrance>>

\* Mutant of Unregister: the hub does not ask whether it still knows the client.
UnregisterUnchecked(r) ==
  /\ pump[r] /\ Ended(r)
  /\ pump'    = [pump EXCEPT ![r] = FALSE]
  /\ clients' = clients \ {r}
  /\ closed'  = [closed EXCEPT ![r] = @ + 1]
  /\ UNCHANGED <<outbound, hubLog, send, writing, wire, reader, entrance, fails>>

\* readPump meets the end of the connection some time later and ends; the hub, on
\* h.unregister, may have closed and forgotten the client by itself before.
Unregister(r) ==
  /\ pump[r] /\ Ended(r)
  /\ pump'    = [pump EXCEPT ![r] = FALSE]
  /\ clients' = clients \ {r}
  /\ closed'  = [closed EXCEPT ![r] = IF r \in clients THEN @ + 1 ELSE @]
  /\ UNCHANGED <<outbound, hubLog, send, writing, wire, reader, entrance, fails>>

writePump(r)   == TakeFirst(r) \/ WriteFrame(r) \/ WriteClose(r)
receiveLoop(r) == Receive(r) \/ LoseConnection(r) \/ Redial(r) \/ Discard(r)

Next == \/ \E m \in Msgs : Broadcast(m) \/ HubBroadcast(m)
        \/ \E r \in Receivers : \/ writePump(r) \/ receiveLoop(r)
                                \/ Register(r) \/ Unregister(r) \/ Fail(r)

Spec == Init /\ [][Next]_vars

\* The hub, the pumps and the receivers run for ever and never wait on each other.
FairSpec == /\ Spec
            /\ \A m \in Msgs : WF_vars(HubBroadcast(m))
            /\ \A r \in Receivers : /\ WF_vars(writePump(r)) /\ WF_vars(receiveLoop(r))
                                    /\ WF_vars(Register(r)) /\ WF_vars(Unregister(r))

------------------------------------------------------------------------------
TypeOK ==
  /\ outbound \subseteq Msgs /\ hubLog \in Seq(Msgs)
  /\ clients \subseteq Receivers
  /\ closed \in [Receivers -> Nat] /\ pump \in [Receivers -> BOOLEAN]
  /\ send \in [Receivers -> Seq(Msgs)] /\ writing \in [Receivers -> Seq(Msgs)]
  /\ \A r \in Receivers : Len(send[r]) <= SendCap
  /\ wire \in [Receivers -> Seq(Seq(Msgs))]
  /\ reader \in [Receivers -> {"read", "dial", "discard"}]
  /\ entrance \in [Receivers -> Seq(Msgs)]
  /\ fails \in 0..MaxFails

\* The hub never sends on a closed channel and never closes one twice (either is a
\* panic of the one goroutine all messages pass through), whichever of an overflow
\* and the end of the readPump it meets first.
RegisteredIsOpen ==
  \A r \in Receivers : closed[r] <= 1 /\ (r \in clients => closed[r] = 0)

\* Whatever is lost, a node receives the messages of another in the order of its
\* hub and none of them twice, across overflows, failures and redials.
last == [r \in Receivers |->
           IF entrance[r] = <<>> THEN 0
           ELSE CHOOSE k \in DOMAIN hubLog : hubLog[k] = Last(entrance[r])]

B == INSTANCE LossyBroadcast

ImplementsLossyBroadcast == B!Spec

\* A receiver that the hub has dropped for being behind, or that has lost its
\* connection, is connected again.
Connected(r) == r \in clients /\ ~Ended(r)

Reconnects == \A r \in Receivers : ~Connected(r) ~> Connected(r)
===============================================================================
