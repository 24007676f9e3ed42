------------------------------ MODULE ClientConn ------------------------------
(***************************************************************************)
(* The client's connection to a relay (pkg/client/client.go: Connect,      *)
(* Disconnect, SwitchServer, readPump) and the way packets and errors      *)
(* reach the user interface (pkg/ui/app.go: waitForPacket, Update).        *)
(*                                                                         *)
(* Goroutines: the caller (main, then the UI's Update, one at a time), one *)
(* readPump per successful Connect, and one waiter per waitForPacket.      *)
(* Connections and DisconnectChans are numbered in the order of their      *)
(* making; pump i is the one that Connect launched with connection i.      *)
(*                                                                         *)
(* What a packet says, the nickname and the room keys are left out.        *)
(***************************************************************************)
EXTENDS Naturals, Sequences, FiniteSets, SequencesExt

CONSTANTS
  MaxDials,     \* bound: the connections made, one more than the switches
  MaxPackets,   \* bound: the packets a relay sends over each connection
  PacketQueue,  \* the capacity of IncomingPackets
  ErrorQueue    \* the capacity of Errors

ASSUME ConnAssumption ==
  /\ MaxDials \in Nat \ {0}
  /\ MaxPackets \in [1..MaxDials -> Nat]
  /\ PacketQueue \in Nat \ {0}
  /\ ErrorQueue \in Nat \ {0}

Link == 1..MaxDials

\* What a waiter carries to Update: packet number n of a connection, or (number 0) the
\* error that ended a pump.
Event == UNION {[from : {k}, number : 0..MaxPackets[k]] : k \in Link}

VARIABLES
  caller,       \* where main or Update is in Connect and SwitchServer, or how it ended
  conn,         \* c.conn, 0 for nil
  isConnected,  \* c.isConnected
  channel,      \* the number of c.DisconnectChan: the switches so far
  closedChans,  \* the DisconnectChans that are closed
  panicked,     \* a channel was closed twice: the process is gone
  link,         \* each connection: none, up, closed by the client, lost
  arrived,      \* the packets that have come in over each connection
  taken,        \* how many of them pumps have read
  pump,         \* where each readPump is
  reads,        \* the value of c.conn it last loaded
  holds,        \* the packet it works on
  incoming,     \* IncomingPackets
  errors,       \* Errors: the pumps that ended
  waiters,      \* the waitForPacket goroutines in their select
  hands,        \* events taken from the channels, on their way to Update
  handled       \* the packets Update has handled, in order

fields == <<conn, isConnected, channel, closedChans, panicked>>
network == <<link, arrived>>
pumps == <<taken, pump, reads, holds>>
queues == <<incoming, errors, waiters, hands, handled>>
vars == <<caller, fields, network, pumps, queues>>

(* The fields, channels and goroutines have the shapes of the Go types. *)
TypeOK ==
  /\ caller \in {"idle", "renew", "dial", "auth", "quit"}
  /\ conn \in 0..MaxDials
  /\ isConnected \in BOOLEAN
  /\ channel \in 0..MaxDials
  /\ closedChans \subseteq 0..channel
  /\ panicked \in BOOLEAN
  /\ link \in [Link -> {"none", "up", "closed", "lost"}]
  /\ \A k \in Link : arrived[k] \in 0..MaxPackets[k]
  /\ \A k \in Link : taken[k] \in 0..arrived[k]
  /\ pump \in [Link -> {"none", "load", "read", "push", "fail", "unset", "close", "done"}]
  /\ \A i \in Link : reads[i] \in i..MaxDials
  /\ \A i \in Link : pump[i] = "push" => holds[i] \in Event
  /\ Len(incoming) <= PacketQueue /\ ToSet(incoming) \subseteq Event
  /\ Len(errors) <= ErrorQueue /\ ToSet(errors) \subseteq Event
  /\ waiters \in Nat
  /\ hands \in SUBSET Event
  /\ handled \in Seq(Event)

Init ==
  /\ caller = "dial"
  /\ conn = 0
  /\ isConnected = FALSE
  /\ channel = 0
  /\ closedChans = {}
  /\ panicked = FALSE
  /\ link = [k \in Link |-> "none"]
  /\ arrived = [k \in Link |-> 0]
  /\ taken = [k \in Link |-> 0]
  /\ pump = [i \in Link |-> "none"]
  /\ reads = [i \in Link |-> i]
  /\ holds = [i \in Link |-> [from |-> i, number |-> 0]]
  /\ incoming = <<>>
  /\ errors = <<>>
  /\ waiters = 0
  /\ hands = {}
  /\ handled = <<>>

Running == ~panicked /\ caller # "quit"

-----------------------------------------------------------------------------
(* The caller: Connect and SwitchServer. *)

\* Connect's dial succeeds: the fields are set and a pump is launched.
DialOk ==
  /\ caller = "dial"
  /\ \E k \in Link :
       /\ link[k] = "none"
       /\ \A j \in 1..(k - 1) : link[j] # "none"
       /\ link' = [link EXCEPT ![k] = "up"]
       /\ conn' = k
       /\ pump' = [pump EXCEPT ![k] = "load"]
  /\ isConnected' = TRUE
  /\ caller' = "auth"
  /\ UNCHANGED <<channel, closedChans, panicked, arrived, taken, reads, holds,
                 queues>>

\* The dial fails: main gives up; Update ignores it and waits for packets.
DialFails ==
  /\ caller = "dial"
  /\ IF channel = 0
       THEN caller' = "quit" /\ UNCHANGED waiters
       ELSE caller' = "idle" /\ waiters' = waiters + 1
  /\ UNCHANGED <<fields, network, pumps, incoming, errors, hands, handled>>

\* Mutant: the program starts with a waiter for each of the two channels.
AuthenticatedPerChannel ==
  /\ caller = "auth"
  /\ \/ caller' = "idle" /\ waiters' = waiters + 2
     \/ /\ channel = 0
        /\ ~isConnected \/ link[conn] # "up"
        /\ caller' = "quit" /\ UNCHANGED waiters
  /\ UNCHANGED <<fields, network, pumps, incoming, errors, hands, handled>>

\* Connect ends with Authenticate (on the first connection, only if a nickname was
\* saved).  A SendPacket that fails there ends main, and is ignored by Update, which
\* in both cases starts a waiter (Init of the model, or the end of a switch).
Authenticated ==
  /\ caller = "auth"
  /\ \/ caller' = "idle" /\ waiters' = waiters + 1
     \/ /\ channel = 0
        /\ ~isConnected \/ link[conn] # "up"
        /\ caller' = "quit" /\ UNCHANGED waiters
  /\ UNCHANGED <<fields, network, pumps, incoming, errors, hands, handled>>

\* Mutant: Disconnect closes the channel as well.
DisconnectAndSignal ==
  IF isConnected /\ conn # 0
    THEN /\ isConnected' = FALSE
         /\ link' = [link EXCEPT ![conn] = IF @ = "up" THEN "closed" ELSE @]
         /\ closedChans' = closedChans \cup {channel}
         /\ panicked' = (channel \in closedChans)
    ELSE UNCHANGED <<isConnected, closedChans, panicked, link>>

\* Disconnect, in one hold of c.mu.
Disconnect ==
  /\ IF isConnected /\ conn # 0
       THEN /\ isConnected' = FALSE
            /\ link' = [link EXCEPT ![conn] = IF @ = "up" THEN "closed" ELSE @]
       ELSE UNCHANGED <<isConnected, link>>
  /\ UNCHANGED <<closedChans, panicked>>

\* SwitchServer begins with Disconnect.
SwitchServer ==
  /\ caller = "idle"
  /\ channel + 1 < MaxDials
  /\ Disconnect
  /\ caller' = "renew"
  /\ UNCHANGED <<conn, channel, arrived, pumps, queues>>

\* Then it makes a new DisconnectChan and dials.
RenewChan ==
  /\ caller = "renew"
  /\ channel' = channel + 1
  /\ caller' = "dial"
  /\ UNCHANGED <<conn, isConnected, closedChans, panicked, network, pumps, queues>>

\* The user leaves: Disconnect, and the process ends.
Quit ==
  /\ caller = "idle"
  /\ Disconnect
  /\ caller' = "quit"
  /\ UNCHANGED <<conn, channel, arrived, pumps, queues>>

-----------------------------------------------------------------------------
(* readPump. *)

\* The top of the loop loads c.conn without c.mu: the newest value, or, while
\* SwitchServer races with it, one that was set since the last load.
Load(i) ==
  /\ pump[i] = "load"
  /\ \E k \in reads[i]..conn : reads' = [reads EXCEPT ![i] = k]
  /\ pump' = [pump EXCEPT ![i] = "read"]
  /\ UNCHANGED <<caller, fields, network, taken, holds, queues>>

\* ReadJSON returns a packet, from the reader's buffer even when the connection is over.
ReadPacket(i) ==
  LET k == reads[i]
  IN  /\ pump[i] = "read"
      /\ taken[k] < arrived[k]
      /\ taken' = [taken EXCEPT ![k] = @ + 1]
      /\ holds' = [holds EXCEPT ![i] = [from |-> k, number |-> taken[k] + 1]]
      /\ pump' = [pump EXCEPT ![i] = "push"]
      /\ UNCHANGED <<caller, fields, network, reads, queues>>

Shared(i) == \E j \in Link \ {i} : pump[j] = "read" /\ reads[j] = reads[i]

\* ReadJSON fails: the connection is over, or two pumps read it and spoil a frame.
ReadFails(i) ==
  /\ pump[i] = "read"
  /\ link[reads[i]] # "up" \/ Shared(i)
  /\ pump' = [pump EXCEPT ![i] = "fail"]
  /\ UNCHANGED <<caller, fields, network, taken, reads, holds, queues>>

\* Mutant: like the relay's Send, a full channel drops the packet.
PushOrDrop(i) ==
  /\ pump[i] = "push"
  /\ incoming' = IF Len(incoming) < PacketQueue THEN Append(incoming, holds[i]) ELSE incoming
  /\ pump' = [pump EXCEPT ![i] = "load"]
  /\ UNCHANGED <<caller, fields, network, taken, reads, holds, errors, waiters, hands,
                 handled>>

\* Mutant: the pump does not wait for room.
PushUnbounded(i) ==
  /\ pump[i] = "push"
  /\ incoming' = Append(incoming, holds[i])
  /\ pump' = [pump EXCEPT ![i] = "load"]
  /\ UNCHANGED <<caller, fields, network, taken, reads, holds, errors, waiters, hands,
                 handled>>

\* The packet goes to IncomingPackets, when there is room.
Push(i) ==
  /\ pump[i] = "push"
  /\ Len(incoming) < PacketQueue
  /\ incoming' = Append(incoming, holds[i])
  /\ pump' = [pump EXCEPT ![i] = "load"]
  /\ UNCHANGED <<caller, fields, network, taken, reads, holds, errors, waiters, hands,
                 handled>>

\* The error goes to Errors, when there is room.
PushError(i) ==
  /\ pump[i] = "fail"
  /\ Len(errors) < ErrorQueue
  /\ errors' = Append(errors, [from |-> i, number |-> 0])
  /\ pump' = [pump EXCEPT ![i] = "unset"]
  /\ UNCHANGED <<caller, fields, network, taken, reads, holds, incoming, waiters,
                 hands, handled>>

\* Mutant: the deferred function is only run when the connection was closed here.
UnsetIfClosed(i) ==
  /\ pump[i] = "unset"
  /\ isConnected' = (isConnected /\ link[reads[i]] # "closed")
  /\ pump' = [pump EXCEPT ![i] = "close"]
  /\ UNCHANGED <<caller, conn, channel, closedChans, panicked, network, taken, reads,
                 holds, queues>>

\* The deferred function marks the client as not connected,
Unset(i) ==
  /\ pump[i] = "unset"
  /\ isConnected' = FALSE
  /\ pump' = [pump EXCEPT ![i] = "close"]
  /\ UNCHANGED <<caller, conn, channel, closedChans, panicked, network, taken, reads,
                 holds, queues>>

\* and closes the DisconnectChan it finds.  (Its unlocked load may also give the one
\* before: that is this step taken earlier.)
CloseChan(i) ==
  /\ pump[i] = "close"
  /\ panicked' = (channel \in closedChans)
  /\ closedChans' = closedChans \cup {channel}
  /\ pump' = [pump EXCEPT ![i] = "done"]
  /\ UNCHANGED <<caller, conn, isConnected, channel, network, taken, reads, holds,
                 queues>>

-----------------------------------------------------------------------------
(* waitForPacket and Update. *)

TakePacket ==
  /\ waiters > 0
  /\ incoming # <<>>
  /\ hands' = hands \cup {Head(incoming)}
  /\ incoming' = Tail(incoming)
  /\ waiters' = waiters - 1
  /\ UNCHANGED <<caller, fields, network, pumps, errors, handled>>

TakeError ==
  /\ waiters > 0
  /\ errors # <<>>
  /\ hands' = hands \cup {Head(errors)}
  /\ errors' = Tail(errors)
  /\ waiters' = waiters - 1
  /\ UNCHANGED <<caller, fields, network, pumps, incoming, handled>>

\* Mutant: an error does not start a new waiter.
UpdateStopping ==
  /\ caller = "idle"
  /\ \E e \in hands :
       /\ hands' = hands \ {e}
       /\ handled' = IF e.number > 0 THEN Append(handled, e) ELSE handled
       /\ waiters' = IF e.number > 0 THEN waiters + 1 ELSE waiters
  /\ UNCHANGED <<caller, fields, network, pumps, incoming, errors>>

\* Update gets events in any order, one at a time, and starts a new waiter for each.
Update ==
  /\ caller = "idle"
  /\ \E e \in hands :
       /\ hands' = hands \ {e}
       /\ handled' = IF e.number > 0 THEN Append(handled, e) ELSE handled
  /\ waiters' = waiters + 1
  /\ UNCHANGED <<caller, fields, network, pumps, incoming, errors>>

-----------------------------------------------------------------------------
(* The relays and the network. *)

RelaySends(k) ==
  /\ link[k] = "up"
  /\ arrived[k] < MaxPackets[k]
  /\ arrived' = [arrived EXCEPT ![k] = @ + 1]
  /\ UNCHANGED <<caller, fields, link, pumps, queues>>

Lost(k) ==
  /\ link[k] = "up"
  /\ link' = [link EXCEPT ![k] = "lost"]
  /\ UNCHANGED <<caller, fields, arrived, pumps, queues>>

-----------------------------------------------------------------------------
Connecting == DialOk \/ DialFails \/ Authenticated \/ RenewChan

PumpStep(i) ==
  \/ Load(i) \/ ReadPacket(i) \/ ReadFails(i) \/ Push(i)
  \/ PushError(i) \/ Unset(i) \/ CloseChan(i)

Next ==
  /\ Running
  /\ \/ Connecting
     \/ SwitchServer
     \/ Quit
     \/ TakePacket
     \/ TakeError
     \/ Update
     \/ \E i \in Link : PumpStep(i) \/ RelaySends(i) \/ Lost(i)

\* Goroutines run and the dialer gives up or succeeds.  A read of a connection that is
\* over ends: the dialer's TCP keep-alive tells it of a dead peer.  The select of a
\* waiter chooses at random, so neither channel is passed over for ever; Update takes
\* events whenever it is not in a handler.
Fairness ==
  /\ WF_vars(Running /\ Connecting)
  /\ \A i \in Link : WF_vars(Running /\ PumpStep(i))
  /\ SF_vars(Running /\ TakePacket)
  /\ SF_vars(Running /\ TakeError)
  /\ SF_vars(Running /\ Update)

Spec == Init /\ [][Next]_vars /\ Fairness

-----------------------------------------------------------------------------
(* Properties. *)

\* Until the first switch of servers no channel is closed twice, whoever notices the end
\* of the connection first, and the user sees the packets in the order the relay sent
\* them, without a gap.
FineUntilSwitch ==
  channel = 0 =>
    /\ ~panicked
    /\ \A n \in DOMAIN handled : handled[n] = [from |-> 1, number |-> n]

Holding == {holds[i] : i \in {j \in Link : pump[j] = "push"}}

\* A packet read from any connection is in exactly one place on its way to the user, or
\* has been handled once: switches, failures and full channels lose and repeat nothing.
NothingLost ==
  LET due == {e \in Event : e.number \in 1..taken[e.from]}
      packets == {e \in hands : e.number > 0}
  IN  /\ due = Holding \cup ToSet(incoming) \cup packets \cup ToSet(handled)
      /\ Cardinality(due) = Cardinality(Holding) + Len(incoming)
                              + Cardinality(packets) + Len(handled)

\* The goroutines that wait for packets, or are on their way to Update with one: one, and
\* one more for every switch, which stays.  No error, failed dial or full channel adds or
\* ends one, and while a switch is under way its own has not started.
WaitersCounted ==
  caller # "quit" =>
    waiters + Cardinality(hands) = channel + IF caller \in {"idle", "renew"} THEN 1 ELSE 0

D == INSTANCE Delivery WITH
       Source <- Link, Original <- 1,
       read <- taken, shown <- handled, switched <- (channel > 0), broken <- panicked

\* However the pump, the waiters and the switches interleave, every step of the client is
\* one that Delivery allows or none of its concern: nothing is shown twice or before it was
\* read, and until the first switch nothing out of turn.
ImplementsDelivery == D!Spec

\* When the connection in use is lost the client stops reporting it as connected.
LossNoticed ==
  \A k \in Link : (conn = k /\ link[k] = "lost") ~> (~isConnected \/ conn # k \/ ~Running)

\* What was read is shown in the end, also after an error, a switch or a burst.
ReadIsHandled ==
  \A k \in Link : \A n \in 1..MaxPackets[k] :
    taken[k] >= n ~> ([from |-> k, number |-> n] \in ToSet(handled) \/ ~Running)

\* SwitchServer dials a new server "seamlessly": the program survives the switches.
SwitchSurvived == ~panicked
=============================================================================
