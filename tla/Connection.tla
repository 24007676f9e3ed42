----------------------------- MODULE Connection ------------------------------
(***************************************************************************)
(* One client connection of the relay (pkg/server/client.go): its read     *)
(* pump, its write pump, the queue between them and the hub, and the       *)
(* goroutines that send to it or close it.                                 *)
(*                                                                         *)
(* Of a queued packet only its place in the queue counts.  Send is one     *)
(* step, since it holds c.mu and does not wait.  Close is two: the write   *)
(* pump takes no lock, and can see the closed channel while the socket is  *)
(* still open.                                                             *)
(***************************************************************************)
EXTENDS Naturals

CONSTANTS
  QueueSize,  \* the capacity of SendChan
  InFlight    \* the frames the peer may be ahead of the read pump

ASSUME ConnectionAssumption == QueueSize \in Nat \ {0} /\ InFlight \in Nat \ {0}

VARIABLES
  reader,      \* where ReadPump is
  writer,      \* where WritePump is
  mu,          \* who holds c.mu between two steps
  isClosed,    \* c.isClosed
  queued,      \* the packets in SendChan
  chanClosed,  \* SendChan was closed
  panicked,    \* a send on the closed channel, or a second close of it
  socket,      \* the server's end of the connection
  arrived,     \* the frames that were sent and not yet read
  peer,        \* the other end: up, gone, or silent behind a dead network
  known        \* the hub has the client

vars == <<reader, writer, mu, isClosed, queued, chanClosed, panicked, socket,
          arrived, peer, known>>

(* Each pump is at a line it has, and the queue is within its capacity. *)
TypeOK ==
  /\ reader \in {"read", "handle", "denied", "unregister", "close", "done"}
  /\ writer \in {"select", "write", "ping", "goodbye", "close", "done"}
  /\ mu \in {"free", "reader", "writer"}
  /\ isClosed \in BOOLEAN
  /\ queued \in 0..QueueSize
  /\ chanClosed \in BOOLEAN
  /\ panicked \in BOOLEAN
  /\ socket \in {"open", "closed"}
  /\ arrived \in 0..InFlight
  /\ peer \in {"up", "gone", "silent"}
  /\ known \in BOOLEAN

\* The /ws handler has registered the client and starts its pumps.
Init ==
  /\ reader = "read"
  /\ writer = "select"
  /\ mu = "free"
  /\ isClosed = FALSE
  /\ queued = 0
  /\ chanClosed = FALSE
  /\ panicked = FALSE
  /\ socket = "open"
  /\ arrived = 0
  /\ peer = "up"
  /\ known = TRUE

-----------------------------------------------------------------------------
(* The queue and the two halves of Close. *)

\* Mutant: the queue's limit is not looked at.
SendUnbounded ==
  /\ mu = "free"
  /\ ~isClosed
  /\ queued' = IF chanClosed THEN queued ELSE queued + 1
  /\ panicked' = (panicked \/ chanClosed)
  /\ UNCHANGED <<reader, writer, mu, isClosed, chanClosed, socket,
                 arrived, peer, known>>

\* Send, by any handler or by Run, at any time: whoever found the client in a map
\* may hold it after the hub has forgotten it.  A full queue drops the packet.
Send ==
  /\ mu = "free"
  /\ ~isClosed
  /\ queued' = IF chanClosed \/ queued = QueueSize THEN queued ELSE queued + 1
  /\ panicked' = (panicked \/ chanClosed)
  /\ UNCHANGED <<reader, writer, mu, isClosed, chanClosed, socket,
                 arrived, peer, known>>

\* Mutant: a second Close is not recognised.
CloseChanTwice(p) ==
  /\ mu = "free"
  /\ isClosed' = TRUE
  /\ chanClosed' = TRUE
  /\ panicked' = (panicked \/ chanClosed)
  /\ mu' = p

\* Close, first half: mark the client and close its channel, or find it marked.
CloseChan(p) ==
  /\ mu = "free"
  /\ isClosed' = TRUE
  /\ chanClosed' = TRUE
  /\ panicked' = (panicked \/ (~isClosed /\ chanClosed))
  /\ mu' = IF isClosed THEN "free" ELSE p

\* Mutant: the socket is left to the garbage collector.
CloseSocketLater(p) ==
  /\ mu = p
  /\ socket' = socket
  /\ mu' = "free"

\* Close, second half: close the socket, release c.mu.
CloseSocket(p) ==
  /\ mu = p
  /\ socket' = "closed"
  /\ mu' = "free"

-----------------------------------------------------------------------------
(* ReadPump. *)

\* ReadMessage returns a frame, perhaps one buffered before the socket was closed.
ReadFrame ==
  /\ reader = "read"
  /\ arrived > 0
  /\ arrived' = arrived - 1
  /\ reader' = "handle"
  /\ UNCHANGED <<writer, mu, isClosed, queued, chanClosed, panicked, socket,
                 peer, known>>

\* ReadMessage fails: the socket or the peer is gone, the read deadline has passed
\* without a pong, or the frame is not acceptable.
ReadFails ==
  /\ reader = "read"
  /\ reader' = "unregister"
  /\ UNCHANGED <<writer, mu, isClosed, queued, chanClosed, panicked, socket,
                 arrived, peer, known>>

\* The limiter, the decoder or the handler is done with the frame.
Handled ==
  /\ reader = "handle"
  /\ reader' = "read"
  /\ UNCHANGED <<writer, mu, isClosed, queued, chanClosed, panicked, socket,
                 arrived, peer, known>>

\* handleAuth calls Close on a wrong node password.
Deny ==
  /\ reader = "handle"
  /\ reader' = "denied"
  /\ UNCHANGED <<writer, mu, isClosed, queued, chanClosed, panicked, socket,
                 arrived, peer, known>>

\* Close in handleAuth returns, and ReadPump goes on reading.
DenyCloses ==
  /\ reader = "denied"
  /\ \/ /\ CloseChan("reader")
        /\ reader' = IF isClosed THEN "read" ELSE "denied"
        /\ UNCHANGED socket
     \/ /\ CloseSocket("reader")
        /\ reader' = "read"
        /\ UNCHANGED <<isClosed, chanClosed, panicked>>
  /\ UNCHANGED <<writer, queued, arrived, peer, known>>

\* Mutant: the deferred Close is missing.
UnregisteredOnly ==
  /\ reader = "unregister"
  /\ known' = FALSE
  /\ reader' = "done"
  /\ UNCHANGED <<writer, mu, isClosed, queued, chanClosed, panicked, socket,
                 arrived, peer>>

\* Run takes the client off the unregister channel and the hub forgets it.
Unregistered ==
  /\ reader = "unregister"
  /\ known' = FALSE
  /\ reader' = "close"
  /\ UNCHANGED <<writer, mu, isClosed, queued, chanClosed, panicked, socket,
                 arrived, peer>>

\* The deferred Close of ReadPump.
ReaderCloses ==
  /\ reader = "close"
  /\ \/ /\ CloseChan("reader")
        /\ reader' = IF isClosed THEN "done" ELSE "close"
        /\ UNCHANGED socket
     \/ /\ CloseSocket("reader")
        /\ reader' = "done"
        /\ UNCHANGED <<isClosed, chanClosed, panicked>>
  /\ UNCHANGED <<writer, queued, arrived, peer, known>>

-----------------------------------------------------------------------------
(* WritePump. *)

\* A packet is received; what is left in a closed channel is received first.
Take ==
  /\ writer = "select"
  /\ queued > 0
  /\ queued' = queued - 1
  /\ writer' = "write"
  /\ UNCHANGED <<reader, mu, isClosed, chanClosed, panicked, socket,
                 arrived, peer, known>>

\* The ticker fires.
PingDue ==
  /\ writer = "select"
  /\ writer' = "ping"
  /\ UNCHANGED <<reader, mu, isClosed, queued, chanClosed, panicked, socket,
                 arrived, peer, known>>

\* The channel is closed and empty.
SeeChanClosed ==
  /\ writer = "select"
  /\ queued = 0
  /\ chanClosed
  /\ writer' = "goodbye"
  /\ UNCHANGED <<reader, mu, isClosed, queued, chanClosed, panicked, socket,
                 arrived, peer, known>>

\* A packet or a ping is written: a silent peer's goes into the kernel's buffer.
WriteOk ==
  /\ writer \in {"write", "ping"}
  /\ socket = "open"
  /\ peer # "gone"
  /\ writer' = "select"
  /\ UNCHANGED <<reader, mu, isClosed, queued, chanClosed, panicked, socket,
                 arrived, peer, known>>

\* Mutant: the write pump gives up without closing.
WriteFailsQuietly ==
  /\ writer \in {"write", "ping"}
  /\ writer' = "done"
  /\ UNCHANGED <<reader, mu, isClosed, queued, chanClosed, panicked, socket,
                 arrived, peer, known>>

\* A write fails: the socket or the peer is gone, or the write deadline has passed.
WriteFails ==
  /\ writer \in {"write", "ping"}
  /\ writer' = "close"
  /\ UNCHANGED <<reader, mu, isClosed, queued, chanClosed, panicked, socket,
                 arrived, peer, known>>

\* The close frame is written or not; WritePump returns either way.
Goodbye ==
  /\ writer = "goodbye"
  /\ writer' = "close"
  /\ UNCHANGED <<reader, mu, isClosed, queued, chanClosed, panicked, socket,
                 arrived, peer, known>>

\* The deferred Close of WritePump.
WriterCloses ==
  /\ writer = "close"
  /\ \/ /\ CloseChan("writer")
        /\ writer' = IF isClosed THEN "done" ELSE "close"
        /\ UNCHANGED socket
     \/ /\ CloseSocket("writer")
        /\ writer' = "done"
        /\ UNCHANGED <<isClosed, chanClosed, panicked>>
  /\ UNCHANGED <<reader, queued, arrived, peer, known>>

-----------------------------------------------------------------------------
(* The other end. *)

PeerSends ==
  /\ peer = "up"
  /\ socket = "open"
  /\ arrived < InFlight
  /\ arrived' = arrived + 1
  /\ UNCHANGED <<reader, writer, mu, isClosed, queued, chanClosed, panicked, socket,
                 peer, known>>

PeerLost ==
  /\ peer = "up"
  /\ peer' \in {"gone", "silent"}
  /\ UNCHANGED <<reader, writer, mu, isClosed, queued, chanClosed, panicked, socket,
                 arrived, known>>

-----------------------------------------------------------------------------
Next ==
  \/ Send
  \/ ReadFrame \/ ReadFails \/ Handled \/ Deny \/ DenyCloses
  \/ Unregistered \/ ReaderCloses
  \/ Take \/ PingDue \/ SeeChanClosed \/ WriteOk \/ WriteFails \/ Goodbye \/ WriterCloses
  \/ PeerSends \/ PeerLost

\* Goroutines run, handlers return, Run takes what is offered to it, a read that
\* cannot succeed fails (at the latest at its deadline) and so does a write.  select
\* chooses at random when the ticker is ready too, so the queue gets its turn.
Fairness ==
  /\ WF_vars(ReadFails /\ (socket = "closed" \/ peer # "up"))
  /\ WF_vars(Handled)
  /\ WF_vars(DenyCloses)
  /\ WF_vars(Unregistered)
  /\ WF_vars(ReaderCloses)
  /\ SF_vars(Take \/ SeeChanClosed)
  /\ WF_vars(WriteOk \/ WriteFails)
  /\ WF_vars(Goodbye)
  /\ WF_vars(WriterCloses)

Spec == Init /\ [][Next]_vars /\ Fairness

-----------------------------------------------------------------------------
(* Properties. *)

\* Three goroutines may close the client while others send to it: nobody sends on the
\* closed channel and nobody closes it twice, either of which would end the server.
NeverPanics == ~panicked

\* Whoever gets c.mu finds the client open with its channel and socket open, or closed
\* with both closed.
ClosedAsOne ==
  mu = "free" => (isClosed <=> chanClosed) /\ (isClosed <=> socket = "closed")

Over == reader = "done" /\ writer = "done" /\ socket = "closed" /\ ~known

\* A peer that left or fell silent costs nothing for ever, and nor does a Close by
\* anybody, of a denied client or after a failed write: both pumps end, the socket is
\* closed and the hub forgets the client.
CleansUp == peer # "up" \/ isClosed ~> Over

\* A full queue, which drops every packet, does not stay full: the write pump makes
\* room or the connection is closed.
FullQueueMoves == queued = QueueSize ~> queued < QueueSize \/ isClosed
=============================================================================
