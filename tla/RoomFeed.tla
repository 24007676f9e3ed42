------------------------------ MODULE RoomFeed -------------------------------
(***************************************************************************)
(* How chat messages reach the members of a room (pkg/server/hub.go,       *)
(* handleChatMsg and joinRoomInternal, with pkg/server/room.go).           *)
(*                                                                         *)
(* A message is stored and then broadcast, under two separate holds of     *)
(* room.mu, while others join, leave and are shown the history.  The steps *)
(* here are the critical sections, and within Broadcast and the replay of  *)
(* the history each Send.  h.mu is a variable; room.mu is held for reading *)
(* by the clients in "deliver", and each of its write sections is one step *)
(* that waits for them.                                                    *)
(*                                                                         *)
(* Only chat messages are followed.  A message is named by its sender, its *)
(* number with that sender and its room.                                   *)
(***************************************************************************)
EXTENDS Naturals, Sequences, SequencesExt

CONSTANTS
  Client,      \* connections with a nickname
  Room,
  Private,     \* rooms that may turn a client away
  MaxHistory,  \* room.MaxHistory
  MaxSent,     \* bound: how many messages each client sends
  Slow,        \* the clients whose SendChan may be full
  NoRoom, NoClient

ASSUME FeedAssumption ==
  /\ Private \subseteq Room
  /\ MaxHistory \in Nat
  /\ MaxSent \in [Client -> Nat]
  /\ Slow \subseteq Client
  /\ NoRoom \notin Room
  /\ NoClient \notin Client

Message == [sender : Client, number : Nat \ {0}, room : Room]

VARIABLES
  pc,           \* what each connection's reader is doing
  hubMu,        \* who holds h.mu across several steps
  currentRoom,  \* c.CurrentRoom
  target,       \* the room being joined
  sent,         \* how many messages each client has sent
  sending,      \* the message a handler works on
  todo,         \* members a broadcast has still to reach
  replay,       \* the copy of the history still to be sent to a joiner
  members,      \* room.Members
  history,      \* room.History
  stored,       \* everything AddMessage was called with, in order
  feed,         \* the messages queued for a client since it entered its room
  lost          \* the messages dropped since then because its queue was full

vars == <<pc, hubMu, currentRoom, target, sent, sending, todo, replay, members,
          history, stored, feed, lost>>

(* Handlers are at a line they have, and the maps have the shapes of the Go types. *)
TypeOK ==
  /\ pc \in [Client -> {"idle", "store", "broadcast", "deliver",
                        "leave", "enter", "catchup", "replay", "gone"}]
  /\ hubMu \in Client \cup {NoClient}
  /\ currentRoom \in [Client -> Room \cup {NoRoom}]
  /\ target \in [Client -> Room \cup {NoRoom}]
  /\ sent \in [Client -> Nat]
  /\ \A c \in Client : pc[c] \in {"store", "broadcast", "deliver"}
                         => sending[c] \in {m \in Message : m.sender = c}
  /\ todo \in [Client -> SUBSET Client]
  /\ replay \in [Client -> Seq(Message)]
  /\ members \in [Room -> SUBSET Client]
  /\ history \in [Room -> Seq(Message)]
  /\ stored \in [Room -> Seq(Message)]
  /\ feed \in [Client -> Seq(Message)]
  /\ lost \in [Client -> SUBSET Message]

Init ==
  /\ pc = [c \in Client |-> "idle"]
  /\ hubMu = NoClient
  /\ currentRoom = [c \in Client |-> NoRoom]
  /\ target = [c \in Client |-> NoRoom]
  /\ sent = [c \in Client |-> 0]
  /\ sending = [c \in Client |-> <<>>]
  /\ todo = [c \in Client |-> {}]
  /\ replay = [c \in Client |-> <<>>]
  /\ members = [r \in Room |-> {}]
  /\ history = [r \in Room |-> <<>>]
  /\ stored = [r \in Room |-> <<>>]
  /\ feed = [c \in Client |-> <<>>]
  /\ lost = [c \in Client |-> {}]

-----------------------------------------------------------------------------
(* What the steps share. *)

Goto(c, line) == pc' = [pc EXCEPT ![c] = line]

\* Nobody holds the room's lock for reading, so a write section can run.
Unread(r) == \A d \in Client : pc[d] = "deliver" => sending[d].room # r

\* Send: queued, or dropped by a full queue.
SendTo(d, m) ==
  \/ feed' = [feed EXCEPT ![d] = Append(@, m)] /\ UNCHANGED lost
  \/ d \in Slow /\ lost' = [lost EXCEPT ![d] = @ \cup {m}] /\ UNCHANGED feed

\* Mutant: one message too many is kept.
KeptOneMore(h, m) ==
  IF MaxHistory = 0 THEN h
  ELSE IF Len(h) > MaxHistory THEN Append(Tail(h), m) ELSE Append(h, m)

\* AddMessage's ring buffer.
Kept(h, m) ==
  IF MaxHistory = 0 THEN h
  ELSE IF Len(h) >= MaxHistory THEN Append(Tail(h), m) ELSE Append(h, m)

-----------------------------------------------------------------------------
(* handleChatMsg. *)

\* Mutant: a client in no room may send.
ChatAnywhere(c) ==
  /\ pc[c] = "idle"
  /\ sent[c] < MaxSent[c]
  /\ hubMu = NoClient
  /\ sent' = [sent EXCEPT ![c] = @ + 1]
  /\ sending' = [sending EXCEPT ![c] =
       [sender |-> c, number |-> sent[c] + 1, room |-> currentRoom[c]]]
  /\ Goto(c, "store")
  /\ UNCHANGED <<hubMu, currentRoom, target, todo, replay, members, history,
                 stored, feed, lost>>

\* The room is looked up by the name in CurrentRoom; membership is not looked at.
Chat(c) ==
  /\ pc[c] = "idle"
  /\ currentRoom[c] # NoRoom
  /\ sent[c] < MaxSent[c]
  /\ hubMu = NoClient
  /\ sent' = [sent EXCEPT ![c] = @ + 1]
  /\ sending' = [sending EXCEPT ![c] =
       [sender |-> c, number |-> sent[c] + 1, room |-> currentRoom[c]]]
  /\ Goto(c, "store")
  /\ UNCHANGED <<hubMu, currentRoom, target, todo, replay, members, history,
                 stored, feed, lost>>

\* AddMessage.
Store(c) ==
  LET m == sending[c]
  IN  /\ pc[c] = "store"
      /\ Unread(m.room)
      /\ history' = [history EXCEPT ![m.room] = Kept(@, m)]
      /\ stored' = [stored EXCEPT ![m.room] = Append(@, m)]
      /\ Goto(c, "broadcast")
      /\ UNCHANGED <<hubMu, currentRoom, target, sent, sending, todo, replay,
                     members, feed, lost>>

\* Mutant: like a typing indicator, the message is not sent to its sender.
BroadcastToPeers(c) ==
  /\ pc[c] = "broadcast"
  /\ todo' = [todo EXCEPT ![c] = members[sending[c].room] \ {c}]
  /\ Goto(c, "deliver")
  /\ UNCHANGED <<hubMu, currentRoom, target, sent, sending, replay, members,
                 history, stored, feed, lost>>

\* Broadcast takes the room's lock for reading and ranges over the members.
Broadcast(c) ==
  /\ pc[c] = "broadcast"
  /\ todo' = [todo EXCEPT ![c] = members[sending[c].room]]
  /\ Goto(c, "deliver")
  /\ UNCHANGED <<hubMu, currentRoom, target, sent, sending, replay, members,
                 history, stored, feed, lost>>

\* Mutant: the hub's lock is taken again while the room's is held.
DeliverUnderHubLock(c) ==
  /\ pc[c] = "deliver"
  /\ hubMu = NoClient
  /\ \E d \in todo[c] :
       /\ todo' = [todo EXCEPT ![c] = @ \ {d}]
       /\ SendTo(d, sending[c])
  /\ UNCHANGED <<pc, hubMu, currentRoom, target, sent, sending, replay, members,
                 history, stored>>

\* One Send of Broadcast, in the map's arbitrary order.
Deliver(c) ==
  /\ pc[c] = "deliver"
  /\ \E d \in todo[c] :
       /\ todo' = [todo EXCEPT ![c] = @ \ {d}]
       /\ SendTo(d, sending[c])
  /\ UNCHANGED <<pc, hubMu, currentRoom, target, sent, sending, replay, members,
                 history, stored>>

\* Mutant: a broadcast that a full queue missed is made again.
DeliveredOrRetried(c) ==
  /\ pc[c] = "deliver"
  /\ todo[c] = {}
  /\ IF \E d \in Client : sending[c] \in lost[d]
     THEN Goto(c, "broadcast") /\ UNCHANGED sending
     ELSE Goto(c, "idle") /\ sending' = [sending EXCEPT ![c] = <<>>]
  /\ UNCHANGED <<hubMu, currentRoom, target, sent, todo, replay, members,
                 history, stored, feed, lost>>

\* Broadcast releases the room's lock and the handler returns.
Delivered(c) ==
  /\ pc[c] = "deliver"
  /\ todo[c] = {}
  /\ Goto(c, "idle")
  /\ sending' = [sending EXCEPT ![c] = <<>>]
  /\ UNCHANGED <<hubMu, currentRoom, target, sent, todo, replay, members,
                 history, stored, feed, lost>>

-----------------------------------------------------------------------------
(* joinRoomInternal, with h.mu held throughout. *)

\* handleAuth, handleJoinRoom and handleLeaveRoom take h.mu.
Join(c, r) ==
  /\ pc[c] = "idle"
  /\ hubMu = NoClient
  /\ hubMu' = c
  /\ target' = [target EXCEPT ![c] = r]
  /\ Goto(c, "leave")
  /\ UNCHANGED <<currentRoom, sent, sending, todo, replay, members, history,
                 stored, feed, lost>>

\* The member sets without c; what c was shown of its room is over.
Removed(c) ==
  /\ members' = [r \in Room |-> IF r = currentRoom[c] THEN members[r] \ {c} ELSE members[r]]
  /\ feed' = [feed EXCEPT ![c] = <<>>]
  /\ lost' = [lost EXCEPT ![c] = {}]

\* Mutant: the member is removed without waiting for the room's lock.
LeaveUnlocked(c) ==
  /\ pc[c] = "leave"
  /\ Removed(c)
  /\ Goto(c, "enter")
  /\ UNCHANGED <<hubMu, currentRoom, target, sent, sending, todo, replay,
                 history, stored>>

\* RemoveMember from the room c is in, if any.
Leave(c) ==
  /\ pc[c] = "leave"
  /\ currentRoom[c] # NoRoom => Unread(currentRoom[c])
  /\ Removed(c)
  /\ Goto(c, "enter")
  /\ UNCHANGED <<hubMu, currentRoom, target, sent, sending, todo, replay,
                 history, stored>>

\* A wrong room password: c stays outside, under its old room's name.
Denied(c) ==
  /\ pc[c] = "enter"
  /\ target[c] \in Private
  /\ hubMu' = NoClient
  /\ target' = [target EXCEPT ![c] = NoRoom]
  /\ Goto(c, "idle")
  /\ UNCHANGED <<currentRoom, sent, sending, todo, replay, members, history,
                 stored, feed, lost>>

\* CurrentRoom is set and AddMember called.
Enter(c) ==
  /\ pc[c] = "enter"
  /\ Unread(target[c])
  /\ currentRoom' = [currentRoom EXCEPT ![c] = target[c]]
  /\ members' = [members EXCEPT ![target[c]] = @ \cup {c}]
  /\ Goto(c, "catchup")
  /\ UNCHANGED <<hubMu, target, sent, sending, todo, replay, history, stored,
                 feed, lost>>

\* GetHistory copies the buffer.
CatchUp(c) ==
  /\ pc[c] = "catchup"
  /\ replay' = [replay EXCEPT ![c] = history[target[c]]]
  /\ Goto(c, "replay")
  /\ UNCHANGED <<hubMu, currentRoom, target, sent, sending, todo, members,
                 history, stored, feed, lost>>

\* One Send of the catch-up.
Replay(c) ==
  /\ pc[c] = "replay"
  /\ replay[c] # <<>>
  /\ SendTo(c, Head(replay[c]))
  /\ replay' = [replay EXCEPT ![c] = Tail(@)]
  /\ UNCHANGED <<pc, hubMu, currentRoom, target, sent, sending, todo, members,
                 history, stored>>

\* The room is told of the arrival (not followed here) and h.mu released.
Joined(c) ==
  /\ pc[c] = "replay"
  /\ replay[c] = <<>>
  /\ hubMu' = NoClient
  /\ target' = [target EXCEPT ![c] = NoRoom]
  /\ Goto(c, "idle")
  /\ UNCHANGED <<currentRoom, sent, sending, todo, replay, members, history,
                 stored, feed, lost>>

\* handleDisconnect, by Run, once the reader has returned from its last handler.
Disconnect(c) ==
  /\ pc[c] = "idle"
  /\ hubMu = NoClient
  /\ currentRoom[c] # NoRoom => Unread(currentRoom[c])
  /\ Removed(c)
  /\ Goto(c, "gone")
  /\ UNCHANGED <<hubMu, currentRoom, target, sent, sending, todo, replay,
                 history, stored>>

-----------------------------------------------------------------------------
Step(c) ==
  \/ Store(c) \/ Broadcast(c) \/ Deliver(c) \/ Delivered(c)
  \/ Leave(c) \/ Denied(c) \/ Enter(c) \/ CatchUp(c) \/ Replay(c) \/ Joined(c)

Next ==
  \E c \in Client :
    \/ Chat(c)
    \/ \E r \in Room : Join(c, r)
    \/ Step(c)
    \/ Disconnect(c)

\* A handler that was called goes on.  Strong fairness: a blocked Lock of a
\* sync.RWMutex keeps new readers out, so readers cannot starve a writer.
Fairness == \A c \in Client : SF_vars(Step(c))

Safety == Init /\ [][Next]_vars

Spec == Safety /\ Fairness

-----------------------------------------------------------------------------
(* Properties. *)

\* The history is what was stored last, in order, at most MaxHistory messages of it
\* (none at all in zero-retention mode).
HistoryIsRecent ==
  \A r \in Room :
    /\ Len(history[r]) <= MaxHistory
    /\ IsSuffix(history[r], stored[r])
    /\ Len(history[r]) < MaxHistory => history[r] = stored[r]

BroadcastOver(m) ==
  \A s \in Client : pc[s] \in {"store", "broadcast", "deliver"} => sending[s] # m

\* No gap between the history and the live messages: a member whose catch-up is over
\* was sent every message of the history whose broadcast is over, whichever way the
\* store, the broadcast and the joining interleaved.
NoGap ==
  \A r \in Room : \A c \in members[r] : pc[c] \notin {"catchup", "replay"} =>
    \A m \in ToSet(history[r]) :
      BroadcastOver(m) => m \in ToSet(feed[c]) \cup lost[c]

\* Nothing of a room is queued for a client outside it: not when it left while a
\* broadcast was under way, not when it was turned away elsewhere.
FeedOfRoom ==
  \A c \in Client : \A m \in ToSet(feed[c]) :
    m.room = currentRoom[c] /\ c \in members[m.room]

\* A message reaches a client at most twice in one stay: once with the history and
\* once live.
AtMostTwice ==
  \A c \in Client : \A i, j, k \in DOMAIN feed[c] :
    feed[c][i] = feed[c][j] /\ feed[c][j] = feed[c][k] => i = j \/ j = k \/ i = k

C == INSTANCE Conversation WITH
       Nowhere <- NoRoom,
       room <- currentRoom,
       inside <- UNION {members[r] : r \in Room},
       count <- [c \in Client |-> IF pc[c] = "store" THEN sent[c] - 1 ELSE sent[c]],
       said <- UNION {ToSet(stored[r]) : r \in Room},
       heard <- feed

\* However stores, broadcasts, catch-ups and moves interleave, every step of a handler is
\* one that Conversation allows or none of its concern: what reaches a client was stored
\* before in the room it is in, and nothing reaches it that left or was turned away.
ImplementsConversation == C!Spec

\* Handlers return: the order h.mu, room.mu, c.mu keeps them from waiting on each
\* other for ever.
HandlersReturn ==
  \A c \in Client : pc[c] \notin {"idle", "gone"} ~> pc[c] = "idle"
=============================================================================
