----------------------------- MODULE RoomDirectory -----------------------------
(***************************************************************************)
(* The list of rooms, with their topics and member counts, that the relay  *)
(* pushes to its clients, and the maps it is made from.                    *)
(* (pkg/server/hub.go, pkg/server/room.go; pkg/ui/app.go for its reader.)  *)
(*                                                                         *)
(* A login and a join hold h.mu from their change to their last Send;      *)
(* handleSetTopic holds it only to find its room, and then ranges over     *)
(* h.rooms and h.clients as it is.  The run-time may notice a write to a   *)
(* map that is being ranged over and end the process: fatal.  What is sent *)
(* is in the order of the Sends, so a client is described by the last list *)
(* that reached its queue.  The UI ignores TopicAcks.                      *)
(***************************************************************************)
EXTENDS Naturals, FiniteSets

CONSTANTS
  Client,    \* connections; each lives once
  Setter,    \* those whose users set topics
  Slow,      \* those whose queue may be full
  Room,      \* room names in use
  Private,   \* rooms with a password
  Starter,   \* rooms that NewHub creates
  General,   \* the room of a new client
  Topic, FirstTopic,
  MaxRequests, \* bound: logins, joins and topics, of all clients together
  NoClient, NoRoom, NoList

ASSUME DirectoryAssumption ==
  /\ Setter \subseteq Client /\ Slow \subseteq Client
  /\ Starter \subseteq Room /\ Private \subseteq Room \ Starter
  /\ General \in Starter
  /\ FirstTopic \in Topic
  /\ IsFiniteSet(Client) /\ NoClient \notin Client
  /\ MaxRequests \in Nat

VARIABLES
  connected, \* connections whose read pump runs
  recording, \* the client that Run has received and not yet recorded
  clients,   \* h.clients
  gone,      \* connections that have ended
  rooms,     \* the domain of h.rooms
  topic,     \* Room.Topic
  members,   \* Room.Members
  current,   \* Client.CurrentRoom
  owner,     \* the client whose handler holds h.mu
  pc,        \* each read pump: idle, topic, hello, list, push
  setting,   \* the clients whose handler is handleSetTopic
  want,      \* the topic or room asked for
  list,      \* the list being made or pushed
  due,       \* what a range has still to visit
  told,      \* clients that the push has visited
  shown,     \* the last list each client got
  missed,    \* a list has since gone out without it
  requests,
  fatal,     \* the process has been ended
  topicRace, \* all who ranged over the map were in handleSetTopic
  mixed,     \* the handlers since the relay was last idle have overlapped
  silent     \* since the last list a member went without one

relayVars == <<rooms, topic, members, current>>
linkVars == <<connected, recording, clients, gone>>
handlerVars == <<owner, pc, setting, want, list, due, told>>
seenVars == <<shown, missed>>
history == <<fatal, topicRace, mixed, silent>>
vars == <<relayVars, linkVars, handlerVars, seenVars, history, requests>>

Status == [topic : Topic, count : 0..Cardinality(Client)]
List == UNION {[s -> Status] : s \in SUBSET Room}

(* The hub's maps, the handlers' places and the lists keep their shapes; only a handler under way holds h.mu. *)
TypeOK ==
  /\ connected \subseteq Client /\ gone \subseteq Client /\ connected \cap gone = {}
  /\ clients \subseteq connected
  /\ recording \in (connected \ clients) \cup {NoClient}
  /\ Starter \subseteq rooms /\ rooms \subseteq Room
  /\ topic \in [Room -> Topic]
  /\ members \in [Room -> SUBSET connected]
  /\ current \in [Client -> rooms \cup {NoRoom}]
  /\ owner \in connected \cup {NoClient}
  /\ pc \in [Client -> {"idle", "topic", "hello", "list", "push"}]
  /\ owner # NoClient => pc[owner] \in {"hello", "list", "push"}
  /\ setting \subseteq Client
  /\ want \in [Client -> Topic \cup {NoRoom}]
  /\ list \in [Client -> List]
  /\ \A c \in Client : DOMAIN list[c] \subseteq rooms
  /\ due \in [Client -> SUBSET (Room \cup Client)]
  /\ told \in [Client -> SUBSET Client]
  /\ shown \in [Client -> List \cup {NoList}]
  /\ missed \in [Client -> BOOLEAN]
  /\ {fatal, topicRace, mixed, silent} \subseteq BOOLEAN

Init ==
  /\ connected = {} /\ clients = {} /\ gone = {}
  /\ recording = NoClient
  /\ rooms = Starter
  /\ topic = [r \in Room |-> FirstTopic]
  /\ members = [r \in Room |-> {}]
  /\ current = [c \in Client |-> NoRoom]
  /\ owner = NoClient
  /\ pc = [c \in Client |-> "idle"]
  /\ setting = {}
  /\ want = [c \in Client |-> NoRoom]
  /\ list = [c \in Client |-> <<>>]
  /\ due = [c \in Client |-> {}]
  /\ told = [c \in Client |-> {}]
  /\ shown = [c \in Client |-> NoList]
  /\ missed = [c \in Client |-> FALSE]
  /\ requests = 0
  /\ fatal = FALSE /\ topicRace = FALSE /\ mixed = FALSE /\ silent = FALSE

-----------------------------------------------------------------------------
(* Ranges and writes. *)

Busy == {c \in Client : pc[c] # "idle"}
RangingRooms == {c \in Client : pc[c] \in {"hello", "list"}}
RangingClients == {c \in Client : pc[c] = "push"}

\* A write to a map that the handlers in readers are ranging over.
Write(readers) ==
  \/ fatal' = FALSE /\ UNCHANGED topicRace
  \/ /\ readers # {}
     /\ fatal' = TRUE
     /\ topicRace' = (readers \subseteq setting)

Idle(c) == c \in connected /\ pc[c] = "idle" /\ owner = NoClient

\* A handler that will push a list begins.
Begins ==
  /\ requests < MaxRequests
  /\ requests' = requests + 1
  /\ mixed' = (Busy # {})

-----------------------------------------------------------------------------
(* Connections. *)

\* Run receives the new client; its read pump starts.
Register(c) ==
  /\ recording = NoClient
  /\ c \notin connected \cup gone
  /\ recording' = c
  /\ connected' = connected \cup {c}
  /\ UNCHANGED <<clients, gone, relayVars, handlerVars, seenVars, history, requests>>

\* Run records it under h.mu.
Record ==
  /\ recording # NoClient
  /\ owner = NoClient
  /\ clients' = clients \cup {recording}
  /\ recording' = NoClient
  /\ Write(RangingClients)
  /\ UNCHANGED <<connected, gone, relayVars, handlerVars, seenVars, mixed, silent, requests>>

\* handleDisconnect, after the read pump's last handler: no room list.
HandleDisconnect(c) ==
  /\ Idle(c)
  /\ recording = NoClient
  /\ clients' = clients \ {c}
  /\ connected' = connected \ {c}
  /\ gone' = gone \cup {c}
  /\ members' = [r \in Room |-> members[r] \ {c}]
  /\ current' = [current EXCEPT ![c] = NoRoom]
  /\ shown' = [shown EXCEPT ![c] = NoList]
  /\ missed' = [missed EXCEPT ![c] = FALSE]
  /\ silent' = TRUE
  /\ Write(RangingClients)
  /\ UNCHANGED <<recording, rooms, topic, handlerVars, mixed, requests>>

-----------------------------------------------------------------------------
(* The list is made and pushed: broadcastRoomList, and handleAuth's summaries. *)

\* One more room on a list.
With(l, r, status) ==
  [x \in DOMAIN l \cup {r} |-> IF x = r THEN status ELSE l[x]]

\* The range visits a room, whose Status is read under room.mu.  A room created
\* meanwhile may be visited or not.
Look(c) ==
  /\ pc[c] \in {"hello", "list"}
  /\ \E r \in rooms \ DOMAIN list[c] :
       /\ list' = [list EXCEPT ![c] = With(@, r, [topic |-> topic[r],
                                                count |-> Cardinality(members[r])])]
       /\ due' = [due EXCEPT ![c] = @ \ {r}]
  /\ UNCHANGED <<relayVars, linkVars, owner, pc, setting, want, told, seenVars, history, requests>>

StartPush(c) ==
  /\ pc[c] = "list"
  /\ due[c] = {}
  /\ pc' = [pc EXCEPT ![c] = "push"]
  /\ due' = [due EXCEPT ![c] = clients]
  /\ missed' = [d \in Client |-> missed[d] \/ d \in connected \ clients]
  /\ UNCHANGED <<relayVars, linkVars, owner, setting, want, list, told, shown, history, requests>>

\* Send puts the list into d's queue, and the UI shows it, or drops it.
Sent(d, l) ==
  \/ /\ shown' = [shown EXCEPT ![d] = l]
     /\ missed' = [missed EXCEPT ![d] = FALSE]
  \/ /\ d \in Slow
     /\ missed' = [missed EXCEPT ![d] = TRUE]
     /\ UNCHANGED shown

Push(c) ==
  /\ pc[c] = "push"
  /\ \E d \in clients \ told[c] :
       /\ Sent(d, list[c])
       /\ told' = [told EXCEPT ![c] = @ \cup {d}]
       /\ due' = [due EXCEPT ![c] = @ \ {d}]
  /\ UNCHANGED <<relayVars, linkVars, owner, pc, setting, want, list, history, requests>>

\* Mutant: a path that returns without unlocking h.mu.
EndPushLocked(c) ==
  /\ pc[c] = "push"
  /\ due[c] \cap clients = {}
  /\ pc' = [pc EXCEPT ![c] = "idle"]
  /\ setting' = setting \ {c}
  /\ list' = [list EXCEPT ![c] = <<>>]
  /\ due' = [due EXCEPT ![c] = {}]
  /\ told' = [told EXCEPT ![c] = {}]
  /\ UNCHANGED <<relayVars, linkVars, owner, want, seenVars, history, requests>>

\* The last client has been told; a login or a join now unlocks h.mu.
EndPush(c) ==
  /\ pc[c] = "push"
  /\ due[c] \cap clients = {}
  /\ pc' = [pc EXCEPT ![c] = "idle"]
  /\ setting' = setting \ {c}
  /\ owner' = IF owner = c THEN NoClient ELSE owner
  /\ list' = [list EXCEPT ![c] = <<>>]
  /\ due' = [due EXCEPT ![c] = {}]
  /\ told' = [told EXCEPT ![c] = {}]
  /\ UNCHANGED <<relayVars, linkVars, want, seenVars, history, requests>>

\* A handler goes on to broadcastRoomList.
Lists(c) ==
  /\ pc' = [pc EXCEPT ![c] = "list"]
  /\ list' = [list EXCEPT ![c] = <<>>]
  /\ due' = [due EXCEPT ![c] = rooms']
  /\ UNCHANGED told

-----------------------------------------------------------------------------
(* Handlers. *)

\* Mutant: the list is pushed only when the room is new.
EnterQuietly(c, r) ==
  /\ members' = [x \in Room |-> IF x = r THEN members[x] \cup {c} ELSE members[x] \ {c}]
  /\ current' = [current EXCEPT ![c] = r]
  /\ rooms' = rooms \cup {r}
  /\ owner' = IF r \in rooms THEN NoClient ELSE c
  /\ silent' = FALSE
  /\ IF r \in rooms
     THEN /\ UNCHANGED <<fatal, topicRace, told>>
          /\ pc' = [pc EXCEPT ![c] = "idle"]
          /\ list' = [list EXCEPT ![c] = <<>>]
          /\ due' = [due EXCEPT ![c] = {}]
     ELSE Write(RangingRooms) /\ Lists(c)
  /\ UNCHANGED <<topic, setting, want>>

\* Mutant: h.mu is unlocked before broadcastRoomList.
EnterUnlocking(c, r) ==
  /\ members' = [x \in Room |-> IF x = r THEN members[x] \cup {c} ELSE members[x] \ {c}]
  /\ current' = [current EXCEPT ![c] = r]
  /\ rooms' = rooms \cup {r}
  /\ owner' = NoClient
  /\ silent' = FALSE
  /\ IF r \in rooms THEN UNCHANGED <<fatal, topicRace>> ELSE Write(RangingRooms)
  /\ Lists(c)
  /\ UNCHANGED <<topic, setting, want>>

\* joinRoomInternal, admitted: the move, after which the list is made with h.mu held.
Enter(c, r) ==
  /\ members' = [x \in Room |-> IF x = r THEN members[x] \cup {c} ELSE members[x] \ {c}]
  /\ current' = [current EXCEPT ![c] = r]
  /\ rooms' = rooms \cup {r}
  /\ owner' = c
  /\ silent' = FALSE
  /\ IF r \in rooms THEN UNCHANGED <<fatal, topicRace>> ELSE Write(RangingRooms)
  /\ Lists(c)
  /\ UNCHANGED <<topic, setting, want>>

\* joinRoomInternal, denied: the client has left its room all the same, without a list.
Deny(c) ==
  /\ members' = [x \in Room |-> members[x] \ {c}]
  /\ silent' = TRUE
  /\ UNCHANGED <<rooms, topic, current, handlerVars, fatal, topicRace, mixed, requests>>

\* handleJoinRoom and handleLeaveRoom.
JoinRoom(c) ==
  /\ Idle(c)
  /\ \E r \in Room :
       \/ Enter(c, r) /\ Begins
       \/ r \in Private \cap rooms /\ Deny(c)
  /\ UNCHANGED <<linkVars, seenVars>>

\* handleAuth, admitted: the rooms' summaries for the AuthAck.
Auth(c) ==
  /\ Idle(c)
  /\ owner' = c
  /\ pc' = [pc EXCEPT ![c] = "hello"]
  /\ due' = [due EXCEPT ![c] = rooms]
  /\ Begins
  /\ UNCHANGED <<relayVars, linkVars, setting, want, list, told, seenVars, fatal, topicRace,
                 silent>>

\* handleAuth: the AuthAck, and into the general room.
Welcome(c) ==
  /\ pc[c] = "hello"
  /\ due[c] = {}
  /\ Sent(c, list[c])
  /\ Enter(c, General)
  /\ UNCHANGED <<linkVars, mixed, requests>>

\* handleSetTopic up to the unlock of h.mu.
SetTopic(c) ==
  /\ Idle(c)
  /\ c \in Setter
  /\ current[c] \in rooms
  /\ \E t \in Topic : want' = [want EXCEPT ![c] = t]
  /\ pc' = [pc EXCEPT ![c] = "topic"]
  /\ setting' = setting \cup {c}
  /\ Begins
  /\ UNCHANGED <<relayVars, linkVars, owner, list, due, told, seenVars, fatal, topicRace, silent>>

\* handleSetTopic after it: Room.SetTopic, the announcement and the start of the list.
ApplyTopic(c) ==
  /\ pc[c] = "topic"
  /\ topic' = [topic EXCEPT ![current[c]] = want[c]]
  /\ want' = [want EXCEPT ![c] = NoRoom]
  /\ silent' = FALSE
  /\ UNCHANGED <<rooms, members, current>>
  /\ Lists(c)
  /\ UNCHANGED <<linkVars, owner, setting, seenVars, fatal, topicRace, mixed, requests>>

Next ==
  /\ ~fatal
  /\ \/ Record
     \/ \E c \in Client :
          \/ Register(c) \/ HandleDisconnect(c)
          \/ Look(c) \/ StartPush(c) \/ Push(c) \/ EndPush(c)
          \/ JoinRoom(c) \/ Auth(c) \/ Welcome(c)
          \/ SetTopic(c) \/ ApplyTopic(c)

Spec == Init /\ [][Next]_vars

-----------------------------------------------------------------------------
(* Properties. *)

\* Only handleSetTopic exposes the relay to the run-time's check of its maps: when a map
\* is written while handlers range over it, they are all changes of a topic, whoever's;
\* a login or a join, of the same client or another, holds h.mu until its list is pushed.
OnlyTopicsRace == fatal => topicRace

\* Once the relay is idle, what a client was last shown is what there is, unless a list
\* was dropped for it: all rooms with their topics, and their member counts too unless
\* somebody has since left in silence.  Handlers that overlapped are excepted: a topic
\* change pushes its list without h.mu, and may push an old one last.
ListCurrent ==
  Busy = {} /\ recording = NoClient /\ ~mixed =>
    \A c \in clients :
      shown[c] # NoList /\ ~missed[c] =>
        /\ DOMAIN shown[c] = rooms
        /\ \A r \in rooms :
             /\ shown[c][r].topic = topic[r]
             /\ ~silent => shown[c][r].count = Cardinality(members[r])
=============================================================================
