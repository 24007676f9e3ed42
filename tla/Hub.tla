--------------------------------- MODULE Hub ---------------------------------
(***************************************************************************)
(* The hub of the relay (pkg/server/hub.go): who is connected, under which *)
(* nickname, in which room, and what the members of a room were last told  *)
(* about each other.                                                       *)
(*                                                                         *)
(* One goroutine per connection (ReadPump) calls the handlers; the         *)
(* goroutine Run records registrations and disconnections.  The handlers   *)
(* modelled here hold h.mu from their first access to the shared maps to   *)
(* their return, so each is one step.  Requests that fail validation, and  *)
(* the chat, direct, topic, typing and ping packets, change none of the    *)
(* state below.                                                            *)
(***************************************************************************)
EXTENDS Naturals

CONSTANTS
  Client,          \* the connections, each used once
  Nick,            \* nicknames that ValidateNickname accepts, as spelled
  Lower,           \* strings.ToLower on nicknames
  Room,            \* normalised room names
  Starter,         \* the rooms NewHub creates
  General,         \* "#general"
  Password,        \* non-empty passwords, of rooms and of the node
  ServerPassword,  \* the node's password, or NoPassword for an open relay
  NoClient, NoNick, NoRoom, NoPassword, NoList

ASSUME HubAssumption ==
  /\ Lower \in [Nick -> Nick]
  /\ \A n \in Nick : Lower[Lower[n]] = Lower[n]
  /\ Starter \subseteq Room
  /\ General \in Starter
  /\ ServerPassword \in Password \cup {NoPassword}
  /\ NoClient \notin Client
  /\ NoNick \notin Nick
  /\ NoRoom \notin Room
  /\ NoPassword \notin Password
  /\ NoList \notin [room : Room, users : SUBSET (Nick \cup {NoNick})]

VARIABLES
  conn,           \* the connection's reader: new, open, ended, gone
  closed,         \* c.isClosed
  arriving,       \* the client Run has received but not yet recorded
  clients,        \* h.clients
  nickname,       \* c.Nickname
  currentRoom,    \* c.CurrentRoom
  clientsByNick,  \* h.clientsByNick, NoClient where the map has no entry
  rooms,          \* the keys of h.rooms
  secret,         \* room.PasswordHash, NoPassword for a public room
  members,        \* room.Members
  heard           \* the last user list queued for a member of a room, NoList if
                  \* it was dropped; a client that leaves starts again from NoList

vars == <<conn, closed, arriving, clients, nickname, currentRoom,
          clientsByNick, rooms, secret, members, heard>>

UserList == [room : Room, users : SUBSET (Nick \cup {NoNick})]

(* Connections, room maps and user lists have the shapes the Go types give them. *)
TypeOK ==
  /\ conn \in [Client -> {"new", "open", "ended", "gone"}]
  /\ closed \in [Client -> BOOLEAN]
  /\ arriving \in Client \cup {NoClient}
  /\ clients \in SUBSET Client
  /\ nickname \in [Client -> Nick \cup {NoNick}]
  /\ currentRoom \in [Client -> Room \cup {NoRoom}]
  /\ clientsByNick \in [Nick -> Client \cup {NoClient}]
  /\ rooms \in SUBSET Room
  /\ secret \in [Room -> Password \cup {NoPassword}]
  /\ members \in [Room -> SUBSET Client]
  /\ heard \in [Client -> UserList \cup {NoList}]

Init ==
  /\ conn = [c \in Client |-> "new"]
  /\ closed = [c \in Client |-> FALSE]
  /\ arriving = NoClient
  /\ clients = {}
  /\ nickname = [c \in Client |-> NoNick]
  /\ currentRoom = [c \in Client |-> NoRoom]
  /\ clientsByNick = [n \in Nick |-> NoClient]
  /\ rooms = Starter
  /\ secret = [r \in Room |-> NoPassword]
  /\ members = [r \in Room |-> {}]
  /\ heard = [c \in Client |-> NoList]

-----------------------------------------------------------------------------
(* Connections come and go. *)

\* The /ws handler hands the connection to Run and starts the two pumps.
Accept(c) ==
  /\ conn[c] = "new"
  /\ arriving = NoClient
  /\ conn' = [conn EXCEPT ![c] = "open"]
  /\ arriving' = c
  /\ UNCHANGED <<closed, clients, nickname, currentRoom, clientsByNick,
                 rooms, secret, members, heard>>

\* Mutant: the received client is not checked to be there.
RecordNil ==
  /\ clients' = clients \cup {arriving}
  /\ arriving' = NoClient
  /\ UNCHANGED <<conn, closed, nickname, currentRoom, clientsByNick,
                 rooms, secret, members, heard>>

\* Run's register case: by now the reader may already have handled packets.
RecordRegistration ==
  /\ arriving # NoClient
  /\ clients' = clients \cup {arriving}
  /\ arriving' = NoClient
  /\ UNCHANGED <<conn, closed, nickname, currentRoom, clientsByNick,
                 rooms, secret, members, heard>>

\* Close: by the write pump when a write fails, by the read pump when it ends.
Close(c) ==
  /\ conn[c] # "new"
  /\ ~closed[c]
  /\ closed' = [closed EXCEPT ![c] = TRUE]
  /\ UNCHANGED <<conn, arriving, clients, nickname, currentRoom,
                 clientsByNick, rooms, secret, members, heard>>

\* ReadMessage fails; the reader now waits for Run to take its Unregister.
ReadEnds(c) ==
  /\ conn[c] = "open"
  /\ conn' = [conn EXCEPT ![c] = "ended"]
  /\ UNCHANGED <<closed, arriving, clients, nickname, currentRoom,
                 clientsByNick, rooms, secret, members, heard>>

-----------------------------------------------------------------------------
(* What the handlers share. *)

\* The nick map without the client's own entry.
WithoutNick(c) ==
  [n \in Nick |-> IF nickname[c] # NoNick /\ n = Lower[nickname[c]]
                  THEN NoClient ELSE clientsByNick[n]]

\* broadcastUserList: queue the nicknames of room r for its members.  Send does
\* nothing on a closed client and drops the packet of a client whose queue is full.
ListSent(before, r, mem, nicks, full) ==
  [d \in Client |->
     IF d \notin mem[r] \/ closed[d] THEN before[d]
     ELSE IF d \in full THEN NoList
     ELSE [room |-> r, users |-> {nicks[e] : e \in mem[r]}]]

\* The member sets once c has left the room it believes it is in.
Left(c) ==
  [r \in Room |-> IF r = currentRoom[c] /\ r \in rooms
                  THEN members[r] \ {c} ELSE members[r]]

\* The user lists after the room c believes it is in was told that c left.
LeftHeard(c, nicks, full) ==
  LET before == [heard EXCEPT ![c] = NoList]
  IN  IF currentRoom[c] \in rooms
      THEN ListSent(before, currentRoom[c], Left(c), nicks, full)
      ELSE before

\* A new room takes the caller's password; an old one must be public or match it.
Admitted(r, password) ==
  r \in rooms => secret[r] \in {NoPassword, password}

\* Mutant: the old room is not left.
JoinWithoutLeaving(c, r, password, nicks, full) ==
  /\ Admitted(r, password)
  /\ members' = [members EXCEPT ![r] = @ \cup {c}]
  /\ rooms' = rooms \cup {r}
  /\ secret' = IF r \in rooms THEN secret ELSE [secret EXCEPT ![r] = password]
  /\ currentRoom' = [currentRoom EXCEPT ![c] = r]
  /\ heard' = ListSent(heard, r, members', nicks, full)

\* joinRoomInternal: leave the old room first, then create, enter or be denied.
\* A denied client is in no room but keeps the old room's name.
JoinRoomInternal(c, r, password, nicks, full) ==
  \/ /\ Admitted(r, password)
     /\ members' = [Left(c) EXCEPT ![r] = @ \cup {c}]
     /\ rooms' = rooms \cup {r}
     /\ secret' = IF r \in rooms THEN secret ELSE [secret EXCEPT ![r] = password]
     /\ currentRoom' = [currentRoom EXCEPT ![c] = r]
     /\ heard' = ListSent(LeftHeard(c, nicks, full), r, members', nicks, full)
  \/ /\ ~Admitted(r, password)
     /\ members' = Left(c)
     /\ heard' = LeftHeard(c, nicks, full)
     /\ UNCHANGED <<rooms, secret, currentRoom>>

-----------------------------------------------------------------------------
(* The handlers, called by the reader of an open connection.  The packets of a
   closed connection that were already buffered are still handled. *)

\* handleAuth with the wrong node password.
AuthFails(c, password) ==
  /\ conn[c] = "open"
  /\ ServerPassword \notin {NoPassword, password}
  /\ ~closed[c]
  /\ closed' = [closed EXCEPT ![c] = TRUE]
  /\ UNCHANGED <<conn, arriving, clients, nickname, currentRoom,
                 clientsByNick, rooms, secret, members, heard>>

\* Mutant: duplicate callsigns are not rejected.
AuthDuplicate(c, n, password, full) ==
  /\ conn[c] = "open"
  /\ ServerPassword \in {NoPassword, password}
  /\ nickname' = [nickname EXCEPT ![c] = n]
  /\ clientsByNick' = [clientsByNick EXCEPT ![Lower[n]] = c]
  /\ JoinRoomInternal(c, General, NoPassword, nickname', full)
  /\ UNCHANGED <<conn, closed, arriving, clients>>

\* handleAuth: a free nickname is taken and #general joined.  The handler does not
\* look at a nickname the client already has.
Auth(c, n, password, full) ==
  /\ conn[c] = "open"
  /\ ServerPassword \in {NoPassword, password}
  /\ clientsByNick[Lower[n]] = NoClient
  /\ nickname' = [nickname EXCEPT ![c] = n]
  /\ clientsByNick' = [clientsByNick EXCEPT ![Lower[n]] = c]
  /\ JoinRoomInternal(c, General, NoPassword, nickname', full)
  /\ UNCHANGED <<conn, closed, arriving, clients>>

\* handleJoinRoom.
JoinRoom(c, r, password, full) ==
  /\ conn[c] = "open"
  /\ JoinRoomInternal(c, r, password, nickname, full)
  /\ UNCHANGED <<conn, closed, arriving, clients, nickname, clientsByNick>>

\* handleLeaveRoom: a client that believes it is in #general stays as it is.
LeaveRoom(c, full) ==
  /\ conn[c] = "open"
  /\ currentRoom[c] # General
  /\ JoinRoomInternal(c, General, NoPassword, nickname, full)
  /\ UNCHANGED <<conn, closed, arriving, clients, nickname, clientsByNick>>

\* Mutant: the user list is not pushed after a rename.
SetNickQuietly(c, n, full) ==
  /\ conn[c] = "open"
  /\ \/ clientsByNick[Lower[n]] = NoClient
     \/ nickname[c] # NoNick /\ Lower[n] = Lower[nickname[c]]
  /\ clientsByNick' = [WithoutNick(c) EXCEPT ![Lower[n]] = c]
  /\ nickname' = [nickname EXCEPT ![c] = n]
  /\ UNCHANGED <<conn, closed, arriving, clients, currentRoom, rooms, secret,
                 members, heard>>

\* Mutant: the client's own entry is compared with its spelling, not in lower case.
SetNickSpelled(c, n, full) ==
  /\ conn[c] = "open"
  /\ \/ clientsByNick[Lower[n]] = NoClient
     \/ nickname[c] # NoNick /\ Lower[n] = Lower[nickname[c]]
  /\ clientsByNick' = [m \in Nick |->
                         IF m = nickname[c] THEN NoClient
                         ELSE IF m = n THEN c ELSE clientsByNick[m]]
  /\ nickname' = [nickname EXCEPT ![c] = n]
  /\ heard' = IF currentRoom[c] \in rooms
              THEN ListSent(heard, currentRoom[c], members, nickname', full)
              ELSE heard
  /\ UNCHANGED <<conn, closed, arriving, clients, currentRoom, rooms, secret,
                 members>>

\* handleSetNick: rename unless another client owns the nickname.
SetNick(c, n, full) ==
  /\ conn[c] = "open"
  /\ \/ clientsByNick[Lower[n]] = NoClient
     \/ nickname[c] # NoNick /\ Lower[n] = Lower[nickname[c]]
  /\ clientsByNick' = [WithoutNick(c) EXCEPT ![Lower[n]] = c]
  /\ nickname' = [nickname EXCEPT ![c] = n]
  /\ heard' = IF currentRoom[c] \in rooms
              THEN ListSent(heard, currentRoom[c], members, nickname', full)
              ELSE heard
  /\ UNCHANGED <<conn, closed, arriving, clients, currentRoom, rooms, secret,
                 members>>

\* Run's unregister case, handleDisconnect.  Run has always recorded the client by
\* then (Registered), so the early return for an unknown one is never taken.
HandleDisconnect(c, full) ==
  /\ conn[c] = "ended"
  /\ arriving = NoClient
  /\ c \in clients
  /\ conn' = [conn EXCEPT ![c] = "gone"]
  /\ clients' = clients \ {c}
  /\ clientsByNick' = WithoutNick(c)
  /\ members' = Left(c)
  /\ heard' = LeftHeard(c, nickname, full)
  /\ UNCHANGED <<closed, arriving, nickname, currentRoom, rooms, secret>>

-----------------------------------------------------------------------------
\* The clients for which Send still queues: whether another's queue is full is all one.
Listening == {d \in Client : conn[d] \in {"open", "ended"} /\ ~closed[d]}

Request(c, full) ==
  \/ \E n \in Nick, p \in Password \cup {NoPassword} : Auth(c, n, p, full)
  \/ \E r \in Room, p \in Password \cup {NoPassword} : JoinRoom(c, r, p, full)
  \/ LeaveRoom(c, full)
  \/ \E n \in Nick : SetNick(c, n, full)

Next ==
  \/ RecordRegistration
  \/ \E c \in Client :
       \/ Accept(c)
       \/ Close(c)
       \/ ReadEnds(c)
       \/ \E p \in Password \cup {NoPassword} : AuthFails(c, p)
       \/ \E full \in SUBSET Listening : Request(c, full) \/ HandleDisconnect(c, full)

Spec == Init /\ [][Next]_vars

-----------------------------------------------------------------------------
(* Properties. *)

\* A connected client that has a nickname is the one the nick map leads to: two
\* connected clients never share a callsign, in any letter case, and a direct
\* message to a callsign reaches whoever bears it now, across any sequence of
\* authentications, renames, disconnections and reuse of freed names.
NickOwner ==
  \A c \in Client :
    conn[c] # "gone" /\ nickname[c] # NoNick => clientsByNick[Lower[nickname[c]]] = c

\* A client is a member of no room but the one in its CurrentRoom field, of a room
\* that exists, and only between its acceptance and its disconnection: moves, denied
\* moves, authentications and disconnections leave no stray member behind.
MembersInPlace ==
  \A r \in Room : \A c \in members[r] :
    /\ r \in rooms
    /\ currentRoom[c] = r
    /\ conn[c] \in {"open", "ended"}

\* The last user list queued for a member of a room names exactly the members of
\* that room by their present nicknames, unless that very list was dropped or the
\* client is closed: joins, moves, denials, renames and disconnections all tell it.
PresenceAccurate ==
  \A r \in Room : \A c \in members[r] :
    ~closed[c] => heard[c] \in {NoList, [room |-> r, users |-> {nickname[e] : e \in members[r]}]}

\* A nickname never passes from one client to another in one step: it must be
\* given up first (the duplicate check of handleAuth and handleSetNick).
NickHandover ==
  [][\A n \in Nick : clientsByNick[n] # NoClient
                       => clientsByNick'[n] \in {clientsByNick[n], NoClient}]_vars

\* A room is never removed and never changes between public and private nor gets
\* another password, whoever joins it with whatever password; #general stays open.
RoomSecretFixed ==
  [][\A r \in rooms : r \in rooms' /\ secret'[r] = secret[r]]_vars

\* The refinement: a client is here from its acceptance until Run has handled its
\* disconnection, bears its Nickname in lower case as long as it is here, and is in
\* the rooms that count it as a member.
Here == [c \in Client |-> IF conn[c] = "new" THEN "away"
                         ELSE IF conn[c] = "gone" THEN "left" ELSE "here"]

Callsign == [c \in Client |-> IF conn[c] = "gone" \/ nickname[c] = NoNick
                             THEN NoNick ELSE Lower[nickname[c]]]

Place == [c \in Client |-> {r \in Room : c \in members[r]}]

P == INSTANCE Presence WITH
       Name <- Nick, Lobby <- General, NoName <- NoNick,
       presence <- Here, callsign <- Callsign, place <- Place, known <- rooms

\* Whatever the handlers do to the nick map, the member sets and the fields, users see
\* exclusive callsigns, one place each, closed private rooms and logins that lead to
\* #general: each step of the hub is a step of Presence or leaves it alone.
ImplementsPresence == P!Spec

\* "handleDisconnect cleans up client state across rooms and nick map": no entry
\* of the nick map leads to a client that has been disconnected.
NickMapCleaned ==
  \A n \in Nick : clientsByNick[n] # NoClient => conn[clientsByNick[n]] # "gone"

\* Run knows every connection it was handed and not yet told to forget: the client
\* it is recording is the only one that may already speak without being in h.clients.
Registered ==
  \A c \in Client :
    conn[c] \in {"open", "ended"} <=> c \in clients \cup ({arriving} \ {NoClient})

\* The inductive invariant: what the runs check, and Registered.
HubInv ==
  /\ TypeOK
  /\ Registered
  /\ NickOwner
  /\ MembersInPlace
  /\ PresenceAccurate

=============================================================================
