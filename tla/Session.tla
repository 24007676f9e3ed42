------------------------------- MODULE Session --------------------------------
(***************************************************************************)
(* One user's rooms, passphrases and chat feed, from the keyboard to the   *)
(* relay and back (pkg/ui/app.go: handleSend, switchRoom,                  *)
(* handleIncomingPacket; pkg/client/client.go: JoinRoom, SendChat,         *)
(* readPump; pkg/server/hub.go: handleJoinRoom, handleChatMsg, handleAuth).*)
(*                                                                         *)
(* The client moves to a room and takes its passphrase before the relay    *)
(* has answered.  Requests and answers travel in order; the relay may      *)
(* refuse any of them.  The user is authenticated, and the connection      *)
(* holds (ClientConn has its loss) unless the user switches to another     *)
(* relay; the relay's queue does not overflow (RoomFeed) and no message    *)
(* leaves its history.  Other users create private rooms and post in them. *)
(***************************************************************************)
EXTENDS Naturals, Sequences, FiniteSets, SequencesExt

CONSTANTS
  Name,         \* room names as a user may type them
  Room,         \* the names that NormalizeRoomName returns
  Normal,       \* NormalizeRoomName, NoRoom for a name it rejects
  General,      \* "#general"
  Key,          \* passphrases
  MaxRequests,  \* bound: what the user sends
  MaxPosts,     \* bound: chat messages the relay accepts
  NoRoom, NoKey, Absent

ASSUME SessionAssumption ==
  /\ Room \subseteq Name
  /\ Normal \in [Name -> Room \cup {NoRoom}]
  /\ \A r \in Room : Normal[r] = r
  /\ General \in Room
  /\ NoRoom \notin Name
  /\ {NoKey, Absent} \cap Key = {} /\ NoKey # Absent
  /\ MaxRequests \in Nat /\ MaxPosts \in Nat

\* sealed: the passphrase the content is encrypted with, NoKey for clear text.
\* cut: the relay has kept only a part of the encrypted content.
Message == [id : 1..MaxPosts, room : Room, sealed : Key \cup {NoKey}, cut : BOOLEAN]

\* What the user sees of a message: its text, or that it cannot be decrypted.
Line == [id : 1..MaxPosts, readable : BOOLEAN]

Request ==
       [type : {"join"}, name : Name, key : Key \cup {NoKey}]
  \cup [type : {"chat"}, key : Key \cup {NoKey}]
  \cup [type : {"auth"}]

VARIABLES
  current,   \* c.CurrentRoom of the client
  keys,      \* c.roomKeys, NoKey where there is none
  active,    \* m.activeRoom
  shown,     \* m.roomMessages, the chat messages of it
  cleared,   \* feeds that the user has emptied since their rooms' histories were sent
  asked,     \* how many requests the user has made
  up,        \* the requests on their way to the relay
  down,      \* the chat messages on their way to the client
  incoming,  \* IncomingPackets, as [room, line]
  room,      \* the relay's c.CurrentRoom
  member,    \* whether the user is in that room's Members
  secret,    \* each room's password, NoKey for a public room, Absent for no room
  history,   \* each room's History
  posts,     \* how many messages the relay has accepted
  upset      \* the relay refused a request, the user authenticated again, or packets of
             \* the last relay were left when the user switched to this one

client == <<current, keys, active>>
relay == <<room, member, secret, history, posts>>
vars == <<client, shown, cleared, asked, up, down, incoming, relay, upset>>

(* The client's fields, the queues and the relay's maps have their Go types. *)
TypeOK ==
  /\ current \in Name
  /\ keys \in [Name -> Key \cup {NoKey}]
  /\ active \in Name
  /\ shown \in [Name -> Seq(Line)]
  /\ cleared \subseteq Name
  /\ asked \in 0..MaxRequests
  /\ up \in Seq(Request)
  /\ down \in Seq(Message)
  /\ incoming \in Seq([room : Room, line : Line])
  /\ room \in Room
  /\ member \in BOOLEAN
  /\ secret \in [Room -> Key \cup {NoKey, Absent}]
  /\ history \in [Room -> Seq(Message)]
  /\ posts \in 0..MaxPosts
  /\ upset \in BOOLEAN

NewFeeds == [n \in Name |-> <<>>]
NewSecrets == [r \in Room |-> IF r = General THEN NoKey ELSE Absent]
NewHistories == [r \in Room |-> <<>>]

\* The AuthAck has been handled and the relay has put the user in #general.
Init ==
  /\ current = General
  /\ keys = [n \in Name |-> NoKey]
  /\ active = General
  /\ shown = NewFeeds
  /\ cleared = {}
  /\ asked = 0
  /\ up = <<>>
  /\ down = <<>>
  /\ incoming = <<>>
  /\ room = General
  /\ member = TRUE
  /\ secret = NewSecrets
  /\ history = NewHistories
  /\ posts = 0
  /\ upset = FALSE

-----------------------------------------------------------------------------
(* The user. *)

Ask(request) ==
  /\ asked < MaxRequests
  /\ asked' = asked + 1
  /\ up' = Append(up, request)
  /\ UNCHANGED <<shown, cleared, down, incoming, relay>>

\* Mutant: the client's room follows only the switches without a passphrase.
JoinRoomLagging(name, key) ==
  /\ current' = IF key = NoKey THEN name ELSE current
  /\ keys' = IF key = NoKey THEN keys ELSE [keys EXCEPT ![name] = key]
  /\ Ask([type |-> "join", name |-> name, key |-> key])

\* The client library's JoinRoom.
JoinRoom(name, key) ==
  /\ current' = name
  /\ keys' = IF key = NoKey THEN keys ELSE [keys EXCEPT ![name] = key]
  /\ Ask([type |-> "join", name |-> name, key |-> key])

\* /join and the new channel dialog, with a passphrase or without; /leave is the case of
\* #general without one.
Join(name, key) ==
  /\ JoinRoom(name, key)
  /\ active' = name
  /\ UNCHANGED upset

\* Mutant: the user interface only changes the room it shows.
SwitchRoomQuietly(r) ==
  /\ r # active
  /\ secret[r] # Absent
  /\ current' = r
  /\ active' = r
  /\ UNCHANGED <<keys, shown, cleared, asked, up, down, incoming, relay, upset>>

\* switchRoom, from the palette, a digit or a bracket: any room the relay has listed,
\* never with a passphrase.
SwitchRoom(r) ==
  /\ r # active
  /\ secret[r] # Absent
  /\ JoinRoom(r, NoKey)
  /\ active' = r
  /\ UNCHANGED upset

\* SendChat encrypts with the passphrase of the client's room, if it has one.
SendChat ==
  /\ Ask([type |-> "chat", key |-> keys[current]])
  /\ UNCHANGED <<client, upset>>

\* /clear empties the feed on the screen.
Clear ==
  /\ asked < MaxRequests
  /\ asked' = asked + 1
  /\ shown' = [shown EXCEPT ![active] = <<>>]
  /\ cleared' = cleared \cup {active}
  /\ UNCHANGED <<client, up, down, incoming, relay, upset>>

\* The server list: the feeds are cleared, SwitchServer resets the client's room and not
\* its passphrases, and a relay just started logs the user in as in Init.  What was under
\* way is lost, but for the packets already read, which Update still handles.
SwitchServer ==
  /\ asked < MaxRequests
  /\ asked' = asked + 1
  /\ current' = General /\ active' = General
  /\ shown' = NewFeeds /\ cleared' = {}
  /\ up' = <<>> /\ down' = <<>>
  /\ upset' = (incoming # <<>>)
  /\ room' = General /\ member' = TRUE
  /\ secret' = NewSecrets /\ history' = NewHistories
  /\ UNCHANGED <<keys, incoming, posts>>

\* A new callsign from the welcome screen: Authenticate, the room unchanged.
Authenticate ==
  /\ Ask([type |-> "auth"])
  /\ upset' = TRUE
  /\ UNCHANGED client

-----------------------------------------------------------------------------
(* The relay. *)

Answer(messages) ==
  /\ up' = Tail(up)
  /\ down' = down \o messages
  /\ UNCHANGED <<client, shown, asked, incoming>>

\* The rate limiter or a handler answers with an error and changes nothing.
Refuse ==
  /\ up # <<>>
  /\ upset' = TRUE
  /\ Answer(<<>>)
  /\ UNCHANGED <<cleared, relay>>

\* SanitizeText keeps MaxMessageLength characters of a content.  A text that the input box
\* takes is no longer; with nonce and tag and in base64 it may be.
SanitizeText(key) == IF key = NoKey THEN {FALSE} ELSE BOOLEAN

\* handleChatMsg: the room is the relay's, whatever room the client had in mind, and the
\* content, encrypted or not, is what SanitizeText leaves of it.
Relay ==
  /\ up # <<>>
  /\ Head(up).type = "chat"
  /\ posts < MaxPosts
  /\ posts' = posts + 1
  /\ \E cut \in SanitizeText(Head(up).key) :
       LET m == [id |-> posts + 1, room |-> room, sealed |-> Head(up).key, cut |-> cut]
       IN  /\ history' = [history EXCEPT ![room] = Append(@, m)]
           /\ Answer(IF member THEN <<m>> ELSE <<>>)
  /\ UNCHANGED <<cleared, room, member, secret, upset>>

\* Mutant: the history is not shown to a user who was a member already.
AdmitSilently(r, key) ==
  /\ secret[r] \in {Absent, NoKey, key}
  /\ secret' = [secret EXCEPT ![r] = IF @ = Absent THEN key ELSE @]
  /\ room' = r
  /\ member' = TRUE
  /\ Answer(<<>>)
  /\ UNCHANGED <<cleared, history, posts, upset>>

\* joinRoomInternal into a new room, a public one, or with the right password.
Admit(r, key) ==
  /\ secret[r] \in {Absent, NoKey, key}
  /\ secret' = [secret EXCEPT ![r] = IF @ = Absent THEN key ELSE @]
  /\ room' = r
  /\ member' = TRUE
  /\ Answer(history[r])
  /\ cleared' = cleared \ {r}
  /\ UNCHANGED <<history, posts, upset>>

\* joinRoomInternal with a wrong password: out of the old room, not into the new.
Deny(r, key) ==
  /\ secret[r] \in Key \ {key}
  /\ member' = FALSE
  /\ upset' = TRUE
  /\ Answer(<<>>)
  /\ UNCHANGED <<cleared, room, secret, history, posts>>

HandleJoin ==
  /\ up # <<>>
  /\ Head(up).type = "join"
  /\ LET r == Normal[Head(up).name] IN
       /\ r # NoRoom
       /\ Admit(r, Head(up).key) \/ Deny(r, Head(up).key)

\* handleAuth: the user is put in #general.
HandleAuth ==
  /\ up # <<>>
  /\ Head(up).type = "auth"
  /\ Admit(General, NoKey)

-----------------------------------------------------------------------------
(* Other users. *)

Create(r, key) ==
  /\ secret[r] = Absent
  /\ secret' = [secret EXCEPT ![r] = key]
  /\ UNCHANGED <<client, shown, cleared, asked, up, down, incoming, room, member, history,
                 posts, upset>>

\* They post in a room they are in, with its passphrase.
Post(r) ==
  /\ secret[r] # Absent
  /\ posts < MaxPosts
  /\ posts' = posts + 1
  /\ \E cut \in SanitizeText(secret[r]) :
       LET m == [id |-> posts + 1, room |-> r, sealed |-> secret[r], cut |-> cut]
       IN  /\ history' = [history EXCEPT ![r] = Append(@, m)]
           /\ down' = IF member /\ room = r THEN Append(down, m) ELSE down
  /\ UNCHANGED <<client, shown, cleared, asked, up, incoming, room, member, secret, upset>>

-----------------------------------------------------------------------------
(* The way back. *)

\* Mutant: readPump takes the passphrase of the room the user looks at.
DecryptForCurrent(m) == m.sealed = NoKey \/ (m.sealed = keys[current] /\ ~m.cut)

\* readPump decrypts with the passphrase it has for the message's room, if any; what has
\* been cut does not pass the check of its tag.
Decrypt(m) == m.sealed = NoKey \/ (m.sealed = keys[m.room] /\ ~m.cut)

ReadPump ==
  /\ down # <<>>
  /\ incoming' = Append(incoming, [room |-> Head(down).room,
                   line |-> [id |-> Head(down).id, readable |-> Decrypt(Head(down))]])
  /\ down' = Tail(down)
  /\ UNCHANGED <<client, shown, cleared, asked, up, relay, upset>>

\* hasMessage: whether a message is already in a room's feed.
HasMessage(r, id) == \E n \in DOMAIN shown[r] : shown[r][n].id = id

\* Mutant: the packet is kept instead of the line made from it.
HandleChatRaw ==
  /\ incoming # <<>>
  /\ LET p == Head(incoming) IN shown' = [shown EXCEPT ![p.room] = Append(@, p)]
  /\ incoming' = Tail(incoming)
  /\ UNCHANGED <<client, cleared, asked, up, down, relay, upset>>

\* handleIncomingPacket files the message under the relay's name of its room.
HandleChat ==
  /\ incoming # <<>>
  /\ LET p == Head(incoming) IN
       shown' = IF HasMessage(p.room, p.line.id) THEN shown
                ELSE [shown EXCEPT ![p.room] = Append(@, p.line)]
  /\ incoming' = Tail(incoming)
  /\ UNCHANGED <<client, cleared, asked, up, down, relay, upset>>

-----------------------------------------------------------------------------
Next ==
  \/ \E n \in Name, k \in Key \cup {NoKey} : Join(n, k)
  \/ \E r \in Room : SwitchRoom(r)
  \/ SendChat
  \/ Clear
  \/ SwitchServer
  \/ Authenticate
  \/ Refuse
  \/ Relay
  \/ HandleJoin
  \/ HandleAuth
  \/ \E r \in Room, k \in Key : Create(r, k)
  \/ \E r \in Room : Post(r)
  \/ ReadPump
  \/ HandleChat

Spec == Init /\ [][Next]_vars

-----------------------------------------------------------------------------
(* Properties. *)

Settled == up = <<>> /\ down = <<>> /\ incoming = <<>>

\* Unless the relay refused something, the user logged in again or packets of the last
\* relay were left at a switch, the client's guess of its room comes true: once nothing is
\* under way, the room on the screen, the room the client encrypts for and the room the
\* relay posts to are one, and the user is in it.
RoomsAgree ==
  Settled /\ ~upset => current = active /\ Normal[active] = room /\ member

\* Each message is shown once, though the history and the live broadcast may both bring
\* it; and then the room's feed holds messages of the room only, and every one of them,
\* those of the history and those that came while the user was joining, unless the user
\* has emptied it; joining the room again brings them back.
FeedExact ==
  /\ \A n \in Name : Cardinality({l.id : l \in ToSet(shown[n])}) = Len(shown[n])
  /\ Settled /\ ~upset =>
       LET stored == {m.id : m \in ToSet(history[room])}
           seen == {l.id : l \in ToSet(shown[room])}
       IN  seen \subseteq stored /\ (room \notin cleared => stored \subseteq seen)

\* Then, in a private room that was never joined under another spelling, the messages on
\* the screen that cannot be read are exactly those that the relay cut: the passphrase was
\* there before the first message came, but is of no use to a part of one.
RoomReadable ==
  /\ Settled /\ ~upset
  /\ secret[room] \in Key
  /\ \A n \in Name \ {room} : Normal[n] = room => keys[n] = NoKey
  => \A m \in ToSet(history[room]), l \in ToSet(shown[room]) :
       m.id = l.id => (l.readable <=> ~m.cut)

\* In private rooms "messages are encrypted [...] on the sender's client before
\* transmission": with that room's passphrase, though the client keeps those of another
\* relay's rooms, as long as the relay refuses nothing and the user does not log in again.
SealedUnlessUpset ==
  ~upset => \A r \in Room : secret[r] \in Key =>
              \A m \in ToSet(history[r]) : m.sealed = secret[r]

\* No clear text in a private room, whatever the relay refuses.
NoClearText ==
  \A r \in Room : secret[r] \in Key =>
    \A m \in ToSet(history[r]) : m.sealed # NoKey
=============================================================================
