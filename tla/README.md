# Skywave: a TLA+ verification project

Skywave is a terminal chat client and a WebSocket relay server written in Go.
This directory holds TLA+ models of its concurrent core, the TLC configurations
that check them on small instances, and TLAPS proofs of the results that hold for
every value of the constants. Every definition is translated from the source; the
`map` of `PROJECT.json` gives the lines each one stands for.

## 1. Inventory

| Component | Source | State | Operations | What is hard |
| --- | --- | --- | --- | --- |
| Hub | `pkg/server/hub.go` | `clients`, `clientsByNick`, `rooms`, `mu`; each client's `Nickname`, `CurrentRoom` | `Run` (register, unregister), `handleAuth`, `handleJoinRoom`/`joinRoomInternal`, `handleLeaveRoom`, `handleSetNick`, `handleDisconnect`, `broadcastUserList`, `broadcastRoomList`, `Stats` | one goroutine per connection calls the handlers; registration is recorded by another goroutine after the connection's own reader has started; the same facts are kept in four places (nick map, nickname field, member set, current-room field) |
| Room feed | `hub.go` `handleChatMsg`, `room.go` | `History`, `Members`, `mu` | `AddMessage`, `Broadcast`, `GetHistory`, `AddMember`, `RemoveMember` | storing and broadcasting are two critical sections; a joiner replays the history while others broadcast |
| Topics and the room list | `hub.go` `handleSetTopic`, `broadcastRoomList`; `room.go` `Status` | `Topic`, the shared maps, the list on a screen | a topic's change, the status snapshot, the pushes | a topic's change makes and pushes the list without `h.mu`; departures push none |
| Typing marks | `hub.go` `handleTyping` | none | lookup, send | none: a lost or late mark has no consequence |
| Direct messages | `hub.go` `handleDirectMsg` | nick map | lookup, deliver, echo | target renamed or gone between the lookup and the send |
| Connection | `pkg/server/client.go` | `SendChan`, `isClosed`, the socket | `Send`, `Close`, `ReadPump`, `WritePump` | two pumps and any number of senders share a channel that one of them closes |
| Rate limiter | `pkg/server/limiter.go` | `tokens`, `lastUpdate` | `Allow` | burst bound over every window |
| HTTP server | `pkg/server/server.go`, `cmd/skywave-server` | configuration | start, upgrade, health, shutdown | defaults that override flags |
| Client library | `pkg/client/client.go` | `conn`, `isConnected`, `DisconnectChan`, `roomKeys`, `CurrentRoom`, `Nickname` | `Connect`, `SwitchServer`, `Disconnect`, `SendPacket`, `readPump`, the requests | the old read pump is still ending while the new connection is set up; requests are applied before the server answers |
| Packet pump | `pkg/ui/app.go` `waitForPacket`, `Update` | pending waiters, `IncomingPackets`, `Errors` | wait, deliver, re-arm | every server switch adds a waiter; two waiters may swap two packets |
| UI model | `pkg/ui/app.go`, `*_modal.go`, `palette.go` | stage, overlays, room feeds, unread counters, cursors | key handling, `handleIncomingPacket`, `handleSend` | stages and overlays handle the same keys; a view ahead of the server |
| Identity file | `pkg/identity/identity.go`, `cmd/skywave` | `identity.json`, `main`'s identity | `LoadOrCreate`, `Save`, `SetNickname`, `Reset`, `OnNickChanged` | two goroutines save one file without a lock; a process that ends in the middle of a save |
| Saved servers | `pkg/identity/servers.go` | `servers.json` | load, add, remove | one goroutine writes it |
| Crypto | `pkg/crypto` | none | `Encrypt`, `Decrypt`, `HashSecret` | pure library calls |
| Protocol | `pkg/protocol` | none | `SanitizeText`, `ValidateNickname`, `NormalizeRoomName` | conversions, boundaries |
| Rendering | `pkg/ui` styles, stages, message, emojis | theme index | layout only | nothing concurrent |

Interactions: the HTTP handler hands each new connection to the hub's `Run`
goroutine through an unbuffered channel and starts the connection's two pumps. The
read pump calls the hub's handlers directly, so handlers of different
connections run concurrently and meet at `h.mu`, `room.mu` and each `c.mu`. Handlers
answer and broadcast by `Send`, which never blocks: it drops when the queue of 128 is
full and when the connection is closed. The write pump drains the queue. On the other
side, the client library's read pump pushes into `IncomingPackets`, and the UI's single
`Update` goroutine consumes it through `waitForPacket`.

## 2. The modules and the code

| Module | Models | Its state in the code |
| --- | --- | --- |
| `Presence` | what the relay promises about callsigns and rooms, abstractly | none: who is here, who bears which name, who is where |
| `Hub` | `pkg/server/hub.go`: connections, callsigns, rooms, user lists | `clients`, `clientsByNick`, `rooms` (with `PasswordHash` = `secret`, `Members`), each client's `Nickname`, `CurrentRoom`, `isClosed`; `heard` is the last user list queued for a member |
| `Conversation` | what the relay promises those who talk in its rooms, abstractly | none: who is in which room, what was said, what each has heard |
| `RoomFeed` | `handleChatMsg`, `joinRoomInternal` and `pkg/server/room.go`, critical section by critical section | `h.mu`, `room.mu` (readers: the clients at "deliver"), `History`, `Members`, `CurrentRoom`; `feed`, `stored` and `lost` record what was sent |
| `RoomDirectory` | `handleSetTopic`, `broadcastRoomList`, and the room lists of a login and a join | the keys of `h.rooms` and `h.clients`, `Topic`, `Members`, `h.mu` (`owner`), each handler's position and half-made list; `shown` is the last list queued for a client, `missed` one that was dropped |
| `Connection` | `pkg/server/client.go`: one connection | the two pumps' positions, `c.mu`, `isClosed`, `SendChan` (length and closed), the socket, the peer |
| `RateLimiter` | `pkg/server/limiter.go` | `tokens`, `lastUpdate`, the clock; an observer's counters |
| `Delivery` | what the client's connection promises, abstractly | none: what was read of each connection, what was shown |
| `ClientConn` | `pkg/client/client.go` connections and pumps, `waitForPacket` and `Update` of `pkg/ui/app.go` | `conn`, `isConnected`, `DisconnectChan`, each `readPump`, `IncomingPackets`, `Errors`, the waiters |
| `Session` | a user's rooms, passphrases and chat feed, from keyboard to relay and back | `CurrentRoom`, `roomKeys`, `activeRoom`, `roomMessages`; the relay's `CurrentRoom`, `PasswordHash`, `History`; `cleared` records which feeds `/clear` has emptied since their room was last entered |
| `Identity` | a callsign in the relay, the client, `main` and `identity.json`, over several launches | the file, the `Identity` values of `main` and `Update`, `Nickname` of the client and of the relay, the packets between them |
| `Screens` | stages, dialogs and keys of `pkg/ui/app.go` and the modals | `stage`, the `active` flags, cursors, list lengths, `cmdHistory`, `histIndex` |
| `HubProofs`, `RoomFeedProofs`, `RoomDirectoryProofs`, `ConnectionProofs`, `ClientConnProofs`, `SessionProofs`, `IdentityProofs`, `ScreensProofs` | theorems about the module of that name, `ConnectionProofs` also about `RateLimiter`; the first two and `ClientConnProofs` have the refinements | |
| `MC...` | the constants of the TLC runs | |

Grain. A handler that holds `h.mu` from its first access to the shared maps until it
returns is one action of `Hub`: `handleAuth`, `handleJoinRoom`, `handleLeaveRoom`,
`handleSetNick` and `handleDisconnect` with all they call. `handleChatMsg` releases its
locks on the way, so `RoomFeed` splits it (lookup, `AddMessage`, `Broadcast` taking the
lock, each `Send`, unlock) and splits the joins along the locks they share with it.
`handleSetTopic` ranges over the maps with no lock, so `RoomDirectory` makes a list one
`Status` and pushes it one `Send` at a time, and `Run`'s recording of a client is a step
of its own; `setting` holds the clients whose handler is `handleSetTopic`. In `Connection`, `Send` is one step and `Close` two, because `WritePump`
sees the closed channel without `c.mu`. In `ClientConn` the unlocked loads of `c.conn`
and `c.DisconnectChan` are steps of their own, and a load that races with
`SwitchServer` may return any value stored since the goroutine last loaded. In `Identity`
a save is two steps, the opening that empties the file and the write from its beginning,
because both goroutines save and the process may end between the two.

How they fit together. `Hub` implements `Presence`: a client is here from its
acceptance until `Run` has handled its disconnection, bears its nickname in lower case,
and is in the rooms whose member it is; `ImplementsPresence` says that each
step of the hub is a step of `Presence` or none. `RoomFeed` implements `Conversation`: a
message is said when `AddMessage` stores it, to the room its sender entered last, and heard
when a `Send` queues it; `ImplementsConversation` says that nothing is heard outside the room
it was said in, unsaid, or three times in one stay. `ClientConn` implements `Delivery`: a packet
is read when a pump gets it and shown when `Update` handles it, and `ImplementsDelivery`
says that what lies between, pumps, channels, waiters and switches, shows nothing twice or
unread, and nothing out of turn before the first switch.
`Connection` is one client of `Hub`: its `known` is membership in `h.clients`, its `Send`
is the one that `ListSent` of `Hub`, `SendTo` of `RoomFeed` and `Sent` of `RoomDirectory`
use, of which they keep the outcome (queued, dropped by a full queue, ignored by a closed
client). `Session` composes a client with an abstract relay: `Admit`, `Deny` and `Relay`
are `joinRoomInternal` and `handleChatMsg` as one user sees them, in which one user is
followed and the others only create rooms and post. Its `SwitchServer` puts a relay just
started in the place of that one: the client's room and feeds start anew, its
passphrases and the packets already read stay. `Identity` composes the launch, the
client library, the UI and a relay that accepts or refuses a callsign. The connection
below both is assumed to hold; its loss is in `ClientConn`. `Screens` decides who gets a
key and leaves to `Session` and `Identity` what a command does.

Two deliberate abstractions to keep in mind. Letters: callsigns and rooms are members
of small sets, with `strings.ToLower` and `NormalizeRoomName` as the constants `Lower`
and `Normal`; the instances include two spellings of one name. Text: a message is
a number with its room, the passphrase it is sealed with, and whether the relay's
`SanitizeText` cut its ciphertext, which may happen to any sealed message; AES and SHA-256 are
taken to be what they promise, so a cut ciphertext is not decrypted by any passphrase. The text of `identity.json` is its account and a length.

## 3. The runs

Each `.cfg` is one question. Deadlock is not checked where the system may stop: a
relay whose clients have all gone, a client that has quit, or a model at its bound.

| Run | Question | Instance, and why it is enough |
| --- | --- | --- |
| `hub` | Do the hub's maps, fields and user lists agree after any sequence of handlers, and does the hub keep `Presence`'s promises? | 2 connections (a third would only repeat the role of the second), two spellings of one callsign and another, #general and two other rooms, the right password or none, any set of full queues at each broadcast. Connections and the two rooms are interchangeable (symmetry; no liveness is checked). 374,343 states |
| `hub_ghost_nick` | Does a disconnection clear the nick map, as its comment says? | the same; it does not, see section 5 |
| `feed` | Does a joiner miss or multiply messages, does the relay keep `Conversation`'s promises, also to somebody who has left, and do the locks ever block? | 3 clients that move between #general and a room that may turn them away, 2 of them with one message each, a history of 1, one client whose queue may be full: the history overflows, and two broadcasts, a join and a departure overlap. 367,856 states |
| `connection` | Do the pumps and closers of a connection ever panic, and do they clean up? | a queue of 2, so that it is empty, partly full and full; one frame in flight; every closer may close at every moment, senders never stop |
| `limiter` | Does the bucket allow too much or refuse too early? | a token costs 3, the bucket holds 10, so that a full bucket is no multiple of a token; time to 16, long enough to empty and refill it; the constraint bounds the clock only |
| `client` | Are packets lost, repeated or reordered, are losses noticed, how many goroutines wait for packets, and does the client keep `Delivery`'s promises? | 2 dials, 2 packets on the first connection and 1 on the second, channels of capacity 1, so that each of them fills |
| `client_switch` | Does the program survive the switches? | 2 dials and no packets |
| `session` | Do the client, its screen and the relay agree on the room, its messages and their secrecy? | 4 requests and 2 messages, 2 passphrases, #general, a room, and that room's name in capitals: enough to join a private room, switch to another relay, join a room of the same name and post there, and to empty a feed and enter its room again; every sealed message may be cut. 9,467,002 states |
| `session_sealed` | Is every message in a private room encrypted? | the same with 3 requests |
| `screens` | Can keys, ticks and answers in any order bring cursors or screens out of place? | 2 boot ticks, lists of up to 3 entries (first, middle, last), 2 lines of history, 2 authentications under way |
| `callsign` | Do relay, client and file agree on the callsign in the end, and is the account ever lost? | 2 launches of 3 requests each: the second shows what the first has left behind, and 3 requests are a change, its correction and a third that overlaps with both; a short callsign, a long one (a shorter text over a longer corrupts the file) and one that looks generated. 1,628,594 states |
| `directory` | Are the room lists on the screens current, and which handlers can hit the run-time's check of the maps? | 2 clients that both set topics, one whose queue may be full, #general and a private room, 2 topics, 4 requests in all: two overlapping topic changes beside a login and a join. 1,758,180 states |

What the properties say is at each definition; every one of them was also seen to
fail on a changed model (`PROJECT.json`, "mutants"), in which one definition of the code
is replaced by a plausible wrong version: a dropped guard, an off-by-one, a
forgotten field.

`FeedOfRoom` and `FineUntilSwitch`, which `ImplementsConversation` and `ImplementsDelivery`
contain, are stated beside them for the proofs and have no run of their own.

Exceptions in a property are state of the model that records the cause, never a
weaker claim: `upset` (the relay refused something, the user logged in again, or a switch left
packets of the old relay behind), `refused` and `hasty` (the relay refused a callsign, or the
user asked for the next thing before the last was answered), `cleared` (the user emptied the
feed), `cut` of a message (the relay shortened its ciphertext), `torn` and `clash` (a process ended within a save, two
saves of different callsigns overlapped), `topicRace`, `mixed`, `silent` and `missed` (everybody
who ranged over a map being written was in `handleSetTopic`, handlers overlapped, somebody left
without a list, a queue was full). The property then says that nothing else does the harm.

### Fairness

Only liveness properties use it, and each assumption is a fact about the runtime.

- `RoomFeed`: strong fairness for each handler's next step. Goroutines are scheduled,
  and a blocked `Lock` of a `sync.RWMutex` keeps new readers out, so broadcasts
  cannot keep a writer waiting for ever. Nothing is assumed of users: they need
  not chat, join or leave.
- `Connection`: weak fairness for handlers, closers and writes; `ReadFails` is fair only
  when the socket is closed or the peer is gone or silent, which the 60 s read
  deadline guarantees (`SetReadDeadline`, renewed only by a pong), and a write
  ends at its 10 s deadline. The queue's case of the write pump's `select` gets strong
  fairness: Go's `select` chooses at random among the ready cases.
- `ClientConn`: weak fairness for `Connect` and each pump, strong fairness for the
  waiters' `select` and for `Update`. The client sets no read deadline; that a
  lost connection is noticed rests on the TCP keep-alive that the default dialer turns
  on.
- `Hub`, `RoomDirectory`, `RateLimiter`, `Session`, `Identity` and `Screens` have no
  fairness; only safety is stated, where needed of the moments when nothing is under way.

## 4. What is proved

TLAPS checks eight proof modules for all values of the constants: any number of
connections, callsigns, rooms, passwords, requests and launches, any token cost and
capacity, any queue size and history length. They assume only the named assumptions on
the constants, which TLC evaluates on every run of the module:

| Assumption | What it says |
| --- | --- |
| `HubAssumption` | `Lower` is idempotent, #general is one of the starting rooms, the "none" values are not values |
| `FeedAssumption` | the history length and the message bounds are natural numbers, "none" is neither a room nor a client |
| `DirectoryAssumption` | clients are finitely many (a member count is a number), #general is a starting room and has no password |
| `ConnectionAssumption` | the queue has room for a packet |
| `LimiterAssumption` | a token costs a positive time, the capacity is a natural number |
| `ConnAssumption` | there is a first connection, both channels have room for something, the packets of a connection are finitely many |
| `SessionAssumption` | a normalised room name is its own normal form, "none" is no name and no passphrase |
| `ScreensAssumption` | the boot animation has ticks, a list may have entries, history and logins under way are bounded by natural numbers |
| `IdentityAssumption` | a generated callsign looks like one, a callsign has a length, an empty or corrupt file is not an account |

*Hub.* `HubInv == TypeOK /\ Registered /\ NickOwner /\ MembersInPlace /\ PresenceAccurate` is
inductive (`Invariance`), and none of its parts is without the others:

- `NickOwner` (whoever is connected owns its callsign's entry) survives a
  disconnection only because `WithoutNick` clears one entry and `NickOwner` itself says
  whose it is.
- `MembersInPlace` (a client is a member at most of the room in its own
  `CurrentRoom`) is what makes `joinRoomInternal` correct: it removes the client from that
  one room and no other, and this removes it from all (`LeftIs`).
- `PresenceAccurate` (the last user list queued for a member is the truth, or was
  dropped) needs `MembersInPlace`, for else a client that leaves or renames would
  have to tell a second room; the lemmas `ListSentIs` and `LeftHeardIs` say who is told
  what.
- `Registered` justifies that `handleDisconnect`'s early return for an unknown client is
  never taken, though a connection's reader starts before `Run` has recorded it. It is
  proved only; no run checks it.

From it follow `TypeCorrect`, `OneOwnerPerNick`, `OneRoomPerClient`, `PresenceIsTrue`,
`RunKnows`, and the step properties `NoNickTheft` and `SecretsAreFixed`.

*Hub implements Presence.* `Refinement` maps each step of `Next` to a step of `Presence`
or to a stutter, under `HubInv`. The nick map serves as the abstract callsigns only through
`NickOwner` (`NameIsFree`: a name the map shows as free is borne by nobody), the member
sets as the abstract place only through `MembersInPlace` (`JoinMoves`), and a login always
ends in the lobby because `LobbyStaysOpen`: no step gives #general a password.

*RoomFeed.* `FeedInv` adds to the properties what a handler between two critical sections
relies on: `Located` (a joiner between `RemoveMember` and `AddMember` is in no room, one
that replays is in the room it replays), `OneRoom`, `Reached` (whom a broadcast has still
to reach is a member, since `room.mu` holds removals back), `OfRoom` (histories and copies
hold messages of their room) and `Recent`, the history's suffix property index by index.
`NothingFromOutside` and `RecentHistory` follow. `GapInv` extends it by the debts: every
message of its room's history is in a member's feed, in the copy being replayed to it, owed
to it by a broadcast under way, or was dropped, unless it has still to copy that history.
`GapFree` follows: the two critical sections of `handleChatMsg` leave no gap, because a
joiner becomes a member before it copies the history. `TwiceInv` counts copies by where they
come from. What a member may still get of a message is at most one copy with a history it
has not copied or is being sent, and one copy live, from a broadcast that has not reached
it; `Budget` says that the copies in its feed and those to come are together no more than
two, `Numbered` that a message is stored once and is new when it is sent. Together with `FeedInv`
and `GapInv` it is inductive, and `NoThirdCopy` follows.

*RoomFeed implements Conversation.* `Refinement` maps `Store` to `Say`, `Enter` to `Enter`,
`Leave` and `Disconnect` of a member to `Leave`, and a `Send` that is not dropped, live or from
the history, to `Hear`; everything else stutters. A live `Send` finds its client inside by
`Reached`, one of the history by `Located`, and either finds at most one earlier copy by
`Budget`. `SaidInv` is what is new: the room a handler sends to is still its client's, so a
message is said where its sender is, its number is the last one until it is stored, so the
messages of a sender are said in order, and whatever a broadcast or a catch-up has still to
send was stored. What `Conversation` does not promise is that everything is heard: queues
drop. That part is `GapFree`.

*RoomDirectory.* `Ordered` says which handler may be where: a login and a join own `h.mu`
from their first step to the last, and whoever makes or pushes a list without it is in
`setting`, that is, in `handleSetTopic`; `OnlyTopics` follows, whichever clients set topics. `Alone` follows a handler that no other overlaps: what it has listed
is true, the rooms and clients it has still to visit are those left, and whoever it has
passed has the list or missed it. `Current` follows for an idle relay.

*Connection.* `ClosedAsOne` speaks of the moments when `c.mu` is free; between the two
halves of `Close` the channel is closed and the socket open. `ConnInv` adds what holds
then: the mark and the channel agree always, and a held lock means a marked client.
With it a second `Close` finds the mark and a `Send` never finds the channel closed, so
`NoPanic` and `Whole` follow. The lemmas `FirstHalf` and `SecondHalf` are the two halves.

*RateLimiter.* `BurstBound` is not inductive: what was allowed says nothing of what is
still in the bucket. `Budget` adds the refilled bucket to the calls counted and bounds the
sum; `Ledger` is an exact equation between the bucket and the calls since it was last
full. `LimiterInv == LimiterTypeOK /\ fullAt <= lastUpdate /\ Budget /\ Ledger` is inductive;
`Burst` and `Justified` follow. A connection owns its limiter, so these proofs are in
`ConnectionProofs`, beside the connection's, and the module's names carry `Limiter`.

*Session.* The three results speak of the requests under way. `Guess` says that the
client is where the last join under way will bring it, or, if none is, where the relay
has it. `Sealing` says for each message under way that it carries the passphrase of the
last join before it, or of the relay's room; a joined private room has the
passphrase that came with the join, because with another it would have been denied.
`Followed` accounts for the feed: the messages of a room's history are in the feed, in
the pump's channel or on the wire, in any of them several times and in the feed once, unless
`/clear` emptied it since the room was entered; entering it brings the history again.
A switch of relays starts all three anew, but for the old relay's packets that are left; only that a message is in a feed once
outlives them, because `HandleChat` looks for it first.
`Agreement`, `Sealed` and `ExactFeed` are the three with nothing under way. `ReadInv` follows
the passphrases for the way back: `Kept` (the passphrase of a join under way is in
`roomKeys`, unless a later join of that name brought another) and `Readable` (what a private
room sends is sealed with the room's passphrase, and the client has that passphrase for the
room it is in or hears from, unless it asked to join with another and will be turned away, or
spells the room's name in two ways). `Numbered` says that a room's messages are told apart by
their numbers and that what is on its way to the user is in its room's history, so that a line
can be compared with its message: `Tells` says that it shows the text unless the relay cut it.
`Readability` follows: in a private room the lines that cannot be read are those that the relay
cut, and no others.

*Identity.* `Counted` bounds the accounts by the resets: only an absent file makes
a new one, and only a reset removes it. `Sound` says that, as long as no process ended
within a save and no two different saves overlapped, an unreadable file is an empty one
that a save is about to fill. `AccountForEver` follows. `AgreeInv` adds where the
callsign is going: `Goal` is the last one asked for, or what the relay has when nothing is
under way. `Answered` says that the last answer on its way back carries the relay's word,
`Saving` that whichever of the two goroutines saves last saves the `Goal`, and that until
then the file is empty or already right; a rename and a login are never under way at
once unless the user was hasty. `Agreement` is `AgreeInv` at rest.

*ClientConn.* `ConnInv == Typed /\ Placed /\ First`. `Placed` gives each packet that was read
exactly one place (a pump's hand, the channel, `Update`'s hand, the screen) and holds across
switches, failures and full channels, also while two pumps read one connection, because
`ReadPacket` numbers what it takes and each later step moves one packet from one place to the
next; `OnePlace` counts the places. `First` holds on the first `DisconnectChan` only: one
connection and one pump (`OneLink`), one waiter or one event on its way to `Update`
(`OneWaiter`), a channel closed by that pump's end only (`ClosedOnce`), and the packets lined
up, shown, in hand, queued, pushed (`InOrder`, which needs `OneWaiter`: two waiters could swap
two packets). `InOrderUntilSwitch` follows. `OneWaiterPerSwitch` holds with and after switches:
the waiters and the events in hand are one more than the switches. It counts because no event
is in a hand twice; for packets that is `Placed`, for errors `ReportedOnce`, since a pump that
has sent its error never runs again.

*ClientConn implements Delivery.* `Refinement` maps `ReadPacket` to `Read`, an `Update` with a
packet to `Show` (the packet is new and was read by `Placed`, and in turn by `InOrder`), the first
`RenewChan` to `Switch`, and a `CloseChan` that panics to `Break`, which `Delivery` allows only
after a switch; `ClosedOnce` is what forbids it before.

*Screens.* `CursorsInRange` is inductive with `TypeOK`: each key that shortens a list also
moves its cursor (`Filtered`, `ServersOpened`), and `Move` wraps within the list
(`MoveStays`). `ChatNotInterrupted` follows from the guards of the ticks and the packets, for
any number of them under way. `OneDialogAtATime` needs `Exclusive`: the welcome screen can
leave several dialogs open, but never the palette with the new-channel dialog below it,
over which the palette's `/server` would open the list.

Only model-checked is liveness: `HandlersReturn`, `CleansUp`, `FullQueueMoves`, `LossNoticed`
and `ReadIsHandled`. Liveness under fairness and `ENABLED` are beyond TLAPS; so are inductions
over data and recursive operators, of which these modules have none. That the three violated
properties of section 5 fail is TLC's word alone, as a counterexample is.

## 5. Where the code and its words disagree

- **A callsign that stays taken** (`hub_ghost_nick`). "handleDisconnect cleans up client
  state across rooms and nick map" (`hub.go:79`). A client that authenticates twice leaves
  its first callsign in `clientsByNick`; nobody can take it until the relay restarts.
  The welcome screen's "new callsign" sends exactly this second authentication.
- **A channel closed twice** (`client_switch`). SwitchServer "seamlessly dials a new
  server" (`client.go:233`). The old pump closes whatever `DisconnectChan` it finds, which
  may be the new connection's; that connection's pump closes it again, a run-time
  panic. `ImplementsDelivery` says that it takes a switch.
- **Clear text in a private room** (`session_sealed`). "messages are encrypted with
  AES-256-GCM on the sender's client before transmission" (`README.md:203`). The client
  picks the passphrase of the room it has asked for; the relay posts to the room the
  user is still in when that request was refused. `SealedUnlessUpset` says that this
  takes a refusal or a second login.

Observed while modelling, with no run of their own:

- A long message in a private room can be read by nobody. `SanitizeText` keeps 2000 characters
  of a content and does not ask whether it is encrypted (`hub.go:235`, `sanitize.go:43-47`);
  nonce, tag and base64 bring a text of about 1473 bytes or more over that, and the input box
  takes 2000 characters (`app.go:87`). What is left does not decrypt (`client.go:290`), live or
  from the history, with the right passphrase. `RoomReadable` says exactly this.
- A client denied entry to a private room keeps its old room's name on the relay, so it
  may still post there while no longer a member.
- A second authentication moves the user to #general on the relay and not on the screen.
- `/join` with capitals opens a second feed under the name as typed, which stays empty.
- Esc on the welcome screen does not close a dialog left open below it.
- A packet of the old relay that is handled after a switch appears in the new relay's
  feeds (`app.go:422` clears them before): `FeedExact` and `RoomsAgree` except it. Passphrases
  outlive a switch, but seal nothing wrongly in a private room (`SealedUnlessUpset`).
- Every switch of servers leaves one more `waitForPacket` waiting, for good (`WaitersCounted`):
  from the first switch on two of them may hand two packets to `Update` in the wrong order.
- After two switches an old connection may stay open: the first pump's end marks the
  second connection as down, and the next `SwitchServer` then closes nothing.
- A topic change may hit the run-time's fatal check for a map that is written while
  ranged over, and two of them may push an old list last. `OnlyTopicsRace` says that whoever
  ranges over a map being written is in `handleSetTopic`, and `ListCurrent` that a list is
  stale only after handlers overlapped with one. The UI ignores `TopicAck`.
- A refused `/nick` stays in the client's `Nickname` and in `identity.json`, and a late
  `AuthAck` sets an older callsign again: "Persist renames confirmed by the server"
  (`main.go:44`) describes one of the file's two writers. `CallsignAgrees` excepts both.
- A process that ends within `Save`, or two saves that overlap, may leave a file that
  every later launch refuses; only `-reset-account` helps. It also creates the new
  account at once, while its message speaks of the next launch.
- `-history 0` becomes 50 (`server.go:43`), against `README.md:204`; the zero-retention
  branch of `AddMessage` is correct (`HistoryIsRecent` holds for every length) and
  unreachable from the command line.
- The help text calls `/dm` encrypted (`app.go:1267`); `SendDirectMsg` sends clear text.

## 6. What is not modelled, and why

- Direct messages beyond their lookup (`NickOwner`): two Sends that change no state.
- Typing marks: sent under `room.mu` like a broadcast; a lost one has no consequence.
- Unread counters: written and never read. Toasts and user lists on the screen: views of
  packets already followed.
- `servers.json`: one goroutine writes it; `Screens` has its length.
- `SanitizeText`, `ValidateNickname`, `NormalizeRoomName`: pure conversions of a text;
  what the models need of them is in the constants `Lower` and `Normal` and, for
  `SanitizeText`'s cut of a ciphertext, in `Session`.
- In `ClientConn` a read may fail for one pump of a shared connection and not yet for the other.
  gorilla's read error is sticky, so the model allows more than the program; the properties
  hold all the same.
- Encryption and hashing: the standard library's. Rendering, themes, the relay's command
  line, landing page and health check: no state that another part reads.
- Rounding: the limiter counts in `float64`, the model exactly. Errors of the file
  system other than a missing file. TCP buffers, hence a write that blocks under `c.mu`.

## 7. Plan

Done in this order: `Hub`, `RateLimiter`, `RoomFeed`, `Connection`, `ClientConn`, `Session`,
`Screens`; `Presence` and its refinement, `Identity`, `RoomDirectory`; `Delivery` and its
refinement; `Conversation` and its refinement. Every safety property that a passing run
checks is also a theorem. Next, as the code grows:

1. The composition of `Connection` with `RoomFeed`: a `Send` that is dropped because its client
   was closed meanwhile, and not only because its queue is full.
2. The conversions of `pkg/protocol` against a reference definition.
