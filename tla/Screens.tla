------------------------------- MODULE Screens --------------------------------
(***************************************************************************)
(* Which screen and which dialogs the user interface shows, and who gets   *)
(* the keys (pkg/ui/app.go: Update; palette.go, server_modal.go,           *)
(* room_modal.go).                                                         *)
(*                                                                         *)
(* Update handles one key, tick or packet at a time.  A key is offered to  *)
(* the screen first (boot, callsign prompt, welcome), then to the help     *)
(* page, the palette, the server list and the new channel dialog if they   *)
(* are open, then to the chat screen.  The texts being typed are left out, *)
(* but for whether the chat line is empty; so are colours, the bell and    *)
(* the radar.  What a command does to rooms is in Session.                 *)
(***************************************************************************)
EXTENDS Integers, FiniteSets

CONSTANTS
  BootTicks,   \* the ticks of the boot animation
  MaxServers,  \* bound: the entries of the server list
  MaxItems,    \* bound: the entries of the palette
  MaxLines,    \* bound: the lines the user sends
  MaxAsked     \* bound: authentications under way

ASSUME ScreensAssumption ==
  /\ BootTicks \in Nat \ {0}
  /\ MaxServers \in Nat \ {0}
  /\ MaxItems \in Nat \ {0}
  /\ MaxLines \in Nat
  /\ MaxAsked \in Nat

Dialog == {"help", "palette", "servers", "channel"}

\* The keys told apart; "x" stands for every other rune.
Key == {"enter", "space", "esc", "ctrl+c", "ctrl+k", "ctrl+s", "ctrl+n", "f1",
        "up", "down", "backspace", "s", "n", "q", "a", "x"}

VARIABLES
  stage,      \* m.stage
  ticks,      \* the boot ticks handled
  open,       \* the dialogs that are active
  adding,     \* serverModal.addingNew
  servers,    \* the length of the server list
  cursor,     \* serverModal.cursor
  items,      \* the length of palette.items
  filtered,   \* and of palette.filtered
  pointer,    \* palette.cursor
  typed,      \* whether the chat line holds text
  lines,      \* the length of cmdHistory
  histIndex,  \* m.histIndex
  asked,      \* authentications sent and not answered
  quit        \* Update has returned tea.Quit

list == <<adding, servers, cursor>>
palette == <<items, filtered, pointer>>
chatline == <<typed, lines, histIndex>>
vars == <<stage, ticks, open, list, palette, chatline, asked, quit>>

(* The model's fields have their Go types and the counters their bounds. *)
TypeOK ==
  /\ stage \in {"boot", "name", "welcome", "chat"}
  /\ ticks \in 0..BootTicks
  /\ open \in SUBSET Dialog
  /\ adding \in BOOLEAN
  /\ servers \in 1..MaxServers
  /\ cursor \in Nat
  /\ items \in 0..MaxItems
  /\ filtered \in 0..items
  /\ pointer \in Nat
  /\ typed \in BOOLEAN
  /\ lines \in 0..MaxLines
  /\ histIndex \in Int
  /\ asked \in 0..MaxAsked
  /\ quit \in BOOLEAN

\* Connect has authenticated already if a nickname was saved.
Init ==
  /\ stage = "boot"
  /\ ticks = 0
  /\ open = {}
  /\ adding = FALSE
  /\ servers \in 1..MaxServers
  /\ cursor = 0
  /\ items = 0
  /\ filtered = 0
  /\ pointer = 0
  /\ typed = FALSE
  /\ lines = 0
  /\ histIndex = -1
  /\ asked \in {n \in {0, 1} : n <= MaxAsked}
  /\ quit = FALSE

-----------------------------------------------------------------------------
(* Dialogs. *)

Shut(d) == open' = open \ {d}

\* Mutant: the cursor stays where it was when the list is read again.
OpenServersAsLeft ==
  /\ open' = open \cup {"servers"}
  /\ adding' = FALSE
  /\ servers' \in 1..MaxServers
  /\ UNCHANGED cursor

\* ServerModal.Open reads the list from disk, where another client may have changed it,
\* and puts the cursor on the server in use or on the first.
OpenServers ==
  /\ open' = open \cup {"servers"}
  /\ adding' = FALSE
  /\ servers' \in 1..MaxServers
  /\ cursor' \in 0..(servers' - 1)

\* Mutant: what was found the last time is still listed.
OpenPaletteAsLeft ==
  /\ open' = open \cup {"palette"}
  /\ items' \in 1..MaxItems
  /\ pointer' = 0
  /\ UNCHANGED filtered

\* PaletteModel.Open: the rooms, the users and the commands.
OpenPalette ==
  /\ open' = open \cup {"palette"}
  /\ items' \in 1..MaxItems
  /\ filtered' = items'
  /\ pointer' = 0

\* MoveUp and MoveDown of both lists wrap around.
Move(k, at, length) ==
  IF length = 0 THEN at
  ELSE IF k = "up" THEN (IF at = 0 THEN length - 1 ELSE at - 1)
  ELSE (IF at + 1 >= length THEN 0 ELSE at + 1)

\* PaletteModel.filter after a change of the query: a new selection of the items, all of
\* them and the cursor on the first when the query is empty.
Filter ==
  /\ UNCHANGED items
  /\ \/ filtered' = items /\ pointer' = 0
     \/ /\ filtered' \in 0..items
        /\ pointer' = IF pointer >= filtered' THEN 0 ELSE pointer

\* SwitchServer dials and authenticates with the nickname, or fails.
SwitchServer == asked' \in {n \in {asked, asked + 1} : n <= MaxAsked}

-----------------------------------------------------------------------------
(* Keys of the screens before the chat. *)

BootKey(k) ==
  /\ stage = "boot"
  /\ \/ /\ k \in {"enter", "space", "esc"}
        /\ stage' = "name"
        /\ UNCHANGED quit
     \/ /\ k = "ctrl+c"
        /\ quit' = TRUE
        /\ UNCHANGED stage
  /\ UNCHANGED <<ticks, open, list, palette, chatline, asked>>

\* Enter authenticates with a valid callsign, if the connection is there.
PromptKey(k) ==
  /\ stage = "name"
  /\ \/ /\ k = "enter"
        /\ asked < MaxAsked
        /\ asked' = asked + 1
        /\ UNCHANGED quit
     \/ /\ k \in {"esc", "ctrl+c"}
        /\ quit' = TRUE
        /\ UNCHANGED asked
  /\ UNCHANGED <<stage, ticks, open, list, palette, chatline>>

WelcomeKeys == {"enter", "space", "esc", "ctrl+s", "s", "f1", "n", "q"}

\* The welcome screen takes these whatever dialog is open.
WelcomeKey(k) ==
  /\ stage = "welcome"
  /\ \/ /\ k \in {"enter", "space"}
        /\ stage' = "chat"
        /\ UNCHANGED <<open, list, quit>>
     \/ /\ k \in {"esc", "q"}
        /\ quit' = TRUE
        /\ UNCHANGED <<stage, open, list>>
     \/ /\ k \in {"ctrl+s", "s"}
        /\ OpenServers
        /\ UNCHANGED <<stage, quit>>
     \/ /\ k = "f1"
        /\ open' = open \cup {"help"}
        /\ UNCHANGED <<stage, list, quit>>
     \/ /\ k = "n"
        /\ stage' = "name"
        /\ UNCHANGED <<open, list, quit>>
  /\ UNCHANGED <<ticks, palette, chatline, asked>>

\* Other keys go on to the dialogs and the chat, which is not on the screen then.
Passed(k) == stage = "chat" \/ (stage = "welcome" /\ k \notin WelcomeKeys)

-----------------------------------------------------------------------------
(* Keys of the dialogs, the first that is open. *)

HelpKey(k) ==
  /\ Passed(k)
  /\ "help" \in open
  /\ k \in {"esc", "enter", "ctrl+c"}
  /\ Shut("help")
  /\ quit' = (k = "ctrl+c")
  /\ UNCHANGED <<stage, ticks, list, palette, chatline, asked>>

\* Mutant: the palette stays open under what its command opens.
PaletteSelectOver ==
  \/ /\ Shut("palette")
     /\ typed' \in {typed, TRUE}
     /\ quit' \in BOOLEAN
     /\ UNCHANGED list
  \/ OpenServers /\ UNCHANGED <<typed, quit>>

\* Enter closes the palette and runs its item: a room, a callsign put in the chat line,
\* a command; /server opens the list and /quit leaves.
PaletteSelect ==
  \/ /\ Shut("palette")
     /\ UNCHANGED <<typed, list, quit>>
  \/ /\ filtered > 0
     /\ Shut("palette")
     /\ typed' \in {typed, TRUE}
     /\ quit' \in BOOLEAN
     /\ UNCHANGED list
  \/ /\ filtered > 0
     /\ open' = (open \ {"palette"}) \cup {"servers"}
     /\ adding' = FALSE
     /\ servers' \in 1..MaxServers
     /\ cursor' \in 0..(servers' - 1)
     /\ UNCHANGED <<typed, quit>>

PaletteKey(k) ==
  /\ Passed(k)
  /\ "help" \notin open /\ "palette" \in open
  /\ \/ /\ k = "esc"
        /\ Shut("palette")
        /\ UNCHANGED <<list, palette, typed, quit>>
     \/ /\ k \in {"up", "down"}
        /\ pointer' = Move(k, pointer, filtered)
        /\ UNCHANGED <<open, list, items, filtered, typed, quit>>
     \/ /\ k = "enter"
        /\ PaletteSelect
        /\ UNCHANGED palette
     \/ /\ k \notin {"esc", "up", "down", "enter"}
        /\ Filter
        /\ UNCHANGED <<open, list, typed, quit>>
  /\ UNCHANGED <<stage, ticks, lines, histIndex, asked>>

\* In the form, Enter registers the server and dials it; in the list it dials the one
\* under the cursor.
ServersKey(k) ==
  /\ Passed(k)
  /\ open \cap {"help", "palette"} = {} /\ "servers" \in open
  /\ \/ /\ k = "esc"
        /\ adding' = FALSE
        /\ IF adding THEN UNCHANGED open ELSE Shut("servers")
        /\ UNCHANGED <<servers, cursor, asked>>
     \/ /\ k \in {"up", "down"}
        /\ cursor' = IF adding THEN cursor ELSE Move(k, cursor, servers)
        /\ UNCHANGED <<open, adding, servers, asked>>
     \/ /\ k = "a"
        /\ adding' = TRUE
        /\ UNCHANGED <<open, servers, cursor, asked>>
     \/ /\ k = "enter"
        /\ adding => servers < MaxServers
        /\ Shut("servers")
        /\ adding' = FALSE
        /\ servers' = IF adding THEN servers + 1 ELSE servers
        /\ SwitchServer
        /\ UNCHANGED cursor
  /\ UNCHANGED <<stage, ticks, palette, chatline, quit>>

\* Enter joins the channel named, if any, and closes.
ChannelKey(k) ==
  /\ Passed(k)
  /\ open \cap {"help", "palette", "servers"} = {} /\ "channel" \in open
  /\ k \in {"esc", "enter"}
  /\ Shut("channel")
  /\ UNCHANGED <<stage, ticks, list, palette, chatline, asked, quit>>

-----------------------------------------------------------------------------
(* Keys of the chat. *)

OpenKey(k) ==
  \/ /\ k = "ctrl+k"
     /\ OpenPalette
     /\ UNCHANGED list
  \/ /\ k = "ctrl+s"
     /\ OpenServers
     /\ UNCHANGED palette
  \/ /\ k \in {"ctrl+n", "f1"}
     /\ open' = open \cup {IF k = "f1" THEN "help" ELSE "channel"}
     /\ UNCHANGED <<list, palette>>

\* Enter sends the line: a message or a command, of which /help and /server open a
\* dialog and /quit leaves.
SendLine ==
  /\ typed
  /\ lines < MaxLines
  /\ lines' = lines + 1
  /\ histIndex' = lines + 1
  /\ typed' = FALSE
  /\ \/ open' \in {open, open \cup {"help"}} /\ UNCHANGED <<list, quit>>
     \/ OpenServers /\ UNCHANGED quit
     \/ quit' = TRUE /\ UNCHANGED <<open, list>>

\* Up and Down walk through the lines sent; past the newest the line is empty.
Recall(k) ==
  \/ /\ k = "up"
     /\ lines > 0 /\ histIndex > 0
     /\ histIndex' = histIndex - 1
     /\ typed' = TRUE
  \/ /\ k = "down"
     /\ lines > 0 /\ histIndex < lines - 1
     /\ histIndex' = histIndex + 1
     /\ typed' = TRUE
  \/ /\ k = "down"
     /\ histIndex >= lines - 1
     /\ histIndex' = lines
     /\ typed' = FALSE

ChatKey(k) ==
  /\ Passed(k)
  /\ open = {}
  /\ \/ /\ OpenKey(k)
        /\ UNCHANGED <<stage, chatline, quit>>
     \/ /\ k = "enter"
        /\ SendLine
        /\ UNCHANGED <<stage, palette>>
     \/ /\ Recall(k)
        /\ UNCHANGED <<stage, open, list, palette, lines, quit>>
     \/ /\ k = "esc"
        /\ typed' = FALSE
        /\ stage' = IF typed THEN stage ELSE "welcome"
        /\ UNCHANGED <<open, list, palette, lines, histIndex, quit>>
     \/ /\ k \in {"space", "s", "n", "q", "a", "x"}
        /\ typed' = TRUE
        /\ UNCHANGED <<stage, open, list, palette, lines, histIndex, quit>>
     \/ /\ k = "backspace"
        /\ typed' \in {typed, FALSE}
        /\ UNCHANGED <<stage, open, list, palette, lines, histIndex, quit>>
     \/ /\ k = "ctrl+c"
        /\ quit' = TRUE
        /\ UNCHANGED <<stage, open, list, palette, chatline>>
  /\ UNCHANGED <<ticks, asked>>

Press(k) ==
  /\ ~quit
  /\ \/ BootKey(k) \/ PromptKey(k) \/ WelcomeKey(k)
     \/ HelpKey(k) \/ PaletteKey(k) \/ ServersKey(k) \/ ChannelKey(k)
     \/ ChatKey(k)

-----------------------------------------------------------------------------
(* Ticks and packets. *)

\* Mutant: the last tick ends the boot screen whatever is shown by then.
BootTickAnyway ==
  /\ ~quit
  /\ ticks < BootTicks
  /\ ticks' = ticks + 1
  /\ stage' = IF ticks' = BootTicks THEN "name" ELSE stage
  /\ UNCHANGED <<open, list, palette, chatline, asked, quit>>

\* A tick of the boot animation; the last one opens the callsign prompt.
BootTick ==
  /\ ~quit
  /\ stage = "boot"
  /\ ticks < BootTicks
  /\ ticks' = ticks + 1
  /\ stage' = IF ticks' = BootTicks THEN "name" ELSE stage
  /\ UNCHANGED <<open, list, palette, chatline, asked, quit>>

\* handleIncomingPacket: an AuthAck opens the chat from the boot screen and the prompt.
AuthAck ==
  /\ ~quit
  /\ asked > 0
  /\ asked' = asked - 1
  /\ stage' = IF stage \in {"name", "boot"} THEN "chat" ELSE stage
  /\ UNCHANGED <<ticks, open, list, palette, chatline, quit>>

\* A callsign in use or invalid: back to the prompt, unless the user is in already.
NickError ==
  /\ ~quit
  /\ asked > 0
  /\ asked' = asked - 1
  /\ stage' = IF stage \in {"name", "boot"} THEN "name" ELSE stage
  /\ UNCHANGED <<ticks, open, list, palette, chatline, quit>>

-----------------------------------------------------------------------------
Next ==
  \/ \E k \in Key : Press(k)
  \/ BootTick
  \/ AuthAck
  \/ NickError

Spec == Init /\ [][Next]_vars

-----------------------------------------------------------------------------
(* Properties. *)

\* Cursors point at an entry of what is listed, whatever was filtered, read again from
\* disk or added in the meantime, and the recalled line exists (its index is not
\* checked where it is used).
CursorsInRange ==
  /\ "servers" \in open => cursor < servers
  /\ filtered > 0 => pointer < filtered
  /\ histIndex \in (-1)..lines

\* Nothing but the user's own keys takes the chat away: not a late boot tick, not the
\* refusal of a callsign, not the answer of the server just switched to.
ChatNotInterrupted ==
  [][stage' # stage /\ stage \in {"chat", "welcome"} => \E k \in Key : Press(k)]_vars

\* On the chat screen a dialog is opened only when none is open, or in its place.
OneDialogAtATime ==
  [][stage = "chat" => Cardinality(open') <= 1 \/ open' \subseteq open]_vars
=============================================================================
