---------------------------- MODULE ScreensProofs -----------------------------
(* Proofs about Screens, for lists, histories and boot animations of any length. *)
EXTENDS Screens, FiniteSetTheorems, TLAPS

\* The palette and the new channel dialog are never open together: each is opened on the
\* bare chat, and the keys that get past the welcome screen's own to a dialog open neither.
Exclusive == ~("palette" \in open /\ "channel" \in open)

\* The inductive invariant.
ScreensInv == TypeOK /\ CursorsInRange /\ Exclusive

-----------------------------------------------------------------------------
(* Parts of the steps. *)

\* MoveUp and MoveDown wrap around within the list.
LEMMA MoveStays ==
  ASSUME NEW k, NEW at \in Nat, NEW length \in Nat
  PROVE  /\ Move(k, at, length) \in Nat
         /\ length > 0 /\ at < length => Move(k, at, length) < length
BY DEF Move

\* Opening the server list puts the cursor on an entry.
LEMMA ServersOpened ==
  ASSUME OpenServers
  PROVE  /\ open' = open \cup {"servers"} /\ adding' \in BOOLEAN
         /\ servers' \in 1..MaxServers /\ cursor' \in Nat /\ cursor' < servers'
<1>1. open' = open \cup {"servers"} /\ adding' = FALSE
  BY DEF OpenServers
<1>2. \A n \in 1..MaxServers : \A at \in 0..(n - 1) : at \in Nat /\ at < n
  BY ScreensAssumption
<1>3. servers' \in 1..MaxServers /\ cursor' \in 0..(servers' - 1)
  BY DEF OpenServers
<1> QED
  BY <1>1, <1>2, <1>3

\* Filtering leaves the cursor on an entry, if there is one.
LEMMA Filtered ==
  ASSUME TypeOK, CursorsInRange, Filter
  PROVE  /\ items' = items /\ filtered' \in 0..items /\ pointer' \in Nat
         /\ filtered' > 0 => pointer' < filtered'
BY DEF Filter, TypeOK, CursorsInRange

\* A step that changes neither lists nor cursors nor the history keeps them in range, as
\* long as it does not open the server list.
LEMMA Unmoved ==
  ASSUME CursorsInRange, UNCHANGED <<servers, cursor, filtered, pointer, lines, histIndex>>,
         "servers" \in open' => "servers" \in open
  PROVE  CursorsInRange'
BY DEF CursorsInRange

-----------------------------------------------------------------------------
(* The steps keep the invariant. *)

LEMMA Established == Init => ScreensInv
<1> SUFFICES ASSUME Init PROVE ScreensInv
  OBVIOUS
<1>1. TypeOK
  <2>1. /\ 0 \in 0..BootTicks /\ 0 \in 0..MaxItems /\ 0 \in 0..0 /\ 0 \in 0..MaxLines
        /\ 0 \in Nat /\ -1 \in Int
    BY ScreensAssumption
  <2>2. asked \in 0..MaxAsked
    BY ScreensAssumption DEF Init
  <2> QED
    BY <2>1, <2>2 DEF Init, TypeOK
<1>2. CursorsInRange /\ Exclusive
  BY DEF Init, CursorsInRange, Exclusive
<1> QED
  BY <1>1, <1>2 DEF ScreensInv

\* The keys of the screens before the chat.
LEMMA ScreenKeys ==
  ASSUME ScreensInv, NEW k \in Key, BootKey(k) \/ PromptKey(k) \/ WelcomeKey(k)
  PROVE  ScreensInv'
<1>1. TypeOK /\ CursorsInRange /\ Exclusive
  BY DEF ScreensInv
<1>2. CASE BootKey(k)
  BY <1>1, <1>2 DEF BootKey, list, palette, chatline, ScreensInv, TypeOK, CursorsInRange, Exclusive
<1>3. CASE PromptKey(k)
  <2>1. asked' \in 0..MaxAsked
    BY <1>1, <1>3, ScreensAssumption DEF PromptKey, TypeOK
  <2> QED
    BY <1>1, <1>3, <2>1 DEF PromptKey, list, palette, chatline, ScreensInv, TypeOK, CursorsInRange, Exclusive
<1>4. CASE WelcomeKey(k)
  <2>1. CASE OpenServers /\ UNCHANGED <<stage, quit, ticks, palette, chatline, asked>>
    BY <1>1, <2>1, ServersOpened DEF palette, chatline, ScreensInv, TypeOK, CursorsInRange, Exclusive, Dialog
  <2>2. CASE /\ open' \in {open, open \cup {"help"}} /\ stage' \in {"name", "chat", stage} /\ quit' \in {TRUE, quit}
             /\ UNCHANGED <<list, ticks, palette, chatline, asked>>
    BY <1>1, <2>2 DEF list, palette, chatline, ScreensInv, TypeOK, CursorsInRange, Exclusive, Dialog
  <2> QED
    BY <1>4, <2>1, <2>2 DEF WelcomeKey
<1> QED
  BY <1>2, <1>3, <1>4

\* The keys of the dialogs.
LEMMA DialogKeys ==
  ASSUME ScreensInv, NEW k \in Key, HelpKey(k) \/ PaletteKey(k) \/ ServersKey(k) \/ ChannelKey(k)
  PROVE  ScreensInv'
<1>1. TypeOK /\ CursorsInRange /\ Exclusive
  BY DEF ScreensInv
<1>2. CASE HelpKey(k) \/ ChannelKey(k)
  BY <1>1, <1>2 DEF HelpKey, ChannelKey, Shut, list, palette, chatline,
                    ScreensInv, TypeOK, CursorsInRange, Exclusive, Dialog
<1>3. CASE PaletteKey(k)
  <2> USE <1>1, <1>3 DEF PaletteKey
  <2>1. UNCHANGED <<stage, ticks, lines, histIndex, asked>>
    OBVIOUS
  <2>2. CASE Shut("palette") /\ UNCHANGED <<list, palette>> /\ typed' \in BOOLEAN /\ quit' \in BOOLEAN
    BY <2>1, <2>2 DEF Shut, list, palette, ScreensInv, TypeOK, CursorsInRange, Exclusive, Dialog
  <2>3. CASE /\ k \in {"up", "down"} /\ pointer' = Move(k, pointer, filtered)
             /\ UNCHANGED <<open, list, items, filtered, typed, quit>>
    <3>1. pointer' \in Nat /\ (filtered > 0 => pointer' < filtered)
      BY <2>3, MoveStays DEF TypeOK, CursorsInRange
    <3> QED
      BY <2>1, <2>3, <3>1 DEF list, ScreensInv, TypeOK, CursorsInRange, Exclusive
  <2>4. CASE Filter /\ UNCHANGED <<open, list, typed, quit>>
    BY <2>1, <2>4, Filtered DEF list, ScreensInv, TypeOK, CursorsInRange, Exclusive
  <2>5. CASE /\ open' = (open \ {"palette"}) \cup {"servers"}
             /\ adding' = FALSE /\ servers' \in 1..MaxServers /\ cursor' \in 0..(servers' - 1)
             /\ UNCHANGED <<palette, typed, quit>>
    <3>0. \A n \in 1..MaxServers : \A at \in 0..(n - 1) : at \in Nat /\ at < n
      BY ScreensAssumption
    <3>1. cursor' \in Nat /\ cursor' < servers'
      BY <2>5, <3>0
    <3> QED
      BY <2>1, <2>5, <3>1 DEF palette, ScreensInv, TypeOK, CursorsInRange, Exclusive, Dialog
  <2>6. CASE k = "enter" /\ PaletteSelect /\ UNCHANGED palette
    BY <2>2, <2>5, <2>6 DEF PaletteSelect, TypeOK
  <2>7. CASE k = "esc" /\ Shut("palette") /\ UNCHANGED <<list, palette, typed, quit>>
    BY <2>2, <2>7 DEF TypeOK
  <2> QED
    BY <2>3, <2>4, <2>6, <2>7
<1>4. CASE ServersKey(k)
  <2> USE <1>1 DEF ServersKey
  <2>1. UNCHANGED <<stage, ticks, palette, chatline, quit>>
    BY <1>4
  <2>2. open' \subseteq open /\ adding' \in BOOLEAN
    BY <1>4 DEF Shut, TypeOK
  <2>3. /\ servers' \in 1..MaxServers /\ cursor' \in Nat
        /\ "servers" \in open' => cursor' < servers'
    <3>1. CASE UNCHANGED <<servers, cursor>>
      BY <2>2, <3>1 DEF TypeOK, CursorsInRange
    <3>2. CASE /\ k \in {"up", "down"} /\ cursor' = (IF adding THEN cursor ELSE Move(k, cursor, servers))
               /\ UNCHANGED <<open, servers>>
      BY <3>2, MoveStays DEF TypeOK, CursorsInRange
    <3>3. CASE /\ adding => servers < MaxServers
               /\ Shut("servers") /\ servers' = (IF adding THEN servers + 1 ELSE servers)
               /\ UNCHANGED cursor
      BY <3>3, ScreensAssumption DEF TypeOK, Shut
    <3> QED
      BY <1>4, <3>1, <3>2, <3>3
  <2>4. asked' \in 0..MaxAsked
    BY <1>4, ScreensAssumption DEF SwitchServer, TypeOK
  <2>5. TypeOK'
    BY <2>1, <2>2, <2>3, <2>4 DEF palette, chatline, TypeOK
  <2> QED
    BY <2>1, <2>2, <2>3, <2>5 DEF palette, chatline, ScreensInv, CursorsInRange, Exclusive
<1> QED
  BY <1>2, <1>3, <1>4

\* The keys of the chat.
LEMMA ChatKeys ==
  ASSUME ScreensInv, NEW k \in Key, ChatKey(k)
  PROVE  ScreensInv'
<1>1. TypeOK /\ CursorsInRange /\ Exclusive /\ open = {}
  BY DEF ScreensInv, ChatKey
<1>2. UNCHANGED <<ticks, asked>>
  BY DEF ChatKey
<1>3. CASE OpenKey(k) /\ UNCHANGED <<stage, chatline, quit>>
  <2>1. CASE OpenPalette /\ UNCHANGED list
    BY <1>1, <1>2, <1>3, <2>1, ScreensAssumption
       DEF OpenPalette, list, chatline, ScreensInv, TypeOK, CursorsInRange, Exclusive, Dialog
  <2>2. CASE OpenServers /\ UNCHANGED palette
    BY <1>1, <1>2, <1>3, <2>2, ServersOpened
       DEF palette, chatline, ScreensInv, TypeOK, CursorsInRange, Exclusive, Dialog
  <2>3. CASE open' = open \cup {IF k = "f1" THEN "help" ELSE "channel"} /\ UNCHANGED <<list, palette>>
    BY <1>1, <1>2, <1>3, <2>3
       DEF list, palette, chatline, ScreensInv, TypeOK, CursorsInRange, Exclusive, Dialog
  <2> QED
    BY <1>3, <2>1, <2>2, <2>3 DEF OpenKey
<1>4. CASE SendLine /\ UNCHANGED <<stage, palette>>
  <2>1. lines' \in 0..MaxLines /\ histIndex' \in Int /\ histIndex' \in (-1)..lines' /\ typed' = FALSE
    BY <1>1, <1>4, ScreensAssumption DEF SendLine, TypeOK
  <2>2. CASE open' \in {open, open \cup {"help"}} /\ quit' \in {TRUE, quit} /\ UNCHANGED list
    BY <1>1, <1>2, <1>4, <2>1, <2>2
       DEF list, palette, ScreensInv, TypeOK, CursorsInRange, Exclusive, Dialog
  <2>3. CASE OpenServers /\ UNCHANGED quit
    BY <1>1, <1>2, <1>4, <2>1, <2>3, ServersOpened
       DEF palette, ScreensInv, TypeOK, CursorsInRange, Exclusive, Dialog
  <2> QED
    BY <1>4, <2>2, <2>3 DEF SendLine
<1>5. CASE Recall(k) /\ UNCHANGED <<stage, open, list, palette, lines, quit>>
  <2>1. histIndex' \in Int /\ histIndex' \in (-1)..lines
    BY <1>1, <1>5 DEF Recall, TypeOK, CursorsInRange
  <2>2. typed' \in BOOLEAN
    BY <1>5 DEF Recall
  <2> QED
    BY <1>1, <1>2, <1>5, <2>1, <2>2 DEF list, palette, ScreensInv, TypeOK, CursorsInRange, Exclusive
<1>6. CASE /\ stage' \in {"welcome", stage} /\ typed' \in BOOLEAN /\ quit' \in BOOLEAN
           /\ UNCHANGED <<open, list, palette, lines, histIndex>>
  BY <1>1, <1>2, <1>6 DEF list, palette, ScreensInv, TypeOK, CursorsInRange, Exclusive
<1> QED
  BY <1>1, <1>3, <1>4, <1>5, <1>6 DEF ChatKey, TypeOK, chatline

\* Ticks and packets.
LEMMA EventsKeep ==
  ASSUME ScreensInv, BootTick \/ AuthAck \/ NickError
  PROVE  ScreensInv'
<1>1. ticks' \in 0..BootTicks /\ asked' \in 0..MaxAsked
  BY ScreensAssumption DEF ScreensInv, TypeOK, BootTick, AuthAck, NickError
<1>2. stage' \in {"boot", "name", "welcome", "chat"} /\ UNCHANGED <<open, list, palette, chatline, quit>>
  BY DEF ScreensInv, TypeOK, BootTick, AuthAck, NickError
<1> QED
  BY <1>1, <1>2 DEF list, palette, chatline, ScreensInv, TypeOK, CursorsInRange, Exclusive

LEMMA StepKeeps == ScreensInv /\ [Next]_vars => ScreensInv'
<1> SUFFICES ASSUME ScreensInv, [Next]_vars PROVE ScreensInv'
  OBVIOUS
<1>1. CASE UNCHANGED vars
  BY <1>1 DEF vars, list, palette, chatline, ScreensInv, TypeOK, CursorsInRange, Exclusive
<1>2. ASSUME NEW k \in Key, Press(k) PROVE ScreensInv'
  BY <1>2, ScreenKeys, DialogKeys, ChatKeys DEF Press
<1>3. CASE BootTick \/ AuthAck \/ NickError
  BY <1>3, EventsKeep
<1> QED
  BY <1>1, <1>2, <1>3 DEF Next

-----------------------------------------------------------------------------
(* The theorems. *)

\* Screens, cursors and dialogs after any keys, ticks and packets.
THEOREM Invariance == Spec => []ScreensInv
BY Established, StepKeeps, PTL DEF Spec

\* The model's fields keep their types and bounds.
THEOREM TypeCorrect == Spec => []TypeOK
<1>1. ScreensInv => TypeOK
  BY DEF ScreensInv
<1> QED
  BY <1>1, Invariance, PTL

\* Cursors and the history index stay where Update, which does not check them, uses them.
THEOREM OnAnEntry == Spec => []CursorsInRange
<1>1. ScreensInv => CursorsInRange
  BY DEF ScreensInv
<1> QED
  BY <1>1, Invariance, PTL

\* A tick or a packet never takes the welcome screen or the chat away.
THEOREM OnlyKeysLeave == Spec => ChatNotInterrupted
<1>1. [Next]_vars => [stage' # stage /\ stage \in {"chat", "welcome"} => \E k \in Key : Press(k)]_vars
  <2> SUFFICES ASSUME Next, stage' # stage, stage \in {"chat", "welcome"}
               PROVE  \E k \in Key : Press(k)
    OBVIOUS
  <2>1. ~(BootTick \/ AuthAck \/ NickError)
    BY DEF BootTick, AuthAck, NickError
  <2> QED
    BY <2>1 DEF Next
<1> QED
  BY <1>1, PTL DEF Spec, ChatNotInterrupted

\* A set with at most one element.
LEMMA AtMostOne ==
  ASSUME NEW S, NEW d, S \subseteq {d} PROVE Cardinality(S) <= 1
<1>1. S = {} \/ S = {d}
  OBVIOUS
<1>2. Cardinality({}) = 0 /\ Cardinality({d}) = 1
  BY FS_EmptySet, FS_Singleton
<1> QED
  BY <1>1, <1>2

\* On the chat screen a dialog opens on the bare chat, or in the place of the palette.
LEMMA OpensOne ==
  ASSUME ScreensInv, Next, stage = "chat"
  PROVE  open' \subseteq open \/ \E d \in Dialog : open' \subseteq {d}
<1>0. TypeOK /\ Exclusive
  BY DEF ScreensInv
<1>1. CASE BootTick \/ AuthAck \/ NickError
  BY <1>1 DEF BootTick, AuthAck, NickError
<1>2. ASSUME NEW k \in Key, BootKey(k) \/ PromptKey(k) \/ WelcomeKey(k) PROVE FALSE
  BY <1>2 DEF BootKey, PromptKey, WelcomeKey
<1>3. ASSUME NEW k \in Key, HelpKey(k) \/ ServersKey(k) \/ ChannelKey(k) PROVE open' \subseteq open
  BY <1>3 DEF HelpKey, ServersKey, ChannelKey, Shut
<1>4. ASSUME NEW k \in Key, PaletteKey(k) PROVE open' \subseteq open \/ open' \subseteq {"servers"}
  <2>1. open \subseteq {"palette", "servers"}
    BY <1>0, <1>4 DEF PaletteKey, TypeOK, Exclusive, Dialog
  <2> QED
    BY <1>4, <2>1 DEF PaletteKey, PaletteSelect, Shut
<1>5. ASSUME NEW k \in Key, ChatKey(k) PROVE \E d \in Dialog : open' \subseteq {d}
  BY <1>5 DEF ChatKey, OpenKey, OpenPalette, OpenServers, SendLine, Dialog
<1> QED
  BY <1>1, <1>2, <1>3, <1>4, <1>5 DEF Next, Press, Dialog

\* Dialogs do not pile up over the chat, whatever the welcome screen left open.
THEOREM OneDialog == Spec => OneDialogAtATime
<1>1. ScreensInv /\ [Next]_vars => [stage = "chat" => Cardinality(open') <= 1 \/ open' \subseteq open]_vars
  BY OpensOne, AtMostOne
<1> QED
  BY <1>1, Invariance, PTL DEF Spec, OneDialogAtATime
=============================================================================
