------------------------------- MODULE Identity -------------------------------
(***************************************************************************)
(* A user's callsign in its four places: the relay, the client's Nickname, *)
(* the identity that main holds for the read pump, and identity.json.      *)
(* (pkg/identity/identity.go, cmd/skywave/main.go, pkg/client/client.go,   *)
(* pkg/ui/app.go.)                                                         *)
(*                                                                         *)
(* Two goroutines save the file: the one of main and Update ("ui") and the *)
(* read pump.  os.WriteFile opens the file, which empties it, and then     *)
(* writes from its beginning: two steps, with no lock, between which the   *)
(* process may end.  A shorter text written over a longer one leaves the   *)
(* end of the longer one behind.                                           *)
(*                                                                         *)
(* Errors of the file system are not modelled; a process that ends, ends   *)
(* both goroutines wherever they are.                                      *)
(***************************************************************************)
EXTENDS Naturals, Sequences, SequencesExt

CONSTANTS
  Nick,         \* callsigns that ValidateNickname accepts
  Placeholder,  \* those that IsGeneratedNick takes for generated ones
  Fresh,        \* what GenerateAnonymousNick returns
  Size,         \* the length of a callsign, which is that of the file
  MaxStarts,    \* bound: launches of the client
  MaxRequests,  \* bound: what the user asks for in one life of the client
  Absent, Empty, Corrupt,  \* what the file may be instead of an account
  NoNick, NoId

ASSUME IdentityAssumption ==
  /\ Placeholder \subseteq Nick
  /\ Fresh \in Placeholder
  /\ Size \in [Nick -> Nat]
  /\ MaxStarts \in Nat
  /\ MaxRequests \in Nat
  /\ NoNick \notin Nick
  /\ Absent # Empty /\ Absent # Corrupt
  /\ {Absent, Empty, Corrupt} \cap [account : Nat, nick : Nick] = {}

Packet == [type : {"auth", "nick"}, nick : Nick]

VARIABLES
  file,      \* identity.json: Absent, Empty, Corrupt or an account
  ui,        \* main, then Update: off, load, open, write, connect, idle
  uiId,      \* the identity the ui has loaded or created
  saves,     \* the saves the ui has still to make of it
  wanted,    \* the argument of the ui's LoadOrCreate
  pump,      \* the read pump: off, idle, open, write
  mainId,    \* main's id, which OnNickChanged changes and saves
  nick,      \* c.Nickname
  stage,     \* the UI's stage: name or chat
  relayNick, \* the relay's Nickname for this connection
  sent,      \* packets to the relay
  answers,   \* packets to the client
  incoming,  \* AuthAcks that Update has not yet seen
  starts, requests, resets, born,
  refused,   \* the relay has refused something in this life
  hasty,     \* a request was made while one of another kind was unanswered
  torn,      \* a process ended between the two halves of a save
  clash,     \* two saves of different callsigns have overlapped
  lockedOut  \* the last launch ended at an unreadable file

fileVars == <<file, ui, uiId, saves, wanted>>
pumpVars == <<pump, mainId>>
netVars == <<nick, stage, relayNick, sent, answers, incoming>>
bounds == <<starts, requests, resets, born>>
history == <<refused, hasty, torn, clash, lockedOut>>
vars == <<fileVars, pumpVars, netVars, bounds, history>>

Unreadable == {Empty, Corrupt}

(* The file is a possible file, and what is about to be saved is an account with a callsign. *)
TypeOK ==
  /\ file \in {Absent} \cup Unreadable \cup [account : 1..MaxStarts, nick : Nick]
  /\ ui \in {"off", "load", "open", "write", "connect", "idle"}
  /\ ui \in {"open", "write"} => uiId \in [account : 1..born, nick : Nick] /\ saves \in 1..2
  /\ wanted \in Nick \cup {NoNick}
  /\ pump \in {"off", "idle", "open", "write"}
  /\ pump \in {"open", "write"} => mainId \in [account : 1..born, nick : Nick]
  /\ nick \in Nick \cup {NoNick}
  /\ stage \in {"name", "chat"}
  /\ relayNick \in Nick \cup {NoNick}
  /\ {sent, answers, incoming} \subseteq Seq(Packet)
  /\ born \in 0..MaxStarts

Init ==
  /\ file = Absent
  /\ ui = "off" /\ pump = "off"
  /\ uiId = NoId /\ mainId = NoId
  /\ saves = 0 /\ wanted = NoNick
  /\ nick = NoNick /\ relayNick = NoNick
  /\ stage = "name"
  /\ sent = <<>> /\ answers = <<>> /\ incoming = <<>>
  /\ starts = 0 /\ requests = 0 /\ resets = 0 /\ born = 0
  /\ refused = FALSE /\ hasty = FALSE /\ torn = FALSE /\ clash = FALSE /\ lockedOut = FALSE

-----------------------------------------------------------------------------
(* The file. *)

\* IsGeneratedNick's callsigns are read as none.
Own(n) == IF n \in Placeholder THEN NoNick ELSE n

\* What is left after a write from the beginning of the file.
Written(id) ==
  IF file = Empty \/ (file \notin Unreadable /\ Size[id.nick] >= Size[file.nick])
  THEN id ELSE Corrupt

\* Another goroutine is between the halves of a save of another callsign.
Overlaps(id, line, otherId) == line = "write" /\ otherId.nick # id.nick

\* Save, first half, by the ui: the file is opened with O_TRUNC.
UiOpens ==
  /\ ui = "open"
  /\ file' = Empty
  /\ ui' = "write"
  /\ clash' = (clash \/ Overlaps(uiId, pump, mainId))
  /\ UNCHANGED <<uiId, saves, wanted, pumpVars, netVars, bounds,
                 refused, hasty, torn, lockedOut>>

\* Save, second half, by the ui; LoadOrCreate's save is followed by SetNickname's.
UiWrites ==
  /\ ui = "write"
  /\ file' = Written(uiId)
  /\ saves' = saves - 1
  /\ ui' = IF saves > 1 THEN "open" ELSE IF pump = "off" THEN "connect" ELSE "idle"
  /\ UNCHANGED <<uiId, wanted, pumpVars, netVars, bounds, history>>

\* Mutant: an empty preference overrides the saved callsign too.
LoadOverriding ==
  /\ ui = "load"
  /\ file \notin Unreadable \cup {Absent}
  /\ LET own == Own(file.nick)
         renamed == wanted # own
         first == pump = "off"
         total == saves + (IF renamed THEN 1 ELSE 0)
     IN  /\ uiId' = [file EXCEPT !.nick = IF renamed THEN wanted ELSE own]
         /\ saves' = total
         /\ ui' = IF total > 0 THEN "open" ELSE IF first THEN "connect" ELSE "idle"
         /\ mainId' = IF first THEN uiId' ELSE mainId
         /\ nick' = IF first THEN uiId'.nick ELSE nick
  /\ UNCHANGED <<file, wanted, pump, stage, relayNick, sent, answers, incoming,
                 bounds, history>>

\* LoadOrCreate reads the file: the callsign wanted overrides the saved one, and is saved
\* if it differs.  The caller has put into saves what SetNickname will add.
Load ==
  /\ ui = "load"
  /\ file \notin Unreadable \cup {Absent}
  /\ LET own == Own(file.nick)
         renamed == wanted \notin {NoNick, own}
         first == pump = "off"
         total == saves + (IF renamed THEN 1 ELSE 0)
     IN  /\ uiId' = [file EXCEPT !.nick = IF renamed THEN wanted ELSE own]
         /\ saves' = total
         /\ ui' = IF total > 0 THEN "open" ELSE IF first THEN "connect" ELSE "idle"
         /\ mainId' = IF first THEN uiId' ELSE mainId
         /\ nick' = IF first THEN uiId'.nick ELSE nick
  /\ UNCHANGED <<file, wanted, pump, stage, relayNick, sent, answers, incoming,
                 bounds, history>>

\* Mutant: a file that cannot be parsed is replaced by a new account.
CreateAnyway ==
  /\ ui = "load"
  /\ pump = "off"
  /\ file \in {Absent} \cup Unreadable
  /\ born' = born + 1
  /\ uiId' = [account |-> born', nick |-> IF wanted = NoNick THEN Fresh ELSE wanted]
  /\ mainId' = uiId'
  /\ nick' = wanted
  /\ file' = Empty
  /\ saves' = 1
  /\ ui' = "write"
  /\ UNCHANGED <<wanted, pump, stage, relayNick, sent, answers, incoming,
                 starts, requests, resets, history>>

\* LoadOrCreate finds no file, at the first launch or after a reset: Create, up to the
\* opening of the file.  A generated callsign is saved but not used.
Create ==
  /\ ui = "load"
  /\ file = Absent
  /\ born' = born + 1
  /\ uiId' = [account |-> born', nick |-> IF wanted = NoNick THEN Fresh ELSE wanted]
  /\ mainId' = uiId'
  /\ nick' = wanted
  /\ file' = Empty
  /\ saves' = 1
  /\ ui' = "write"
  /\ UNCHANGED <<wanted, pump, stage, relayNick, sent, answers, incoming,
                 starts, requests, resets, history>>

\* LoadOrCreate fails: at a launch the program exits, later the ui saves nothing.
LoadFails ==
  /\ ui = "load"
  /\ file \in Unreadable
  /\ ui' = IF pump = "off" THEN "off" ELSE "idle"
  /\ lockedOut' = (pump = "off")
  /\ UNCHANGED <<file, uiId, saves, wanted, pumpVars, netVars, bounds,
                 refused, hasty, torn, clash>>

-----------------------------------------------------------------------------
(* The life of the client. *)

\* main, with -nick or without, with -reset-account (which removes the file) or without.
Start(flag, reset) ==
  /\ ui = "off"
  /\ starts < MaxStarts
  /\ starts' = starts + 1
  /\ requests' = 0
  /\ resets' = IF reset THEN resets + 1 ELSE resets
  /\ file' = IF reset THEN Absent ELSE file
  /\ torn' = (torn /\ ~reset)
  /\ clash' = (clash /\ ~reset)
  /\ refused' = FALSE /\ hasty' = FALSE /\ lockedOut' = FALSE
  /\ ui' = "load"
  /\ wanted' = flag
  /\ saves' = 0
  /\ UNCHANGED <<uiId, pumpVars, netVars, born>>

\* Connect starts the read pump and logs in under a callsign of the user's own.
Connect ==
  /\ ui = "connect"
  /\ ui' = "idle"
  /\ pump' = "idle"
  /\ sent' = IF nick = NoNick THEN <<>> ELSE <<[type |-> "auth", nick |-> nick]>>
  /\ UNCHANGED <<file, uiId, saves, wanted, mainId, nick, stage, relayNick, answers,
                 incoming, bounds, history>>

\* The process ends, by a quit, a signal or a crash, and the relay forgets it.
End ==
  /\ ui # "off"
  /\ ui' = "off" /\ pump' = "off"
  /\ uiId' = NoId /\ mainId' = NoId
  /\ saves' = 0 /\ wanted' = NoNick
  /\ nick' = NoNick /\ relayNick' = NoNick
  /\ stage' = "name"
  /\ sent' = <<>> /\ answers' = <<>> /\ incoming' = <<>>
  /\ torn' = (torn \/ ui = "write" \/ pump = "write")
  /\ UNCHANGED <<file, bounds, refused, hasty, clash, lockedOut>>

-----------------------------------------------------------------------------
(* What the user asks for.  The packet is sent and c.Nickname set before the answer. *)

\* Requests of a kind that the relay or the client have not finished with.
Unanswered(type) ==
  \/ \E p \in ToSet(sent) \cup ToSet(answers) \cup ToSet(incoming) : p.type = type
  \/ type = "nick" /\ pump \in {"open", "write"}

Asking ==
  /\ ui = "idle"
  /\ requests < MaxRequests
  /\ requests' = requests + 1
  /\ UNCHANGED <<file, uiId, pumpVars, relayNick, incoming, starts, resets, born,
                 refused, torn, clash, lockedOut>>

Authenticate(n) == sent' = Append(sent, [type |-> "auth", nick |-> n])

ChangeNick(n) == sent' = Append(sent, [type |-> "nick", nick |-> n])

\* Mutant: the callsign of the prompt is not saved.
PromptUnsaved(n) ==
  /\ Asking
  /\ Authenticate(n)
  /\ nick' = n
  /\ stage' = "name"
  /\ hasty' = (hasty \/ Unanswered("nick"))
  /\ UNCHANGED <<ui, saves, wanted, answers>>

\* The callsign prompt: before the first login, or from the welcome screen.
Prompt(n) ==
  /\ Asking
  /\ Authenticate(n)
  /\ nick' = n
  /\ stage' = "name"
  /\ ui' = "load" /\ wanted' = n /\ saves' = 1
  /\ hasty' = (hasty \/ Unanswered("nick"))
  /\ UNCHANGED answers

\* /nick.
Rename(n) ==
  /\ Asking
  /\ stage = "chat"
  /\ ChangeNick(n)
  /\ nick' = n
  /\ ui' = "load" /\ wanted' = n /\ saves' = 1
  /\ hasty' = (hasty \/ Unanswered("auth"))
  /\ UNCHANGED <<stage, answers>>

\* /whoami shows the saved identity, and saves c.Nickname in it if it differs.
Whoami ==
  /\ Asking
  /\ stage = "chat"
  /\ ui' = "load" /\ wanted' = nick /\ saves' = 0
  /\ hasty' = (hasty \/ Unanswered("auth") \/ Unanswered("nick"))
  /\ UNCHANGED <<nick, stage, sent, answers>>

\* SwitchServer, when the old read pump is between two packets: a new connection and a
\* login under c.Nickname.
Switch ==
  /\ ui = "idle" /\ pump = "idle"
  /\ stage = "chat"
  /\ requests < MaxRequests
  /\ requests' = requests + 1
  /\ relayNick' = NoNick
  /\ sent' = IF nick = NoNick THEN <<>> ELSE <<[type |-> "auth", nick |-> nick]>>
  /\ answers' = <<>>
  /\ hasty' = (hasty \/ Unanswered("auth") \/ Unanswered("nick"))
  /\ UNCHANGED <<fileVars, pumpVars, nick, stage, incoming, starts, resets, born,
                 refused, torn, clash, lockedOut>>

-----------------------------------------------------------------------------
(* The relay. *)

\* handleAuth never gives a connection the callsign it already has.
Accepts ==
  /\ sent # <<>>
  /\ Head(sent).type = "auth" => Head(sent).nick # relayNick
  /\ relayNick' = Head(sent).nick
  /\ answers' = Append(answers, Head(sent))
  /\ sent' = Tail(sent)
  /\ UNCHANGED <<fileVars, pumpVars, nick, stage, incoming, bounds, history>>

\* NICK_IN_USE, RATE_LIMITED: only a message on the screen tells of it.
Refuses ==
  /\ sent # <<>>
  /\ sent' = Tail(sent)
  /\ refused' = TRUE
  /\ UNCHANGED <<fileVars, pumpVars, nick, stage, relayNick, answers, incoming, bounds,
                 hasty, torn, clash, lockedOut>>

-----------------------------------------------------------------------------
(* The answers. *)

\* readPump on an AuthAck.
PumpAuthAck ==
  /\ pump = "idle"
  /\ answers # <<>>
  /\ Head(answers).type = "auth"
  /\ nick' = Head(answers).nick
  /\ incoming' = Append(incoming, Head(answers))
  /\ answers' = Tail(answers)
  /\ UNCHANGED <<fileVars, pumpVars, stage, relayNick, sent, bounds, history>>

\* readPump on a NickAck, which then calls OnNickChanged.
PumpNickAck ==
  /\ pump = "idle"
  /\ answers # <<>>
  /\ Head(answers).type = "nick"
  /\ nick' = Head(answers).nick
  /\ mainId' = [mainId EXCEPT !.nick = Head(answers).nick]
  /\ answers' = Tail(answers)
  /\ pump' = "open"
  /\ UNCHANGED <<fileVars, stage, relayNick, sent, incoming, bounds, history>>

PumpOpens ==
  /\ pump = "open"
  /\ file' = Empty
  /\ pump' = "write"
  /\ clash' = (clash \/ Overlaps(mainId, ui, uiId))
  /\ UNCHANGED <<ui, uiId, saves, wanted, mainId, netVars, bounds,
                 refused, hasty, torn, lockedOut>>

PumpWrites ==
  /\ pump = "write"
  /\ file' = Written(mainId)
  /\ pump' = "idle"
  /\ UNCHANGED <<ui, uiId, saves, wanted, mainId, netVars, bounds, history>>

\* Update sets c.Nickname once more when it gets to the AuthAck; it ignores NickAcks.
UpdateAuthAck ==
  /\ ui = "idle"
  /\ incoming # <<>>
  /\ nick' = Head(incoming).nick
  /\ incoming' = Tail(incoming)
  /\ stage' = "chat"
  /\ UNCHANGED <<fileVars, pumpVars, relayNick, sent, answers, bounds, history>>

-----------------------------------------------------------------------------
Next ==
  \/ \E flag \in Nick \cup {NoNick}, reset \in BOOLEAN : Start(flag, reset)
  \/ Load \/ Create \/ LoadFails \/ UiOpens \/ UiWrites
  \/ Connect \/ End
  \/ \E n \in Nick : Prompt(n) \/ Rename(n)
  \/ Whoami \/ Switch
  \/ Accepts \/ Refuses
  \/ PumpAuthAck \/ PumpNickAck \/ PumpOpens \/ PumpWrites \/ UpdateAuthAck

Spec == Init /\ [][Next]_vars

-----------------------------------------------------------------------------
(* Properties. *)

Settled ==
  /\ ui = "idle" /\ pump = "idle"
  /\ sent = <<>> /\ answers = <<>> /\ incoming = <<>>

\* Once nothing is under way, the relay, the client and the file know the user by the
\* same callsign, under the same account, however the two goroutines' saves and the
\* answers have interleaved and after any number of renames, switches and restarts:
\* as long as the relay refused nothing and no request of one kind was made before the
\* answer to one of another kind.
CallsignAgrees ==
  Settled /\ ~refused /\ ~hasty /\ relayNick # NoNick =>
    /\ nick = relayNick
    /\ file = [account |-> mainId.account, nick |-> relayNick]

\* An account is for ever: no second one is created without a reset, and the client
\* never refuses to start unless a process ended in the middle of a save or two saves
\* of different callsigns overlapped.
IdentitySurvives ==
  /\ born <= 1 + resets
  /\ lockedOut => torn \/ clash
=============================================================================
