------------------------------- MODULE Presence -------------------------------
(***************************************************************************)
(* What the relay promises its users about each other, without saying how: *)
(* a callsign has one bearer at a time, a user is in one place at a time,  *)
(* a private room is entered with its password, and whoever leaves the     *)
(* relay gives up both.  Hub implements it (ImplementsPresence), with its  *)
(* nick map, member sets and fields in the place of these variables.       *)
(***************************************************************************)
CONSTANTS
  Client, Name, Room, Password,
  Lobby,     \* the room a login leads to, always open
  Starter,   \* the rooms there are at the start, all of them open
  NoName, NoPassword

VARIABLES
  presence,  \* of each client: away, here, left
  callsign,  \* the name a client bears, in lower case, or NoName
  place,     \* the rooms a client is in: none or one
  known,     \* the rooms that exist
  secret     \* the password of a room, NoPassword for an open one

pvars == <<presence, callsign, place, known, secret>>

Init ==
  /\ presence = [c \in Client |-> "away"]
  /\ callsign = [c \in Client |-> NoName]
  /\ place = [c \in Client |-> {}]
  /\ known = Starter
  /\ secret = [r \in Room |-> NoPassword]

Arrive(c) ==
  /\ presence[c] = "away"
  /\ presence' = [presence EXCEPT ![c] = "here"]
  /\ UNCHANGED <<callsign, place, known, secret>>

\* c may call itself n: nobody else does.
Bears(c, n) ==
  /\ presence[c] = "here"
  /\ \A d \in Client \ {c} : callsign[d] # n
  /\ callsign' = [callsign EXCEPT ![c] = n]
  /\ UNCHANGED <<presence, known, secret>>

LogIn(c, n) ==
  /\ Bears(c, n)
  /\ place' = [place EXCEPT ![c] = {Lobby}]

Rename(c, n) ==
  /\ Bears(c, n)
  /\ UNCHANGED place

\* An open room takes everybody, a private one who knows its password, and a room
\* that does not exist yet its founder, whose password it keeps.
Welcome(r, password) == r \in known => secret[r] \in {NoPassword, password}

Enter(c, r, password) ==
  /\ presence[c] = "here"
  /\ Welcome(r, password)
  /\ place' = [place EXCEPT ![c] = {r}]
  /\ known' = known \cup {r}
  /\ secret' = IF r \in known THEN secret ELSE [secret EXCEPT ![r] = password]
  /\ UNCHANGED <<presence, callsign>>

\* Whoever asks for a room and is turned away ends up in none.
TurnedAway(c, r, password) ==
  /\ presence[c] = "here"
  /\ ~Welcome(r, password)
  /\ place' = [place EXCEPT ![c] = {}]
  /\ UNCHANGED <<presence, callsign, known, secret>>

Depart(c) ==
  /\ presence[c] = "here"
  /\ presence' = [presence EXCEPT ![c] = "left"]
  /\ callsign' = [callsign EXCEPT ![c] = NoName]
  /\ place' = [place EXCEPT ![c] = {}]
  /\ UNCHANGED <<known, secret>>

Next ==
  \E c \in Client :
    \/ Arrive(c)
    \/ \E n \in Name : LogIn(c, n) \/ Rename(c, n)
    \/ \E r \in Room, p \in Password \cup {NoPassword} : Enter(c, r, p) \/ TurnedAway(c, r, p)
    \/ Depart(c)

Spec == Init /\ [][Next]_pvars
=============================================================================
