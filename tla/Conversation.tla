----------------------------- MODULE Conversation ------------------------------
(***************************************************************************)
(* What the relay promises those who talk in its rooms, without saying     *)
(* how: a message is said in the room its sender entered last, in the      *)
(* order the sender wrote them; it is heard in that room only, by those    *)
(* who are inside, once it has been said, and at most twice in one stay.   *)
(* RoomFeed implements it (ImplementsConversation), with histories, member *)
(* sets, locks and handlers between saying and hearing.                    *)
(***************************************************************************)
EXTENDS Naturals, Sequences

CONSTANTS Client, Room, Nowhere

VARIABLES
  room,    \* the room a client entered last, Nowhere before the first
  inside,  \* the clients that are still there
  count,   \* how many messages it has said
  said,    \* the messages said in any room
  heard    \* what a client has heard in the present stay, in order

cvars == <<room, inside, count, said, heard>>

Init ==
  /\ room = [c \in Client |-> Nowhere]
  /\ inside = {}
  /\ count = [c \in Client |-> 0]
  /\ said = {}
  /\ heard = [c \in Client |-> <<>>]

Enter(c, r) ==
  /\ c \notin inside
  /\ room' = [room EXCEPT ![c] = r]
  /\ inside' = inside \cup {c}
  /\ UNCHANGED <<count, said, heard>>

Leave(c) ==
  /\ c \in inside
  /\ inside' = inside \ {c}
  /\ heard' = [heard EXCEPT ![c] = <<>>]
  /\ UNCHANGED <<room, count, said>>

\* Who was turned away elsewhere still talks to the room it left, from outside.
Say(c) ==
  /\ room[c] \in Room
  /\ count' = [count EXCEPT ![c] = @ + 1]
  /\ said' = said \cup {[sender |-> c, number |-> count[c] + 1, room |-> room[c]]}
  /\ UNCHANGED <<room, inside, heard>>

\* Said in the room c is in, and heard at most once before.
Hear(c, m) ==
  /\ c \in inside
  /\ m.room = room[c]
  /\ \A i, j \in DOMAIN heard[c] : heard[c][i] = m /\ heard[c][j] = m => i = j
  /\ heard' = [heard EXCEPT ![c] = Append(@, m)]
  /\ UNCHANGED <<room, inside, count, said>>

Next ==
  \E c \in Client :
    \/ \E r \in Room : Enter(c, r)
    \/ Leave(c)
    \/ Say(c)
    \/ \E m \in said : Hear(c, m)

Spec == Init /\ [][Next]_cvars
=============================================================================
