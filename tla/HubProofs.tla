------------------------------ MODULE HubProofs ------------------------------
(* Proofs about Hub, for any number of connections, nicknames and rooms. *)
EXTENDS Hub, TLAPS

-----------------------------------------------------------------------------
(* What the shared operators return. *)

\* Only the members of the room are sent a list: it names the members of that room.
LEMMA ListSentIs ==
  ASSUME NEW before, NEW r, NEW mem, NEW nicks, NEW full, NEW d \in Client
  PROVE  /\ d \in mem[r] /\ ~closed[d]
              => ListSent(before, r, mem, nicks, full)[d]
                   \in {NoList, [room |-> r, users |-> {nicks[e] : e \in mem[r]}]}
         /\ d \notin mem[r] \/ closed[d]
              => ListSent(before, r, mem, nicks, full)[d] = before[d]
BY DEF ListSent

\* User lists keep their shape through broadcastUserList.
LEMMA ListSentType ==
  ASSUME NEW before \in [Client -> UserList \cup {NoList}], NEW r \in Room,
         NEW mem \in [Room -> SUBSET Client],
         NEW nicks \in [Client -> Nick \cup {NoNick}], NEW full
  PROVE  ListSent(before, r, mem, nicks, full) \in [Client -> UserList \cup {NoList}]
<1>1. {nicks[e] : e \in mem[r]} \in SUBSET (Nick \cup {NoNick})
  OBVIOUS
<1>2. [room |-> r, users |-> {nicks[e] : e \in mem[r]}] \in UserList
  BY <1>1 DEF UserList
<1> QED
  BY <1>2 DEF ListSent

\* Leaving takes the client out of every member set and touches nobody else.
LEMMA LeftIs ==
  ASSUME TypeOK, MembersInPlace, NEW c \in Client
  PROVE  /\ Left(c) \in [Room -> SUBSET Client]
         /\ \A r \in Room : c \notin Left(c)[r]
         /\ \A r \in Room : Left(c)[r] = members[r] \ {c}
<1>1. Left(c) \in [Room -> SUBSET Client]
  BY DEF TypeOK, Left
<1>2. \A r \in Room : c \in members[r] => r = currentRoom[c] /\ r \in rooms
  BY DEF MembersInPlace
<1> QED
  BY <1>1, <1>2 DEF Left, TypeOK

\* The lists sent about a departure: the members of the old room hear of it, nobody
\* else hears anything, and the leaver starts afresh.
LEMMA LeftHeardIs ==
  ASSUME TypeOK, MembersInPlace, NEW c \in Client,
         NEW nicks \in [Client -> Nick \cup {NoNick}], NEW full
  PROVE  /\ LeftHeard(c, nicks, full) \in [Client -> UserList \cup {NoList}]
         /\ \A r \in Room : \A d \in members[r] \ {c} : ~closed[d] =>
              LeftHeard(c, nicks, full)[d] \in
                {NoList} \cup
                (IF r = currentRoom[c]
                 THEN {[room |-> r, users |-> {nicks[e] : e \in Left(c)[r]}]}
                 ELSE {heard[d]})
<1> DEFINE before == [heard EXCEPT ![c] = NoList]
<1>1. before \in [Client -> UserList \cup {NoList}]
  BY DEF TypeOK
<1>2. Left(c) \in [Room -> SUBSET Client] /\ \A r \in Room : Left(c)[r] = members[r] \ {c}
  BY LeftIs
<1>3. rooms \subseteq Room /\ members \in [Room -> SUBSET Client]
  BY DEF TypeOK
<1>4. \A d \in Client : d # c => before[d] = heard[d]
  BY DEF TypeOK
<1> HIDE DEF before
<1>5. CASE currentRoom[c] \in rooms
  <2>1. LeftHeard(c, nicks, full) = ListSent(before, currentRoom[c], Left(c), nicks, full)
    BY <1>5 DEF LeftHeard, before
  <2>2. LeftHeard(c, nicks, full) \in [Client -> UserList \cup {NoList}]
    BY <1>1, <1>2, <1>3, <1>5, <2>1, ListSentType
  <2>3. ASSUME NEW r \in Room, NEW d \in members[r] \ {c}, ~closed[d]
        PROVE  LeftHeard(c, nicks, full)[d] \in
                 {NoList} \cup
                 (IF r = currentRoom[c]
                  THEN {[room |-> r, users |-> {nicks[e] : e \in Left(c)[r]}]}
                  ELSE {heard[d]})
    <3>1. d \in Client /\ d # c
      BY <1>3, <2>3
    <3>2. CASE r = currentRoom[c]
      <4>1. d \in Left(c)[r]
        BY <1>2, <2>3
      <4>2. ListSent(before, r, Left(c), nicks, full)[d]
              \in {NoList, [room |-> r, users |-> {nicks[e] : e \in Left(c)[r]}]}
        BY <2>3, <3>1, <4>1, ListSentIs
      <4>3. LeftHeard(c, nicks, full) = ListSent(before, r, Left(c), nicks, full)
        BY <2>1, <3>2
      <4> QED
        BY <3>2, <4>2, <4>3
    <3>3. CASE r # currentRoom[c]
      <4>1. d \notin members[currentRoom[c]]
        BY <1>3, <1>5, <2>3, <3>3 DEF MembersInPlace
      <4>2. d \notin Left(c)[currentRoom[c]]
        BY <1>2, <1>3, <1>5, <4>1
      <4> QED
        BY <1>4, <2>1, <3>1, <3>3, <4>2, ListSentIs
    <3> QED
      BY <3>2, <3>3
  <2> QED
    BY <2>2, <2>3
<1>6. CASE currentRoom[c] \notin rooms
  <2>1. LeftHeard(c, nicks, full) = before
    BY <1>6 DEF LeftHeard, before
  <2>2. \A r \in Room : \A d \in members[r] \ {c} : r # currentRoom[c] \/ r \notin rooms
    BY <1>6
  <2>3. \A r \in Room : \A d \in members[r] \ {c} : r \in rooms
    BY DEF MembersInPlace
  <2> QED
    BY <1>1, <1>3, <1>4, <2>1, <2>2, <2>3
<1> QED
  BY <1>5, <1>6

-----------------------------------------------------------------------------
(* joinRoomInternal, whatever it was called for. *)

LEMMA JoinRoomInternalKeeps ==
  ASSUME TypeOK, MembersInPlace, PresenceAccurate,
         NEW c \in Client, conn[c] = "open",
         NEW r \in Room, NEW password \in Password \cup {NoPassword}, NEW full,
         nickname' \in [Client -> Nick \cup {NoNick}],
         \A d \in Client : d # c => nickname'[d] = nickname[d],
         JoinRoomInternal(c, r, password, nickname', full),
         UNCHANGED <<conn, closed>>
  PROVE  /\ rooms' \in SUBSET Room
         /\ secret' \in [Room -> Password \cup {NoPassword}]
         /\ currentRoom' \in [Client -> Room \cup {NoRoom}]
         /\ members' \in [Room -> SUBSET Client]
         /\ heard' \in [Client -> UserList \cup {NoList}]
         /\ MembersInPlace'
         /\ PresenceAccurate'
<1>1. /\ Left(c) \in [Room -> SUBSET Client]
      /\ \A q \in Room : Left(c)[q] = members[q] \ {c}
  BY LeftIs
<1>2. LeftHeard(c, nickname', full) \in [Client -> UserList \cup {NoList}]
  BY LeftHeardIs
<1>3. ASSUME NEW q \in Room, NEW d \in members[q] \ {c}, ~closed[d]
      PROVE  LeftHeard(c, nickname', full)[d] \in
               {NoList, [room |-> q, users |-> {nickname'[e] : e \in Left(c)[q]}]}
  <2>1. CASE q = currentRoom[c]
    BY <1>3, <2>1, LeftHeardIs
  <2>2. CASE q # currentRoom[c]
    <3>1. c \notin members[q]
      BY <2>2 DEF MembersInPlace
    <3>2. Left(c)[q] = members[q]
      <4>1. Left(c)[q] = members[q] \ {c}
        BY <1>1
      <4>2. members[q] \ {c} = members[q]
        BY <3>1
      <4> QED
        BY <4>1, <4>2
    <3>3. {nickname'[e] : e \in Left(c)[q]} = {nickname[e] : e \in members[q]}
      <4>1. \A e \in members[q] : nickname'[e] = nickname[e]
        BY <3>1 DEF TypeOK
      <4> QED
        BY <3>2, <4>1
    <3>4. heard[d] \in {NoList, [room |-> q, users |-> {nickname[e] : e \in members[q]}]}
      BY <1>3 DEF PresenceAccurate
    <3>5. LeftHeard(c, nickname', full)[d] \in {NoList, heard[d]}
      BY <1>3, <2>2, LeftHeardIs
    <3> QED
      BY <3>3, <3>4, <3>5
  <2> QED
    BY <2>1, <2>2
<1>4. \A q \in Room : \A d \in Left(c)[q] :
        /\ d \in Client /\ d # c /\ d \in members[q]
        /\ q \in rooms /\ currentRoom[d] = q /\ conn[d] \in {"open", "ended"}
  BY <1>1 DEF MembersInPlace, TypeOK
<1>5. CASE Admitted(r, password)
  <2>1. /\ members' = [Left(c) EXCEPT ![r] = @ \cup {c}]
        /\ rooms' = rooms \cup {r}
        /\ secret' = IF r \in rooms THEN secret ELSE [secret EXCEPT ![r] = password]
        /\ currentRoom' = [currentRoom EXCEPT ![c] = r]
        /\ heard' = ListSent(LeftHeard(c, nickname', full), r, members', nickname', full)
    BY <1>5 DEF JoinRoomInternal
  <2>2. /\ rooms' \in SUBSET Room
        /\ secret' \in [Room -> Password \cup {NoPassword}]
        /\ currentRoom' \in [Client -> Room \cup {NoRoom}]
    BY <2>1 DEF TypeOK
  <2>3. /\ members' \in [Room -> SUBSET Client]
        /\ members'[r] = Left(c)[r] \cup {c}
        /\ \A q \in Room : q # r => members'[q] = Left(c)[q]
    BY <1>1, <2>1
  <2>4. heard' \in [Client -> UserList \cup {NoList}]
    BY <1>2, <2>1, <2>3, ListSentType
  <2>5. MembersInPlace'
    <3> SUFFICES ASSUME NEW q \in Room, NEW d \in members'[q]
                 PROVE  q \in rooms' /\ currentRoom'[d] = q /\ conn'[d] \in {"open", "ended"}
      BY DEF MembersInPlace
    <3>1. CASE d = c
      <4>1. q = r
        BY <1>4, <2>3, <3>1
      <4> QED
        BY <2>1, <3>1, <4>1 DEF TypeOK
    <3>2. CASE d # c
      <4>1. d \in Left(c)[q]
        BY <2>3, <3>2
      <4> QED
        BY <1>4, <2>1, <3>2, <4>1 DEF TypeOK
    <3> QED
      BY <3>1, <3>2
  <2>6. PresenceAccurate'
    <3> SUFFICES ASSUME NEW q \in Room, NEW d \in members'[q], ~closed[d]
                 PROVE  heard'[d] \in
                          {NoList, [room |-> q, users |-> {nickname'[e] : e \in members'[q]}]}
      BY DEF PresenceAccurate
    <3>1. d \in Client
      BY <2>3
    <3>2. CASE q = r
      <4>1. ListSent(LeftHeard(c, nickname', full), r, members', nickname', full)[d]
              \in {NoList, [room |-> r, users |-> {nickname'[e] : e \in members'[r]}]}
        BY <3>1, <3>2, ListSentIs
      <4> QED
        BY <2>1, <3>2, <4>1
    <3>3. CASE q # r
      <4>1. d \in Left(c)[q] /\ members'[q] = Left(c)[q]
        BY <2>3, <3>3
      <4>2. d \notin members'[r]
        BY <1>4, <2>3, <3>3, <4>1
      <4>3. heard'[d] = LeftHeard(c, nickname', full)[d]
        <5>1. ListSent(LeftHeard(c, nickname', full), r, members', nickname', full)[d]
                = LeftHeard(c, nickname', full)[d]
          BY <3>1, <4>2, ListSentIs
        <5> QED
          BY <2>1, <5>1
      <4>4. d \in members[q] \ {c}
        BY <1>4, <4>1
      <4> QED
        BY <1>3, <4>1, <4>3, <4>4
    <3> QED
      BY <3>2, <3>3
  <2> QED
    BY <2>2, <2>3, <2>4, <2>5, <2>6
<1>6. CASE ~Admitted(r, password)
  <2>1. /\ members' = Left(c)
        /\ heard' = LeftHeard(c, nickname', full)
        /\ UNCHANGED <<rooms, secret, currentRoom>>
    BY <1>6 DEF JoinRoomInternal
  <2>2. MembersInPlace'
    BY <1>4, <2>1 DEF MembersInPlace
  <2>3. PresenceAccurate'
    BY <1>3, <1>4, <2>1 DEF PresenceAccurate
  <2> QED
    BY <1>1, <1>2, <2>1, <2>2, <2>3 DEF TypeOK
<1> QED
  BY <1>5, <1>6

-----------------------------------------------------------------------------
(* The nick map. *)

\* Lower-case nicknames are nicknames.
LEMMA LowerIs == \A n \in Nick : Lower[n] \in Nick
BY HubAssumption

\* NewHub's state satisfies the invariant.
LEMMA Established == Init => HubInv
<1> SUFFICES ASSUME Init PROVE HubInv
  OBVIOUS
<1>1. TypeOK
  BY HubAssumption DEF Init, TypeOK
<1>2. Registered /\ NickOwner /\ MembersInPlace /\ PresenceAccurate
  BY HubAssumption DEF Init, Registered, NickOwner, MembersInPlace, PresenceAccurate
<1> QED
  BY <1>1, <1>2 DEF HubInv

\* Handing a connection over and recording it, closing it and its reader's end.
LEMMA ConnectionSteps ==
  ASSUME HubInv,
         \/ RecordRegistration
         \/ \E c \in Client :
              \/ Accept(c) \/ Close(c) \/ ReadEnds(c)
              \/ \E p \in Password \cup {NoPassword} : AuthFails(c, p)
  PROVE  HubInv'
<1> USE DEF HubInv
<1>1. CASE RecordRegistration
  <2>1. TypeOK'
    BY <1>1 DEF TypeOK, RecordRegistration
  <2>2. Registered'
    BY <1>1, HubAssumption DEF Registered, TypeOK, RecordRegistration
  <2>3. NickOwner' /\ MembersInPlace' /\ PresenceAccurate'
    BY <1>1 DEF NickOwner, MembersInPlace, PresenceAccurate, RecordRegistration
  <2> QED
    BY <2>1, <2>2, <2>3
<1>2. ASSUME NEW c \in Client, Accept(c) PROVE HubInv'
  <2>1. TypeOK'
    BY <1>2 DEF TypeOK, Accept
  <2>2. Registered'
    BY <1>2, HubAssumption DEF Registered, TypeOK, Accept
  <2>3. NickOwner' /\ MembersInPlace' /\ PresenceAccurate'
    BY <1>2 DEF NickOwner, MembersInPlace, PresenceAccurate, TypeOK, Accept
  <2> QED
    BY <2>1, <2>2, <2>3
<1>3. ASSUME NEW c \in Client, closed' = [closed EXCEPT ![c] = TRUE],
             UNCHANGED <<conn, arriving, clients, nickname, currentRoom,
                         clientsByNick, rooms, secret, members, heard>>
      PROVE  HubInv'
  <2>1. TypeOK'
    BY <1>3 DEF TypeOK
  <2>2. Registered' /\ NickOwner' /\ MembersInPlace'
    BY <1>3 DEF Registered, NickOwner, MembersInPlace
  <2>3. \A d \in Client : ~closed'[d] => ~closed[d]
    BY <1>3 DEF TypeOK
  <2>4. PresenceAccurate'
    BY <1>3, <2>3 DEF PresenceAccurate, TypeOK
  <2> QED
    BY <2>1, <2>2, <2>4
<1>4. ASSUME NEW c \in Client, ReadEnds(c) PROVE HubInv'
  <2>1. TypeOK'
    BY <1>4 DEF TypeOK, ReadEnds
  <2>2. Registered'
    BY <1>4 DEF Registered, TypeOK, ReadEnds
  <2>3. NickOwner' /\ MembersInPlace' /\ PresenceAccurate'
    BY <1>4 DEF NickOwner, MembersInPlace, PresenceAccurate, TypeOK, ReadEnds
  <2> QED
    BY <2>1, <2>2, <2>3
<1> QED
  BY <1>1, <1>2, <1>3, <1>4 DEF Close, AuthFails

\* handleAuth: the free entry it takes is nobody's present callsign.
LEMMA AuthStep ==
  ASSUME HubInv, NEW c \in Client, NEW n \in Nick,
         NEW p \in Password \cup {NoPassword}, NEW full, Auth(c, n, p, full)
  PROVE  HubInv'
<1> USE DEF HubInv
<1>1. /\ conn[c] = "open"
      /\ clientsByNick[Lower[n]] = NoClient
      /\ nickname' = [nickname EXCEPT ![c] = n]
      /\ clientsByNick' = [clientsByNick EXCEPT ![Lower[n]] = c]
      /\ JoinRoomInternal(c, General, NoPassword, nickname', full)
      /\ UNCHANGED <<conn, closed, arriving, clients>>
  BY DEF Auth
<1>2. /\ nickname' \in [Client -> Nick \cup {NoNick}]
      /\ \A d \in Client : d # c => nickname'[d] = nickname[d]
      /\ clientsByNick' \in [Nick -> Client \cup {NoClient}]
  BY <1>1 DEF TypeOK
<1>3. General \in Room
  BY HubAssumption
<1>4. TypeOK' /\ MembersInPlace' /\ PresenceAccurate'
  <2>1. /\ rooms' \in SUBSET Room
        /\ secret' \in [Room -> Password \cup {NoPassword}]
        /\ currentRoom' \in [Client -> Room \cup {NoRoom}]
        /\ members' \in [Room -> SUBSET Client]
        /\ heard' \in [Client -> UserList \cup {NoList}]
        /\ MembersInPlace'
        /\ PresenceAccurate'
    BY <1>1, <1>2, <1>3, JoinRoomInternalKeeps
  <2> QED
    BY <1>1, <1>2, <2>1 DEF TypeOK
<1>5. Registered'
  BY <1>1 DEF Registered
<1>6. NickOwner'
  <2> SUFFICES ASSUME NEW d \in Client, conn[d] # "gone", nickname'[d] # NoNick
               PROVE  clientsByNick'[Lower[nickname'[d]]] = d
    BY <1>1 DEF NickOwner
  <2>1. CASE d = c
    BY <1>1, <2>1, LowerIs DEF TypeOK
  <2>2. CASE d # c
    <3>1. clientsByNick[Lower[nickname[d]]] = d /\ nickname'[d] = nickname[d]
      BY <1>2, <2>2 DEF NickOwner
    <3>2. nickname[d] \in Nick /\ Lower[nickname[d]] \in Nick
      BY <1>2, <3>1, LowerIs DEF TypeOK
    <3>3. Lower[nickname[d]] # Lower[n]
      BY <1>1, <3>1, HubAssumption
    <3> QED
      BY <1>1, <3>1, <3>2, <3>3 DEF TypeOK
  <2> QED
    BY <2>1, <2>2
<1> QED
  BY <1>4, <1>5, <1>6

\* handleJoinRoom and handleLeaveRoom.
LEMMA JoinStep ==
  ASSUME HubInv, NEW c \in Client, NEW r \in Room,
         NEW p \in Password \cup {NoPassword}, NEW full,
         conn[c] = "open",
         JoinRoomInternal(c, r, p, nickname, full),
         UNCHANGED <<conn, closed, arriving, clients, nickname, clientsByNick>>
  PROVE  HubInv'
<1> USE DEF HubInv
<1>1. JoinRoomInternal(c, r, p, nickname', full)
  OBVIOUS
<1>2. nickname' \in [Client -> Nick \cup {NoNick}]
  BY DEF TypeOK
<1>3. /\ rooms' \in SUBSET Room
      /\ secret' \in [Room -> Password \cup {NoPassword}]
      /\ currentRoom' \in [Client -> Room \cup {NoRoom}]
      /\ members' \in [Room -> SUBSET Client]
      /\ heard' \in [Client -> UserList \cup {NoList}]
      /\ MembersInPlace'
      /\ PresenceAccurate'
  BY <1>1, <1>2, JoinRoomInternalKeeps
<1>4. TypeOK'
  BY <1>3 DEF TypeOK
<1>5. Registered' /\ NickOwner'
  BY DEF Registered, NickOwner
<1> QED
  BY <1>3, <1>4, <1>5

\* handleSetNick: the client gives up its own entry before it takes the new one, and
\* its room hears the new name.
LEMMA SetNickStep ==
  ASSUME HubInv, NEW c \in Client, NEW n \in Nick, NEW full, SetNick(c, n, full)
  PROVE  HubInv'
<1> USE DEF HubInv
<1>1. /\ conn[c] = "open"
      /\ \/ clientsByNick[Lower[n]] = NoClient
         \/ nickname[c] # NoNick /\ Lower[n] = Lower[nickname[c]]
      /\ clientsByNick' = [WithoutNick(c) EXCEPT ![Lower[n]] = c]
      /\ nickname' = [nickname EXCEPT ![c] = n]
      /\ heard' = IF currentRoom[c] \in rooms
                  THEN ListSent(heard, currentRoom[c], members, nickname', full)
                  ELSE heard
      /\ UNCHANGED <<conn, closed, arriving, clients, currentRoom, rooms, secret, members>>
  BY DEF SetNick
<1>2. /\ nickname' \in [Client -> Nick \cup {NoNick}]
      /\ nickname'[c] = n
      /\ \A d \in Client : d # c => nickname'[d] = nickname[d]
  BY <1>1 DEF TypeOK
<1>3. WithoutNick(c) \in [Nick -> Client \cup {NoClient}]
  BY DEF TypeOK, WithoutNick
<1>4. rooms \subseteq Room /\ members \in [Room -> SUBSET Client]
  BY DEF TypeOK
<1>5. TypeOK'
  <2>1. heard' \in [Client -> UserList \cup {NoList}]
    BY <1>1, <1>2, <1>4, ListSentType DEF TypeOK
  <2>2. clientsByNick' \in [Nick -> Client \cup {NoClient}]
    BY <1>1, <1>3
  <2> QED
    BY <1>1, <1>2, <2>1, <2>2 DEF TypeOK
<1>6. Registered' /\ MembersInPlace'
  BY <1>1 DEF Registered, MembersInPlace
<1>7. NickOwner'
  <2> SUFFICES ASSUME NEW d \in Client, conn[d] # "gone", nickname'[d] # NoNick
               PROVE  clientsByNick'[Lower[nickname'[d]]] = d
    BY <1>1 DEF NickOwner
  <2>1. CASE d = c
    BY <1>1, <1>2, <1>3, <2>1, LowerIs
  <2>2. CASE d # c
    <3>1. nickname'[d] = nickname[d] /\ clientsByNick[Lower[nickname[d]]] = d
      BY <1>2, <2>2 DEF NickOwner
    <3>2. nickname[d] \in Nick /\ Lower[nickname[d]] \in Nick
      BY <1>2, <3>1, LowerIs DEF TypeOK
    <3>3. nickname[c] # NoNick => clientsByNick[Lower[nickname[c]]] = c
      BY <1>1 DEF NickOwner
    <3>4. Lower[nickname[d]] # Lower[n]
      BY <1>1, <2>2, <3>1, <3>3, HubAssumption
    <3>5. ~(nickname[c] # NoNick /\ Lower[nickname[d]] = Lower[nickname[c]])
      BY <2>2, <3>1, <3>3
    <3>6. WithoutNick(c)[Lower[nickname[d]]] = d
      BY <3>1, <3>2, <3>5 DEF WithoutNick
    <3> QED
      BY <1>1, <1>3, <3>1, <3>2, <3>4, <3>6
  <2> QED
    BY <2>1, <2>2
<1>8. PresenceAccurate'
  <2> SUFFICES ASSUME NEW q \in Room, NEW d \in members[q], ~closed[d]
               PROVE  heard'[d] \in
                        {NoList, [room |-> q, users |-> {nickname'[e] : e \in members[q]}]}
    BY <1>1 DEF PresenceAccurate
  <2>1. d \in Client /\ q \in rooms
    BY <1>4 DEF MembersInPlace
  <2>2. CASE q = currentRoom[c]
    <3>1. heard' = ListSent(heard, q, members, nickname', full)
      BY <1>1, <2>1, <2>2
    <3>2. ListSent(heard, q, members, nickname', full)[d]
            \in {NoList, [room |-> q, users |-> {nickname'[e] : e \in members[q]}]}
      BY <2>1, ListSentIs
    <3> QED
      BY <3>1, <3>2
  <2>3. CASE q # currentRoom[c]
    <3>1. c \notin members[q]
      BY <2>3 DEF MembersInPlace
    <3>2. \A e \in members[q] : nickname'[e] = nickname[e]
      BY <1>2, <1>4, <3>1
    <3>3. {nickname'[e] : e \in members[q]} = {nickname[e] : e \in members[q]}
      BY <3>2
    <3>4. heard'[d] = heard[d]
      <4>1. ASSUME currentRoom[c] \in rooms
            PROVE  ListSent(heard, currentRoom[c], members, nickname', full)[d] = heard[d]
        <5>1. d \notin members[currentRoom[c]]
          BY <1>4, <2>3, <4>1 DEF MembersInPlace
        <5> QED
          BY <2>1, <5>1, ListSentIs
      <4> QED
        BY <1>1, <4>1
    <3>5. heard[d] \in {NoList, [room |-> q, users |-> {nickname[e] : e \in members[q]}]}
      BY DEF PresenceAccurate
    <3> QED
      BY <3>3, <3>4, <3>5
  <2> QED
    BY <2>2, <2>3
<1> QED
  BY <1>5, <1>6, <1>7, <1>8

\* handleDisconnect: the member sets, the nick map and the others' lists forget it.
LEMMA DisconnectStep ==
  ASSUME HubInv, NEW c \in Client, NEW full, HandleDisconnect(c, full)
  PROVE  HubInv'
<1> USE DEF HubInv
<1>1. /\ conn[c] = "ended"
      /\ arriving = NoClient
      /\ conn' = [conn EXCEPT ![c] = "gone"]
      /\ clients' = clients \ {c}
      /\ clientsByNick' = WithoutNick(c)
      /\ members' = Left(c)
      /\ heard' = LeftHeard(c, nickname, full)
      /\ UNCHANGED <<closed, arriving, nickname, currentRoom, rooms, secret>>
  BY DEF HandleDisconnect
<1>2. /\ Left(c) \in [Room -> SUBSET Client]
      /\ \A q \in Room : Left(c)[q] = members[q] \ {c}
  BY LeftIs
<1>3. nickname \in [Client -> Nick \cup {NoNick}]
  BY DEF TypeOK
<1>4. TypeOK'
  <2>1. LeftHeard(c, nickname, full) \in [Client -> UserList \cup {NoList}]
    BY <1>3, LeftHeardIs
  <2>2. WithoutNick(c) \in [Nick -> Client \cup {NoClient}]
    BY DEF TypeOK, WithoutNick
  <2> QED
    BY <1>1, <1>2, <2>1, <2>2 DEF TypeOK
<1>5. Registered'
  BY <1>1, HubAssumption DEF Registered, TypeOK
<1>6. NickOwner'
  <2> SUFFICES ASSUME NEW d \in Client, conn'[d] # "gone", nickname[d] # NoNick
               PROVE  WithoutNick(c)[Lower[nickname[d]]] = d
    BY <1>1 DEF NickOwner
  <2>1. d # c /\ conn[d] # "gone"
    BY <1>1 DEF TypeOK
  <2>2. clientsByNick[Lower[nickname[d]]] = d /\ Lower[nickname[d]] \in Nick
    BY <1>3, <2>1, LowerIs DEF NickOwner
  <2>3. nickname[c] # NoNick => clientsByNick[Lower[nickname[c]]] = c
    BY <1>1 DEF NickOwner
  <2> QED
    BY <2>1, <2>2, <2>3 DEF WithoutNick
<1>7. MembersInPlace'
  BY <1>1, <1>2 DEF MembersInPlace, TypeOK
<1>8. PresenceAccurate'
  <2> SUFFICES ASSUME NEW q \in Room, NEW d \in members[q] \ {c}, ~closed[d]
               PROVE  LeftHeard(c, nickname, full)[d] \in
                        {NoList, [room |-> q, users |-> {nickname[e] : e \in Left(c)[q]}]}
    BY <1>1, <1>2 DEF PresenceAccurate
  <2>1. CASE q = currentRoom[c]
    BY <1>3, <2>1, LeftHeardIs
  <2>2. CASE q # currentRoom[c]
    <3>1. c \notin members[q]
      BY <2>2 DEF MembersInPlace
    <3>2. members[q] \ {c} = members[q]
      BY <3>1
    <3>3. Left(c)[q] = members[q]
      BY <1>2, <3>2
    <3>4. heard[d] \in {NoList, [room |-> q, users |-> {nickname[e] : e \in members[q]}]}
      BY DEF PresenceAccurate
    <3>5. LeftHeard(c, nickname, full)[d] \in {NoList, heard[d]}
      BY <1>3, <2>2, LeftHeardIs
    <3> QED
      BY <3>3, <3>4, <3>5
  <2> QED
    BY <2>1, <2>2
<1> QED
  BY <1>4, <1>5, <1>6, <1>7, <1>8

-----------------------------------------------------------------------------
(* The theorems. *)

\* Every step of every goroutine keeps the invariant.
LEMMA Preserved == HubInv /\ [Next]_vars => HubInv'
<1> SUFFICES ASSUME HubInv, [Next]_vars PROVE HubInv'
  OBVIOUS
<1>1. CASE UNCHANGED vars
  BY <1>1 DEF vars, HubInv, TypeOK, Registered, NickOwner, MembersInPlace, PresenceAccurate
<1>2. ASSUME NEW c \in Client, NEW full \in SUBSET Listening, Request(c, full)
      PROVE  HubInv'
  <2>1. ASSUME NEW n \in Nick, NEW p \in Password \cup {NoPassword}, Auth(c, n, p, full)
        PROVE  HubInv'
    BY <2>1, AuthStep
  <2>2. ASSUME NEW r \in Room, NEW p \in Password \cup {NoPassword}, JoinRoom(c, r, p, full)
        PROVE  HubInv'
    BY <2>2, JoinStep DEF JoinRoom
  <2>3. CASE LeaveRoom(c, full)
    <3>1. General \in Room
      BY HubAssumption
    <3> QED
      BY <2>3, <3>1, JoinStep DEF LeaveRoom
  <2>4. ASSUME NEW n \in Nick, SetNick(c, n, full) PROVE HubInv'
    BY <2>4, SetNickStep
  <2> QED
    BY <1>2, <2>1, <2>2, <2>3, <2>4 DEF Request
<1>3. ASSUME NEW c \in Client, NEW full \in SUBSET Listening, HandleDisconnect(c, full)
      PROVE  HubInv'
  BY <1>3, DisconnectStep
<1> QED
  BY <1>1, <1>2, <1>3, ConnectionSteps DEF Next

\* The hub's maps agree in every reachable state.
THEOREM Invariance == Spec => []HubInv
BY Established, Preserved, PTL DEF Spec

\* The maps, fields and lists keep their shapes.
THEOREM TypeCorrect == Spec => []TypeOK
<1>1. HubInv => TypeOK
  BY DEF HubInv
<1> QED
  BY Invariance, <1>1, PTL

\* A connected client that has a callsign is the only one to be found under it.
THEOREM OneOwnerPerNick == Spec => []NickOwner
<1>1. HubInv => NickOwner
  BY DEF HubInv
<1> QED
  BY Invariance, <1>1, PTL

\* Nobody is in two rooms, in a room that does not exist or in a room after leaving.
THEOREM OneRoomPerClient == Spec => []MembersInPlace
<1>1. HubInv => MembersInPlace
  BY DEF HubInv
<1> QED
  BY Invariance, <1>1, PTL

\* What a member was last told of its room is true, unless it was dropped.
THEOREM PresenceIsTrue == Spec => []PresenceAccurate
<1>1. HubInv => PresenceAccurate
  BY DEF HubInv
<1> QED
  BY Invariance, <1>1, PTL

\* Run knows the connections it was handed, and no other.
THEOREM RunKnows == Spec => []Registered
<1>1. HubInv => Registered
  BY DEF HubInv
<1> QED
  BY Invariance, <1>1, PTL

\* A callsign is given up before another client gets it.
THEOREM NoNickTheft == Spec => NickHandover
<1>1. HubInv /\ [Next]_vars =>
        [\A n \in Nick : clientsByNick[n] # NoClient
                           => clientsByNick'[n] \in {clientsByNick[n], NoClient}]_vars
  <2> SUFFICES ASSUME HubInv, Next, NEW n \in Nick, clientsByNick[n] # NoClient
               PROVE  clientsByNick'[n] \in {clientsByNick[n], NoClient}
    OBVIOUS
  <2>0. clientsByNick \in [Nick -> Client \cup {NoClient}]
    BY DEF HubInv, TypeOK
  <2>1. ASSUME NEW c \in Client, NEW m \in Nick, NEW p, NEW full, Auth(c, m, p, full)
        PROVE  clientsByNick'[n] = clientsByNick[n]
    BY <2>0, <2>1, LowerIs DEF Auth
  <2>2. ASSUME NEW c \in Client, NEW m \in Nick, NEW full, SetNick(c, m, full)
        PROVE  clientsByNick'[n] \in {clientsByNick[n], NoClient}
    <3>1. /\ conn[c] = "open"
          /\ \/ clientsByNick[Lower[m]] = NoClient
             \/ nickname[c] # NoNick /\ Lower[m] = Lower[nickname[c]]
          /\ clientsByNick' = [WithoutNick(c) EXCEPT ![Lower[m]] = c]
      BY <2>2 DEF SetNick
    <3>2. CASE n = Lower[m]
      <4>1. clientsByNick[n] = c
        BY <3>1, <3>2 DEF HubInv, NickOwner
      <4> QED
        BY <3>1, <3>2, <4>1 DEF WithoutNick
    <3>3. CASE n # Lower[m]
      BY <3>1, <3>3 DEF WithoutNick
    <3> QED
      BY <3>2, <3>3
  <2>3. ASSUME NEW c \in Client, NEW full, HandleDisconnect(c, full)
        PROVE  clientsByNick'[n] \in {clientsByNick[n], NoClient}
    BY <2>3 DEF HandleDisconnect, WithoutNick
  <2>4. ASSUME NEW c \in Client, NEW full,
               \/ \E r \in Room, p \in Password \cup {NoPassword} : JoinRoom(c, r, p, full)
               \/ LeaveRoom(c, full)
        PROVE  clientsByNick'[n] = clientsByNick[n]
    BY <2>4 DEF JoinRoom, LeaveRoom
  <2>5. ASSUME \/ RecordRegistration
               \/ \E c \in Client :
                    \/ Accept(c) \/ Close(c) \/ ReadEnds(c)
                    \/ \E p \in Password \cup {NoPassword} : AuthFails(c, p)
        PROVE  clientsByNick'[n] = clientsByNick[n]
    BY <2>5 DEF RecordRegistration, Accept, Close, ReadEnds, AuthFails
  <2> QED
    BY <2>1, <2>2, <2>3, <2>4, <2>5 DEF Next, Request
<1> QED
  BY Invariance, <1>1, PTL DEF Spec, NickHandover

\* Rooms and their passwords are for ever.
THEOREM SecretsAreFixed == Spec => RoomSecretFixed
<1>1. HubInv /\ [Next]_vars => [\A r \in rooms : r \in rooms' /\ secret'[r] = secret[r]]_vars
  <2> SUFFICES ASSUME HubInv, Next, NEW r \in rooms
               PROVE  r \in rooms' /\ secret'[r] = secret[r]
    OBVIOUS
  <2>1. ASSUME NEW c \in Client, NEW q, NEW p, NEW full,
               JoinRoomInternal(c, q, p, nickname, full)
                 \/ JoinRoomInternal(c, q, p, nickname', full)
        PROVE  r \in rooms' /\ secret'[r] = secret[r]
    <3>1. secret \in [Room -> Password \cup {NoPassword}] /\ r \in Room
      BY DEF HubInv, TypeOK
    <3> QED
      BY <2>1, <3>1 DEF JoinRoomInternal
  <2>2. ASSUME NEW c \in Client, NEW full, Request(c, full)
        PROVE  r \in rooms' /\ secret'[r] = secret[r]
    BY <2>1, <2>2 DEF Request, Auth, JoinRoom, LeaveRoom, SetNick
  <2>3. ASSUME NEW c \in Client, NEW full, HandleDisconnect(c, full)
        PROVE  r \in rooms' /\ secret'[r] = secret[r]
    BY <2>3 DEF HandleDisconnect
  <2>4. ASSUME \/ RecordRegistration
               \/ \E c \in Client :
                    \/ Accept(c) \/ Close(c) \/ ReadEnds(c)
                    \/ \E p \in Password \cup {NoPassword} : AuthFails(c, p)
        PROVE  r \in rooms' /\ secret'[r] = secret[r]
    BY <2>4 DEF RecordRegistration, Accept, Close, ReadEnds, AuthFails
  <2> QED
    BY <2>2, <2>3, <2>4 DEF Next
<1> QED
  BY Invariance, <1>1, PTL DEF Spec, RoomSecretFixed

-----------------------------------------------------------------------------
(* Hub implements Presence. *)

\* #general exists and is open: NewHub makes it so and no step changes a password.
LobbyOpen == General \in rooms /\ secret[General] = NoPassword

\* A login is never refused the room it leads to.
THEOREM LobbyStaysOpen == Spec => []LobbyOpen
<1>1. Init => LobbyOpen
  BY HubAssumption DEF Init, LobbyOpen
<1>2. LobbyOpen /\ [\A r \in rooms : r \in rooms' /\ secret'[r] = secret[r]]_vars => LobbyOpen'
  BY DEF LobbyOpen, vars
<1> QED
  BY <1>1, <1>2, SecretsAreFixed, PTL DEF Spec, RoomSecretFixed

\* NewHub's state is where Presence starts.
LEMMA StartsThere == Init => P!Init
BY DEF Init, P!Init, Here, Callsign, Place

\* joinRoomInternal moves the caller to the room it names, or to none.
LEMMA JoinMoves ==
  ASSUME HubInv, NEW c \in Client, NEW r \in Room, NEW password, NEW nicks, NEW full,
         JoinRoomInternal(c, r, password, nicks, full)
  PROVE  \/ /\ P!Welcome(r, password)
            /\ Place' = [Place EXCEPT ![c] = {r}]
            /\ rooms' = rooms \cup {r}
            /\ secret' = IF r \in rooms THEN secret ELSE [secret EXCEPT ![r] = password]
         \/ /\ ~P!Welcome(r, password)
            /\ Place' = [Place EXCEPT ![c] = {}]
            /\ UNCHANGED <<rooms, secret>>
<1>1. /\ Left(c) \in [Room -> SUBSET Client]
      /\ \A q \in Room : Left(c)[q] = members[q] \ {c}
  BY LeftIs DEF HubInv
<1>2. P!Welcome(r, password) <=> Admitted(r, password)
  BY DEF Admitted, P!Welcome
<1>3. CASE Admitted(r, password)
  <2>1. members' = [Left(c) EXCEPT ![r] = @ \cup {c}]
    BY <1>3 DEF JoinRoomInternal
  <2>2. \A q \in Room, d \in Client :
          d \in members'[q] <=> IF d = c THEN q = r ELSE d \in members[q]
    BY <1>1, <2>1
  <2>3. \A d \in Client : Place'[d] = IF d = c THEN {r} ELSE Place[d]
    BY <2>2 DEF Place
  <2>4. Place' = [Place EXCEPT ![c] = {r}]
    BY <2>3 DEF Place
  <2> QED
    BY <1>2, <1>3, <2>4 DEF JoinRoomInternal
<1>4. CASE ~Admitted(r, password)
  <2>1. members' = Left(c)
    BY <1>4 DEF JoinRoomInternal
  <2>2. \A d \in Client : Place'[d] = IF d = c THEN {} ELSE Place[d]
    BY <1>1, <2>1 DEF Place
  <2>3. Place' = [Place EXCEPT ![c] = {}]
    BY <2>2 DEF Place
  <2> QED
    BY <1>2, <1>4, <2>3 DEF JoinRoomInternal
<1> QED
  BY <1>3, <1>4

\* A free nickname, and the client's own in another spelling, is borne by nobody else.
LEMMA NameIsFree ==
  ASSUME HubInv, NEW c \in Client, NEW n \in Nick,
         conn[c] = "open",
         \/ clientsByNick[Lower[n]] = NoClient
         \/ nickname[c] # NoNick /\ Lower[n] = Lower[nickname[c]],
         nickname' = [nickname EXCEPT ![c] = n],
         conn' = conn
  PROVE  /\ Here' = Here
         /\ \A d \in Client \ {c} : Callsign[d] # Lower[n]
         /\ Callsign' = [Callsign EXCEPT ![c] = Lower[n]]
<1>1. nickname \in [Client -> Nick \cup {NoNick}] /\ Lower[n] \in Nick /\ NoNick \notin Nick
  BY LowerIs, HubAssumption DEF HubInv, TypeOK
<1>2. ASSUME NEW d \in Client, d # c PROVE Callsign[d] # Lower[n]
  <2>1. CASE conn[d] = "gone" \/ nickname[d] = NoNick
    BY <1>1, <2>1 DEF Callsign
  <2>2. CASE conn[d] # "gone" /\ nickname[d] # NoNick
    <3>1. clientsByNick[Lower[nickname[d]]] = d
      BY <2>2 DEF HubInv, NickOwner
    <3>2. nickname[c] # NoNick => clientsByNick[Lower[nickname[c]]] = c
      BY DEF HubInv, NickOwner
    <3>3. Lower[nickname[d]] # Lower[n]
      BY <1>2, <3>1, <3>2, HubAssumption
    <3> QED
      BY <2>2, <3>3 DEF Callsign
  <2> QED
    BY <2>1, <2>2
<1>3. \A d \in Client : Callsign'[d] = IF d = c THEN Lower[n] ELSE Callsign[d]
  BY <1>1 DEF Callsign
<1>4. Callsign' = [Callsign EXCEPT ![c] = Lower[n]]
  <2>1. DOMAIN Callsign = Client /\ Callsign' = [d \in Client |-> Callsign'[d]]
    BY DEF Callsign
  <2> QED
    BY <1>3, <2>1
<1> QED
  BY <1>2, <1>4 DEF Here

-----------------------------------------------------------------------------
(* Each handler. *)

\* Recording, closing and the end of a reader are not seen; accepting is an arrival.
LEMMA ConnectionMaps ==
  ASSUME HubInv,
         \/ RecordRegistration
         \/ \E c \in Client :
              \/ Accept(c) \/ Close(c) \/ ReadEnds(c)
              \/ \E p \in Password \cup {NoPassword} : AuthFails(c, p)
  PROVE  [P!Next]_(P!pvars)
<1>1. ASSUME UNCHANGED <<conn, nickname, rooms, secret, members>>
      PROVE  UNCHANGED P!pvars
  BY <1>1 DEF P!pvars, Here, Callsign, Place
<1>2. ASSUME NEW c \in Client, Accept(c) PROVE P!Arrive(c)
  <2>1. \A d \in Client : Here'[d] = IF d = c THEN "here" ELSE Here[d]
    BY <1>2 DEF Accept, Here, HubInv, TypeOK
  <2>2. Here' = [Here EXCEPT ![c] = "here"] /\ Here[c] = "away"
    BY <1>2, <2>1 DEF Here, Accept
  <2>3. \A d \in Client : conn'[d] = "gone" <=> conn[d] = "gone"
    BY <1>2 DEF Accept, HubInv, TypeOK
  <2>4. Callsign' = Callsign /\ Place' = Place
    BY <1>2, <2>3 DEF Accept, Callsign, Place
  <2> QED
    BY <1>2, <2>2, <2>4 DEF Accept, P!Arrive
<1>3. ASSUME NEW c \in Client, ReadEnds(c) PROVE UNCHANGED P!pvars
  <2>1. \A d \in Client : Here'[d] = Here[d] /\ Callsign'[d] = Callsign[d]
    BY <1>3 DEF ReadEnds, Here, Callsign, HubInv, TypeOK
  <2>2. Here' = Here /\ Callsign' = Callsign
    BY <2>1 DEF Here, Callsign
  <2> QED
    BY <1>3, <2>2 DEF ReadEnds, P!pvars, Place
<1> QED
  BY <1>1, <1>2, <1>3 DEF RecordRegistration, Close, AuthFails, P!Next

\* handleAuth is a login.
LEMMA AuthMaps ==
  ASSUME HubInv, LobbyOpen, NEW c \in Client, NEW n \in Nick, NEW p, NEW full,
         Auth(c, n, p, full)
  PROVE  P!Next
<1>1. /\ conn[c] = "open" /\ conn' = conn
      /\ clientsByNick[Lower[n]] = NoClient
      /\ nickname' = [nickname EXCEPT ![c] = n]
      /\ JoinRoomInternal(c, General, NoPassword, nickname', full)
  BY DEF Auth
<1>2. /\ Here' = Here
      /\ \A d \in Client \ {c} : Callsign[d] # Lower[n]
      /\ Callsign' = [Callsign EXCEPT ![c] = Lower[n]]
  BY <1>1, NameIsFree
<1>3. P!Welcome(General, NoPassword)
  BY DEF LobbyOpen, P!Welcome
<1>4. Place' = [Place EXCEPT ![c] = {General}] /\ UNCHANGED <<rooms, secret>>
  <2>1. General \in Room
    BY HubAssumption
  <2>2. /\ Place' = [Place EXCEPT ![c] = {General}]
        /\ rooms' = rooms \cup {General}
        /\ secret' = IF General \in rooms THEN secret
                     ELSE [secret EXCEPT ![General] = NoPassword]
    BY <1>1, <1>3, <2>1, JoinMoves
  <2> QED
    BY <2>2 DEF LobbyOpen
<1>5. P!LogIn(c, Lower[n])
  BY <1>1, <1>2, <1>4 DEF P!LogIn, P!Bears, Here
<1> QED
  BY <1>5, LowerIs DEF P!Next

\* handleJoinRoom and handleLeaveRoom enter a room or are turned away.
LEMMA JoinMaps ==
  ASSUME HubInv, NEW c \in Client, NEW r \in Room,
         NEW p \in Password \cup {NoPassword}, NEW full,
         conn[c] = "open", UNCHANGED <<conn, nickname>>,
         JoinRoomInternal(c, r, p, nickname, full)
  PROVE  P!Next
<1>1. Here' = Here /\ Callsign' = Callsign /\ Here[c] = "here"
  BY DEF Here, Callsign
<1>2. P!Enter(c, r, p) \/ P!TurnedAway(c, r, p)
  BY <1>1, JoinMoves DEF P!Enter, P!TurnedAway
<1> QED
  BY <1>2 DEF P!Next

\* handleSetNick is a change of name.
LEMMA SetNickMaps ==
  ASSUME HubInv, NEW c \in Client, NEW n \in Nick, NEW full, SetNick(c, n, full)
  PROVE  P!Next
<1>1. /\ conn[c] = "open" /\ conn' = conn
      /\ \/ clientsByNick[Lower[n]] = NoClient
         \/ nickname[c] # NoNick /\ Lower[n] = Lower[nickname[c]]
      /\ nickname' = [nickname EXCEPT ![c] = n]
      /\ UNCHANGED <<rooms, secret, members>>
  BY DEF SetNick
<1>2. /\ Here' = Here
      /\ \A d \in Client \ {c} : Callsign[d] # Lower[n]
      /\ Callsign' = [Callsign EXCEPT ![c] = Lower[n]]
  BY <1>1, NameIsFree
<1>3. P!Rename(c, Lower[n])
  BY <1>1, <1>2 DEF P!Rename, P!Bears, Here, Place
<1> QED
  BY <1>3, LowerIs DEF P!Next

\* handleDisconnect is a departure.
LEMMA DisconnectMaps ==
  ASSUME HubInv, NEW c \in Client, NEW full, HandleDisconnect(c, full)
  PROVE  P!Next
<1>1. /\ conn[c] = "ended"
      /\ conn' = [conn EXCEPT ![c] = "gone"]
      /\ members' = Left(c)
      /\ UNCHANGED <<nickname, rooms, secret>>
  BY DEF HandleDisconnect
<1>2. /\ Left(c) \in [Room -> SUBSET Client]
      /\ \A q \in Room : Left(c)[q] = members[q] \ {c}
  BY LeftIs DEF HubInv
<1>3. \A d \in Client : /\ Here'[d] = IF d = c THEN "left" ELSE Here[d]
                        /\ Callsign'[d] = IF d = c THEN NoNick ELSE Callsign[d]
  BY <1>1 DEF Here, Callsign, HubInv, TypeOK
<1>4. \A d \in Client : Place'[d] = IF d = c THEN {} ELSE Place[d]
  BY <1>1, <1>2 DEF Place
<1>5. /\ Here' = [Here EXCEPT ![c] = "left"]
      /\ Callsign' = [Callsign EXCEPT ![c] = NoNick]
      /\ Place' = [Place EXCEPT ![c] = {}]
  BY <1>3, <1>4 DEF Here, Callsign, Place
<1>6. P!Depart(c)
  BY <1>1, <1>5 DEF P!Depart, Here
<1> QED
  BY <1>6 DEF P!Next

-----------------------------------------------------------------------------
(* The theorem. *)

\* Every step of the hub is a step of Presence or changes nothing Presence speaks of.
LEMMA StepMaps == HubInv /\ LobbyOpen /\ [Next]_vars => [P!Next]_(P!pvars)
<1> SUFFICES ASSUME HubInv, LobbyOpen, [Next]_vars PROVE [P!Next]_(P!pvars)
  OBVIOUS
<1>1. CASE UNCHANGED vars
  BY <1>1 DEF vars, P!pvars, Here, Callsign, Place
<1>2. ASSUME NEW c \in Client, NEW full \in SUBSET Listening, Request(c, full)
      PROVE  P!Next
  <2>1. ASSUME NEW n \in Nick, NEW p \in Password \cup {NoPassword}, Auth(c, n, p, full)
        PROVE  P!Next
    BY <2>1, AuthMaps
  <2>2. ASSUME NEW r \in Room, NEW p \in Password \cup {NoPassword}, JoinRoom(c, r, p, full)
        PROVE  P!Next
    BY <2>2, JoinMaps DEF JoinRoom
  <2>3. CASE LeaveRoom(c, full)
    <3>1. General \in Room
      BY HubAssumption
    <3> QED
      BY <2>3, <3>1, JoinMaps DEF LeaveRoom
  <2>4. ASSUME NEW n \in Nick, SetNick(c, n, full) PROVE P!Next
    BY <2>4, SetNickMaps
  <2> QED
    BY <1>2, <2>1, <2>2, <2>3, <2>4 DEF Request
<1>3. ASSUME NEW c \in Client, NEW full \in SUBSET Listening, HandleDisconnect(c, full)
      PROVE  P!Next
  BY <1>3, DisconnectMaps
<1> QED
  BY <1>1, <1>2, <1>3, ConnectionMaps DEF Next

\* The hub implements Presence: its maps, fields and locks keep the relay's promises.
THEOREM Refinement == Spec => ImplementsPresence
BY StartsThere, StepMaps, Invariance, LobbyStaysOpen, PTL DEF Spec, ImplementsPresence, P!Spec
=============================================================================
