------------------------- MODULE RoomDirectoryProofs -------------------------
(* Proofs about RoomDirectory, for any connections, rooms, topics and requests. *)
EXTENDS RoomDirectory, FiniteSetTheorems, TLAPS

-----------------------------------------------------------------------------
(* Lists. *)

\* One more entry on a list.
LEMMA WithIs ==
  ASSUME NEW l, NEW r, NEW s
  PROVE  /\ DOMAIN With(l, r, s) = DOMAIN l \cup {r}
         /\ With(l, r, s)[r] = s
         /\ \A x \in DOMAIN l \ {r} : With(l, r, s)[x] = l[x]
BY DEF With

\* It is again a list.
LEMMA WithType ==
  ASSUME NEW l \in List, NEW r \in Room, NEW s \in Status
  PROVE  With(l, r, s) \in List
<1>1. PICK d \in SUBSET Room : l \in [d -> Status]
  BY DEF List
<1>2. With(l, r, s) \in [d \cup {r} -> Status]
  BY <1>1 DEF With
<1> QED
  BY <1>1, <1>2 DEF List

\* The empty list is one.
LEMMA NoEntries == <<>> \in List /\ DOMAIN <<>> = {}
<1>1. <<>> \in [{} -> Status] /\ DOMAIN <<>> = {}
  OBVIOUS
<1> QED
  BY <1>1 DEF List

\* Member counts are counts of clients.
LEMMA Counts ==
  ASSUME TypeOK, NEW r \in Room
  PROVE  [topic |-> topic[r], count |-> Cardinality(members[r])] \in Status
<1>1. members[r] \subseteq Client
  BY DEF TypeOK
<1>2. Cardinality(members[r]) \in Nat /\ Cardinality(members[r]) <= Cardinality(Client)
  BY <1>1, FS_Subset, FS_CardinalityType, DirectoryAssumption
<1>3. Cardinality(Client) \in Nat
  BY FS_CardinalityType, DirectoryAssumption
<1> QED
  BY <1>2, <1>3 DEF TypeOK, Status

-----------------------------------------------------------------------------
(* The invariant. *)

\* Who may be where: a login's handler owns h.mu from its first step, and a handler that
\* makes or pushes a list owns it or is handleSetTopic; a topic's race is the only one.
Ordered ==
  /\ \A c \in Client :
       /\ pc[c] # "idle" => c \in connected
       /\ pc[c] = "hello" => owner = c
       /\ pc[c] \in {"list", "push"} => owner = c \/ c \in setting
       /\ pc[c] = "topic" => c \in setting /\ want[c] \in Topic
       /\ c \in setting => pc[c] \in {"topic", "list", "push"}
       /\ pc[c] \in {"idle", "topic"} => list[c] = <<>>
       /\ pc[c] = "push" => due[c] \subseteq clients \cup gone
       /\ c \notin connected => shown[c] = NoList
  /\ OnlyTopicsRace

\* The entries of a list are true, their counts as long as nobody has left in silence.
Fits(l) ==
  \A r \in DOMAIN l :
    /\ l[r].topic = topic[r]
    /\ ~silent => l[r].count = Cardinality(members[r])

\* A client was shown l, or nothing, or has missed a list.
Has(d, l) == shown[d] = NoList \/ missed[d] \/ shown[d] = l

\* What a handler that met no other has made, and whom it has told.
Alone ==
  ~mixed =>
    /\ \A c, d \in Busy : c = d
    /\ \A c \in Client :
         /\ pc[c] = "list" => Fits(list[c]) /\ rooms \subseteq DOMAIN list[c] \cup due[c]
         /\ pc[c] = "push" =>
              /\ Fits(list[c]) /\ DOMAIN list[c] = rooms
              /\ \A d \in connected \ due[c] : Has(d, list[c])
    /\ Busy = {} => \A d \in connected :
         shown[d] = NoList \/ missed[d] \/ (Fits(shown[d]) /\ DOMAIN shown[d] = rooms)

DirInv == TypeOK /\ Ordered /\ Alone

-----------------------------------------------------------------------------
(* Steps. *)

\* The relay starts without clients.
LEMMA Established == Init => DirInv
<1> SUFFICES ASSUME Init PROVE DirInv
  OBVIOUS
<1>1. TypeOK
  BY NoEntries, DirectoryAssumption DEF Init, TypeOK
<1>2. Ordered
  BY DEF Init, Ordered, OnlyTopicsRace
<1>3. Alone
  BY DEF Init, Alone, Busy
<1> QED
  BY <1>1, <1>2, <1>3 DEF DirInv

\* A write with h.mu free meets only the ranges of topic changes.
LEMMA WriteIs ==
  ASSUME TypeOK, Ordered, owner = NoClient, NEW readers,
         readers \subseteq RangingRooms \cup RangingClients, Write(readers), ~fatal
  PROVE  /\ fatal' \in BOOLEAN /\ topicRace' \in BOOLEAN
         /\ OnlyTopicsRace'
<1>1. readers \subseteq setting
  BY DirectoryAssumption DEF Ordered, RangingRooms, RangingClients
<1> QED
  BY <1>1 DEF Write, OnlyTopicsRace, TypeOK

\* A new connection has been shown nothing.
LEMMA RegisterKeeps ==
  ASSUME DirInv, ~fatal, NEW c \in Client, Register(c)
  PROVE  DirInv'
<1> USE DEF Register, relayVars, handlerVars, seenVars, history
<1>1. TypeOK'
  BY DEF DirInv, TypeOK
<1>2. Ordered'
  BY DEF DirInv, Ordered, OnlyTopicsRace
<1>3. Alone'
  BY DEF DirInv, Alone, Busy, Fits, Has, Ordered
<1> QED
  BY <1>1, <1>2, <1>3 DEF DirInv

\* Run's record adds to h.clients a client that lists may have missed.
LEMMA RecordKeeps ==
  ASSUME DirInv, ~fatal, Record
  PROVE  DirInv'
<1> USE DEF Record, relayVars, handlerVars, seenVars, history
<1>0. fatal' \in BOOLEAN /\ topicRace' \in BOOLEAN /\ OnlyTopicsRace'
  BY WriteIs DEF DirInv
<1>1. TypeOK'
  BY <1>0 DEF DirInv, TypeOK
<1>2. Ordered'
  BY <1>0 DEF DirInv, Ordered
<1>3. Alone'
  BY DEF DirInv, Alone, Busy, Fits, Has, Ordered
<1> QED
  BY <1>1, <1>2, <1>3 DEF DirInv

\* A disconnection makes counts stale, which silent says.
LEMMA DisconnectKeeps ==
  ASSUME DirInv, ~fatal, NEW c \in Client, HandleDisconnect(c)
  PROVE  DirInv'
<1> USE DEF HandleDisconnect, Idle, handlerVars
<1>0. fatal' \in BOOLEAN /\ topicRace' \in BOOLEAN /\ OnlyTopicsRace'
  BY WriteIs DEF DirInv
<1>1. TypeOK'
  BY <1>0 DEF DirInv, TypeOK
<1>2. Ordered'
  BY <1>0 DEF DirInv, Ordered, TypeOK
<1>3. Alone'
  BY DEF DirInv, Alone, Busy, Fits, Has, Ordered, TypeOK
<1> QED
  BY <1>1, <1>2, <1>3 DEF DirInv

\* The range's next entry is true when it is made.
LEMMA LookKeeps ==
  ASSUME DirInv, NEW c \in Client, Look(c)
  PROVE  DirInv'
<1> USE DEF Look, relayVars, linkVars, seenVars, history
<1>1. PICK r \in rooms \ DOMAIN list[c] :
      /\ list' = [list EXCEPT ![c] = With(list[c], r, [topic |-> topic[r],
                                                   count |-> Cardinality(members[r])])]
      /\ due' = [due EXCEPT ![c] = @ \ {r}]
  OBVIOUS
<1>2. PICK entry : entry = [topic |-> topic[r], count |-> Cardinality(members[r])]
  OBVIOUS
<1>3. PICK longer : longer = With(list[c], r, entry)
  OBVIOUS
<1>4. r \in Room /\ list[c] \in List /\ rooms \subseteq Room
  BY DEF DirInv, TypeOK
<1>5. longer \in List
  BY <1>2, <1>3, <1>4, Counts, WithType DEF DirInv
<1>6. /\ DOMAIN longer = DOMAIN list[c] \cup {r}
      /\ longer[r] = entry
      /\ \A x \in DOMAIN list[c] \ {r} : longer[x] = list[c][x]
  BY <1>3 DEF With
<1>7. list' = [list EXCEPT ![c] = longer]
  BY <1>1, <1>2, <1>3
<1>8. \A d \in Client : list'[d] = IF d = c THEN longer ELSE list[d]
  BY <1>7 DEF DirInv, TypeOK
<1>9. TypeOK'
  <2>1. list' \in [Client -> List]
    BY <1>5, <1>7 DEF DirInv, TypeOK
  <2>2. \A d \in Client : DOMAIN list'[d] \subseteq rooms
    BY <1>6, <1>8 DEF DirInv, TypeOK
  <2> QED
    BY <2>1, <2>2, <1>1 DEF DirInv, TypeOK
<1>10. Ordered'
  BY <1>8, <1>1 DEF DirInv, Ordered, OnlyTopicsRace, TypeOK
<1>11. Alone'
  <2> SUFFICES ASSUME ~mixed PROVE Alone'
    BY DEF Alone
  <2>1. pc[c] = "list" => Fits(list[c])
    BY DEF DirInv, Alone
  <2>2. pc[c] = "list" => Fits(longer)
    BY <2>1, <1>2, <1>6 DEF Fits
  <2>3. \A d \in Client : d # c => pc[d] = "idle"
    BY DEF DirInv, Alone, Busy
  <2>4. pc[c] = "list" => rooms \subseteq DOMAIN longer \cup due'[c]
    BY <1>1, <1>6 DEF DirInv, Alone, TypeOK
  <2>5. Fits(longer)' <=> Fits(longer)
    BY DEF Fits
  <2>6. list'[c] = longer
    BY <1>8
  <2>7. Busy' = {c}
    BY <2>3 DEF Busy
  <2>8. \A d \in Client : pc'[d] \in {"list", "push"} => d = c /\ pc[c] = "list"
    BY <2>3 DEF DirInv, TypeOK
  <2>9. ASSUME NEW d \in Client, pc'[d] = "list"
        PROVE  Fits(list[d])' /\ rooms' \subseteq DOMAIN list'[d] \cup due'[d]
    BY <2>9, <2>2, <2>4, <2>6, <2>8 DEF Fits
  <2>10. ASSUME NEW d \in Client PROVE pc'[d] # "push"
    BY <2>8
  <2> QED
    BY <2>7, <2>9, <2>10 DEF Alone, Fits
<1> QED
  BY <1>9, <1>10, <1>11 DEF DirInv

\* Once every room is on the list, everybody is to be told or is marked.
LEMMA StartPushKeeps ==
  ASSUME DirInv, NEW c \in Client, StartPush(c)
  PROVE  DirInv'
<1> USE DEF StartPush, relayVars, linkVars, history
<1>0. missed' \in [Client -> BOOLEAN]
  BY DEF DirInv, TypeOK
<1>1. TypeOK'
  <2>1. due' \in [Client -> SUBSET (Room \cup Client)]
    BY DEF DirInv, TypeOK
  <2>2. pc' \in [Client -> {"idle", "topic", "hello", "list", "push"}]
    BY DEF DirInv, TypeOK
  <2> QED
    BY <1>0, <2>1, <2>2 DEF DirInv, TypeOK
<1>2. Ordered'
  BY DEF DirInv, Ordered, OnlyTopicsRace, TypeOK
<1>3. Alone'
  <2> SUFFICES ASSUME ~mixed PROVE Alone'
    BY DEF Alone
  <2>1. \A d \in Client : d # c => pc[d] = "idle"
    BY DEF DirInv, Alone, Busy
  <2>2. Fits(list[c]) /\ DOMAIN list[c] = rooms
    BY DEF DirInv, Alone, TypeOK
  <2>3. Busy' = {c}
    BY <2>1 DEF Busy, DirInv, TypeOK
  <2>4. \A d \in Client : pc'[d] # "list" /\ (pc'[d] = "push" => d = c)
    BY <2>1 DEF DirInv, TypeOK
  <2>5. \A d \in connected \ due'[c] : missed'[d]
    BY DEF DirInv, TypeOK
  <2> QED
    BY <2>2, <2>3, <2>4, <2>5 DEF Alone, Fits, Has
<1> QED
  BY <1>1, <1>2, <1>3 DEF DirInv

\* A client that is sent the list has it or has missed it.
LEMMA PushKeeps ==
  ASSUME DirInv, NEW c \in Client, Push(c)
  PROVE  DirInv'
<1> USE DEF Push, relayVars, linkVars, history, Sent
<1>0. \A d \in Client : list[d] \in List
  BY DEF DirInv, TypeOK
<1>1. TypeOK'
  <2>1. shown' \in [Client -> List \cup {NoList}] /\ missed' \in [Client -> BOOLEAN]
    BY <1>0 DEF DirInv, TypeOK
  <2>2. told' \in [Client -> SUBSET Client]
    BY DEF DirInv, TypeOK
  <2>3. due' \in [Client -> SUBSET (Room \cup Client)]
    BY DEF DirInv, TypeOK
  <2> QED
    BY <2>1, <2>2, <2>3 DEF DirInv, TypeOK
<1>2. Ordered'
  BY DEF DirInv, Ordered, OnlyTopicsRace, TypeOK
<1>3. Alone'
  BY DEF DirInv, Alone, Busy, Fits, Has, TypeOK
<1> QED
  BY <1>1, <1>2, <1>3 DEF DirInv

\* When nobody is left to be told, all have been.
LEMMA EndPushKeeps ==
  ASSUME DirInv, NEW c \in Client, EndPush(c)
  PROVE  DirInv'
<1> USE DEF EndPush, relayVars, linkVars, seenVars, history
<1>1. TypeOK'
  BY NoEntries DEF DirInv, TypeOK
<1>2. Ordered'
  BY DEF DirInv, Ordered, OnlyTopicsRace, TypeOK
<1>3. Alone'
  BY DEF DirInv, Alone, Busy, Fits, Has, TypeOK, Ordered
<1> QED
  BY <1>1, <1>2, <1>3 DEF DirInv

-----------------------------------------------------------------------------
(* Handlers. *)

\* The move into a room, after which c makes the list with h.mu: what the handlers that
\* call joinRoomInternal have in common.
LEMMA EnterIs ==
  ASSUME DirInv, ~fatal, NEW c \in connected, NEW r \in Room, Enter(c, r),
         owner = NoClient \/ r \in rooms
  PROVE  /\ rooms' = rooms \cup {r} /\ owner' = c /\ silent' = FALSE
         /\ members' \in [Room -> SUBSET connected]
         /\ current' \in [Client -> rooms' \cup {NoRoom}]
         /\ pc' = [pc EXCEPT ![c] = "list"]
         /\ list' = [list EXCEPT ![c] = <<>>] /\ list' \in [Client -> List]
         /\ due' = [due EXCEPT ![c] = rooms'] /\ due' \in [Client -> SUBSET (Room \cup Client)]
         /\ UNCHANGED <<topic, setting, want, told>>
         /\ fatal' \in BOOLEAN /\ topicRace' \in BOOLEAN /\ OnlyTopicsRace'
<1> USE DEF Enter, Lists
<1>1. fatal' \in BOOLEAN /\ topicRace' \in BOOLEAN /\ OnlyTopicsRace'
  <2>1. CASE r \in rooms
    BY <2>1 DEF DirInv, Ordered, OnlyTopicsRace, TypeOK
  <2>2. CASE r \notin rooms
    BY <2>2, WriteIs DEF DirInv
  <2> QED
    BY <2>1, <2>2
<1>2. members' \in [Room -> SUBSET connected]
  BY DEF DirInv, TypeOK
<1>3. current' \in [Client -> rooms' \cup {NoRoom}]
  BY DEF DirInv, TypeOK
<1>4. list' \in [Client -> List]
  BY NoEntries DEF DirInv, TypeOK
<1>5. due' \in [Client -> SUBSET (Room \cup Client)]
  BY DEF DirInv, TypeOK
<1> QED
  BY <1>1, <1>2, <1>3, <1>4, <1>5

\* The empty list of a handler that is alone is as true as any.
LEMMA AloneAtList ==
  ASSUME TypeOK, NEW c \in Client, \A d \in Client : d # c => pc[d] = "idle",
         pc' = [pc EXCEPT ![c] = "list"], list' = [list EXCEPT ![c] = <<>>],
         due' = [due EXCEPT ![c] = rooms']
  PROVE  Alone'
<1>1. Busy' = {c}
  BY DEF Busy, TypeOK
<1>2. \A d \in Client : pc'[d] # "push" /\ (pc'[d] = "list" => d = c)
  BY DEF TypeOK
<1>3. list'[c] = <<>> /\ due'[c] = rooms'
  BY DEF TypeOK
<1>4. Fits(list[c])'
  BY <1>3, NoEntries DEF Fits
<1> QED
  BY <1>1, <1>2, <1>3, <1>4 DEF Alone, Fits

\* A join, admitted or denied.
LEMMA JoinKeeps ==
  ASSUME DirInv, ~fatal, NEW c \in Client, JoinRoom(c)
  PROVE  DirInv'
<1> USE DEF JoinRoom, Idle, linkVars, seenVars
<1>1. ASSUME NEW r \in Room, Enter(c, r), Begins PROVE DirInv'
  <2> USE <1>1
  <2>1. c \in connected /\ owner = NoClient /\ mixed' \in BOOLEAN /\ (~mixed' => Busy = {})
    BY DEF Begins
  <2>2. /\ rooms' = rooms \cup {r} /\ owner' = c /\ silent' = FALSE
        /\ members' \in [Room -> SUBSET connected]
        /\ current' \in [Client -> rooms' \cup {NoRoom}]
        /\ pc' = [pc EXCEPT ![c] = "list"]
        /\ list' = [list EXCEPT ![c] = <<>>] /\ list' \in [Client -> List]
        /\ due' = [due EXCEPT ![c] = rooms'] /\ due' \in [Client -> SUBSET (Room \cup Client)]
        /\ UNCHANGED <<topic, setting, want, told>>
        /\ fatal' \in BOOLEAN /\ topicRace' \in BOOLEAN /\ OnlyTopicsRace'
    BY <2>1, EnterIs
  <2>3. \A d \in Client : DOMAIN list'[d] \subseteq rooms'
    BY <2>2, NoEntries DEF DirInv, TypeOK
  <2>4. TypeOK'
    <3>1. pc' \in [Client -> {"idle", "topic", "hello", "list", "push"}] /\ pc'[c] = "list"
      BY <2>2 DEF DirInv, TypeOK
    <3> QED
      BY <2>1, <2>2, <2>3, <3>1 DEF DirInv, TypeOK
  <2>5. Ordered'
    <3>1. \A d \in Client : pc'[d] = IF d = c THEN "list" ELSE pc[d]
      BY <2>2 DEF DirInv, TypeOK
    <3>2. \A d \in Client \ {c} : list'[d] = list[d] /\ due'[d] = due[d]
      BY <2>2 DEF DirInv, TypeOK
    <3>3. \A d \in Client : owner # d
      BY <2>1, DirectoryAssumption
    <3> QED
      BY <2>1, <2>2, <3>1, <3>2, <3>3 DEF DirInv, Ordered
  <2>6. Alone'
    BY <2>1, <2>2, AloneAtList DEF Alone, Busy, DirInv
  <2> QED
    BY <2>4, <2>5, <2>6 DEF DirInv
<1>2. ASSUME NEW r \in Private \cap rooms, Deny(c) PROVE DirInv'
  <2> USE <1>2 DEF Deny, handlerVars
  <2>1. TypeOK'
    BY DEF DirInv, TypeOK
  <2>2. Ordered'
    BY DEF DirInv, Ordered, OnlyTopicsRace
  <2>3. Alone'
    BY DEF DirInv, Alone, Busy, Fits, Has
  <2> QED
    BY <2>1, <2>2, <2>3 DEF DirInv
<1> QED
  BY <1>1, <1>2

\* A login's handler has taken h.mu and knows its rooms.
LEMMA AuthKeeps ==
  ASSUME DirInv, ~fatal, NEW c \in Client, Auth(c)
  PROVE  DirInv'
<1> USE DEF Auth, Idle, Begins, linkVars, relayVars, seenVars
<1>1. due' \in [Client -> SUBSET (Room \cup Client)]
  BY DEF DirInv, TypeOK
<1>2. TypeOK'
  BY <1>1 DEF DirInv, TypeOK
<1>3. \A d \in Client : owner # d
  BY DirectoryAssumption
<1>4. Ordered'
  BY <1>3 DEF DirInv, Ordered, OnlyTopicsRace, TypeOK
<1>5. Alone'
  <2> SUFFICES ASSUME Busy = {} PROVE Alone'
    BY DEF Alone
  <2>1. \A d \in Client : pc'[d] = IF d = c THEN "hello" ELSE "idle"
    BY DEF Busy, DirInv, TypeOK
  <2>2. Busy' = {c}
    BY <2>1 DEF Busy
  <2> QED
    BY <2>1, <2>2 DEF Alone
<1> QED
  BY <1>2, <1>4, <1>5 DEF DirInv

\* The login goes on to the general room, which is there already: nothing is written.
LEMMA WelcomeKeeps ==
  ASSUME DirInv, ~fatal, NEW c \in Client, Welcome(c)
  PROVE  DirInv'
<1> USE DEF Welcome, linkVars
<1>1. c \in connected /\ General \in Room /\ General \in rooms /\ owner = c
  BY DirectoryAssumption DEF DirInv, Ordered, TypeOK
<1>2. /\ rooms' = rooms \cup {General} /\ owner' = c /\ silent' = FALSE
      /\ members' \in [Room -> SUBSET connected]
      /\ current' \in [Client -> rooms' \cup {NoRoom}]
      /\ pc' = [pc EXCEPT ![c] = "list"]
      /\ list' = [list EXCEPT ![c] = <<>>] /\ list' \in [Client -> List]
      /\ due' = [due EXCEPT ![c] = rooms'] /\ due' \in [Client -> SUBSET (Room \cup Client)]
      /\ UNCHANGED <<topic, setting, want, told>>
      /\ fatal' \in BOOLEAN /\ topicRace' \in BOOLEAN /\ OnlyTopicsRace'
  BY <1>1, EnterIs
<1>3. \A d \in Client : pc'[d] = IF d = c THEN "list" ELSE pc[d]
  BY <1>2 DEF DirInv, TypeOK
<1>4. shown' \in [Client -> List \cup {NoList}] /\ missed' \in [Client -> BOOLEAN]
  BY DEF Sent, DirInv, TypeOK
<1>5. TypeOK'
  <2>1. pc' \in [Client -> {"idle", "topic", "hello", "list", "push"}] /\ pc'[c] = "list"
    BY <1>2 DEF DirInv, TypeOK
  <2>2. \A d \in Client : DOMAIN list'[d] \subseteq rooms'
    BY <1>2, NoEntries DEF DirInv, TypeOK
  <2> QED
    BY <1>1, <1>2, <1>4, <2>1, <2>2 DEF DirInv, TypeOK
<1>6. Ordered'
  <2>1. \A d \in Client \ {c} : list'[d] = list[d] /\ due'[d] = due[d] /\ shown'[d] = shown[d]
    BY <1>2 DEF DirInv, TypeOK, Sent
  <2> QED
    BY <1>1, <1>2, <1>3, <2>1 DEF DirInv, Ordered
<1>7. Alone'
  <2>1. ~mixed => \A d \in Client : d # c => pc[d] = "idle"
    BY DEF DirInv, Alone, Busy
  <2> QED
    BY <2>1, <1>2, AloneAtList DEF Alone, DirInv
<1> QED
  BY <1>5, <1>6, <1>7 DEF DirInv

\* handleSetTopic has found its room and let h.mu go.
LEMMA SetTopicKeeps ==
  ASSUME DirInv, NEW c \in Client, SetTopic(c)
  PROVE  DirInv'
<1> USE DEF SetTopic, Idle, Begins, linkVars, relayVars, seenVars
<1>1. TypeOK' /\ want'[c] \in Topic
  BY DEF DirInv, TypeOK
<1>2. Ordered'
  BY <1>1 DEF DirInv, Ordered, OnlyTopicsRace, TypeOK
<1>3. Alone'
  <2> SUFFICES ASSUME Busy = {} PROVE Alone'
    BY DEF Alone
  <2>1. \A d \in Client : pc'[d] = IF d = c THEN "topic" ELSE "idle"
    BY DEF Busy, DirInv, TypeOK
  <2>2. Busy' = {c}
    BY <2>1 DEF Busy
  <2> QED
    BY <2>1, <2>2 DEF Alone
<1> QED
  BY <1>1, <1>2, <1>3 DEF DirInv

\* The topic is set and the list begun.
LEMMA ApplyTopicKeeps ==
  ASSUME DirInv, NEW c \in Client, ApplyTopic(c)
  PROVE  DirInv'
<1> USE DEF ApplyTopic, Lists, linkVars, seenVars
<1>1. \A d \in Client : pc'[d] = IF d = c THEN "list" ELSE pc[d]
  BY DEF DirInv, TypeOK
<1>2. c \in setting /\ want[c] \in Topic /\ owner # c
  BY DirectoryAssumption DEF DirInv, Ordered, TypeOK
<1>3. TypeOK'
  <2>1. topic' \in [Room -> Topic] /\ want' \in [Client -> Topic \cup {NoRoom}]
    BY <1>2 DEF DirInv, TypeOK
  <2>2. list' \in [Client -> List] /\ \A d \in Client : DOMAIN list'[d] \subseteq rooms'
    BY NoEntries DEF DirInv, TypeOK
  <2>3. due' \in [Client -> SUBSET (Room \cup Client)]
    BY DEF DirInv, TypeOK
  <2>4. pc' \in [Client -> {"idle", "topic", "hello", "list", "push"}]
    BY DEF DirInv, TypeOK
  <2> QED
    BY <1>1, <2>1, <2>2, <2>3, <2>4 DEF DirInv, TypeOK
<1>4. Ordered'
  <2>1. \A d \in Client \ {c} : list'[d] = list[d] /\ due'[d] = due[d] /\ want'[d] = want[d]
    BY DEF DirInv, TypeOK
  <2> QED
    BY <1>1, <1>2, <2>1 DEF DirInv, Ordered, OnlyTopicsRace
<1>5. Alone'
  <2>1. ~mixed => \A d \in Client : d # c => pc[d] = "idle"
    BY DEF DirInv, Alone, Busy
  <2>2. due' = [due EXCEPT ![c] = rooms']
    OBVIOUS
  <2> QED
    BY <2>1, <2>2, AloneAtList DEF Alone, DirInv
<1> QED
  BY <1>3, <1>4, <1>5 DEF DirInv

-----------------------------------------------------------------------------
(* Theorems. *)

\* No step of the relay breaks the invariant.
LEMMA StepKeeps == DirInv /\ [Next]_vars => DirInv'
<1> SUFFICES ASSUME DirInv, [Next]_vars PROVE DirInv'
  OBVIOUS
<1>1. CASE UNCHANGED vars
  BY <1>1 DEF vars, relayVars, linkVars, handlerVars, seenVars, history, DirInv, TypeOK,
              Ordered, OnlyTopicsRace, Alone, Busy, Fits, Has
<1>2. CASE Next
  <2>1. ~fatal
    BY <1>2 DEF Next
  <2>2. CASE Record
    BY <2>1, <2>2, RecordKeeps
  <2>3. ASSUME NEW c \in Client,
               Register(c) \/ HandleDisconnect(c) \/ JoinRoom(c) \/ Auth(c) \/ Welcome(c)
        PROVE  DirInv'
    BY <2>1, <2>3, RegisterKeeps, DisconnectKeeps, JoinKeeps, AuthKeeps, WelcomeKeeps
  <2>4. ASSUME NEW c \in Client,
               Look(c) \/ StartPush(c) \/ Push(c) \/ EndPush(c) \/ SetTopic(c) \/ ApplyTopic(c)
        PROVE  DirInv'
    BY <2>4, LookKeeps, StartPushKeeps, PushKeeps, EndPushKeeps, SetTopicKeeps,
       ApplyTopicKeeps
  <2> QED
    BY <1>2, <2>2, <2>3, <2>4 DEF Next
<1> QED
  BY <1>1, <1>2

\* The invariant holds throughout.
THEOREM Invariance == Spec => []DirInv
<1> QED
  BY Established, StepKeeps, PTL DEF Spec

\* The relay's maps, handlers and lists keep their types.
THEOREM TypeCorrect == Spec => []TypeOK
<1>1. DirInv => TypeOK
  BY DEF DirInv
<1> QED
  BY <1>1, Invariance, PTL

\* Whoever ranges over a map while another handler writes it is in handleSetTopic: a login
\* or a join owns h.mu from its first step to its last.
THEOREM OnlyTopics == Spec => []OnlyTopicsRace
<1>1. DirInv => OnlyTopicsRace
  BY DEF DirInv, Ordered
<1> QED
  BY <1>1, Invariance, PTL

\* The list a client was last shown is what the idle relay has, unless one was dropped
\* for it or the last handlers overlapped.
THEOREM Current == Spec => []ListCurrent
<1>1. DirInv => ListCurrent
  BY DEF DirInv, Alone, ListCurrent, Fits, TypeOK
<1> QED
  BY <1>1, Invariance, PTL
=============================================================================
